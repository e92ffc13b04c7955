\* One client, one request at a time, requests of up to two parts.
CONSTANTS
    r1 = r1
    r2 = r2
    Reqs = {r1, r2}
    NoReq = NoReq
    Size = 2
    MaxParts = 2
    MaxOutstanding = 1
SPECIFICATION Spec
SYMMETRY Symmetry
INVARIANTS
    PartIsFound
