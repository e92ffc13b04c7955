\* Two clients, slots to spare, requests of up to two parts.
CONSTANTS
    r1 = r1
    r2 = r2
    Reqs = {r1, r2}
    NoReq = NoReq
    Size = 4
    MaxParts = 2
    MaxOutstanding = 2
SPECIFICATION FairSpec
PROPERTIES
    WaitsForData
