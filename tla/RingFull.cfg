\* More clients than slots: the ring fills up.
CONSTANTS
    r1 = r1
    r2 = r2
    r3 = r3
    r4 = r4
    Reqs = {r1, r2, r3, r4}
    NoReq = NoReq
    Size = 2
    MaxParts = 1
    MaxOutstanding = 3
SPECIFICATION FairSpec
INVARIANTS
    RingSync
PROPERTIES
    OnePartAnswered
