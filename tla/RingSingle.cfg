\* Requests of one part, fewer clients than slots.
CONSTANTS
    r1 = r1
    r2 = r2
    r3 = r3
    r4 = r4
    r5 = r5
    Reqs = {r1, r2, r3, r4, r5}
    NoReq = NoReq
    Size = 4
    MaxParts = 1
    MaxOutstanding = 3
SPECIFICATION FairSpec
INVARIANTS
    TypeOK
    SlotInUseIsStable
    OwnAnswer
PROPERTIES
    ServesAllInOrder
