\* Requests of one and two parts, fewer clients than slots.
CONSTANTS
    r1 = r1
    r2 = r2
    r3 = r3
    r4 = r4
    Reqs = {r1, r2, r3, r4}
    NoReq = NoReq
    Size = 3
    MaxParts = 2
    MaxOutstanding = 2
SPECIFICATION FairSpec
INVARIANTS
    TokenSync
    ServedComplete
    ExitsOnlySearching
    SlotInUseIsStable
PROPERTIES
    ServesInOrder
    OnePartAnswered
