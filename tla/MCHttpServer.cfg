SPECIFICATION FairSpec
CONSTANTS
    Requests = {r1, r2, r3}
CHECK_DEADLOCK FALSE
INVARIANTS
    CutInv
PROPERTIES
    SignalEnds
