SPECIFICATION Spec
CONSTANTS
    Callers = {c1, c2}
    Keys = {k1, k2, k3}
    Multi = {k1}
    Lenient = {}
    Max = 2
    TTL = 1
    FlightTime = 1
    MaxTime = 2
SYMMETRY CallerSymmetry
INVARIANTS
    CacheInv
PROPERTIES
    EvictionOnlyWhenDue
    ImplementsBoundedRead
