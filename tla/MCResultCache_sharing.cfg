SPECIFICATION FairSpec
CONSTANTS
    Callers = {c1, c2}
    Keys = {k1}
    Multi = {k1}
    Lenient = {k1}
    Max = 1
    TTL = 1
    FlightTime = 1
    MaxTime = 4
INVARIANTS
    FetchOnlyWhenNeeded
    NoLostFlight
    BoundedStaleness
PROPERTIES
    EveryCallReturns
