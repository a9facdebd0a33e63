SPECIFICATION FairSpec
CONSTANTS
    Callers = {c1, c2}
    Users = {alice}
    Groups = {devs, ops}
    NoCaller = NoCaller
    TTL = 1
    FetchTime = 1
    MaxTime = 4
INVARIANTS
    LockInv
    GroupsAreCurrent
PROPERTIES
    FetchAtMostOncePerTTL
    EveryCallerServed
