SPECIFICATION FairSpec
CONSTANTS
    v1beta2 = v1beta2
    v1beta1 = v1beta1
    Versions <- TwoVersions
    Objects = {o1, o2, o3}
    PageSize = 2
    MaxChanges = 3
INVARIANTS
    PageInv
    NeverCutShort
    FirstVersionServed
PROPERTIES
    EveryListEnds
