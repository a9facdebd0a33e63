SPECIFICATION DataSpec
CONSTANTS
    n1 = n1
    rel = rel
    cache = cache
    sidecar = sidecar
    master = master
    replica1 = replica1
    replica2 = replica2
    bare = bare
    sentinel = sentinel
    leader = leader
    follower = follower
    cluster = cluster
    uid1 = uid1
    uid2 = uid2
    pdb = pdb
    NoName = NoName
    Namespaces = {n1}
    Labels = {pdb}
    Names = {cache, sidecar, master, replica1, replica2, bare, sentinel, leader,
             follower, cluster, uid1, uid2, pdb}
    Releases = {rel}
    CacheEngines <- Caches
    QuorumImages <- Quorum
    Length <- Lengths
    Kinds <- SomeKinds
    WorkloadLists <- Lists
    ResourceLists <- SomeResources
    BudgetSets <- SomeBudgets
CHECK_DEADLOCK FALSE
INVARIANTS
    CountInv
    StatefulSetsAreReported
    LeadersAreTheMembers
