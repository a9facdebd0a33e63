SPECIFICATION FairSpec
CONSTANTS
    n1 = n1
    n2 = n2
    label = label
    a = a
    b = b
    d = d
    r = r
    s = s
    p1 = p1
    p2 = p2
    p3 = p3
    NoName = NoName
    Namespaces = {n1, n2}
    Labels = {label}
    Names = {a, b, d, r, s, p1, p2, p3}
    PDBObjects <- SomePDBs
    PodObjects <- SomePods
    ReplicaSetObjects <- SomeReplicaSets
    WorkloadObjects <- SomeWorkloads
    MaxChanges = 1
INVARIANTS
    AuditInv
    NoPartialReport
    OverlapsAreMutual
PROPERTIES
    EveryAuditEnds
