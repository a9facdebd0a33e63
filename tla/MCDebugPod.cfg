SPECIFICATION Spec
CONSTANTS
    Calls = {c1, c2}
    Names = {alice, bob, robot}
    People = {alice, bob}
    Jobs = {j1}
    AppPod = AppPod
SYMMETRY Symmetry
INVARIANTS
    DebugInv
PROPERTIES
    OnlyOwnPods
    ImplementsPodLease
