SPECIFICATION Spec
CONSTANTS
    Requests = {r1, r2}
SYMMETRY RequestSymmetry
CHECK_DEADLOCK FALSE
INVARIANTS
    GracefulShutdown
