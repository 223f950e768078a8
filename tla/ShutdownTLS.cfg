SPECIFICATION Spec
CONSTANTS
    Conns = {c1, c2, c3}
    TLS = TRUE
INVARIANTS GracefulExit
CHECK_DEADLOCK FALSE
