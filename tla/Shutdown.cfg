SPECIFICATION HFairSpec
CONSTANTS
    Conns = {c1, c2, c3}
    TLS = FALSE
INVARIANTS Balance GracefulExit OneServer
PROPERTIES ShutdownCompletes ExitDespiteSearch
CHECK_DEADLOCK FALSE
