SPECIFICATION Spec
CONSTANTS
    Clients = {c1, c2, c3}
    MaxSignals = 3
    MaxFailures = 2
INVARIANTS ServerInv NothingForgotten
PROPERTIES NoAcceptAfterShutdown ShutdownTerminates
CHECK_DEADLOCK FALSE
