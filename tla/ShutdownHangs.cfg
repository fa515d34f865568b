SPECIFICATION Spec
CONSTANTS
    Clients = {c1, c2}
    MaxSignals = 1
    MaxFailures = 0
PROPERTY ShutdownCompletes
CHECK_DEADLOCK FALSE
