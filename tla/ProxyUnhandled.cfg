SPECIFICATION Spec
CONSTANTS
    Clients = {c1, c2}
    MaxSignals = 0
    MaxFailures = 0
PROPERTY QueuedClientIsTaken
CHECK_DEADLOCK FALSE
