SPECIFICATION Spec
CONSTANTS
    num_threads = 2
    num_requests = 3
    MaxSpurious = 1
    NULL = NULL
INVARIANTS SharedInv LogTimesOwn
PROPERTIES AllRequestsRun
CHECK_DEADLOCK FALSE
