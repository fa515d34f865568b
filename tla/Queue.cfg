SPECIFICATION FairSpec
CONSTANTS
    Threads = {t1, t2, t3, t4}
    Requests = {r1, r2}
    Nodes = {n1, n2}
    NULL = NULL
    MaxCalls = 5
INVARIANTS QueueInv ListShape MemorySafe NoLostWakeup
PROPERTIES ImplementsFifo ClosedNeverGrows CallsReturnAfterClose SleeperMeetsRequest
CHECK_DEADLOCK FALSE
