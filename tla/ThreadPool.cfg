SPECIFICATION Spec
CONSTANTS
    num_threads = 2
    NUM_TASKS = 3
    NULL = NULL
INVARIANTS PoolInv TasksRunOnce
PROPERTIES Terminates UsesFifo
