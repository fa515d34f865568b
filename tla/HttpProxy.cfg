SPECIFICATION Spec
CONSTANTS
    Requests <- MCRequests
    ResponseLength = 4
    BUFFER_SIZE = 2
    MaxAddresses = 2
    MaxInterrupts = 2
    NONE = NONE
INVARIANTS ResponseIntact RequestIntact HandlerInv
PROPERTIES HandlerEnds
CHECK_DEADLOCK FALSE
