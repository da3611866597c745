SPECIFICATION Spec
CONSTANTS
    LogRequests = {l1}
INVARIANTS
    ShutdownIsGraceful
CHECK_DEADLOCK FALSE
