SPECIFICATION Spec
CONSTANTS
    Requests = {r1, r2}
    MaxTokens = 0
    Timers = {t1, t2}
    Executor = executor
    NumDevices = 1
    Breathers = {1}
    Breathing <- DefaultBreathing
    Mappings <- WithAndWithoutCompletion
INVARIANTS
    PendingCanBeCancelled
CHECK_DEADLOCK FALSE
