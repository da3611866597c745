SPECIFICATION FairSpec
CONSTANTS
    Requests = {r1, r2}
    MaxTokens = 1
    Timers = {t1, t2}
    Executor = executor
    NumDevices = 1
    Breathers = {1}
    Breathing <- DefaultBreathing
    Mappings <- WithAndWithoutCompletion
INVARIANTS
    TypeOK
    QueuedIsLive
PROPERTIES
    ReturnsToIdle
    HookCallsReturn
CHECK_DEADLOCK FALSE
