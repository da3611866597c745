SPECIFICATION FairSpec
CONSTANTS
    Requests = {r1}
    MaxLines = 2
    NumHooks = 2
INVARIANTS
    TypeOK
    WrittenBeforeHooks
    TokenNumbering
    FailureIsReported
    CompleteOncePerDoneLine
PROPERTIES
    ImplementsLifecycle
    LineIsDispatched
CHECK_DEADLOCK FALSE
