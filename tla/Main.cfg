SPECIFICATION FairSpec
CONSTANTS
    LogRequests = {l1, l2}
INVARIANTS
    TypeOK
    WholeConversations
    AnswerIsTrue
    ServesAllEnabled
    MigrateOnlyMigrates
    CleanExitClosesAll
PROPERTIES
    SignalEndsProcess
CHECK_DEADLOCK FALSE
