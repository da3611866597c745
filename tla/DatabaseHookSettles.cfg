SPECIFICATION FairSpec
CONSTANTS
    Requests = {r1}
    Ids = {r1}
    ReqID <- DistinctIDs
    MaxTokens = 2
    ConvCap = 1
    MsgCap = 1
    UpdCap = 1
    BatchSize = 2
    DbFails = TRUE
    Thinkers = {r1}
    ToolCallers = {r1}
INVARIANTS
    MessageFaithful
PROPERTIES
    CloseTerminates
    RecordsSettle
CHECK_DEADLOCK FALSE
