SPECIFICATION Spec
CONSTANTS
    Requests = {r1}
    Ids = {r1}
    ReqID <- DistinctIDs
    MaxTokens = 0
    ConvCap = 1
    MsgCap = 2
    UpdCap = 1
    BatchSize = 2
    DbFails = FALSE
    Thinkers = {}
    ToolCallers = {}
INVARIANTS
    MessagesArePersisted
CHECK_DEADLOCK FALSE
