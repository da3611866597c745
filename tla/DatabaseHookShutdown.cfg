SPECIFICATION Spec
CONSTANTS
    Requests = {r1, r2}
    Ids = {r1, r2}
    ReqID <- DistinctIDs
    MaxTokens = 0
    ConvCap = 1
    MsgCap = 1
    UpdCap = 1
    BatchSize = 2
    DbFails = TRUE
    Thinkers = {}
    ToolCallers = {}
SYMMETRY Symmetry
INVARIANTS
    LeftBehindIsLate
    HandlerNeverWaits
PROPERTIES
    ImplementsConversationLog
CHECK_DEADLOCK FALSE
