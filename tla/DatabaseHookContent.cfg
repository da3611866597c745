SPECIFICATION Spec
CONSTANTS
    Requests = {r1, r2}
    Ids = {r1, r2}
    ReqID <- DistinctIDs
    MaxTokens = 1
    ConvCap = 1
    MsgCap = 1
    UpdCap = 1
    BatchSize = 2
    DbFails = FALSE
    Thinkers = {r1}
    ToolCallers = {r2}
CONSTRAINT BeforeShutdown
INVARIANTS
    TypeOK
    HandlerInv
    MessageFaithful
    OneMessagePerConversation
    PipelineInv
    RowsAgree
    OnlyAbandonedLeak
CHECK_DEADLOCK FALSE
