SPECIFICATION Spec
CONSTANTS
    r1 = r1
    r2 = r2
    r3 = r3
    i1 = i1
    i2 = i2
    Requests = {r1, r2, r3}
    MaxTokens = 1
    Ids = {i1, i2}
    ReqID <- CollidingIDs
INVARIANTS
    TypeOK
    CountersAreExact
    EntryIsOwn
    OnlyAbandonedLeak
    ScrapeIsBracketed
CHECK_DEADLOCK FALSE
