SPECIFICATION Spec
CONSTANTS
    Requests = {r1, r2}
    Models = {m1, m2}
INVARIANTS
    TypeOK
    UnsupportedToolsAreStripped
    SupportedToolsAreKept
    CacheIsGrounded
CHECK_DEADLOCK FALSE
