SPECIFICATION Spec
CONSTANTS
    Requests = {r1}
    Models = {m1}
INVARIANTS
    StrippedOnlyIfUnsupported
CHECK_DEADLOCK FALSE
