SPECIFICATION Spec
CONSTANTS
    Threads = {cli, logger}
    MaxRequests = 2
    PayloadLens = {0, 1}
    StrayLens = {0, 2}
    Slow = TRUE
    Faulty = TRUE
    None = None
INVARIANTS TypeOK MutualExclusion NoDuplicateReply
PROPERTIES LockReleased
CHECK_DEADLOCK FALSE
