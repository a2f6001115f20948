SPECIFICATION AnsweringSpec
CONSTANTS
    Threads = {cli, logger}
    MaxRequests = 2
    PayloadLens = {0}
    StrayLens = {}
    Slow = FALSE
    Faulty = FALSE
    None = None
INVARIANTS ReplyIsMine
CHECK_DEADLOCK FALSE
