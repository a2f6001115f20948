SPECIFICATION AnsweringSpec
CONSTANTS
    Threads = {cli, logger}
    MaxRequests = 3
    PayloadLens = {0, 2}
    StrayLens = {}
    Slow = FALSE
    Faulty = FALSE
    None = None
INVARIANTS FramesWhole IoReady SoleUserReplies
PROPERTIES ImplementsChannel
CHECK_DEADLOCK FALSE
