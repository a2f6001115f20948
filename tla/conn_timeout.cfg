SPECIFICATION Spec
CONSTANTS
    Threads = {cli}
    MaxRequests = 2
    PayloadLens = {0, 2}
    StrayLens = {0, 3}
    Slow = TRUE
    Faulty = FALSE
    None = None
INVARIANTS OnlyFrames
CHECK_DEADLOCK FALSE
