SPECIFICATION Spec
CONSTANTS
    Instances = {m1, m2}
    Nobody = Nobody
    AnswerLens = {1}
    Signals = {SIGINT, SIGTERM}
    MaxRuns = 2
    SignalledRuns = 1
    MaxRequests = 2
    StrayLens = {2}
INVARIANTS TypeOK LockHeld ResponseIsOwn
PROPERTIES DeletedOnce
SYMMETRY Symmetry
CHECK_DEADLOCK FALSE
