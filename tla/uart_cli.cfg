SPECIFICATION Spec
CONSTANTS
    Users = {u1, u2}
    Ptys = {1, 2, 3}
    Free = Free
    Terminal = Terminal
INVARIANTS TypeOK SocatStopped OwnDevice
PROPERTIES ProcessesEnd
CHECK_DEADLOCK FALSE
