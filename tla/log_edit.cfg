SPECIFICATION Spec
CONSTANTS
    RegisterIds = {SpeedRef, SpeedMeas}
    Junk = Junk
    NoField = NoField
    MaxLine = 3
    StrayTurns = 1
INVARIANTS TypeOK RestartSafe RowMatchesHeader AbortCauses
PROPERTIES HeaderBetweenRows StopReturns GetReturns ImplementsSession
CHECK_DEADLOCK FALSE
