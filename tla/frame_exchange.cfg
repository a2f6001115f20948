SPECIFICATION Spec
CONSTANTS
    Registers = {"Status", "Flags", "SpeedRef", "SpeedKp", "TorqueRef"}
    Int32s <- BoundaryInt32s
    ExecuteIds = {1, 8}
    Codes = {4, 10}
    Noise = {0, 1, 128, 254, 255}
    Heap = {0, 171}
INVARIANTS TypeOK SetThenGet ToolSetThenGet NoiseNotLogged LoggedIsValue
