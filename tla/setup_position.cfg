SPECIFICATION Spec
CONSTANTS
    N = 2
    Positions <- Here
    Powers <- LowHigh
    Settings <- PlcSettings
CHECK_DEADLOCK FALSE
INVARIANT
    PositionsAsConfigured
