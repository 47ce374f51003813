SPECIFICATION Spec
CONSTANTS
    N = 3
    Positions <- Here
    Powers <- LowHigh
    Settings <- AllSettings
CHECK_DEADLOCK FALSE
INVARIANTS
    TypeOK
    AllOrNothing
    LinesJoinNodes
    NodesAsConfigured
