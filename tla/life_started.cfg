SPECIFICATION Spec
CONSTANTS
    Gens = {g1}
    NumNodes = 1
    NoExec <- Everybody
    Missing <- Nobody
    QLen = 1
CHECK_DEADLOCK FALSE
INVARIANT
    AllNodesStarted
