SPECIFICATION FairSpec
CONSTANTS
    Gens = {g1, g2}
    NumNodes = 4
    NoExec <- LastForOne
    Missing <- Third
    QLen = 2
CHECK_DEADLOCK FALSE
INVARIANTS
    TypeOK
    OneInvocation
    ChildrenFollow
PROPERTIES
    EverythingStops
    RequestsServed
