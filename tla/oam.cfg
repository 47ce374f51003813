SPECIFICATION InOrderSpec
CONSTANTS
    Clients <- FiveClients
    Cmds <- RunCmds
    Nodes <- OneNode
    MacMaxRetrySet = TRUE
    PollMax = 2
    QLen = 1
CHECK_DEADLOCK FALSE
INVARIANTS
    TypeOK
    AnswerIsMineUnlessTimeout
    NoSharedAnswer
    BacklogBounded
    LockUpNeedsTimeouts
PROPERTY
    EveryCommandAnswered
