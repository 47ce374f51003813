SPECIFICATION Spec
CONSTANTS
    Clients = {c1, c2}
    Cmds <- FewCmds
    Nodes <- OneNode
    MacMaxRetrySet = TRUE
    PollMax = 2
    QLen = 2
CHECK_DEADLOCK FALSE
INVARIANT
    AnswerIsMine
