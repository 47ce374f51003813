SPECIFICATION WSpec
CONSTANTS
    MAX_MAC_TX_RETRY_CNT = 4
    NumNodes = 2
    Stacks <- TwoStacks
    Dsts <- ToOne
    Promisc <- None
    MacHeaderAdd = TRUE
    MaxRetry = 0
    QLen = 1
    MaxPkts <- Pkts10
    Sizes <- Fit
    Threaded = TRUE
    Clients = {c1, c2, c3}
    Cmds <- RunCmds
    MacMaxRetrySet = TRUE
    PollMax = 1
INVARIANT
    NoWaitCycle
PROPERTIES
    ImplementsOam
    ImplementsService
SYMMETRY ClientSymmetry
CHECK_DEADLOCK FALSE
