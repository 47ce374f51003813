SPECIFICATION Spec
CONSTANTS
    MAX_MAC_TX_RETRY_CNT = 4
    NumNodes = 2
    Stacks <- TwoStacks
    Dsts <- Mixed4
    Promisc <- NoPromisc
    MacHeaderAdd = TRUE
    MaxRetry = 1
    QLen = 1
    MaxPkts <- Pkts21
    Sizes <- FitOrNot
    Threaded = TRUE
INVARIANTS
    TypeOK
    ReportsFifo
    AckedIsPassedOn
    StatsBalance
PROPERTY
    ImplementsService
