SPECIFICATION IfSpec
CONSTANTS
    MAX_MAC_TX_RETRY_CNT = 4
    NumNodes = 2
    Stacks <- TwoAndStranger
    Dsts <- Header1
    Promisc <- Promisc1
    MacHeaderAdd = FALSE
    MaxRetry = 0
    QLen = 1
    MaxPkts <- Pkts201
    Sizes <- FitOrNot
    Threaded = FALSE
INVARIANTS
    StatsBalance
    EitherAckedIsPassedOn
PROPERTY
    EitherImplementsService
