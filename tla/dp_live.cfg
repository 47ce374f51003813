SPECIFICATION IfFairSpec
CONSTANTS
    MAX_MAC_TX_RETRY_CNT = 4
    NumNodes = 2
    Stacks <- TwoStacks
    Dsts <- UnicastHeader2
    Promisc <- NoPromisc
    MacHeaderAdd = TRUE
    MaxRetry = 1
    QLen = 1
    MaxPkts <- Pkts11
    Sizes <- Fit
    Threaded = TRUE
PROPERTIES
    EveryUnicastReported
    BlockedSendsEnd
