SPECIFICATION DownloadFairSpec
CONSTANTS
    NumBlocks = 3
    MaxSendAttempts = 2
    OverflowAttempts = 1
    DefaultWindowSize = 2
    MinWindowSize = 2
    MaxWindowSize = 3
    BalancePeriod = 25
    ToAddr = TRUE
    SocketMayFail = TRUE
    MaxAcks = 0
    MaxDup = 1
    MaxLosses = 1
    Timely = FALSE
    Requests = {TRUE, FALSE}
    Networks = {TRUE, FALSE}
INVARIANTS
    DownloadTypeOK
    CompletionIsNeverContinue
PROPERTIES
    ImplementsTransfer
    BothReturn
    LossRepaired
CHECK_DEADLOCK FALSE
