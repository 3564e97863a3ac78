SPECIFICATION UploadDeliverySpec
CONSTANTS
    NumBlocks = 2
    MaxSendAttempts = 2
    OverflowAttempts = 1
    DefaultWindowSize = 2
    MinWindowSize = 2
    MaxWindowSize = 3
    BalancePeriod = 25
    ToAddr = FALSE
    SocketMayFail = FALSE
    MaxAcks = 0
    Worker = {w1, w2}
    State = {s1, s2}
    None = None
    Resource = {TRUE}
    HandlerOutcomes = {"response"}
    StateMayExpire = FALSE
    ProcessedMayExpire = FALSE
    MaxDup = 0
    MaxLosses = 0
    LossyCodes = {}
    Timely = TRUE
PROPERTIES
    ClientReturns
CHECK_DEADLOCK FALSE
