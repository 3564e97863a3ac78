SPECIFICATION UploadDeliverySpec
CONSTANTS
    NumBlocks = 4
    MaxSendAttempts = 3
    OverflowAttempts = 1
    DefaultWindowSize = 3
    MinWindowSize = 2
    MaxWindowSize = 3
    BalancePeriod = 2
    ToAddr = FALSE
    SocketMayFail = FALSE
    MaxAcks = 0
    Worker = {w1}
    State = {s1, s2}
    None = None
    Resource = {TRUE}
    HandlerOutcomes = {"response"}
    StateMayExpire = FALSE
    ProcessedMayExpire = FALSE
    MaxDup = 1
    MaxLosses = 3
    LossyCodes = {"Continue"}
    Timely = TRUE
INVARIANTS
    ArqTypeOK
    ShiftIsFirstUnacked
    OverflowCountsStragglers
    InFlightBounded
    HeadInWindow
    AckedBlocksKept
    HandledAtMostOnce
PROPERTIES
    LossRepaired
    GivesUpOnUnackedBlock
CHECK_DEADLOCK FALSE
