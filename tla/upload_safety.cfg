SPECIFICATION UploadSpec
CONSTANTS
    NumBlocks = 2
    MaxSendAttempts = 2
    OverflowAttempts = 1
    DefaultWindowSize = 2
    MinWindowSize = 2
    MaxWindowSize = 3
    BalancePeriod = 25
    ToAddr = FALSE
    SocketMayFail = TRUE
    MaxAcks = 0
    Worker = {w1, w2}
    State = {s1, s2, s3}
    None = None
    Resource = {TRUE, FALSE}
    HandlerOutcomes = {"response", "panic"}
    StateMayExpire = TRUE
    ProcessedMayExpire = TRUE
    MaxDup = 1
    MaxLosses = 0
    LossyCodes = {}
    Timely = FALSE
SYMMETRY Symmetry
INVARIANTS
    RerunsPaidFor
PROPERTIES
    ImplementsContract
CHECK_DEADLOCK FALSE
