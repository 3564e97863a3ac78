SPECIFICATION ConfirmableFairSpec
CONSTANTS
    NumBlocks = 1
    MaxSendAttempts = 3
    SocketMayFail = TRUE
    Worker = {w1, w2}
    State = {s1, s2}
    None = None
    Resource = {TRUE, FALSE}
    HandlerOutcomes = {"response", "nothing", "panic"}
    StateMayExpire = TRUE
    ProcessedMayExpire = TRUE
    MaxDup = 1
    MaxLosses = 1
    LossyCodes = {"Response", "NotFound"}
    Timely = FALSE
INVARIANTS
    HandledOnceUnlessSplit
PROPERTIES
    ImplementsContract
    ClientReturns
CHECK_DEADLOCK FALSE
