SPECIFICATION SessionDeliverySpec
CONSTANTS
    Worker = {w1, w2}
    MaxAttempts = 2
    StaticServer = FALSE
    MaxForgets = 1
    MaxDup = 1
    MaxLosses = 2
    Timely = TRUE
    LossyKinds = {"peerHello", "unauthorized"}
    None = None
INVARIANTS
    RetryUsesNewSession
    SessionsAgree
PROPERTIES
    SessionRepaired
    SendReturns
CHECK_DEADLOCK FALSE
