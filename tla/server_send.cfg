SPECIFICATION MCSpec
CONSTANTS
    NumBlocks = 1
    Worker = {w1, w2}
    State = {s1, s2}
    None = None
    Resource = {FALSE}
    HandlerOutcomes = {"nothing"}
    StateMayExpire = FALSE
    ProcessedMayExpire = TRUE
    MaxDup = 1
    MaxLosses = 4
    Timely = TRUE
    Retries = 2
    Hellos = {TRUE, FALSE}
    PeerRepeats = FALSE
    PeerMayBeFast = FALSE
    SocketMayFail = TRUE
    ExtraRetries = 1
    MaxTroubles = 3
    NoSession = NoSession
INVARIANTS
    EndsInAgreement
PROPERTIES
    AnswerReturned
    SendReturns
    SecureSendReturns
    SecureSendRepaired
CHECK_DEADLOCK FALSE
