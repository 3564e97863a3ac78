SPECIFICATION MCSpec
CONSTANTS
    NumBlocks = 1
    Worker = {w1, w2}
    State = {s1, s2}
    None = None
    Resource = {FALSE}
    HandlerOutcomes = {"nothing"}
    StateMayExpire = FALSE
    ProcessedMayExpire = FALSE
    MaxDup = 0
    MaxLosses = 0
    Timely = TRUE
    Retries = 2
    Hellos = {FALSE}
    PeerRepeats = TRUE
    PeerMayBeFast = TRUE
    SocketMayFail = FALSE
    ExtraRetries = 1
    MaxTroubles = 0
    NoSession = NoSession
PROPERTIES
    AnswerReturned
CHECK_DEADLOCK FALSE
