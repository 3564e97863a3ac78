SPECIFICATION LifecycleFairSpec
CONSTANTS
    UseUDP = TRUE
    UseTCP = TRUE
    MaxRefreshes = 3
    BindMayFail = TRUE
    CloseCalled = TRUE
    NoSocket = NoSocket
INVARIANTS
    NeverDeaf
    NoSocketForgotten
PROPERTIES
    LoopsEnd
    RefreshRecreates
CHECK_DEADLOCK FALSE
