SPECIFICATION MCSpec
CONSTANTS
    Strings <- MCStrings
    Ints <- MCInts
    Paths <- MCPaths
    Tokens <- MCTokens
    Payloads <- MCPayloads
    Codes <- MCCodes
    Registered <- MCRegistered
    MaxCalls = 3
    Sizes <- MCSizes
    BufferSize = 269
    Pipelined = FALSE
INVARIANTS
    ReceivedAsBuilt
    RefusedWithReason
    RoutedAsRegistered
    FramesInOrder
    HandlerSeesWhatWasSent
CHECK_DEADLOCK FALSE
