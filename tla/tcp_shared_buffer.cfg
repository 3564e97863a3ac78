SPECIFICATION MCSpec
CONSTANTS
    Strings <- MCStrings
    Ints <- MCInts
    Paths <- MCPaths
    Tokens <- MCTokens
    Payloads <- MCPayloads
    Codes <- MCCodes
    Registered <- MCRegistered
    MaxCalls = 0
    Sizes <- MCSizes
    BufferSize = 269
    Pipelined = TRUE
INVARIANTS
    HandlerSeesWhatWasSent
CHECK_DEADLOCK FALSE
