SPECIFICATION ProxyFairSpec
CONSTANTS
    udpAsker = udpAsker
    tcpAsker = tcpAsker
    udpTarget = udpTarget
    tcpTarget = tcpTarget
    t1 = t1
    t2 = t2
    None = None
    Asker <- MCAsker
    Target <- MCTarget
    TcpPeer <- MCTcpPeer
    Token <- MCToken
    Requests <- MCRequests
    Worker = {w1, w2}
    MaxParallel = 1
    MaxAttempts = 3
    MaxMishaps = 1
INVARIANTS
    AnswerToAsker
PROPERTIES
    LoopGoesOn
    Repaired
CHECK_DEADLOCK FALSE
