SPECIFICATION MCSpec
CONSTANTS
    Parts = {"connection", "client", "udp"}
    ChunkLimit = 32
    Messages <- MCMessages
    Junk <- MCJunk
    Payloads <- MCPayloads
    PeerKeys <- NoKey
    MaxPackets = 2
    MaxFrames = 1
    Pipelining = TRUE
    CutSizeLine = FALSE
    MaxCalls = 3
    MaxConns = 3
    MaxDatagrams = 2
    MaxStray = 2
INVARIANTS
    DeliversAsSent
    OneError
    AnswerIsOurs
PROPERTIES
    PacketArrives
    SentCallReturns
    UdpReadOrStopped
\* The owner and the peers stop.
CHECK_DEADLOCK FALSE
