SPECIFICATION TransportFairSpec
CONSTANTS
    Senders = {s1}
    MaxSend = 2
    Sizes = {2}
    MaxReads = 1
    RecordReads = 2
    TlsReads = 2
    TlsSends = 1
    ReadMode = "once"
    StopKinds = {"stop"}
    PeerMayClose = FALSE
    NetMayFail = FALSE
    HasSentCb = FALSE
    SendPoller = SendPoller
    None = None
INVARIANT OneRead
PROPERTIES
    StopCompletes
    AcceptedIsSent
    PendingReadServed
CHECK_DEADLOCK FALSE
