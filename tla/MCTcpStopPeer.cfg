SPECIFICATION FairSpec
CONSTANTS
    Senders = {s1}
    MaxSend = 0
    Sizes = {2}
    MaxReads = 0
    ReadMode = "once"
    StopKinds = {"stop"}
    PeerMayClose = TRUE
    NetMayFail = FALSE
    HasSentCb = FALSE
    SendPoller = SendPoller
    None = None
PROPERTY StopCompletes
CHECK_DEADLOCK FALSE
