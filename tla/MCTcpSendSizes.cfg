SPECIFICATION Spec
CONSTANTS
    Senders = {s1}
    MaxSend = 2
    Sizes = {1, 2}
    MaxReads = 0
    ReadMode = "loop"
    StopKinds = {}
    PeerMayClose = FALSE
    NetMayFail = FALSE
    HasSentCb = FALSE
    SendPoller = SendPoller
    None = None
INVARIANT SendNeverAborts
CHECK_DEADLOCK FALSE
