SPECIFICATION Spec
CONSTANTS
    Senders = {s1, s2}
    MaxSend = 1
    Sizes = {1, 2}
    MaxReads = 1
    ReadMode = "loop"
    StopKinds = {"stop", "force_stop"}
    PeerMayClose = TRUE
    NetMayFail = FALSE
    HasSentCb = TRUE
    SendPoller = SendPoller
    None = None
VIEW LiveState
CONSTRAINT ReadsBesideOneSender
SYMMETRY SenderSymmetry
INVARIANTS
    Accounted
    OneActor
    StopWaitsForOpts
    OneEnd
PROPERTY NothingAfterEnd
CHECK_DEADLOCK FALSE
