SPECIFICATION FairSpec
CONSTANTS
    Handshakers = {h1}
    HandshakeTimeout = TRUE
    DialTimeout = TRUE
    None = None
PROPERTY DialEnds
CHECK_DEADLOCK FALSE
