SPECIFICATION MCSpec
CONSTANTS
    Handshakers = {h1, h2}
    HandshakeTimeout = TRUE
    DialTimeout = TRUE
    MaxConnects = 2
    None = None
INVARIANTS OneOutcome AcceptorInv
PROPERTIES DialEnds NoLateAccept AcceptEnds
\* The user stops calling.
CHECK_DEADLOCK FALSE
