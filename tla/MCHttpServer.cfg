SPECIFICATION FairSpec
CONSTANTS
    Connections = {c1}
    MaxRequests = 1
    None = None
PROPERTY RequestServed
\* The user and the peer stop.
CHECK_DEADLOCK FALSE
