SPECIFICATION Spec
CONSTANTS
    Posters = {p1}
    Owners = {o1}
    Trackers = {t1}
    Kinds = {"dialer"}
    MaxPost = 2
    MaxHandlerPost = 1
    Worker = Worker
    None = None
INVARIANT PollerNeverAborts
CHECK_DEADLOCK FALSE
