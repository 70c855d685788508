SPECIFICATION MCSpec
CONSTANTS
    Users = {u1, u2}
    Timers = {t1}
    Kinds = {"once", "repeated", "sync"}
    MaxNew = 1
    Posters = {p1}
    Owners = {o1, o2}
    Trackers = {k1}
    Channels = {"transport", "acceptor", "dialer"}
    MaxPost = 2
    MaxHandlerPost = 1
    Worker = Worker
    None = None
INVARIANTS
    IInv
    PollerInv
    TrackersSafe
PROPERTIES
    StopHolds
    StartedFires
    ServiceStops
    EventsHandled
    TrackerFreed
CHECK_DEADLOCK FALSE
