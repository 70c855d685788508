SPECIFICATION Spec
CONSTANTS
    Waiters = {w1}
    Signalers = {s1}
    InitCount = 0
    MaxSpin = 1
    MaxBatch = 1
    MaxSignals = 1
    NsPerSec = 3
INVARIANT DeadlineNormalised
CHECK_DEADLOCK FALSE
