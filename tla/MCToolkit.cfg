SPECIFICATION MCSpec
CONSTANTS
    Waiters = {w1, w2}
    Signalers = {s1, s2}
    InitCount = 1
    MaxSpin = 1
    MaxBatch = 2
    MaxSignals = 4
    NsPerSec = 1
    Producers = {p1, p2, p3}
    MaxItems = 2
    M2MProducers = {p1, p2}
    Consumers = {c1}
    M2MBlocks = 2
    M2MPush = 3
    O2OBlocks = 3
    O2OPush = 6
    BlockSize = 2
    InitBlocks = 1
    NoValue = NoValue
    Modulus = 13
    Limit = 4
    MaxWritten = 9
    Handles = {h1, h2}
    MaxOwners = 2
INVARIANTS
    IInv
    NoLostWakeup
    FreelockInv
    PopFindsSlot
    BufferContent
    BufferReferences
PROPERTIES
    ImplementsCounting
    WakeupDelivered
    AllDequeued
    M2MKeepsOrder
    O2OKeepsOrder
    RingsGoOn
CHECK_DEADLOCK FALSE
