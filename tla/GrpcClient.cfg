SPECIFICATION FairSpec
CONSTANTS
    t1 = t1
    t2 = t2
    Threads <- MCThreads
    QueueCap = 2
    WireCap = 2
    MaxCalls = 2
INVARIANTS
    FlushedMeansSent
    DropDelivers
PROPERTIES
    QueuedFlushReturns
    ShutdownCompletes
CHECK_DEADLOCK FALSE
