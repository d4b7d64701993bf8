SPECIFICATION FairSpec
CONSTANTS
    t1 = t1
    t2 = t2
    Threads <- OneThread
    QueueCap = 1
    WireCap = 1
    MaxCalls = 2
PROPERTY FlushReturns
CHECK_DEADLOCK FALSE
