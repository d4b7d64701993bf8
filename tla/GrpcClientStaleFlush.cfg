SPECIFICATION Spec
CONSTANTS
    t1 = t1
    t2 = t2
    Threads <- OneThread
    QueueCap = 2
    WireCap = 1
    MaxCalls = 2
INVARIANT OnlyFailuresDisconnect
CHECK_DEADLOCK FALSE
