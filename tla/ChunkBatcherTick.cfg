CONSTANTS
    t1 = t1
    t2 = t2
    e1 = e1
    e2 = e2
    c1 = c1
    Threads <- OneThread
    Entities <- TwoEntities
    Shapes <- OneShape
    Empty = "Empty"
    Configs <- OneConfig
    Consumers <- MCConsumers
    InCap = 1
    OutCap = 1
    MaxRows = 2
SPECIFICATION FairSpec
PROPERTY TickFlushes
CHECK_DEADLOCK FALSE
