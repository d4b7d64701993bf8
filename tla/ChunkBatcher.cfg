CONSTANTS
    t1 = t1
    t2 = t2
    e1 = e1
    e2 = e2
    c1 = c1
    Threads <- OneThread
    Entities <- TwoEntities
    Shapes <- OneShape
    Empty = "Empty"
    Configs <- TwoConfigs
    Consumers <- MCConsumers
    InCap = 1
    OutCap = 1
    MaxRows = 2
SPECIFICATION FairSpec
INVARIANTS
    ExactlyOnce
    PerThreadOrder
    FlushGuarantee
PROPERTY CallsReturn
CHECK_DEADLOCK FALSE
