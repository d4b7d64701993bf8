CONSTANTS
    t1 = t1
    t2 = t2
    e1 = e1
    e2 = e2
    c1 = c1
    Threads <- TwoThreads
    Entities <- OneEntity
    Shapes <- MCShapes
    Empty = "Empty"
    Configs <- OneConfig
    Consumers <- MCConsumers
    InCap = 1
    OutCap = 1
    MaxRows = 2
SPECIFICATION Spec
SYMMETRY ThreadSymmetry
INVARIANTS
    TypeOK
    ExactlyOnce
    PerThreadOrder
    FlushGuarantee
PROPERTY NoRowVanishes
CHECK_DEADLOCK FALSE
