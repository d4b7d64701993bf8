SPECIFICATION FairSpec
CONSTANTS
    t = t
    u = u
    i = i
    Users = {t, u}
    Importers = {i}
    Kinds = {"file", "memory", "multi"}
    Scenarios <- MCScenarios
    MaxCalls = 1
    PerFile = 1
    CmdCap = 2
    ChunkCap = 1
    MaxItems = 2
    MaxSinks = 3
INVARIANTS
    ExactlyOnce
    AnsweredMeansRecorded
PROPERTIES
    SinkLeavesLast
    CallsReturn
CHECK_DEADLOCK FALSE
