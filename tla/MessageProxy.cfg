CONSTANTS
    c1 = c1
    c2 = c2
    Clients <- MCClients
    Local <- MCLocal
    Scenarios <- MCScenarios
    Unlimited = Unlimited
    EventCap = 2
    ChannelCap = 1
SPECIFICATION FairSpec
INVARIANTS
    OldestDroppedFirst
    NoDuplicates
    PersistentReachesAll
PROPERTIES
    Delivered
    RequestsAnswered
CHECK_DEADLOCK FALSE
