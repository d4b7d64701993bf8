CONSTANTS
    c1 = c1
    c2 = c2
    Clients <- MCClients
    Local <- MCLocal
    Scenarios <- OnlyGarbageCollection
    Unlimited = Unlimited
    EventCap = 1
    ChannelCap = 1
SPECIFICATION FairSpec
PROPERTY StaticKeptWhileInBudget
CHECK_DEADLOCK FALSE
