CONSTANTS
    c1 = c1
    c2 = c2
    Clients <- MCClients
    Local <- MCLocal
    Scenarios <- OnlyNewestFirst
    Unlimited = Unlimited
    EventCap = 2
    ChannelCap = 1
SPECIFICATION Spec
INVARIANT PersistentSentFirst
CHECK_DEADLOCK FALSE
