CONSTANTS
    c1 = c1
    c2 = c2
    Clients <- MCClients
    Local <- MCLocal
    Scenarios <- OnlyViewerControl
    Unlimited = Unlimited
    EventCap = 2
    ChannelCap = 1
SPECIFICATION FairSpec
PROPERTY RequestsFailWithoutViewer
CHECK_DEADLOCK FALSE
