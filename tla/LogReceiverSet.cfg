CONSTANTS
    file = file
    sdk = sdk
    Sources <- MCSources
    Calls <- RecvAndPoll
    MaxSends = 2
SPECIFICATION FairSpec
INVARIANTS
    RunDry
    FlushMeansReceived
PROPERTY DisconnectedRemoved
CHECK_DEADLOCK FALSE
