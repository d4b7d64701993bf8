CONSTANTS
    file = file
    sdk = sdk
    Sources <- MCSources
    Calls <- ForwarderCalls
    MaxSends = 1
SPECIFICATION FairSpec
PROPERTY ForwarderStops
CHECK_DEADLOCK FALSE
