CONSTANTS
    s1 = s1
    s2 = s2
    r1 = r1
    r2 = r2
    Senders <- MCSenders
    Receivers <- MCReceivers
    First = r1
    Capacity = 2
    Sizes <- MCSizes
    MaxSends = 4
SPECIFICATION Spec
INVARIANT TrySendDoesNotBlock
CHECK_DEADLOCK FALSE
