CONSTANTS
    s1 = s1
    s2 = s2
    r1 = r1
    r2 = r2
    Senders <- MCSenders
    Receivers <- MCReceivers
    First = r1
    MaxMessages = 2
    MaxBytes = 3
    Sizes <- FewSizes
    MaxSends = 3
SPECIFICATION FairSpec
INVARIANTS
    NoLag
    MessageAccounting
PROPERTIES
    CallsReturnOrWarn
    ImplementsQueue
CHECK_DEADLOCK FALSE
