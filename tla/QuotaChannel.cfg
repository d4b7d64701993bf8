CONSTANTS
    s1 = s1
    s2 = s2
    r1 = r1
    r2 = r2
    Senders <- MCSenders
    Receivers <- MCReceivers
    First = r1
    Capacity = 2
    Sizes <- MCSizes
    MaxSends = 3
SPECIFICATION FairSpec
INVARIANTS
    NoLostWakeup
    WithinBudget
PROPERTY CallsReturn
CHECK_DEADLOCK FALSE
