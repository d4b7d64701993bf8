SPECIFICATION RegistrySpec
CONSTANTS
    Sources = {s1, s2}
    Operations = {o1, o2}
    Recordings = {r1, r2, r3}
    Stores = {t1, t2}
    MaxSources = 2
    MaxOperations = 2
    MaxRecordings = 3
    MaxSubscriptions = 2
    MaxTombstones = 2
INVARIANTS
    LookupExact
    NoLeak
