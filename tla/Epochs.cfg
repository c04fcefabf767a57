SPECIFICATION Spec
CONSTANTS
    r1 = r1
    r2 = r2
    Realms = {r1, r2}
    PoolSize <- TwoAndOne
    MaxWrites = 3
    Settings <- ManyWritesOrManyFaults
CHECK_DEADLOCK FALSE
INVARIANTS
    Fresh
    MarkedIsCurrent
PROPERTIES
    OriginNeverDips
