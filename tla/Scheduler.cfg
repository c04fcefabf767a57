SPECIFICATION FairSpec
CONSTANTS
    PoolSize = 2
    Requests = {r1, r2}
    Designable = {0, 1}
    MaxGen = 1
    Interrupts = {"shutdown"}
CHECK_DEADLOCK FALSE
INVARIANTS
    LeaseExclusive
    WorkerAccounted
    OneWriter
    NoIdleWhileReadersWait
PROPERTIES
    EveryWaitEnds
