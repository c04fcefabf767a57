SPECIFICATION FairSpec
CONSTANTS
    PoolSize = 2
    MaxRestarts = 1
    MaxCrashes = 3
    MaxTxThread = 2
    Environments <- Everywhere
CHECK_DEADLOCK FALSE
INVARIANTS
    NeverSilentlyEmpty
    LossesAnnounced
    NoOrphan
PROPERTIES
    BudgetHonoured
    ClientSettles
