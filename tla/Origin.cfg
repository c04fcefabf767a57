SPECIFICATION OriginFairSpec
CONSTANTS
    Clients = {c1, c2}
    Deletions = {d1, d2}
    VFSs <- Persistent
    Faults = {"tab", "remove", "jDelete"}
CHECK_DEADLOCK FALSE
INVARIANTS
    ConnectedIsNeverDeleted
    RetryFindsTheRest
PROPERTIES
    DeletedIsGone
    EveryoneIsAnswered
