SPECIFICATION Spec
CONSTANTS
    r1 = r1
    r2 = r2
    Realms = {r1, r2}
    PoolSize <- TwoAndOne
    MaxWrites = 1
    Settings <- LateCommits
CHECK_DEADLOCK FALSE
INVARIANTS
    CurrentIsCurrent
