SPECIFICATION FairSpec
CONSTANTS
    q1 = q1
    q2 = q2
    v1 = v1
    Queries = {q1, q2}
    Verdicts = {v1}
    Sizes = {2}
    Window = 1
    Builds = {"deaf"}
    Reuse = "idle"
    Faults = {"lost", "timeout", "close"}
CHECK_DEADLOCK FALSE
PROPERTIES
    RequestsSettle
