SPECIFICATION Spec
CONSTANTS
    q1 = q1
    q2 = q2
    v1 = v1
    Queries = {q1, q2}
    Verdicts = {v1}
    Sizes = {2}
    Window = 2
    Builds = {"yielding", "polling", "deaf"}
    Reuse = "freed"
    Faults = {}
SYMMETRY Streams
CHECK_DEADLOCK FALSE
INVARIANTS
    NoShortRead
