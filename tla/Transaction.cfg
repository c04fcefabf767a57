SPECIFICATION FairSpec
CONSTANTS
    MaxCalls = 4
    Scenarios <- Everything
CHECK_DEADLOCK FALSE
INVARIANTS
    NeverReturnedOpen
    StackAgrees
    EndingTruthful
PROPERTIES
    Atomic
    TransactionEnds
