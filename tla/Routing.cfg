SPECIFICATION FairSpec
CONSTANTS
    c1 = c1
    c2 = c2
    Calls <- CallSet
    Signalled <- Streams
    Methods <- Uses
    Texts = {"ensure"}
    TxTexts = {"ensure", "two"}
    Long = {}
    Initially <- Nothing
    MaxEntries = 1
    MaxChanges = 1
    MaxAsks = 2
    Faults = {"busy", "passing", "error"}
CHECK_DEADLOCK FALSE
INVARIANTS
    AtMostOnce
    CountTruthful
    SharedAskTruthful
PROPERTIES
    WriteSticks
    CallEnds
