SPECIFICATION StatementsSpec
CONSTANTS
    Texts = {"select", "ensure", "setting", "two", "begin"}
    Modes = {"read", "plain", "control", "uncached"}
    Verdicts = {"v1"}
    Handles = {h1, h2, h3, h4}
    NoHandle = NoHandle
    Weights = {1, 2}
    MaxEntries = 2
    MaxBytes = 2
SYMMETRY Symmetry
CHECK_DEADLOCK FALSE
INVARIANTS
    InUseIsLive
    NothingLeaks
    WithinBudget
    RunsAsAsked
