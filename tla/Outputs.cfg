SPECIFICATION FairSpec
CONSTANTS
    t1 = t1
    t2 = t2
    o1 = o1
    o2 = o2
    Tabs = {t1, t2}
    Outputs = {o1, o2}
    TabOf <- Places
    MaxRows <- Loads
    BatchRows = 1
    QueueSize = 1
    Signalled = {o1}
    Faults = {"tab", "fail", "stuck"}
CHECK_DEADLOCK FALSE
INVARIANTS
    TargetWhole
    SweepTakesOrphans
    RowsAccounted
PROPERTIES
    WritersEnd
