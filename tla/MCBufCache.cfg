CONSTANTS
    p1 = p1
    p2 = p2
    s1 = s1
    s2 = s2
    s3 = s3
    InitDisk <- MCInitDisk
    Written = {s1}
    Procs <- TwoProcs
    Sectors = {s1, s2, s3}
    Values = {0, 1}
    NBUF = 2
    None = None
SPECIFICATION LiveSpec
CHECK_DEADLOCK FALSE
INVARIANTS HolderHasItsSector QueueHoldsRequests
PROPERTIES RefinesAbs RequestServed
