SPECIFICATION LiveSpec
CHECK_DEADLOCK FALSE
CONSTANTS
    p1 = p1
    p2 = p2
    p3 = p3
    None = None
    Procs <- MCProcs
    InitProc = p1
    MAXSEM = 1
    MAXPROCSEM = 2
    InitValues <- MCInitValues
    MaxValue = 1
INVARIANT RefCount
PROPERTIES RefinesAbs SleeperWakes
