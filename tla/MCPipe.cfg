CONSTANTS
    p1 = p1
    p2 = p2
    a = a
    b = b
    Procs <- TwoProcs
    Killable <- OneProc
    Bytes <- TwoBytes
    PIPESIZE = 2
    UINT = 4
    MaxWrite = 2
    MaxRead = 1
    None = None
SPECIFICATION LiveSpec
INVARIANT SleepersWoken
PROPERTIES RefinesAbs ClosedUnblocks
