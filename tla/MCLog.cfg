CONSTANTS
    p1 = p1
    p2 = p2
    p3 = p3
    Procs <- ThreeProcs
    Blocks = {b1, b2}
    Values = {0, 1}
    MAXOPBLOCKS = 1
    LOGSIZE = 2
    LogSize = 2
    None = None
SPECIFICATION LiveSpec
INVARIANTS Durable 
PROPERTIES RefinesAbs SleeperWakes
