SPECIFICATION Spec
CONSTANTS
    Procs <- Two
    NINODES = 3
    NINODE = 3
    Names <- MCNames
    Paths <- MCPaths
    Calls <- MCCalls
    None = None
    p1 = p1
    p2 = p2
VIEW View
CHECK_DEADLOCK FALSE
INVARIANTS RefCount LinkCount NoCircularWait ExpectedPanics
