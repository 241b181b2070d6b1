SPECIFICATION Spec
CONSTANTS
    p1 = p1
    p2 = p2
    i1 = i1
    Procs = {p1, p2}
    First = p1
    NFILE = 2
    NOFILE = 2
    Inodes = {i1}
    MaxSize = 1
    Calls <- MCCalls
    None = None
VIEW View
CHECK_DEADLOCK FALSE
INVARIANTS RefCount SharedInTurn  
