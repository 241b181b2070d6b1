CONSTANTS
    Procs = {1, 2}
    InitProc = 1
    NFRAMES = 10
    PGSIZE = 1
    NPTENTRIES = 2
    NTABLES = 4
    MAXSTACKPAGES = 2
    MAXMAPPEDFILES = 1
    ImageSizes = {1}
    FileSizes = {1}
    Deltas <- MCDeltas
    MaxSz = 4
    Callers = {1}
    MaxOthers = 1
SPECIFICATION Spec
VIEW View
CHECK_DEADLOCK FALSE
INVARIANTS FramesExclusive FramesAccounted
