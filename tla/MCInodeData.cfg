SPECIFICATION Spec
CONSTANTS
    Inodes <- TwoInodes
    Values <- MCValues
    NBLOCKS = 5
    BPB = 2
    BSIZE = 2
    NDIRECT = 1
    NINDIRECT = 2
    LOGSIZE = 6
    Sizes <- MCSizes
    Seeks <- MCSeeks
VIEW View
CHECK_DEADLOCK FALSE
INVARIANTS BlocksAccounted ReadsBack InodeOnDisk 
