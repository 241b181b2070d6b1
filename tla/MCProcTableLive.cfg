SPECIFICATION LiveSpec
CONSTANTS
    NPROC = 2
    NCPU = 1
    NCHAN = 1
    MLFLEVELS = 3
    QUANTUM = 1
    TICKSFORAGE = 2
    AGEFORAGINGS = 2
    MaxPid = 2
    TableOrder <- MCTableOrder
PROPERTIES  KilledExits WaitReturns
