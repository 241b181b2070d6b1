SPECIFICATION Spec
CONSTANTS
    NPROC = 3
    NCPU = 2
    NCHAN = 1
    MLFLEVELS = 1
    QUANTUM = 1
    TICKSFORAGE = 1
    AGEFORAGINGS = 1
    MaxPid = 4
    TableOrder <- MCTableOrder
INVARIANTS  RunningOnOneCpu NoZombieOverlooked EmbryoOfOneFork
