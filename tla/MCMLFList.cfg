CONSTANTS
    p1 = p1
    p2 = p2
    p3 = p3
    p4 = p4
    Procs <- MCProcs
    MLFLEVELS = 3
    Null = Null
SPECIFICATION Spec
SYMMETRY Symmetry
PROPERTY RefinesAbs
