SPECIFICATION Spec
CONSTANTS
    c1 = c1
    c2 = c2
    p1 = p1
    None = None
    CPUs = {c1, c2}
    Procs = {p1}
    Locks = {"input", "cons", "ptable"}
    Keys = {"x", "return", "^D", "^H", "^U", "^P"}
    INPUT_BUF = 2
    WORD = 4
VIEW View
INVARIANTS  InterruptsRestored ReaderWoken
PROPERTY RefinesAbs
