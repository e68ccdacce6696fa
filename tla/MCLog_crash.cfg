SPECIFICATION Spec
CONSTANTS
    Proc = {init, p1}
    initproc = init
    Block = {a, b}
    Val = {u, v}
    Buf = {b1, b2, b3, b4}
    header = header
    LOGBLOCKS = 2
    MAXOPBLOCKS = 1
    None = none
SYMMETRY Symmetric

INVARIANTS RefcntExact SleepersWait 
PROPERTIES AtomicDiskSpec
