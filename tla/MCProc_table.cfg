SPECIFICATION Spec
CONSTANTS
    Proc = {init, p1, p2}
    initproc = init
    CPU = {c1, c2}
    cpu0 = c1
    MaxPause = 1
    None = none
SYMMETRY Symmetric
INVARIANTS SchedAssertions OneCPU SleepersWait ParentLives
