SPECIFICATION Spec
CONSTANTS
    Proc = {p1, p2}
    NFILE = 2
    NOFILE = 2
    Pipe = {g1}
    PIPESIZE = 2
    UINT = 4
    a = a
    b = b
    Byte = {a, b}
    Text <- Texts
    Mode <- Modes
    None = none
SYMMETRY Symmetric
INVARIANTS RefsExact PipeSleepersWait StreamExact
CHECK_DEADLOCK FALSE
