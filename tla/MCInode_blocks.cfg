SPECIFICATION Spec
CONSTANTS
    p1 = p1
    p2 = p2
    Proc = {p1, p2}
    NDIRECT = 1
    WORDS = 2
    NINODE = 4
    FSSIZE = 18
    NMETA = 4
    MAXOPBLOCKS = 8
    Calls = 7
    Case <- Cases
    None = none
INVARIANTS   LogBound
CHECK_DEADLOCK FALSE
