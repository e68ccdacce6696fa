SPECIFICATION FairSpec
CONSTANTS
    p1 = p1
    p2 = p2
    Proc = {p1, p2}
    NINODES = 4
    Name <- Names
    Calls = 3
    Depth = 1
    Case <- Cases
    None = none
INVARIANTS RefExact 
CHECK_DEADLOCK FALSE
PROPERTY CallsReturn
