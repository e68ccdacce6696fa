SPECIFICATION FairSpec
CONSTANTS
    Proc = {init, p1, p2}
    initproc = init
    CPU = {c1}
    cpu0 = c1
    MaxPause = 1
    None = none

PROPERTIES TableDrains PauseReturns
