\* The two drivers, their interrupts and their devices.
CONSTANTS
    p1 = p1
    p2 = p2
    p3 = p3
    Proc = {p1, p2, p3}
    Hart = {h1, h2}
    None = None
    NUM = 7
    UINT16 = 14
    Served = 12
    Blockno = {1, 2, 3}
    INPUT_BUF_SIZE = 3
    UINT = 6
    Lines = 5
    Char = {"x", "y"}
    CHUNK = 2
    FIFO = 2
    Cases <- MCCases
SPECIFICATION FairSpec
INVARIANTS
    RingExact
    DiskExact
    ConsoleExact
    DeviceSleepersWait
PROPERTY IoCompletes
CHECK_DEADLOCK FALSE
