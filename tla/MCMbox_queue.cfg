SPECIFICATION FairSpec
CONSTANTS
    Proc = {p1, p2, p3}
    Key = {k1}
    Msg = {m1, m2}
    MAX_MBOX = 2
    MBOX_SIZE = 2
    None = none
    CreatedOnly = TRUE
INVARIANTS  SendersWait ReceiversWait
PROPERTIES QueueSpec ReceiversServed
CHECK_DEADLOCK FALSE
