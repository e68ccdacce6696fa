---------------------------- MODULE MessageQueue ----------------------------
(***************************************************************************)
(* What the mailboxes promise: each box is a bounded first-in first-out    *)
(* queue, a receiver gets the oldest message and nobody else gets it.      *)
(***************************************************************************)
EXTENDS Naturals, Sequences

CONSTANTS Proc, Box, Msg, Size, None

VARIABLES queue,  \* queue[b]: the messages in box b, oldest first
          got     \* got[p]: the message p's receive returned, if any

vars == <<queue, got>>

Init == queue = [b \in Box |-> <<>>] /\ got = [p \in Proc |-> None]

Send(b, m) ==
    /\ Len(queue[b]) < Size
    /\ queue' = [queue EXCEPT ![b] = Append(@, m)]
    /\ UNCHANGED got

Receive(p, b) ==
    /\ queue[b] # <<>>
    /\ got' = [got EXCEPT ![p] = Head(queue[b])]
    /\ queue' = [queue EXCEPT ![b] = Tail(@)]

\* p returns to its program.
Return(p) == got' = [got EXCEPT ![p] = None] /\ UNCHANGED queue

Next == \E p \in Proc :
    \/ \E b \in Box, m \in Msg : Send(b, m)
    \/ \E b \in Box : Receive(p, b)
    \/ Return(p)

Spec == Init /\ [][Next]_vars
=============================================================================
