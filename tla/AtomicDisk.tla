----------------------------- MODULE AtomicDisk -----------------------------
(***************************************************************************)
(* What the log and the buffer cache promise together: file system         *)
(* operations see and change one current image of the disk; a crash takes  *)
(* it back to an image that was current at an instant when no operation    *)
(* was under way.                                                          *)
(***************************************************************************)
EXTENDS Naturals

CONSTANTS Block, Val, MaxOps

VARIABLES now,      \* the contents that bread() gives
          durable,  \* the contents after a crash and recovery
          ops       \* how many operations are between begin_op() and end_op()

Init == now \in [Block -> Val] /\ durable = now /\ ops = 0

Begin == ops < MaxOps /\ ops' = ops + 1 /\ UNCHANGED <<now, durable>>

Write(b, v) ==
    /\ ops > 0
    /\ now' = [now EXCEPT ![b] = v]
    /\ UNCHANGED <<durable, ops>>

End == ops > 0 /\ ops' = ops - 1 /\ UNCHANGED <<now, durable>>

Commit == ops = 0 /\ durable' = now /\ UNCHANGED <<now, ops>>

Crash == now' = durable /\ ops' = 0 /\ UNCHANGED durable

Next == Begin \/ End \/ Commit \/ Crash \/ \E b \in Block, v \in Val : Write(b, v)

Spec == Init /\ [][Next]_<<now, durable, ops>>
=============================================================================
