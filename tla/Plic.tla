-------------------------------- MODULE Plic --------------------------------
(***************************************************************************)
(* Device interrupts: the platform interrupt controller (kernel/plic.c)    *)
(* and devintr() of kernel/trap.c.  What the disk and console drivers do   *)
(* is in Virtio and Console, which extend this module; Devices puts them   *)
(* together.                                                               *)
(*                                                                         *)
(* A thread th[p] is a process inside a driver.  A thread hart[h] is the   *)
(* interrupt handler on a hart: it runs while that hart's process has      *)
(* interrupts on, which is to say at any time, since a process that holds  *)
(* a spin lock keeps its own hart from taking interrupts and no other.     *)
(***************************************************************************)
EXTENDS Integers, Sequences, FiniteSets, FiniteSetsExt

CONSTANTS Proc, Hart, None

UART0_IRQ == 10
VIRTIO0_IRQ == 1

VARIABLES th,    \* process threads
          hart,  \* interrupt handlers
          panic  \* the message of panic(), or None

plicvars == <<th, hart, panic>>

\* A handler that serves no interrupt.
Idle == [pc |-> "idle", irq |-> 0, c |-> ""]

HartInit == hart = [h \in Hart |-> Idle] /\ panic = None

\* A process or a handler goes to label l.
Goes(p, l) == th' = [th EXCEPT ![p].pc = l]
Turns(h, l) == hart' = [hart EXCEPT ![h].pc = l]

\* External, the controller: an interrupt is given to one hart and not again
\* until plic_complete().  The sources have the same priority: the lower
\* number goes first.  lines are the sources that ask.
plic_claim(h, lines) ==
    LET ready == {i \in lines : \A g \in Hart : hart[g].irq # i} IN
    /\ hart[h].pc = "idle" /\ ready # {}
    /\ hart' = [hart EXCEPT ![h].irq = Min(ready),
                            ![h].pc = IF Min(ready) = UART0_IRQ THEN "uartintr"
                                      ELSE "virtio_disk_intr"]

\* Mutant: devintr() returns without plic_complete().
plic_complete_lost(h) ==
    /\ hart[h].pc = "plic_complete"
    /\ hart' = [hart EXCEPT ![h].pc = "idle"]

\* devintr() ends.
plic_complete(h) ==
    /\ hart[h].pc = "plic_complete"
    /\ hart' = [hart EXCEPT ![h] = Idle]

\* wakeup(): the processes asleep at from go to to, where they
\* take their lock again.
Wakeup(t, from, to) == [p \in Proc |-> IF t[p].pc = from THEN [t[p] EXCEPT !.pc = to] ELSE t[p]]

\* kkill(): a sleeping process looks again at what it waits for, as after any
\* wakeup().
Awake == [rw_free |-> "rw", rw_wait |-> "rw_done", read_wait |-> "consoleread",
          tx_wait |-> "uartwrite"]
kkill(p) ==
    /\ th[p].pc # "user" /\ ~th[p].killed
    /\ th' = [th EXCEPT ![p].killed = TRUE,
                        ![p].pc = IF @ \in DOMAIN Awake THEN Awake[@] ELSE @]
    /\ UNCHANGED <<hart, panic>>
=============================================================================
