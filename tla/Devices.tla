------------------------------- MODULE Devices -------------------------------
(***************************************************************************)
(* The two drivers of the kernel together: processes in virtio_disk_rw(),  *)
(* consoleread() and consolewrite(), and harts in the interrupt handlers,  *)
(* over one interrupt controller.                                          *)
(***************************************************************************)
EXTENDS Virtio, Console

CONSTANT Cases   \* what the processes ask for, the keys that are pressed,
                 \* and who may be killed

VARIABLES work,  \* calls each process has still to make
          keys,  \* keys still to be pressed
          kills  \* processes that may still be killed

vars == <<plicvars, diskvars, consvars, work, keys, kills>>

Init ==
    /\ th = [p \in Proc |-> [pc |-> "user", killed |-> FALSE, job |-> None, idx |-> <<>>,
                             n |-> 0, some |-> FALSE, s |-> <<>>]]
    /\ HartInit /\ VirtioInit /\ ConsoleInit
    /\ \E c \in Cases : work = c.work /\ keys = c.keys /\ kills = c.kills

\* A system call.
syscall(p) ==
    /\ work[p] # <<>>
    /\ LET call == Head(work[p]) IN
       \/ call.op = "disk" /\ virtio_disk_rw(p, call.job) /\ UNCHANGED consvars
       \/ call.op = "read" /\ consoleread(p, call.n) /\ UNCHANGED diskvars
       \/ call.op = "write" /\ consolewrite(p, call.s) /\ UNCHANGED diskvars
    /\ work' = [work EXCEPT ![p] = Tail(@)]
    /\ UNCHANGED <<keys, kills>>

\* A process in a driver.
Driver(p) ==
    /\ \/ /\ alloc3_desc(p) \/ format(p) \/ notify(p) \/ free_chain(p)
          /\ UNCHANGED consvars
       \/ /\ read_loop(p) \/ read_sleep(p) \/ write_piece(p) \/ uartwrite(p)
          /\ UNCHANGED diskvars
    /\ UNCHANGED <<work, keys, kills>>

\* devintr() and the handlers it calls.
devintr(h) ==
    /\ \/ /\ plic_complete(h)
          /\ UNCHANGED <<th, panic, diskvars, consvars>>
       \/ (virtio_disk_intr(h) \/ used(h)) /\ UNCHANGED consvars
       \/ /\ \/ uartintr(h) \/ uart_tx(h) \/ uartgetc(h)
             \/ consoleintr(h) \/ kill_line(h) \/ echo(h) \/ store(h)
          /\ UNCHANGED diskvars
    /\ UNCHANGED <<work, keys, kills>>

\* External: the devices, the controller, the person at the keyboard.
claim(h) ==
    /\ plic_claim(h, DiskLine \cup ConsoleLine)
    /\ UNCHANGED <<th, panic, diskvars, consvars, work, keys, kills>>

Device ==
    /\ \/ (take \/ raise \/ \E i \in dev.taken : finish(i)) /\ UNCHANGED consvars
       \/ send /\ UNCHANGED diskvars
    /\ UNCHANGED <<work, keys, kills>>

press ==
    /\ keys # <<>> /\ receive(Head(keys))
    /\ keys' = Tail(keys)
    /\ UNCHANGED <<diskvars, work, kills>>

kill(p) ==
    /\ p \in kills /\ kkill(p)
    /\ kills' = kills \ {p}
    /\ UNCHANGED <<diskvars, consvars, work, keys>>

Next ==
    /\ panic = None
    /\ \/ \E p \in Proc : syscall(p) \/ Driver(p) \/ kill(p)
       \/ \E h \in Hart : claim(h) \/ devintr(h)
       \/ Device \/ press

Spec == Init /\ [][Next]_vars

\* A process in the kernel and a handler run on, the controller delivers, and
\* the devices serve what they were given.
FairSpec ==
    /\ Spec
    /\ \A p \in Proc : WF_vars(Driver(p))
    /\ \A h \in Hart : WF_vars(devintr(h))
    /\ WF_vars(\E h \in Hart : claim(h))
    /\ WF_vars((take \/ \E i \in dev.taken : finish(i)) /\ UNCHANGED <<consvars, work, keys, kills>>)
    /\ WF_vars(raise /\ UNCHANGED <<consvars, work, keys, kills>>)
    /\ WF_vars(send /\ UNCHANGED <<diskvars, work, keys, kills>>)

-----------------------------------------------------------------------------

\* No process in a driver sleeps on something that has already happened: a
\* wakeup() of virtio_disk.c, console.c or uart.c is never lost, whichever hart
\* serves the interrupt.
DeviceSleepersWait == DiskSleepersWait /\ ConsoleSleepersWait

\* Input and output complete: virtio_disk_rw() and consolewrite() return, and
\* consoleread() takes the complete lines that are there.  (A read that was
\* killed between its test and sleep() still returns only when a line comes.)
IoCompletes ==
    \A p \in Proc :
        /\ th[p].pc \in {"rw", "rw_free", "format", "notify", "rw_wait", "rw_done",
                         "consolewrite", "uartwrite", "tx_wait"} ~> th[p].pc = "user"
        /\ (th[p].pc \in {"consoleread", "read_sleep", "read_wait"} /\ input # <<>>)
              ~> (input = <<>> \/ th[p].pc = "user")
=============================================================================
