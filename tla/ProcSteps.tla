----------------------------- MODULE ProcSteps ------------------------------
(***************************************************************************)
(* Proofs about the process table, for any number of slots and CPUs: the   *)
(* inductive invariant, and that switching, fork, the clock and the loops  *)
(* of reparent() and wakeup() keep it.                                     *)
(***************************************************************************)
EXTENDS Proc, TLAPS

USE ProcAssumption

-----------------------------------------------------------------------------
(* The inductive invariant. *)

\* A thread holds wait_lock in these places.
WaitPC == {"reparent", "wakeup", "zombie", "wait_scan", "wait_sleep"}

\* Where thread p is, or goes on after sched().
Loc(p) == IF th[p].pc \in {"sched", "resume"} THEN th[p].next ELSE th[p].pc

\* Process p has not exited.
Active(p) == state[p] \in {"RUNNABLE", "SLEEPING", "RUNNING"}

\* Process p is inside kfork() and has a child that cannot run yet.
Forks(p) == Active(p) /\ Loc(p) \in {"fork_parent", "fork_run"}

\* Process p sleeps in kwait().
Waits(p) == p # None /\ state[p] = "SLEEPING" /\ chan[p] = p

\* A thread that gives up its CPU goes on where it holds no lock.
NextInv == \A p \in Proc : th[p].next \in Open

\* A process is on one CPU at most.  On its CPU it holds its lock exactly
\* between sched() or resume and swtch(); off every CPU its lock is free and it
\* is about to resume.
CpuInv ==
    /\ \A c, d \in CPU : cpu[c] # None /\ cpu[c] = cpu[d] => c = d
    /\ \A c \in CPU, p \in Proc : cpu[c] = p =>
         /\ th[p].pc = "sched" =>
              lock[p] = c /\ state[p] \in {"RUNNABLE", "SLEEPING", "ZOMBIE"}
         /\ th[p].pc = "resume" => lock[p] = c /\ state[p] = "RUNNING"
         /\ th[p].pc \notin {"sched", "resume"} =>
              lock[p] = None /\ state[p] = "RUNNING"
    /\ \A p \in Proc : (\A c \in CPU : cpu[c] # p) =>
         lock[p] = None /\ th[p].pc = "resume" /\ state[p] # "RUNNING"

\* wait_lock is held by the CPU of the one thread that is in WaitPC.
WaitInv ==
    /\ \A p \in Proc : th[p].pc \in WaitPC =>
         \E c \in CPU : cpu[c] = p /\ wait_lock = c
    /\ wait_lock # None => cpu[wait_lock] # None /\ th[cpu[wait_lock]].pc \in WaitPC

\* tickslock is held by clockintr() on cpu0, which interrupts only a thread
\* without locks, or by the CPU of the one thread that is about to sleep in
\* pause(), with ticks to wait for.
TickInv ==
    /\ clk # None => tickslock = cpu0 /\ (cpu[cpu0] # None => th[cpu[cpu0]].pc \in Open)
    /\ \A p \in Proc : th[p].pc = "pause_sleep" =>
         th[p].n > 0 /\ \E c \in CPU : cpu[c] = p /\ tickslock = c
    /\ tickslock # None =>
         \/ clk # None
         \/ cpu[tickslock] # None /\ th[cpu[tickslock]].pc = "pause_sleep"

\* The child of a fork in progress is USED, is nobody else's and does not run.
ForkInv ==
    /\ \A p \in Proc : Forks(p) =>
         /\ th[p].np \in Proc /\ state[th[p].np] = "USED"
         /\ Loc(p) = "fork_run" => parent[th[p].np] = p
    /\ \A p, q \in Proc : Forks(p) /\ Forks(q) /\ th[p].np = th[q].np => p = q
    /\ \A q \in Proc : state[q] = "USED" => Loc(q) = "user"

\* init never exits.
InitInv ==
    /\ Active(initproc) /\ ~killed[initproc]
    /\ Loc(initproc) \notin {"exit", "reparent", "wakeup", "zombie"}

\* Parents have not exited, every process that has run has a parent, and
\* after reparent() there are no children left.
FamilyInv ==
    /\ \A q \in Proc : parent[q] # None => Active(parent[q])
    /\ \A q \in Proc \ {initproc} : state[q] \notin {"UNUSED", "USED"} => parent[q] # None
    /\ \A p \in Proc : th[p].pc \in {"reparent", "wakeup", "zombie"} => Kids(p) = {}

\* A process sleeps in kwait() beside a zombie only while reparent() is on its
\* way to wake it.
ReapInv == \A q \in Proc : Waits(parent[q]) /\ state[q] = "ZOMBIE" =>
    parent[q] = initproc /\ \E r \in Proc : th[r].pc = "reparent" /\ initproc \in th[r].todo

\* An exiting child has still to visit its parent if it sleeps in kwait(), and
\* has done so before it becomes a zombie.
VisitInv == \A q \in Proc :
    /\ th[q].pc = "wakeup" /\ Waits(parent[q]) => parent[q] \in th[q].todo
    /\ th[q].pc = "zombie" => ~Waits(parent[q])

\* What the scan of kwait() has passed is no zombie, up to the sleep().
ScanInv == \A p \in Proc :
    /\ th[p].pc = "wait_scan" => \A q \in Kids(p) \ th[p].todo : state[q] # "ZOMBIE"
    /\ th[p].pc = "wait_sleep" => \A q \in Kids(p) : state[q] # "ZOMBIE"

WakeInv == ReapInv /\ VisitInv /\ ScanInv

\* A process sleeps in pause() with ticks to wait for, or clockintr() is on its
\* way to wake it.
TickWakeInv == \A p \in Proc : state[p] = "SLEEPING" /\ chan[p] = "ticks" =>
    th[p].n > 0 \/ (clk # None /\ p \in clk)

IInv == /\ TypeOK /\ NextInv /\ CpuInv /\ WaitInv /\ TickInv /\ ForkInv
        /\ InitInv /\ FamilyInv /\ WakeInv /\ TickWakeInv

-----------------------------------------------------------------------------
(* Frames. *)

\* A step keeps what the wakeups in kwait() and kexit() rest on if parents stay,
\* nobody newly sleeps in kwait() or becomes a zombie, and the threads inside
\* wait_lock stay where they are.
LEMMA WakeFrame ==
  ASSUME TypeOK, WakeInv, UNCHANGED parent,
         \A q \in Proc : state'[q] \in {"SLEEPING", "ZOMBIE"} => state'[q] = state[q],
         \A q \in Proc : state'[q] = "SLEEPING" => chan'[q] = chan[q],
         \A q \in Proc : th[q].pc \in WaitPC \/ th'[q].pc \in WaitPC =>
           th'[q].pc = th[q].pc /\ th'[q].todo = th[q].todo
  PROVE  WakeInv'
<1>1. \A q \in Proc : parent[q] \in Proc \cup {None}
  BY Zenon DEF TypeOK
<1>2. \A q \in Proc \cup {None} : Waits(q)' => Waits(q)
  BY Zenon DEF Waits
<1>3. ReapInv'
  <2> SUFFICES ASSUME NEW q \in Proc, Waits(parent[q])', state'[q] = "ZOMBIE"
               PROVE  /\ parent[q] = initproc
                      /\ \E r \in Proc : th'[r].pc = "reparent" /\ initproc \in th'[r].todo
    BY Zenon DEF ReapInv
  <2>1. Waits(parent[q]) /\ state[q] = "ZOMBIE"
    BY <1>1, Zenon DEF Waits
  <2>2. parent[q] = initproc /\ \E r \in Proc : th[r].pc = "reparent" /\ initproc \in th[r].todo
    BY <2>1, Zenon DEF WakeInv, ReapInv
  <2> QED BY <2>2, Zenon DEF WaitPC
<1>4. VisitInv'
  BY <1>1, <1>2 DEF WakeInv, VisitInv, WaitPC
<1>5. ScanInv'
  BY DEF WakeInv, ScanInv, WaitPC, Kids
<1> QED BY <1>3, <1>4, <1>5, Zenon DEF WakeInv

\* A step keeps what is said of CPUs if no process changes its CPU or its lock,
\* sleepers at most become runnable, and the thread that moves does not pass
\* through the scheduler.
LEMMA CpuFrame ==
  ASSUME CpuInv, UNCHANGED <<cpu, lock>>,
         \A q \in Proc : state'[q] = state[q] \/ (state[q] = "SLEEPING" /\ state'[q] = "RUNNABLE"),
         \A q \in Proc : \/ th'[q].pc = th[q].pc
                         \/ th[q].pc \notin {"sched", "resume"} /\ th'[q].pc \notin {"sched", "resume"}
  PROVE  CpuInv'
<1>0. cpu' = cpu /\ lock' = lock
  OBVIOUS
<1>1. \A c, d \in CPU : cpu'[c] # None /\ cpu'[c] = cpu'[d] => c = d
  BY <1>0 DEF CpuInv
<1>2. ASSUME NEW c \in CPU, NEW q \in Proc, cpu'[c] = q
      PROVE  /\ th'[q].pc = "sched" =>
                  lock'[q] = c /\ state'[q] \in {"RUNNABLE", "SLEEPING", "ZOMBIE"}
             /\ th'[q].pc = "resume" => lock'[q] = c /\ state'[q] = "RUNNING"
             /\ th'[q].pc \notin {"sched", "resume"} => lock'[q] = None /\ state'[q] = "RUNNING"
  <2>1. /\ th[q].pc = "sched" =>
             lock[q] = c /\ state[q] \in {"RUNNABLE", "SLEEPING", "ZOMBIE"}
        /\ th[q].pc = "resume" => lock[q] = c /\ state[q] = "RUNNING"
        /\ th[q].pc \notin {"sched", "resume"} => lock[q] = None /\ state[q] = "RUNNING"
    BY <1>2 DEF CpuInv
  <2> QED BY <2>1
<1>3. ASSUME NEW q \in Proc, \A c \in CPU : cpu'[c] # q
      PROVE  lock'[q] = None /\ th'[q].pc = "resume" /\ state'[q] # "RUNNING"
  <2>1. lock[q] = None /\ th[q].pc = "resume" /\ state[q] # "RUNNING"
    BY <1>0, <1>3 DEF CpuInv
  <2> QED BY <2>1
<1> QED BY <1>1, <1>2, <1>3 DEF CpuInv

\* A step keeps what is said of tickslock and the clock if the one thread that
\* moves is not interrupted by the clock and is not about to sleep in pause().
LEMMA TickFrame ==
  ASSUME TickInv, TypeOK, UNCHANGED <<cpu, tickslock, clk>>, NEW p \in Proc,
         \A q \in Proc \ {p} : th'[q] = th[q], cpu[cpu0] = p => clk = None,
         th[p].pc # "pause_sleep", th'[p].pc # "pause_sleep"
  PROVE  TickInv'
<1>1. clk # None => tickslock = cpu0 /\ (cpu[cpu0] # None => th'[cpu[cpu0]].pc \in Open)
  <2>1. cpu[cpu0] \in Proc \cup {None}
    BY DEF TypeOK
  <2> QED BY <2>1 DEF TickInv
<1>2. \A q \in Proc : th'[q].pc = "pause_sleep" =>
        th'[q].n > 0 /\ \E c \in CPU : cpu[c] = q /\ tickslock = c
  BY DEF TickInv
<1>3. tickslock # None => \/ clk # None
                          \/ cpu[tickslock] # None /\ th'[cpu[tickslock]].pc = "pause_sleep"
  <2>1. tickslock # None => cpu[tickslock] \in Proc \cup {None}
    BY DEF TypeOK
  <2> QED BY <2>1 DEF TickInv
<1> QED BY <1>1, <1>2, <1>3 DEF TickInv

\* A step keeps what is said of forks if no process starts or ends one.
LEMMA ForkFrame ==
  ASSUME ForkInv, UNCHANGED parent,
         \A q \in Proc : (state'[q] = "USED" <=> state[q] = "USED") /\ (Active(q)' <=> Active(q)),
         \A q \in Proc : \/ Loc(q)' = Loc(q) /\ th'[q].np = th[q].np
                         \/ /\ Loc(q) \notin {"fork_parent", "fork_run"} /\ state[q] # "USED"
                            /\ Loc(q)' \notin {"fork_parent", "fork_run"}
  PROVE  ForkInv'
<1>1. ASSUME NEW q \in Proc, Forks(q)'
      PROVE  Forks(q) /\ Loc(q)' = Loc(q) /\ th'[q].np = th[q].np
  BY <1>1, Zenon DEF Forks
<1>2. ASSUME NEW q \in Proc, Forks(q)'
      PROVE  /\ th'[q].np \in Proc /\ state'[th'[q].np] = "USED"
             /\ Loc(q)' = "fork_run" => parent'[th'[q].np] = q
  <2>1. /\ th[q].np \in Proc /\ state[th[q].np] = "USED"
        /\ Loc(q) = "fork_run" => parent[th[q].np] = q
    BY <1>1, <1>2, Zenon DEF ForkInv
  <2> QED BY <1>1, <1>2, <2>1
<1>3. ASSUME NEW q \in Proc, NEW r \in Proc, Forks(q)', Forks(r)', th'[q].np = th'[r].np
      PROVE  q = r
  <2>1. Forks(q) /\ Forks(r) /\ th[q].np = th[r].np
    BY <1>1, <1>3
  <2> QED BY <2>1, Zenon DEF ForkInv
<1>4. \A q \in Proc : state'[q] = "USED" => Loc(q)' = "user"
  BY DEF ForkInv
<1> QED BY <1>2, <1>3, <1>4 DEF ForkInv

\* A step keeps what is said of families if nobody changes parent, is born,
\* exits, or gets to where its children must be gone.
LEMMA FamilyFrame ==
  ASSUME FamilyInv, TypeOK, UNCHANGED parent, \A q \in Proc : Active(q)' <=> Active(q),
         \A q \in Proc : state'[q] \notin {"UNUSED", "USED"} => state[q] \notin {"UNUSED", "USED"},
         \A q \in Proc : th'[q].pc \in {"reparent", "wakeup", "zombie"} =>
                           th[q].pc \in {"reparent", "wakeup", "zombie"}
  PROVE  FamilyInv'
<1>1. parent' = parent /\ \A q \in Proc : parent[q] \in Proc \cup {None} /\ Kids(q)' = Kids(q)
  BY DEF TypeOK, Kids
<1>2. \A q \in Proc : \A r \in Proc : r = parent[q] => Active(r)'
  BY Zenon DEF FamilyInv
<1>3. \A q \in Proc \ {initproc} : state'[q] \notin {"UNUSED", "USED"} => parent'[q] # None
  BY <1>1, Zenon DEF FamilyInv
<1>4. \A q \in Proc : th'[q].pc \in {"reparent", "wakeup", "zombie"} => Kids(q)' = {}
  BY <1>1, Zenon DEF FamilyInv
<1> QED BY <1>1, <1>2, <1>3, <1>4, Zenon DEF FamilyInv

\* A thread outside the scheduler runs on one CPU and does not hold its lock.
LEMMA RunsAlone ==
  ASSUME IInv, NEW c \in CPU, NEW p \in Proc, cpu[c] = p, th[p].pc \notin {"sched", "resume"}
  PROVE  state[p] = "RUNNING" /\ lock[p] = None /\ \A d \in CPU : d # c => cpu[d] # p
<1>1. CpuInv
  BY Zenon DEF IInv
<1> QED BY <1>1 DEF CpuInv

-----------------------------------------------------------------------------
(* Switching. *)

\* scheduler()
LEMMA SchedulerStep ==
  ASSUME IInv, NEW c \in CPU, NEW p \in Proc, scheduler(c, p)
  PROVE  IInv'
<1>t. TypeOK
  BY Zenon DEF IInv
<1>1. /\ cpu[c] = None /\ (c = cpu0 => clk = None)
      /\ state[p] = "RUNNABLE" /\ lock[p] = None
      /\ UNCHANGED <<chan, parent, killed, wait_lock, tickslock, th, clk>>
  BY Zenon DEF scheduler
<1>2. /\ lock'[p] = c /\ \A q \in Proc \ {p} : lock'[q] = lock[q]
      /\ state'[p] = "RUNNING" /\ \A q \in Proc \ {p} : state'[q] = state[q]
      /\ cpu'[c] = p /\ \A d \in CPU \ {c} : cpu'[d] = cpu[d]
  BY <1>t DEF scheduler, TypeOK
<1>3. TypeOK'
  BY <1>t, Zenon DEF scheduler, TypeOK, State
<1>4. NextInv'
  BY <1>1, Zenon DEF IInv, NextInv
<1>5. \A d \in CPU : cpu[d] # p
  BY <1>1 DEF IInv, CpuInv
<1>6. th[p].pc = "resume"
  BY <1>5, Zenon DEF IInv, CpuInv
<1>7. CpuInv'
  BY <1>1, <1>2, <1>6 DEF IInv, CpuInv
<1>8. WaitInv'
  BY <1>1, <1>2 DEF IInv, WaitInv, TypeOK
<1>9. TickInv'
  BY <1>1, <1>2 DEF IInv, TickInv, TypeOK
<1>10. ForkInv'
  BY <1>1, <1>2, ForkFrame, Zenon DEF IInv, Active, Loc
<1>11. InitInv'
  BY <1>1, <1>2, Zenon DEF IInv, InitInv, Active, Loc
<1>12. FamilyInv'
  BY <1>1, <1>2, <1>t, FamilyFrame, Zenon DEF IInv, Active
<1>13. WakeInv'
  BY <1>1, <1>2, WakeFrame, Zenon DEF IInv
<1>14. TickWakeInv'
  BY <1>1, <1>2, Zenon DEF IInv, TickWakeInv
<1> QED BY <1>3, <1>4, <1>7, <1>8, <1>9, <1>10, <1>11, <1>12, <1>13, <1>14, Zenon DEF IInv

\* resume: a process comes back from swtch().
LEMMA ResumeStep ==
  ASSUME IInv, NEW c \in CPU, NEW p \in Proc, resume(c, p)
  PROVE  IInv'
<1>t. TypeOK
  BY Zenon DEF IInv
<1>1. /\ cpu[c] = p /\ (c = cpu0 => clk = None) /\ th[p].pc = "resume"
      /\ UNCHANGED <<state, parent, killed, wait_lock, tickslock, cpu, clk>>
  BY Zenon DEF resume, Runs
<1>2. /\ chan'[p] = None /\ \A q \in Proc \ {p} : chan'[q] = chan[q]
      /\ lock'[p] = None /\ \A q \in Proc \ {p} : lock'[q] = lock[q]
      /\ th'[p].pc = th[p].next /\ th'[p].next = th[p].next /\ th'[p].np = th[p].np
      /\ th'[p].n = th[p].n /\ th'[p].todo = th[p].todo
      /\ \A q \in Proc \ {p} : th'[q] = th[q]
  BY <1>t DEF resume, TypeOK
<1>3. /\ th'[p].pc \notin WaitPC \cup {"sched", "resume", "pause_sleep"}
      /\ state[p] = "RUNNING" /\ lock[p] = c /\ \A d \in CPU \ {c} : cpu[d] # p
  BY <1>1, <1>2 DEF IInv, NextInv, CpuInv, Open, WaitPC
<1>10. TypeOK'
  BY <1>t, <1>2 DEF TypeOK, Thread, resume
<1>11. NextInv'
  BY <1>t, <1>1, <1>2, <1>3 DEF IInv, TypeOK, NextInv
<1>12. CpuInv'
  BY <1>t, <1>1, <1>2, <1>3 DEF IInv, TypeOK, CpuInv
<1>13. WaitInv'
  BY <1>t, <1>1, <1>2, <1>3 DEF IInv, TypeOK, WaitInv, WaitPC
<1>14. TickInv'
  BY <1>1, <1>2, <1>3 DEF IInv, TypeOK, TickInv
<1>15. ForkInv'
  BY <1>1, <1>2, ForkFrame, Zenon DEF IInv, Active, Loc
<1>16. InitInv'
  BY <1>1, <1>2 DEF IInv, InitInv, Active, Loc
<1>17. FamilyInv'
  BY <1>1, <1>2, <1>3 DEF IInv, FamilyInv, Active, Kids, WaitPC, Open
<1>18. WakeInv'
  BY <1>1, <1>2, <1>3, WakeFrame DEF IInv, WaitPC
<1>19. TickWakeInv'
  BY <1>1, <1>2 DEF IInv, TickWakeInv
<1> QED BY <1>10, <1>11, <1>12, <1>13, <1>14, <1>15, <1>16, <1>17, <1>18, <1>19, Zenon DEF IInv

\* sched(): a process leaves its CPU.
LEMMA SchedStep ==
  ASSUME IInv, NEW c \in CPU, NEW p \in Proc, sched(c, p)
  PROVE  IInv'
<1>t. TypeOK
  BY Zenon DEF IInv
<1>1. /\ cpu[c] = p /\ (c = cpu0 => clk = None) /\ th[p].pc = "sched"
      /\ UNCHANGED <<state, chan, parent, killed, wait_lock, tickslock, clk>>
  BY Zenon DEF sched, Runs
<1>2. /\ cpu'[c] = None /\ \A d \in CPU \ {c} : cpu'[d] = cpu[d]
      /\ lock'[p] = None /\ \A q \in Proc \ {p} : lock'[q] = lock[q]
      /\ th'[p].pc = "resume" /\ th'[p].next = th[p].next /\ th'[p].np = th[p].np
      /\ th'[p].n = th[p].n /\ th'[p].todo = th[p].todo
      /\ \A q \in Proc \ {p} : th'[q] = th[q]
  BY <1>t DEF sched, TypeOK
<1>10. TypeOK'
  <2>1. th' \in [Proc -> Thread]
    <3>1. /\ th'[p] = [th[p] EXCEPT !.pc = "resume"] /\ th' = [q \in Proc |-> th'[q]]
          /\ th[p] \in Thread
      BY <1>t, ZenonT(40) DEF TypeOK, sched
    <3>2. "resume" \in PC
      BY Zenon DEF PC
    <3>3. th'[p] \in Thread
      BY <3>1, <3>2, ZenonT(40) DEF Thread
    <3> QED BY <1>t, <1>2, <3>1, <3>3 DEF TypeOK
  <2>2. cpu' \in [CPU -> Proc \cup {None}] /\ lock' \in [Proc -> CPU \cup {None}]
    BY <1>t, Zenon DEF TypeOK, sched
  <2> QED BY <1>t, <1>1, <2>1, <2>2, Zenon DEF TypeOK
<1>11. NextInv'
  BY <1>1, <1>2 DEF IInv, NextInv
<1>12. CpuInv'
  BY <1>1, <1>2 DEF IInv, CpuInv
<1>13. WaitInv'
  BY <1>1, <1>2 DEF IInv, TypeOK, WaitInv, WaitPC
<1>14. TickInv'
  BY <1>1, <1>2 DEF IInv, TypeOK, TickInv, Open
<1>15. ForkInv'
  BY <1>1, <1>2 DEF IInv, ForkInv, Forks, Active, Loc
<1>16. InitInv'
  BY <1>1, <1>2 DEF IInv, InitInv, Active, Loc
<1>17. FamilyInv'
  BY <1>1, <1>2 DEF IInv, FamilyInv, Active, Kids, Open
<1>18. WakeInv'
  BY <1>1, <1>2, WakeFrame DEF IInv, WaitPC
<1>19. TickWakeInv'
  BY <1>1, <1>2 DEF IInv, TickWakeInv
<1> QED BY <1>10, <1>11, <1>12, <1>13, <1>14, <1>15, <1>16, <1>17, <1>18, <1>19, Zenon DEF IInv

\* One thread at most is inside wait_lock, and none while it is free.
LEMMA OneWaiter ==
  ASSUME IInv
  PROVE  /\ \A p, q \in Proc : th[p].pc \in WaitPC /\ th[q].pc \in WaitPC => p = q
         /\ \A p \in Proc : th[p].pc \in WaitPC => wait_lock # None
         /\ \A c \in CPU, p \in Proc : cpu[c] = p /\ th[p].pc \in WaitPC => wait_lock = c
<1>1. /\ \A p \in Proc : th[p].pc \in WaitPC => \E c \in CPU : cpu[c] = p /\ wait_lock = c
      /\ \A c, d \in CPU : cpu[c] # None /\ cpu[c] = cpu[d] => c = d
  BY Zenon DEF IInv, WaitInv, CpuInv
<1> QED BY <1>1

\* A program enters exit(), wait() or pause().
LEMMA CallStep ==
  ASSUME IInv, NEW c \in CPU, NEW p \in Proc, NEW l \in {"exit", "wait", "pause"}, Call(c, p, l)
  PROVE  IInv'
<1>t. TypeOK
  BY Zenon DEF IInv
<1>1. /\ cpu[c] = p /\ (c = cpu0 => clk = None) /\ th[p].pc = "user"
      /\ l = "exit" => p # initproc
      /\ UNCHANGED <<state, chan, parent, killed, locks, cpu, clk>>
  BY Zenon DEF Call, Runs
<1>2. /\ th'[p] = At(IF killed[p] THEN "exit" ELSE l)
      /\ \A q \in Proc \ {p} : th'[q] = th[q]
  BY <1>t, Zenon DEF Call, TypeOK
<1>3. /\ state[p] = "RUNNING" /\ lock[p] = None
      /\ th'[p].pc = (IF killed[p] THEN "exit" ELSE l) /\ th'[p].next = "user"
      /\ UNCHANGED <<lock, wait_lock, tickslock>>
  BY <1>1, <1>2 DEF IInv, CpuInv, At, locks
<1>10. TypeOK'
  BY <1>t, <1>2 DEF TypeOK, Thread, PC, At, Call, locks
<1>11. NextInv'
  BY <1>2, <1>3, Zenon DEF IInv, NextInv, Open
<1>12. CpuInv'
  BY <1>1, <1>2, <1>3, CpuFrame, Zenon DEF IInv
<1>13. WaitInv'
  BY <1>t, <1>1, <1>2, <1>3 DEF IInv, TypeOK, WaitInv, WaitPC
<1>14. TickInv'
  BY <1>1, <1>2, <1>3 DEF IInv, TypeOK, TickInv, CpuInv
<1>15. ForkInv'
  BY <1>1, <1>2, <1>3, ForkFrame, Zenon DEF IInv, Active, Loc
<1>16. InitInv'
  BY <1>1, <1>2, <1>3 DEF IInv, TypeOK, InitInv, Active, Loc, Open
<1>17. FamilyInv'
  BY <1>1, <1>2, <1>3, <1>t, FamilyFrame, Zenon DEF IInv, Active, Open
<1>18. WakeInv'
  BY <1>1, <1>2, <1>3, WakeFrame DEF IInv, WaitPC
<1>19. TickWakeInv'
  BY <1>1, <1>2, <1>3, Zenon DEF IInv, TickWakeInv
<1> QED BY <1>10, <1>11, <1>12, <1>13, <1>14, <1>15, <1>16, <1>17, <1>18, <1>19, Zenon DEF IInv

\* kfork(): allocproc() and the copying.
LEMMA ForkStep ==
  ASSUME IInv, NEW c \in CPU, NEW p \in Proc, NEW np \in Proc, kfork(c, p, np)
  PROVE  IInv'
<1>t. TypeOK
  BY Zenon DEF IInv
<1>1. /\ cpu[c] = p /\ (c = cpu0 => clk = None) /\ th[p].pc = "user"
      /\ state[np] = "UNUSED" /\ lock[np] = None
      /\ UNCHANGED <<chan, parent, killed, lock, wait_lock, tickslock, cpu, clk>>
  BY Zenon DEF kfork, Runs, locks
<1>2. /\ p # np /\ state[p] = "RUNNING" /\ \A d \in CPU : cpu[d] # np
      /\ state'[np] = "USED" /\ \A q \in Proc \ {np} : state'[q] = state[q]
      /\ \A q \in Proc \ {p, np} : th'[q] = th[q]
  BY <1>1 DEF kfork, TypeOK, IInv, CpuInv
<1>3. /\ th'[np].pc = "resume" /\ th'[np].next = "user" /\ th[np].pc = "resume"
      /\ th'[p].pc = "fork_parent" /\ th'[p].next = "user" /\ th'[p].np = np
  BY <1>1, <1>2 DEF kfork, TypeOK, IInv, CpuInv, At
<1>4. th' \in [Proc -> Thread]
  <2>1. At("resume") \in Thread /\ [At("fork_parent") EXCEPT !.np = np] \in Thread
    BY DEF At, Thread, PC
  <2> QED BY <2>1, <1>t, Zenon DEF kfork, TypeOK
<1>10. TypeOK'
  BY <1>t, <1>1, <1>4 DEF TypeOK, State, kfork
<1>11. NextInv'
  BY <1>2, <1>3 DEF IInv, NextInv, Open
<1>12. CpuInv'
  BY <1>1, <1>2, <1>3 DEF IInv, CpuInv
<1>13. WaitInv'
  BY <1>1, <1>2, <1>3 DEF IInv, TypeOK, WaitInv, WaitPC
<1>14. TickInv'
  BY <1>t, <1>1, <1>2, <1>3 DEF IInv, TypeOK, TickInv, CpuInv
<1>15. ForkInv'
  BY <1>1, <1>2, <1>3 DEF IInv, ForkInv, Forks, Active, Loc
<1>16. InitInv'
  BY <1>1, <1>2, <1>3 DEF IInv, TypeOK, InitInv, Active, Loc, Open
<1>17. FamilyInv'
  BY <1>1, <1>2, <1>3 DEF IInv, TypeOK, FamilyInv, Active, Kids, WaitPC, Open
<1>18. WakeInv'
  BY <1>t, <1>1, <1>2, <1>3, WakeFrame DEF IInv, WaitPC
<1>19. TickWakeInv'
  BY <1>1, <1>2 DEF IInv, TickWakeInv
<1> QED BY <1>10, <1>11, <1>12, <1>13, <1>14, <1>15, <1>16, <1>17, <1>18, <1>19, Zenon DEF IInv

\* kfork() that fails.
LEMMA ForkFailStep ==
  ASSUME IInv, NEW c \in CPU, NEW p \in Proc, NEW np \in Proc, kfork_fail(c, p, np)
  PROVE  IInv'
<1>t. TypeOK
  BY Zenon DEF IInv
<1>1. /\ UNCHANGED <<state, chan, parent, lock, wait_lock, tickslock, cpu, clk, th>>
  BY Zenon DEF kfork_fail, locks
<1>2. /\ killed'[np] = FALSE /\ \A q \in Proc \ {np} : killed'[q] = killed[q]
  BY <1>t DEF kfork_fail, TypeOK
<1>10. TypeOK'
  BY <1>t, <1>1 DEF TypeOK, kfork_fail
<1>11. NextInv'
  BY <1>1, Zenon DEF IInv, NextInv
<1>12. CpuInv'
  BY <1>1, CpuFrame, Zenon DEF IInv
<1>13. WaitInv'
  BY <1>1, Zenon DEF IInv, WaitInv
<1>14. TickInv'
  BY <1>1, Zenon DEF IInv, TickInv
<1>15. ForkInv'
  BY <1>1, ForkFrame, Zenon DEF IInv, Active, Loc
<1>16. InitInv'
  BY <1>1, <1>2, Zenon DEF IInv, InitInv, Active, Loc
<1>17. FamilyInv'
  BY <1>1, <1>t, FamilyFrame, Zenon DEF IInv, Active
<1>18. WakeInv'
  BY <1>1, WakeFrame, Zenon DEF IInv
<1>19. TickWakeInv'
  BY <1>1, Zenon DEF IInv, TickWakeInv
<1> QED BY <1>10, <1>11, <1>12, <1>13, <1>14, <1>15, <1>16, <1>17, <1>18, <1>19, Zenon DEF IInv

\* kfork(): np->parent = p.
LEMMA ForkParentStep ==
  ASSUME IInv, NEW c \in CPU, NEW p \in Proc, fork_parent(c, p)
  PROVE  IInv'
<1>t. TypeOK
  BY Zenon DEF IInv
<1>1. /\ cpu[c] = p /\ (c = cpu0 => clk = None) /\ th[p].pc = "fork_parent" /\ wait_lock = None
      /\ UNCHANGED <<state, chan, killed, lock, wait_lock, tickslock, cpu, clk>>
  BY Zenon DEF fork_parent, Runs, locks
<1>2. /\ th[p].np \in Proc /\ state[th[p].np] = "USED" /\ state[p] = "RUNNING"
      /\ parent'[th[p].np] = p /\ \A q \in Proc \ {th[p].np} : parent'[q] = parent[q]
      /\ th'[p].pc = "fork_run" /\ th'[p].np = th[p].np /\ th'[p].next = th[p].next /\ th'[p].n = th[p].n
      /\ \A q \in Proc \ {p} : th'[q] = th[q]
  BY <1>1 DEF fork_parent, TypeOK, IInv, ForkInv, Forks, Active, Loc, CpuInv
<1>3. /\ \A q \in Proc : th[q].pc \notin WaitPC
      /\ Forks(p) /\ \A q \in Proc \ {p} : Forks(q) => th[q].np # th[p].np
  BY <1>1, <1>2, OneWaiter DEF IInv, ForkInv, Forks, Active, Loc
<1>10. TypeOK'
  BY <1>t, <1>1, <1>2 DEF TypeOK, Thread, PC, fork_parent
<1>11. NextInv'
  BY <1>2, <1>3, Zenon DEF IInv, NextInv
<1>12. CpuInv'
  BY <1>1, <1>2, <1>3, CpuFrame, Zenon DEF IInv
<1>13. WaitInv'
  BY <1>1, <1>2, <1>3 DEF IInv, WaitInv, WaitPC, Open
<1>14. TickInv'
  BY <1>t, <1>1, <1>2 DEF IInv, TypeOK, TickInv, Open
<1>15. ForkInv'
  <2>1. \A q \in Proc \ {p} : (Forks(q)' <=> Forks(q)) /\ Loc(q)' = Loc(q) /\ th'[q].np = th[q].np
    BY <1>1, <1>2 DEF Forks, Active, Loc
  <2>2. Loc(p)' = "fork_run" /\ th'[p].np = th[p].np
    BY <1>2, Zenon DEF Loc
  <2> QED BY <1>1, <1>2, <1>3, <2>1 DEF IInv, ForkInv
<1>16. InitInv'
  BY <1>1, <1>2 DEF IInv, InitInv, Active, Loc
<1>17. FamilyInv'
  BY <1>1, <1>2 DEF IInv, FamilyInv, Active, Kids
<1>18. WakeInv'
  <2>1. /\ \A q \in Proc : th'[q].pc \notin WaitPC
        /\ \A q \in Proc : Waits(q)' <=> Waits(q)
    BY <1>1, <1>2, <1>3 DEF WaitPC, Waits
  <2>2. ReapInv'
    BY <1>1, <1>2, <2>1 DEF IInv, WakeInv, ReapInv, Waits
  <2> QED BY <2>1, <2>2, Zenon DEF WakeInv, VisitInv, ScanInv, WaitPC
<1>19. TickWakeInv'
  BY <1>1, <1>2 DEF IInv, TickWakeInv
<1> QED BY <1>10, <1>11, <1>12, <1>13, <1>14, <1>15, <1>16, <1>17, <1>18, <1>19, Zenon DEF IInv

\* kfork(): np->state = RUNNABLE.
LEMMA ForkRunStep ==
  ASSUME IInv, NEW c \in CPU, NEW p \in Proc, fork_run(c, p)
  PROVE  IInv'
<1>t. TypeOK
  BY Zenon DEF IInv
<1>1. /\ cpu[c] = p /\ (c = cpu0 => clk = None) /\ th[p].pc = "fork_run"
      /\ UNCHANGED <<chan, parent, killed, lock, wait_lock, tickslock, cpu, clk>>
  BY Zenon DEF fork_run, Runs, locks
<1>2. /\ th[p].np \in Proc /\ state[th[p].np] = "USED" /\ state[p] = "RUNNING"
      /\ parent[th[p].np] = p /\ th[p].np # p
      /\ state'[th[p].np] = "RUNNABLE" /\ \A q \in Proc \ {th[p].np} : state'[q] = state[q]
      /\ th'[p] = At("user")
      /\ \A q \in Proc \ {p} : th'[q] = th[q]
  BY <1>t DEF fork_run, TypeOK, IInv, ForkInv, Forks, Active, Loc, CpuInv
<1>3. /\ th'[p].pc = "user" /\ th'[p].next = "user"
      /\ Loc(th[p].np) = "user" /\ \A d \in CPU : cpu[d] # th[p].np
      /\ \A q \in Proc \ {p} : Forks(q) => th[q].np # th[p].np
      /\ Forks(p)
  <2>1. Forks(p)
    BY <1>1, <1>2, Zenon DEF Forks, Active, Loc
  <2>2. Loc(th[p].np) = "user" /\ \A q \in Proc \ {p} : Forks(q) => th[q].np # th[p].np
    BY <1>2, <2>1, Zenon DEF IInv, ForkInv
  <2>3. \A d \in CPU : cpu[d] # th[p].np
    BY <1>2 DEF IInv, CpuInv
  <2> QED BY <1>2, <2>1, <2>2, <2>3 DEF At
<1>10. TypeOK'
  BY <1>t, <1>1, <1>2 DEF TypeOK, Thread, PC, At, State, fork_run
<1>11. NextInv'
  BY <1>1, <1>2, <1>3 DEF IInv, NextInv, Open
<1>12. CpuInv'
  BY <1>1, <1>2, <1>3 DEF IInv, CpuInv
<1>13. WaitInv'
  BY <1>1, <1>2, <1>3 DEF IInv, TypeOK, WaitInv, WaitPC
<1>14. TickInv'
  BY <1>1, <1>2, <1>3 DEF IInv, TypeOK, TickInv, CpuInv
<1>15. ForkInv'
  <2>1. ~Forks(p)' /\ \A q \in Proc : q = th[p].np => ~Forks(q) /\ ~Forks(q)'
    BY <1>1, <1>2, <1>3 DEF Forks, Loc
  <2>2. \A q \in Proc \ {p, th[p].np} : (Forks(q)' <=> Forks(q)) /\ Loc(q)' = Loc(q)
    BY <1>1, <1>2 DEF Forks, Active, Loc
  <2>3. \A q \in Proc : state'[q] = "USED" => state[q] = "USED" /\ Loc(q)' = Loc(q)
    BY <1>1, <1>2 DEF Loc
  <2>4. \A q \in Proc : Forks(q)' => Forks(q) /\ th'[q] = th[q] /\ Loc(q)' = Loc(q) /\ q # p
    BY <1>2, <2>1, <2>2, Zenon
  <2>5. \A q \in Proc : Forks(q)' => state'[th[q].np] = state[th[q].np]
    BY <1>2, <1>3, <2>4, Zenon DEF IInv, ForkInv
  <2> QED BY <1>1, <2>3, <2>4, <2>5 DEF IInv, ForkInv
<1>16. InitInv'
  BY <1>1, <1>2, <1>3 DEF IInv, InitInv, Active, Loc, Open
<1>17. FamilyInv'
  BY <1>1, <1>2, <1>3 DEF IInv, TypeOK, FamilyInv, Active, Kids, WaitPC, Open
<1>18. WakeInv'
  BY <1>1, <1>2, <1>3, WakeFrame DEF IInv, CpuInv, WaitPC
<1>19. TickWakeInv'
  BY <1>1, <1>2 DEF IInv, TickWakeInv
<1> QED BY <1>10, <1>11, <1>12, <1>13, <1>14, <1>15, <1>16, <1>17, <1>18, <1>19, Zenon DEF IInv

-----------------------------------------------------------------------------
(* Timer interrupts. *)

\* The end of a timer interrupt: the interrupted process exits or yields.
LEMMA YieldStep ==
  ASSUME IInv, NEW c \in CPU, NEW p \in Proc, cpu[c] = p, th[p].pc \in Open,
         yield(c, p), UNCHANGED <<chan, parent, killed, wait_lock, cpu>>,
         \/ UNCHANGED <<clk, tickslock>> /\ (c = cpu0 => clk = None)
         \/ clk = {} /\ c = cpu0 /\ clk' = None /\ tickslock' = None
  PROVE  IInv'
<1>t. TypeOK
  BY Zenon DEF IInv
<1>1. /\ state[p] = "RUNNING" /\ lock[p] = None /\ \A d \in CPU : d # c => cpu[d] # p
      /\ th[p].next \in Open
  <2>1. th[p].pc \notin {"sched", "resume"}
    BY Zenon DEF Open
  <2> QED BY <2>1, RunsAlone, Zenon DEF IInv, NextInv
<1>2. /\ \/ /\ th[p].pc = "user" /\ killed[p] /\ UNCHANGED <<state, lock>>
            /\ th'[p].pc = "exit" /\ th'[p].next = "user"
         \/ /\ lock'[p] = c /\ \A q \in Proc \ {p} : lock'[q] = lock[q]
            /\ state'[p] = "RUNNABLE" /\ \A q \in Proc \ {p} : state'[q] = state[q]
            /\ th'[p].pc = "sched" /\ th'[p].next = th[p].pc
            /\ th'[p].n = th[p].n /\ th'[p].np = th[p].np
      /\ \A q \in Proc \ {p} : th'[q] = th[q]
  BY <1>t DEF yield, TypeOK, Thread, At
<1>3. /\ \A q \in Proc \ {p} : th'[q] = th[q] /\ state'[q] = state[q]
      /\ state'[p] \in {"RUNNING", "RUNNABLE"}
  BY <1>1, <1>2, Zenon
<1>4. Loc(p) = th[p].pc
  BY Zenon DEF Loc, Open
<1>5. \/ Loc(p)' = "exit" /\ Loc(p) = "user" /\ th'[p].pc = "exit"
      \/ Loc(p)' = Loc(p) /\ th'[p].pc = "sched" /\ th'[p].np = th[p].np /\ th'[p].n = th[p].n
  BY <1>2, <1>4, Zenon DEF Loc
<1>10. TypeOK'
  <2>1. th' \in [Proc -> Thread]
    <3>1. th[p] \in Thread /\ At("exit") \in Thread /\ "sched" \in PC /\ th[p].pc \in PC
      BY <1>t DEF TypeOK, At, Thread, PC
    <3>2. [th[p] EXCEPT !.pc = "sched", !.next = th[p].pc] \in Thread
      BY <3>1, ZenonT(40) DEF Thread
    <3>3. /\ \/ th'[p] = At("exit")
             \/ th'[p] = [th[p] EXCEPT !.pc = "sched", !.next = th[p].pc]
          /\ th' = [q \in Proc |-> th'[q]]
      BY <1>t, ZenonT(40) DEF yield, TypeOK
    <3>4. \A q \in Proc : th'[q] \in Thread
      BY <1>t, <1>2, <3>1, <3>2, <3>3 DEF TypeOK
    <3> QED BY <3>3, <3>4, Zenon
  <2>2. state' \in [Proc -> State] /\ lock' \in [Proc -> CPU \cup {None}]
    BY <1>t DEF yield, TypeOK, State
  <2> QED BY <1>t, <2>1, <2>2, Zenon DEF TypeOK
<1>11. NextInv'
  BY <1>2 DEF IInv, NextInv
<1>12. CpuInv'
  BY <1>2 DEF IInv, CpuInv
<1>13. WaitInv'
  BY <1>1, <1>2 DEF IInv, TypeOK, WaitInv, WaitPC, Open
<1>14. TickInv'
  BY <1>t, <1>1, <1>2 DEF IInv, TypeOK, TickInv, Open
<1>15. ForkInv'
  <2>3. \A q \in Proc \ {p} : (Forks(q)' <=> Forks(q)) /\ Loc(q)' = Loc(q) /\ th'[q].np = th[q].np
    BY <1>3 DEF Forks, Active, Loc
  <2>4. \A q \in Proc : state'[q] = "USED" <=> state[q] = "USED"
    BY <1>1, <1>3, Zenon
  <2>5. state[p] # "USED"
    BY <1>1, Zenon
  <2>1. CASE Loc(p)' = "exit" /\ Loc(p) = "user"
    <3>1. ~Forks(p) /\ ~Forks(p)'
      BY <2>1, Zenon DEF Forks
    <3> QED BY <2>3, <2>4, <2>5, <3>1 DEF IInv, ForkInv
  <2>2. CASE Loc(p)' = Loc(p) /\ th'[p].np = th[p].np
    <3>1. Forks(p)' <=> Forks(p)
      BY <1>1, <1>3, <2>2, Zenon DEF Forks, Active
    <3> QED BY <2>2, <2>3, <2>4, <2>5, <3>1 DEF IInv, ForkInv
  <2> QED BY <1>5, <2>1, <2>2, Zenon
<1>16. InitInv'
  BY <1>2 DEF IInv, InitInv, Active, Loc
<1>17. FamilyInv'
  <2>1. \A q \in Proc : parent[q] \in Proc \cup {None} /\ (Active(q)' <=> Active(q))
    BY <1>t, <1>1, <1>3 DEF TypeOK, Active
  <2>2. \A q \in Proc : Kids(q)' = Kids(q)
    BY Zenon DEF Kids
  <2>3. \A q \in Proc : parent'[q] # None => Active(parent[q])'
    BY <1>1, <1>3, <2>1, Zenon DEF IInv, FamilyInv, Active
  <2>4. \A q \in Proc \ {initproc} : state'[q] \notin {"UNUSED", "USED"} => parent'[q] # None
    BY <1>1, <1>3, Zenon DEF IInv, FamilyInv
  <2>5. \A q \in Proc : th'[q].pc \in {"reparent", "wakeup", "zombie"} => th[q].pc = th'[q].pc
    BY <1>3, <1>5, Zenon
  <2> QED BY <2>2, <2>3, <2>4, <2>5, Zenon DEF IInv, FamilyInv
<1>18. WakeInv'
  BY <1>t, <1>2, WakeFrame DEF IInv, WaitPC, Open
<1>19. TickWakeInv'
  BY <1>1, <1>2 DEF IInv, TickWakeInv
<1> QED BY <1>10, <1>11, <1>12, <1>13, <1>14, <1>15, <1>16, <1>17, <1>18, <1>19, Zenon DEF IInv

\* clockintr() begins: a tick passes.
LEMMA ClockStep ==
  ASSUME IInv, NEW p \in Proc \cup {None}, clockintr(p)
  PROVE  IInv'
<1>t. TypeOK
  BY Zenon DEF IInv
<1>1. /\ clk = None /\ tickslock = None /\ cpu[cpu0] = p /\ (p # None => th[p].pc \in Open)
      /\ tickslock' = cpu0 /\ clk' = Proc \ {p} /\ clk' # None
      /\ UNCHANGED <<state, chan, parent, killed, lock, wait_lock, cpu>>
  BY Zenon DEF clockintr
<1>2. /\ \A q \in Proc : /\ th'[q].pc = th[q].pc /\ th'[q].todo = th[q].todo
                       /\ th'[q].np = th[q].np /\ th'[q].next = th[q].next
                       /\ th'[q].n = (IF th[q].n = 0 THEN 0 ELSE th[q].n - 1)
  BY <1>t DEF clockintr, TypeOK, Thread
<1>3. /\ p # None => state[p] = "RUNNING"
      /\ \A q \in Proc : th[q].pc # "pause_sleep"
  BY <1>1 DEF IInv, CpuInv, TickInv, Open
<1>10. TypeOK'
  <2>1. ASSUME NEW q \in Proc PROVE th'[q] \in Thread
    <3> DEFINE m == IF th[q].n = 0 THEN 0 ELSE th[q].n - 1
    <3>1. th[q] \in Thread /\ th[q].n \in 0..MaxPause
      BY <1>t, Zenon DEF TypeOK, Thread
    <3>2. m \in 0..MaxPause
      BY <3>1
    <3>3. th'[q] = [th[q] EXCEPT !.n = m]
      BY Zenon DEF clockintr
    <3> HIDE DEF m
    <3> QED BY <3>1, <3>2, <3>3, Zenon DEF Thread
  <2>2. th' \in [Proc -> Thread]
    BY <2>1, Zenon DEF clockintr
  <2> QED BY <1>t, <1>1, <2>2, Zenon DEF TypeOK
<1>11. NextInv'
  BY <1>2, Zenon DEF IInv, NextInv
<1>12. CpuInv'
  BY <1>1, <1>2, <1>3, CpuFrame, Zenon DEF IInv
<1>13. WaitInv'
  BY <1>1, <1>2 DEF IInv, TypeOK, WaitInv, WaitPC
<1>14. TickInv'
  BY <1>1, <1>2 DEF IInv, TickInv
<1>15. ForkInv'
  BY <1>1, <1>2, ForkFrame, Zenon DEF IInv, Active, Loc
<1>16. InitInv'
  BY <1>1, <1>2, <1>3, Zenon DEF IInv, InitInv, Active, Loc
<1>17. FamilyInv'
  BY <1>1, <1>2, <1>t, FamilyFrame, Zenon DEF IInv, Active, Open
<1>18. WakeInv'
  BY <1>1, <1>2, WakeFrame, Zenon DEF IInv
<1>19. TickWakeInv'
  BY <1>1, <1>3, Zenon DEF IInv, TickWakeInv
<1> QED BY <1>10, <1>11, <1>12, <1>13, <1>14, <1>15, <1>16, <1>17, <1>18, <1>19, Zenon DEF IInv

\* One turn of the loop of wakeup(&ticks).
LEMMA WakeupTicksStep ==
  ASSUME IInv, NEW q \in Proc, wakeup_ticks(q)
  PROVE  IInv'
<1>t. TypeOK
  BY Zenon DEF IInv
<1>1. /\ clk # None /\ q \in clk /\ lock[q] = None /\ clk' = clk \ {q}
      /\ UNCHANGED <<chan, parent, killed, lock, wait_lock, tickslock, cpu, th>>
  BY Zenon DEF wakeup_ticks, locks
<1>2. /\ state'[q] = (IF state[q] = "SLEEPING" /\ chan[q] = "ticks" THEN "RUNNABLE" ELSE state[q])
      /\ \A x \in Proc \ {q} : state'[x] = state[x]
  BY <1>t, Zenon DEF wakeup_ticks, TypeOK
<1>3. clk \in SUBSET Proc /\ clk' # None
  <2>1. clk \in SUBSET Proc
    BY <1>t, <1>1, Zenon DEF TypeOK
  <2>2. clk \ {q} \in SUBSET Proc
    BY <2>1, Zenon
  <2> QED BY <1>1, <2>2, Zenon
<1>10. TypeOK'
  BY <1>t, <1>1 DEF TypeOK, State, wakeup_ticks
<1>11. NextInv'
  BY <1>1, <1>3, Zenon DEF IInv, NextInv
<1>12. CpuInv'
  BY <1>1, <1>2, CpuFrame, Zenon DEF IInv
<1>13. WaitInv'
  BY <1>1, <1>3, Zenon DEF IInv, WaitInv, WaitPC
<1>14. TickInv'
  BY <1>1, <1>3, Zenon DEF IInv, TickInv, Open
<1>15. ForkInv'
  BY <1>1, <1>2, ForkFrame, Zenon DEF IInv, Active, Loc
<1>16. InitInv'
  BY <1>1, <1>2, Zenon DEF IInv, InitInv, Active, Loc
<1>17. FamilyInv'
  BY <1>1, <1>2, <1>t, FamilyFrame, Zenon DEF IInv, Active, WaitPC
<1>18. WakeInv'
  BY <1>1, <1>2, <1>3, WakeFrame, Zenon DEF IInv
<1>19. TickWakeInv'
  BY <1>1, <1>2, <1>3, Zenon DEF IInv, TickWakeInv
<1> QED BY <1>10, <1>11, <1>12, <1>13, <1>14, <1>15, <1>16, <1>17, <1>18, <1>19, Zenon DEF IInv

\* clockintr() ends on a CPU without a process.
LEMMA ClockIdleStep ==
  ASSUME IInv, clk = {}, cpu[cpu0] = None, tickslock' = None, clk' = None,
         UNCHANGED <<state, chan, parent, killed, lock, wait_lock, cpu, th>>
  PROVE  IInv'
<1>t. TypeOK /\ {} # None
  BY Zenon DEF IInv
<1>1. tickslock = cpu0
  BY Zenon DEF IInv, TickInv
<1>2. TypeOK' /\ NextInv' /\ InitInv'
  BY Zenon DEF IInv, TypeOK, NextInv, InitInv, Active, Loc
<1>7. CpuInv'
  BY CpuFrame, Zenon DEF IInv
<1>8. WaitInv'
  BY Zenon DEF IInv, WaitInv
<1>3. TickInv'
  BY DEF IInv, TickInv
<1>4. ForkInv'
  BY ForkFrame, Zenon DEF IInv, Active, Loc
<1>9. FamilyInv'
  BY <1>t, FamilyFrame, Zenon DEF IInv, Active
<1>5. WakeInv'
  BY WakeFrame, Zenon DEF IInv
<1>6. TickWakeInv'
  BY Zenon DEF IInv, TickWakeInv
<1> QED BY <1>2, <1>3, <1>4, <1>5, <1>6, <1>7, <1>8, <1>9, Zenon DEF IInv

\* A timer interrupt of any CPU.
LEMMA TimerStep ==
  ASSUME IInv, NEW c \in CPU, NEW p \in Proc \cup {None}, Timer(c, p)
  PROVE  IInv'
<1>1. CASE devintr(c, p)
  BY <1>1, YieldStep, Zenon DEF devintr, Runs
<1>2. CASE clockintr(p)
  BY <1>2, ClockStep, Zenon
<1>3. CASE c = cpu0 /\ clockintr_end(p)
  <2>1. {} # None /\ clk = {} /\ cpu[cpu0] = p /\ tickslock' = None /\ clk' = None
    BY <1>3, Zenon DEF clockintr_end
  <2>2. CASE p = None
    BY <1>3, <2>2, ClockIdleStep, Zenon DEF clockintr_end
  <2>3. CASE p # None
    <3>1. th[p].pc \in Open
      BY <2>1, <2>3, Zenon DEF IInv, TickInv
    <3>2. yield(cpu0, p) /\ UNCHANGED <<chan, parent, killed, wait_lock, cpu>>
      BY <1>3, <2>3, Zenon DEF clockintr_end
    <3> QED BY <2>1, <2>3, <3>1, <3>2, YieldStep, Zenon
  <2> QED BY <2>2, <2>3, Zenon
<1> QED BY <1>1, <1>2, <1>3, Zenon DEF Timer

-----------------------------------------------------------------------------
(* kexit() *)

\* A thread that moves on in a loop over the table is a thread.
LEMMA MovedType ==
  ASSUME TypeOK, NEW p \in Proc, NEW l \in PC, NEW t \in SUBSET Proc,
         th' = [q \in Proc |-> th'[q]], \A q \in Proc \ {p} : th'[q] = th[q],
         th'[p] = [th[p] EXCEPT !.pc = l, !.todo = t]
  PROVE  th' \in [Proc -> Thread]
<1>1. \A q \in Proc : th[q] \in Thread
  BY Zenon DEF TypeOK
<1>2. th'[p] \in Thread
  BY <1>1, ZenonT(40) DEF Thread
<1>3. \A q \in Proc : th'[q] \in Thread
  BY <1>1, <1>2, Zenon
<1> QED BY <1>3, Zenon

\* kexit(): reparent().
LEMMA ReparentStep ==
  ASSUME IInv, NEW c \in CPU, NEW p \in Proc, reparent(c, p)
  PROVE  IInv'
<1>t. TypeOK
  BY Zenon DEF IInv
<1>1. /\ cpu[c] = p /\ (c = cpu0 => clk = None) /\ th[p].pc = "exit"
      /\ wait_lock = None /\ wait_lock' = c
      /\ UNCHANGED <<state, chan, killed, lock, tickslock, cpu, clk>>
  BY Zenon DEF reparent, Runs
<1>2. /\ \A q \in Proc : parent'[q] = (IF parent[q] = p THEN initproc ELSE parent[q])
      /\ th'[p].pc = (IF Kids(p) = {} THEN "wakeup" ELSE "reparent") /\ th'[p].todo = Proc \ {p}
      /\ th'[p].np = th[p].np /\ th'[p].next = th[p].next /\ th'[p].n = th[p].n
      /\ \A q \in Proc \ {p} : th'[q] = th[q]
  BY <1>t DEF reparent, TypeOK, Thread
<1>3. /\ state[p] = "RUNNING" /\ lock[p] = None
      /\ \A d \in CPU : d # c => cpu[d] # p
      /\ \A q \in Proc : th[q].pc \notin WaitPC
      /\ p # initproc
      /\ \A q \in Proc \ {p} : th'[q].pc \notin WaitPC
  <2>1. state[p] = "RUNNING" /\ lock[p] = None /\ \A d \in CPU : d # c => cpu[d] # p
    BY <1>1 DEF IInv, CpuInv
  <2>2. \A q \in Proc : th[q].pc \notin WaitPC
    BY <1>1, OneWaiter, Zenon
  <2>3. p # initproc
    BY <1>1, Zenon DEF IInv, InitInv, Loc
  <2> QED BY <1>2, <2>1, <2>2, <2>3, Zenon
<1>4. /\ th'[p].pc \in {"reparent", "wakeup"}
      /\ th'[p].np = th[p].np /\ th'[p].next = th[p].next /\ th'[p].n = th[p].n
      /\ \A q \in Proc \ {p} : th'[q] = th[q]
  BY <1>2, Zenon
<1>10. TypeOK'
  <2> DEFINE l == IF Kids(p) = {} THEN "wakeup" ELSE "reparent"
  <2>1. th'[p] = [th[p] EXCEPT !.pc = l, !.todo = Proc \ {p}] /\ th' = [q \in Proc |-> th'[q]]
    BY <1>t, ZenonT(40) DEF reparent, TypeOK
  <2>2. l \in PC /\ Proc \ {p} \in SUBSET Proc
    BY Zenon DEF PC
  <2> HIDE DEF l
  <2>3. th' \in [Proc -> Thread]
    BY <1>t, <1>2, <2>1, <2>2, MovedType, ZenonT(40)
  <2>4. parent' \in [Proc -> Proc \cup {None}]
    BY <1>t, Zenon DEF reparent, TypeOK
  <2> QED BY <1>t, <1>1, <2>3, <2>4, Zenon DEF TypeOK
<1>11. NextInv'
  BY <1>4, Zenon DEF IInv, NextInv
<1>12. CpuInv'
  BY <1>1, <1>3, <1>4, CpuFrame, Zenon DEF IInv
<1>13. WaitInv'
  BY <1>1, <1>3, <1>4, Zenon DEF WaitInv, WaitPC
<1>14. TickInv'
  <2>1. tickslock # c \/ clk # None
    BY <1>1, Zenon DEF IInv, TickInv
  <2>2. cpu \in [CPU -> Proc \cup {None}] /\ tickslock \in CPU \cup {None}
    BY <1>t, Zenon DEF TypeOK
  <2> QED BY <1>1, <1>3, <1>4, <2>1, <2>2 DEF IInv, TickInv
<1>15. ForkInv'
  <2>1. \A q \in Proc \ {p} : (Forks(q)' <=> Forks(q)) /\ Loc(q)' = Loc(q) /\ th'[q].np = th[q].np
    BY <1>1, <1>4 DEF Forks, Active, Loc
  <2>2. ~Forks(p)' /\ ~Forks(p)
    BY <1>1, <1>4, Zenon DEF Forks, Loc
  <2>3. \A q \in Proc \ {p} : parent[th[q].np] = q /\ th[q].np \in Proc => parent'[th[q].np] = q
    BY <1>2, Zenon
  <2>4. state[p] # "USED"
    BY <1>3, Zenon
  <2> QED BY <1>1, <2>1, <2>2, <2>3, <2>4 DEF IInv, ForkInv
<1>16. InitInv'
  BY <1>1, <1>3, <1>4 DEF IInv, InitInv, Active, Loc
<1>17. FamilyInv'
  <2>1. Active(initproc) /\ \A q \in Proc : parent[q] # None => Active(parent[q])
    BY Zenon DEF IInv, InitInv, FamilyInv
  <2>2. \A q \in Proc : parent'[q] # None => Active(parent[q])'
    BY <1>1, <1>2, <2>1 DEF Active
  <2>3. \A q \in Proc \ {initproc} : state'[q] \notin {"UNUSED", "USED"} => parent'[q] # None
    BY <1>1, <1>2 DEF IInv, FamilyInv
  <2>4. Kids(p)' = {}
    BY <1>2, <1>3 DEF Kids
  <2> QED BY <1>3, <2>2, <2>3, <2>4, Zenon DEF FamilyInv, WaitPC
<1>18. WakeInv'
  <2>1. \A q \in Proc : (Waits(q)' <=> Waits(q)) /\ ~(Waits(parent[q]) /\ state[q] = "ZOMBIE")
    BY <1>1, <1>3, Zenon DEF IInv, WakeInv, ReapInv, WaitPC, Waits
  <2>2. ReapInv'
    <3> SUFFICES ASSUME NEW q \in Proc, Waits(parent[q])', state'[q] = "ZOMBIE"
                 PROVE  /\ parent'[q] = initproc
                        /\ \E r \in Proc : th'[r].pc = "reparent" /\ initproc \in th'[r].todo
      BY Zenon DEF ReapInv
    <3>1. parent'[q] # parent[q]
      BY <1>1, <2>1 DEF Waits
    <3>2. parent[q] = p /\ parent'[q] = initproc
      BY <1>2, <3>1, Zenon
    <3>3. th'[p].pc = "reparent" /\ initproc \in th'[p].todo
      BY <1>2, <1>3, <3>2, Zenon DEF Kids
    <3> QED BY <3>2, <3>3, Zenon
  <2>3. VisitInv'
    <3> SUFFICES ASSUME NEW q \in Proc, th'[q].pc \in {"wakeup", "zombie"}, Waits(parent[q])'
                 PROVE  th'[q].pc = "wakeup" /\ parent'[q] \in th'[q].todo
      BY Zenon DEF VisitInv
    <3>1. q = p
      BY <1>3, Zenon DEF WaitPC
    <3>2. th'[p].pc = "wakeup" /\ Kids(p) = {}
      BY <1>2, <3>1, Zenon
    <3>3. parent'[p] \in Proc /\ parent'[p] # p
      BY <1>2, <3>1, <1>10 DEF Kids, Waits, TypeOK
    <3> QED BY <1>2, <3>1, <3>3, Zenon
  <2>4. ScanInv'
    BY <1>3, <1>4, Zenon DEF ScanInv, WaitPC
  <2> QED BY <2>2, <2>3, <2>4, Zenon DEF WakeInv
<1>19. TickWakeInv'
  BY <1>1, <1>4 DEF IInv, TickWakeInv
<1> QED BY <1>10, <1>11, <1>12, <1>13, <1>14, <1>15, <1>16, <1>17, <1>18, <1>19, Zenon DEF IInv

\* kexit(): one turn of the loop of wakeup().
LEMMA WakeupStep ==
  ASSUME IInv, NEW c \in CPU, NEW p \in Proc, NEW q \in Proc, wakeup(c, p, q)
  PROVE  IInv'
<1>t. TypeOK
  BY Zenon DEF IInv
<1>1. /\ cpu[c] = p /\ (c = cpu0 => clk = None) /\ th[p].pc \in {"reparent", "wakeup"}
      /\ q \in th[p].todo /\ lock[q] = None
      /\ UNCHANGED <<chan, parent, killed, lock, wait_lock, tickslock, cpu, clk>>
  BY Zenon DEF wakeup, Runs, locks
<1>2. /\ state'[q] = (IF /\ state[q] = "SLEEPING"
                        /\ chan[q] = (IF th[p].pc = "reparent" THEN initproc ELSE parent[p])
                     THEN "RUNNABLE" ELSE state[q])
      /\ \A x \in Proc \ {q} : state'[x] = state[x]
      /\ \/ /\ th[p].todo # {q} /\ th'[p].pc = th[p].pc /\ th'[p].todo = th[p].todo \ {q}
         \/ /\ th[p].todo = {q} /\ th[p].pc = "reparent"
            /\ th'[p].pc = "wakeup" /\ th'[p].todo = Proc \ {p}
         \/ /\ th[p].todo = {q} /\ th[p].pc = "wakeup" /\ th'[p].pc = "zombie"
      /\ th'[p].np = th[p].np /\ th'[p].next = th[p].next /\ th'[p].n = th[p].n
      /\ \A x \in Proc \ {p} : th'[x] = th[x]
  BY <1>t DEF wakeup, TypeOK
<1>3. /\ state[p] = "RUNNING" /\ lock[p] = None
      /\ \A d \in CPU : d # c => cpu[d] # p
      /\ wait_lock = c /\ \A x \in Proc \ {p} : th[x].pc \notin WaitPC
      /\ p # initproc /\ Kids(p) = {}
  <2>1. state[p] = "RUNNING" /\ lock[p] = None /\ \A d \in CPU : d # c => cpu[d] # p
    BY <1>1, RunsAlone, Zenon
  <2>2. wait_lock = c /\ \A x \in Proc \ {p} : th[x].pc \notin WaitPC
    BY <1>1, OneWaiter, Zenon DEF WaitPC
  <2>3. p # initproc /\ Kids(p) = {}
    BY <1>1, Zenon DEF IInv, InitInv, Loc, FamilyInv
  <2> QED BY <2>1, <2>2, <2>3, Zenon
<1>4. /\ \A x \in Proc : state'[x] = state[x] \/ (state[x] = "SLEEPING" /\ state'[x] = "RUNNABLE")
      /\ state'[p] = state[p]
  BY <1>2, <1>3, Zenon
<1>5. /\ th'[p].pc \in {"reparent", "wakeup", "zombie"}
      /\ th'[p].np = th[p].np /\ th'[p].next = th[p].next /\ th'[p].n = th[p].n
      /\ \A x \in Proc \ {p} : th'[x] = th[x]
  BY <1>1, <1>2, Zenon
<1>6. \A x \in Proc : th'[x].np = th[x].np /\ (Active(x)' <=> Active(x)) /\ (Loc(x)' = Loc(x) \/ x = p)
  BY <1>4, <1>5 DEF Active, Loc
<1>10. TypeOK'
  <2> DEFINE l == IF th[p].todo # {q} THEN th[p].pc
                  ELSE IF th[p].pc = "reparent" THEN "wakeup" ELSE "zombie"
             t == IF th[p].todo = {q} /\ th[p].pc = "reparent" THEN Proc \ {p} ELSE th[p].todo \ {q}
  <2>1. th'[p] = [th[p] EXCEPT !.pc = l, !.todo = t] /\ th' = [x \in Proc |-> th'[x]]
    BY <1>t, ZenonT(40) DEF wakeup, TypeOK
  <2>2. l \in PC /\ t \in SUBSET Proc
    BY <1>t, Zenon DEF PC, TypeOK, Thread
  <2> HIDE DEF l, t
  <2>3. th' \in [Proc -> Thread]
    BY <1>t, <1>2, <2>1, <2>2, MovedType, ZenonT(40)
  <2>4. state' \in [Proc -> State]
    BY <1>t, Zenon DEF wakeup, TypeOK, State
  <2> QED BY <1>t, <1>1, <2>3, <2>4, Zenon DEF TypeOK
<1>11. NextInv'
  BY <1>5, Zenon DEF IInv, NextInv
<1>12. CpuInv'
  BY <1>1, <1>4, <1>5, CpuFrame, Zenon DEF IInv
<1>13. WaitInv'
  BY <1>1, <1>3, <1>5 DEF WaitInv, WaitPC
<1>14. TickInv'
  <2>1. \A x \in Proc : x # p => th'[x] = th[x]
    BY <1>5, Zenon
  <2>2. tickslock # c \/ clk # None
    BY <1>1, Zenon DEF IInv, TickInv, WaitPC
  <2>3. cpu \in [CPU -> Proc \cup {None}] /\ tickslock \in CPU \cup {None}
    BY <1>t, Zenon DEF TypeOK
  <2> QED BY <1>1, <1>3, <1>5, <2>1, <2>2, <2>3 DEF IInv, TickInv
<1>15. ForkInv'
  <2>1. Loc(p) \notin {"fork_parent", "fork_run"} /\ Loc(p)' \notin {"fork_parent", "fork_run"}
    BY <1>1, <1>5, Zenon DEF Loc
  <2>2. \A x \in Proc : (state'[x] = "USED" <=> state[x] = "USED") /\ state[p] # "USED"
    BY <1>3, <1>4, Zenon
  <2>3. UNCHANGED parent
    BY <1>1, Zenon
  <2> QED BY <1>6, <2>1, <2>2, <2>3, ForkFrame, Zenon DEF IInv
<1>16. InitInv'
  BY <1>1, <1>3, <1>6, Zenon DEF IInv, InitInv
<1>17. FamilyInv'
  <2>1. \A x \in Proc : parent[x] \in Proc \cup {None}
    BY <1>t, Zenon DEF TypeOK
  <2>2. \A x \in Proc : parent'[x] # None => Active(parent[x])'
    BY <1>1, <1>4, <2>1, Zenon DEF IInv, FamilyInv, Active
  <2>3. \A x \in Proc \ {initproc} : state'[x] \notin {"UNUSED", "USED"} => parent'[x] # None
    BY <1>1, <1>4, Zenon DEF IInv, FamilyInv
  <2>4. \A x \in Proc : th'[x].pc \in {"reparent", "wakeup", "zombie"} => Kids(x)' = {}
    BY <1>1, <1>3, <1>5 DEF Kids, WaitPC
  <2> QED BY <2>2, <2>3, <2>4, Zenon DEF FamilyInv
<1>18. WakeInv'
  <2> DEFINE on == IF th[p].pc = "reparent" THEN initproc ELSE parent[p]
  <2>1. \A x \in Proc : Waits(x)' => Waits(x) /\ ~(x = q /\ x = on)
    BY <1>1, <1>2 DEF Waits
  <2>2. \A x \in Proc \ {p} : th'[x].pc \notin WaitPC /\ th[x].pc \notin WaitPC
    BY <1>3, <1>5, Zenon
  <2>3. \A x \in Proc : parent[x] \in Proc \cup {None}
    BY <1>t, Zenon DEF TypeOK
  <2>4. ReapInv'
    <3> SUFFICES ASSUME NEW x \in Proc, Waits(parent[x])', state'[x] = "ZOMBIE"
                 PROVE  /\ parent[x] = initproc
                        /\ th'[p].pc = "reparent" /\ initproc \in th'[p].todo
      BY <1>1, Zenon DEF ReapInv
    <3>1. parent[x] \in Proc /\ Waits(parent[x]) /\ state[x] = "ZOMBIE"
      BY <1>1, <1>4, <2>3, Zenon DEF Waits
    <3>2. parent[x] = initproc /\ th[p].pc = "reparent" /\ initproc \in th[p].todo
      BY <2>2, <3>1, Zenon DEF IInv, WakeInv, ReapInv, WaitPC
    <3>3. q # initproc
      BY <2>1, <3>2, <1>1, Zenon
    <3> QED BY <1>2, <3>2, <3>3, Zenon
  <2>5. VisitInv'
    <3> SUFFICES ASSUME NEW x \in Proc, th'[x].pc \in {"wakeup", "zombie"}, Waits(parent[x])'
                 PROVE  th'[x].pc = "wakeup" /\ parent[x] \in th'[x].todo
      BY <1>1, Zenon DEF VisitInv
    <3>1. x = p
      BY <2>2, Zenon DEF WaitPC
    <3>2. parent[p] \in Proc /\ Waits(parent[p]) /\ parent[p] # p
      BY <1>1, <1>3, <2>1, <2>3, <3>1 DEF Waits
    <3>3. CASE th[p].pc = "reparent"
      BY <1>2, <3>1, <3>2, <3>3, Zenon
    <3>4. CASE th[p].pc = "wakeup"
      <4>1. parent[p] \in th[p].todo /\ parent[p] # q
        BY <1>1, <2>1, <3>1, <3>2, <3>4, Zenon DEF IInv, WakeInv, VisitInv
      <4> QED BY <1>2, <3>1, <3>4, <4>1
    <3> QED BY <1>1, <3>3, <3>4, Zenon
  <2>6. ScanInv'
    BY <1>1, <1>5, <2>2, Zenon DEF ScanInv, WaitPC
  <2> QED BY <2>4, <2>5, <2>6, Zenon DEF WakeInv
<1>19. TickWakeInv'
  BY <1>1, <1>4, <1>5 DEF IInv, TickWakeInv
<1> QED BY <1>10, <1>11, <1>12, <1>13, <1>14, <1>15, <1>16, <1>17, <1>18, <1>19, Zenon DEF IInv

=============================================================================
