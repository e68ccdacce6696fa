----------------------------- MODULE ProcProofs -----------------------------
(***************************************************************************)
(* Proofs about the process table, for any number of slots and CPUs:       *)
(* exit, wait, kill and pause keep the invariant of ProcSteps, so every    *)
(* step does, and the four safety properties follow from it.               *)
(***************************************************************************)
EXTENDS ProcSteps

USE ProcAssumption

-----------------------------------------------------------------------------
\* kexit(): the process becomes a zombie.
LEMMA ExitStep ==
  ASSUME IInv, NEW c \in CPU, NEW p \in Proc, kexit(c, p)
  PROVE  IInv'
<1>t. TypeOK
  BY Zenon DEF IInv
<1>1. /\ cpu[c] = p /\ (c = cpu0 => clk = None) /\ th[p].pc = "zombie"
      /\ wait_lock' = None
      /\ UNCHANGED <<chan, parent, killed, tickslock, cpu, clk>>
  BY Zenon DEF kexit, Runs
<1>2. /\ lock'[p] = c /\ \A q \in Proc \ {p} : lock'[q] = lock[q]
      /\ state'[p] = "ZOMBIE" /\ \A q \in Proc \ {p} : state'[q] = state[q]
      /\ th'[p].pc = "sched" /\ th'[p].todo = th[p].todo
      /\ th'[p].np = th[p].np /\ th'[p].next = th[p].next /\ th'[p].n = th[p].n
      /\ \A q \in Proc \ {p} : th'[q] = th[q]
  BY <1>t DEF kexit, TypeOK, Thread
<1>3. /\ state[p] = "RUNNING" /\ lock[p] = None
      /\ \A d \in CPU : d # c => cpu[d] # p
      /\ wait_lock = c /\ \A q \in Proc \ {p} : th[q].pc \notin WaitPC
      /\ p # initproc /\ Kids(p) = {}
  BY <1>1, OneWaiter DEF IInv, CpuInv, WaitPC, InitInv, Loc, FamilyInv
<1>10. TypeOK'
  <2>1. th[p] \in Thread /\ "sched" \in PC
    BY <1>t, Zenon DEF TypeOK, PC
  <2>2. [th[p] EXCEPT !.pc = "sched"] \in Thread
    BY <2>1, Zenon DEF Thread
  <2>3. th' \in [Proc -> Thread]
    BY <1>t, <2>2, Zenon DEF TypeOK, kexit
  <2>4. state' \in [Proc -> State] /\ lock' \in [Proc -> CPU \cup {None}]
    BY <1>t, Zenon DEF TypeOK, State, kexit
  <2> QED BY <1>t, <1>1, <2>3, <2>4 DEF TypeOK
<1>11. NextInv'
  BY <1>2, Zenon DEF IInv, NextInv
<1>12. CpuInv'
  BY <1>1, <1>2, <1>3 DEF IInv, CpuInv
<1>13. WaitInv'
  BY <1>1, <1>2 DEF IInv, WaitInv, WaitPC
<1>14. TickInv'
  BY <1>t, <1>1, <1>2, <1>3 DEF IInv, TypeOK, TickInv
<1>15. ForkInv'
  BY <1>1, <1>2, <1>3 DEF IInv, ForkInv, Forks, Active, Loc, Open
<1>16. InitInv'
  BY <1>1, <1>2 DEF IInv, InitInv, Active, Loc
<1>17. FamilyInv'
  BY <1>1, <1>2, <1>3 DEF IInv, TypeOK, FamilyInv, Active, Kids, WaitPC
<1>18. WakeInv'
  <2>1. \A x \in Proc : th'[x].pc \notin WaitPC
    BY <1>2, <1>3 DEF WaitPC
  <2>2. \A x \in Proc : Waits(x)' => Waits(x)
    BY <1>1, <1>2, Zenon DEF Waits
  <2>3. ReapInv'
    <3> SUFFICES ASSUME NEW x \in Proc, Waits(parent[x])', state'[x] = "ZOMBIE"
                 PROVE  FALSE
      BY Zenon DEF ReapInv
    <3>1. parent[x] \in Proc /\ Waits(parent[x])
      BY <1>t, <1>1, <2>2 DEF Waits, TypeOK
    <3>2. CASE x = p
      BY <1>1, <3>1, <3>2, Zenon DEF IInv, WakeInv, VisitInv
    <3>3. CASE x # p
      BY <1>1, <1>2, <1>3, <3>1, <3>3 DEF IInv, WakeInv, ReapInv, WaitPC
    <3> QED BY <3>2, <3>3, Zenon
  <2> QED BY <2>1, <2>3, Zenon DEF WakeInv, VisitInv, ScanInv, WaitPC
<1>19. TickWakeInv'
  BY <1>1, <1>2 DEF IInv, TickWakeInv
<1> QED BY <1>10, <1>11, <1>12, <1>13, <1>14, <1>15, <1>16, <1>17, <1>18, <1>19, Zenon DEF IInv

-----------------------------------------------------------------------------
(* kwait(), sleep(), kkill() *)

\* kwait(): the scan begins.
LEMMA WaitStep ==
  ASSUME IInv, NEW c \in CPU, NEW p \in Proc, kwait(c, p)
  PROVE  IInv'
<1>t. TypeOK
  BY Zenon DEF IInv
<1>1. /\ cpu[c] = p /\ (c = cpu0 => clk = None) /\ th[p].pc = "wait"
      /\ wait_lock = None /\ wait_lock' = c
      /\ UNCHANGED <<state, chan, parent, killed, lock, tickslock, cpu, clk>>
  BY Zenon DEF kwait, Runs
<1>2. /\ th'[p].pc = "wait_scan" /\ th'[p].todo = Kids(p)
      /\ th'[p].np = th[p].np /\ th'[p].next = th[p].next /\ th'[p].n = th[p].n
      /\ \A x \in Proc \ {p} : th'[x] = th[x]
  BY <1>t DEF kwait, TypeOK
<1>3. /\ state[p] = "RUNNING" /\ lock[p] = None
      /\ \A d \in CPU : d # c => cpu[d] # p
      /\ \A x \in Proc : th[x].pc \notin WaitPC
      /\ \A x \in Proc \ {p} : th'[x].pc \notin WaitPC
  BY <1>1, <1>2, OneWaiter DEF IInv, CpuInv
<1>10. TypeOK'
  <2>1. th'[p] = [th[p] EXCEPT !.pc = "wait_scan", !.todo = Kids(p)] /\ th' = [x \in Proc |-> th'[x]]
    BY <1>t, ZenonT(40) DEF kwait, TypeOK
  <2>2. "wait_scan" \in PC /\ Kids(p) \in SUBSET Proc
    BY Zenon DEF PC, Kids
  <2>3. th' \in [Proc -> Thread]
    BY <1>t, <1>2, <2>1, <2>2, MovedType, ZenonT(40)
  <2> QED BY <1>t, <1>1, <2>3, Zenon DEF TypeOK
<1>11. NextInv'
  BY <1>2, <1>3, Zenon DEF IInv, NextInv
<1>12. CpuInv'
  BY <1>1, <1>2 DEF IInv, CpuInv
<1>13. WaitInv'
  BY <1>1, <1>2 DEF IInv, WaitInv, WaitPC
<1>14. TickInv'
  BY <1>t, <1>1, <1>2, <1>3 DEF IInv, TypeOK, TickInv, Open
<1>15. ForkInv'
  BY <1>1, <1>2 DEF IInv, ForkInv, Forks, Active, Loc
<1>16. InitInv'
  BY <1>1, <1>2, Zenon DEF IInv, InitInv, Active, Loc
<1>17. FamilyInv'
  BY <1>1, <1>2 DEF IInv, FamilyInv, Active, Kids, WaitPC
<1>18. WakeInv'
  <2>1. ReapInv'
    BY <1>1, <1>3 DEF IInv, WakeInv, ReapInv, Waits, WaitPC
  <2>2. VisitInv'
    BY <1>2, <1>3, Zenon DEF VisitInv, WaitPC
  <2>3. ScanInv'
    BY <1>1, <1>2, <1>3 DEF ScanInv, WaitPC, Kids
  <2> QED BY <2>1, <2>2, <2>3, Zenon DEF WakeInv
<1>19. TickWakeInv'
  BY <1>1, <1>2 DEF IInv, TickWakeInv
<1> QED BY <1>10, <1>11, <1>12, <1>13, <1>14, <1>15, <1>16, <1>17, <1>18, <1>19, Zenon DEF IInv

\* kwait(): a child that is no zombie is passed over.
LEMMA WaitNextStep ==
  ASSUME IInv, NEW c \in CPU, NEW p \in Proc, NEW q \in Proc, wait_next(c, p, q)
  PROVE  IInv'
<1>t. TypeOK
  BY Zenon DEF IInv
<1>1. /\ cpu[c] = p /\ (c = cpu0 => clk = None) /\ th[p].pc = "wait_scan"
      /\ state[q] # "ZOMBIE"
      /\ UNCHANGED <<state, chan, parent, killed, lock, wait_lock, tickslock, cpu, clk>>
  BY Zenon DEF wait_next, Runs, locks
<1>2. /\ th'[p].pc = th[p].pc /\ th'[p].todo = th[p].todo \ {q}
      /\ th'[p].np = th[p].np /\ th'[p].next = th[p].next /\ th'[p].n = th[p].n
      /\ \A x \in Proc \ {p} : th'[x] = th[x]
  BY <1>t DEF wait_next, TypeOK
<1>3. /\ state[p] = "RUNNING" /\ lock[p] = None
      /\ \A d \in CPU : d # c => cpu[d] # p
      /\ wait_lock = c /\ \A x \in Proc \ {p} : th[x].pc \notin WaitPC
      /\ \A x \in Proc \ {p} : th'[x].pc \notin WaitPC
  BY <1>1, <1>2, OneWaiter DEF IInv, CpuInv, WaitPC
<1>10. TypeOK'
  <2>1. th[p].pc \in PC /\ th[p].todo \ {q} \in SUBSET Proc
    BY <1>t, Zenon DEF TypeOK, Thread
  <2>2. /\ th'[p] = [th[p] EXCEPT !.pc = th[p].pc, !.todo = th[p].todo \ {q}]
        /\ th' = [x \in Proc |-> th'[x]]
    BY <1>t, ZenonT(40) DEF wait_next, TypeOK
  <2>3. th' \in [Proc -> Thread]
    BY <1>t, <1>2, <2>1, <2>2, MovedType, ZenonT(40)
  <2> QED BY <1>t, <1>1, <2>3, Zenon DEF TypeOK
<1>11. NextInv'
  BY <1>2, <1>3, Zenon DEF IInv, NextInv
<1>12. CpuInv'
  BY <1>1, <1>2, <1>3 DEF IInv, CpuInv
<1>13. WaitInv'
  BY <1>1, <1>2 DEF IInv, WaitInv, WaitPC
<1>14. TickInv'
  BY <1>t, <1>1, <1>2 DEF IInv, TypeOK, TickInv
<1>15. ForkInv'
  BY <1>1, <1>2 DEF IInv, ForkInv, Forks, Active, Loc
<1>16. InitInv'
  BY <1>1, <1>2 DEF IInv, InitInv, Active, Loc
<1>17. FamilyInv'
  BY <1>1, <1>2 DEF IInv, FamilyInv, Active, Kids
<1>18. WakeInv'
  <2>1. ReapInv'
    BY <1>1, <1>3 DEF IInv, WakeInv, ReapInv, Waits, WaitPC
  <2>2. VisitInv'
    BY <1>1, <1>2, <1>3 DEF VisitInv, WaitPC
  <2>3. ScanInv'
    BY <1>1, <1>2 DEF IInv, WakeInv, ScanInv, Kids
  <2> QED BY <2>1, <2>2, <2>3, Zenon DEF WakeInv
<1>19. TickWakeInv'
  BY <1>1, <1>2 DEF IInv, TickWakeInv
<1> QED BY <1>10, <1>11, <1>12, <1>13, <1>14, <1>15, <1>16, <1>17, <1>18, <1>19, Zenon DEF IInv

\* kwait(): freeproc() of a zombie child.
LEMMA FreeStep ==
  ASSUME IInv, NEW c \in CPU, NEW p \in Proc, NEW q \in Proc, freeproc(c, p, q)
  PROVE  IInv'
<1>t. TypeOK
  BY Zenon DEF IInv
<1>1. /\ cpu[c] = p /\ (c = cpu0 => clk = None) /\ th[p].pc = "wait_scan"
      /\ lock[q] = None /\ state[q] = "ZOMBIE" /\ wait_lock' = None
      /\ UNCHANGED <<lock, tickslock, cpu, clk>>
  BY Zenon DEF freeproc, Runs
<1>2. /\ state'[q] = "UNUSED" /\ \A x \in Proc \ {q} : state'[x] = state[x]
      /\ parent'[q] = None /\ \A x \in Proc \ {q} : parent'[x] = parent[x]
      /\ chan'[q] = None /\ \A x \in Proc \ {q} : chan'[x] = chan[x]
      /\ killed'[q] = FALSE /\ \A x \in Proc \ {q} : killed'[x] = killed[x]
      /\ th'[p].pc = "user" /\ th'[p].next = "user"
      /\ \A x \in Proc \ {p} : th'[x] = th[x]
  BY <1>t DEF freeproc, TypeOK, At
<1>3. /\ state[p] = "RUNNING" /\ lock[p] = None
      /\ \A d \in CPU : d # c => cpu[d] # p
      /\ wait_lock = c /\ \A x \in Proc \ {p} : th[x].pc \notin WaitPC
      /\ \A x \in Proc : th'[x].pc \notin WaitPC
      /\ q # initproc /\ \A x \in Proc : parent[x] # q
  BY <1>1, <1>2, OneWaiter DEF IInv, CpuInv, WaitPC, InitInv, FamilyInv, Active
<1>10. TypeOK'
  <2>1. At("user") \in Thread
    BY DEF At, Thread, PC
  <2>2. th' = [th EXCEPT ![p] = At("user")]
    BY Zenon DEF freeproc
  <2>3. th' \in [Proc -> Thread]
    BY <1>t, <2>1, <2>2, Zenon DEF TypeOK
  <2> QED BY <1>t, <1>1, <2>3 DEF TypeOK, State, freeproc
<1>11. NextInv'
  BY <1>2 DEF IInv, NextInv, Open
<1>12. CpuInv'
  BY <1>1, <1>2, <1>3 DEF IInv, CpuInv
<1>13. WaitInv'
  BY <1>1, <1>3, Zenon DEF IInv, WaitInv
<1>14. TickInv'
  BY <1>t, <1>1, <1>2, <1>3, TickFrame, Zenon DEF IInv
<1>15. ForkInv'
  BY <1>t, <1>1, <1>2, <1>3 DEF IInv, TypeOK, ForkInv, Forks, Active, Loc, Open
<1>16. InitInv'
  BY <1>2, <1>3 DEF IInv, InitInv, Active, Loc
<1>17. FamilyInv'
  BY <1>1, <1>2, <1>3 DEF IInv, TypeOK, FamilyInv, Active, WaitPC
<1>18. WakeInv'
  <2>1. ReapInv'
    BY <1>1, <1>2 DEF IInv, WakeInv, ReapInv, Waits, TypeOK
  <2>2. VisitInv'
    BY <1>2, <1>3, Zenon DEF VisitInv, WaitPC
  <2>3. ScanInv'
    BY <1>2 DEF IInv, WakeInv, ScanInv, Kids
  <2> QED BY <2>1, <2>2, <2>3, Zenon DEF WakeInv
<1>19. TickWakeInv'
  BY <1>1, <1>2, <1>3 DEF IInv, TickWakeInv
<1> QED BY <1>10, <1>11, <1>12, <1>13, <1>14, <1>15, <1>16, <1>17, <1>18, <1>19, Zenon DEF IInv

\* kwait(): the copyout() of the status failed.
LEMMA WaitBadStep ==
  ASSUME IInv, NEW c \in CPU, NEW p \in Proc, NEW q \in Proc, wait_bad(c, p, q)
  PROVE  IInv'
<1>t. TypeOK
  BY Zenon DEF IInv
<1>1. /\ cpu[c] = p /\ (c = cpu0 => clk = None) /\ th[p].pc = "wait_scan" /\ p # initproc
      /\ wait_lock' = None
      /\ UNCHANGED <<state, chan, parent, killed, lock, tickslock, cpu, clk>>
  BY Zenon DEF wait_bad, Runs
<1>2. /\ th'[p].pc = "user" /\ th'[p].next = "user"
      /\ \A x \in Proc \ {p} : th'[x] = th[x]
  BY <1>t DEF wait_bad, TypeOK, At
<1>3. /\ state[p] = "RUNNING" /\ lock[p] = None
      /\ \A d \in CPU : d # c => cpu[d] # p
      /\ wait_lock = c /\ \A x \in Proc \ {p} : th[x].pc \notin WaitPC
      /\ \A x \in Proc : th'[x].pc \notin WaitPC
  BY <1>1, <1>2, OneWaiter DEF IInv, CpuInv, WaitPC
<1>10. TypeOK'
  <2>1. At("user") \in Thread
    BY DEF At, Thread, PC
  <2>2. th' = [th EXCEPT ![p] = At("user")]
    BY Zenon DEF wait_bad
  <2>3. th' \in [Proc -> Thread]
    BY <1>t, <2>1, <2>2, Zenon DEF TypeOK
  <2> QED BY <1>t, <1>2, <2>3, Zenon DEF TypeOK, wait_bad
<1>11. NextInv'
  BY <1>2, Zenon DEF IInv, NextInv, Open
<1>12. CpuInv'
  BY <1>1, <1>2, CpuFrame, Zenon DEF IInv
<1>13. WaitInv'
  BY <1>1, <1>3, Zenon DEF IInv, WaitInv
<1>14. TickInv'
  BY <1>t, <1>1, <1>2, <1>3, TickFrame, Zenon DEF IInv
<1>15. ForkInv'
  BY <1>1, <1>2 DEF IInv, ForkInv, Forks, Active, Loc
<1>16. InitInv'
  BY <1>1, <1>2, Zenon DEF IInv, InitInv, Active, Loc
<1>17. FamilyInv'
  BY <1>1, <1>3, Zenon DEF IInv, FamilyInv, Active, Kids, WaitPC
<1>18. WakeInv'
  <2>1. ReapInv'
    BY <1>1, <1>3 DEF IInv, WakeInv, ReapInv, Waits, WaitPC
  <2>2. VisitInv'
    BY <1>2, <1>3, Zenon DEF VisitInv, WaitPC
  <2>3. ScanInv'
    BY <1>2, <1>3, Zenon DEF IInv, ScanInv, WaitPC
  <2> QED BY <2>1, <2>2, <2>3, Zenon DEF WakeInv
<1>19. TickWakeInv'
  BY <1>1, <1>2, <1>3, Zenon DEF IInv, TickWakeInv
<1> QED BY <1>10, <1>11, <1>12, <1>13, <1>14, <1>15, <1>16, <1>17, <1>18, <1>19, Zenon DEF IInv

\* kwait(): the scan ends.
LEMMA WaitEndStep ==
  ASSUME IInv, NEW c \in CPU, NEW p \in Proc, wait_end(c, p)
  PROVE  IInv'
<1>t. TypeOK
  BY Zenon DEF IInv
<1>1. /\ cpu[c] = p /\ (c = cpu0 => clk = None) /\ th[p].pc = "wait_scan" /\ th[p].todo = {}
      /\ UNCHANGED <<state, chan, parent, killed, lock, tickslock, cpu, clk>>
  BY Zenon DEF wait_end, Runs
<1>2. /\ \/ /\ wait_lock' = None /\ th' = [th EXCEPT ![p] = At("user")]
            /\ th'[p].pc = "user" /\ th'[p].next = "user"
         \/ /\ UNCHANGED wait_lock /\ th' = [th EXCEPT ![p].pc = "wait_sleep"]
            /\ th'[p].pc = "wait_sleep" /\ th'[p].np = th[p].np
            /\ th'[p].next = th[p].next /\ th'[p].n = th[p].n
      /\ \A x \in Proc \ {p} : th'[x] = th[x]
  BY <1>t DEF wait_end, TypeOK, Thread, At
<1>3. /\ state[p] = "RUNNING" /\ lock[p] = None
      /\ \A d \in CPU : d # c => cpu[d] # p
      /\ wait_lock = c /\ \A x \in Proc \ {p} : th[x].pc \notin WaitPC
      /\ \A x \in Proc \ {p} : th'[x].pc \notin WaitPC
  BY <1>1, <1>2, OneWaiter DEF IInv, CpuInv, WaitPC
<1>10. TypeOK'
  <2>1. At("user") \in Thread /\ "wait_sleep" \in PC
    BY DEF At, Thread, PC
  <2>2. th' \in [Proc -> Thread]
    BY <1>t, <1>2, <2>1 DEF TypeOK, Thread
  <2> QED BY <1>t, <1>1, <1>2, <2>2, Zenon DEF TypeOK
<1>11. NextInv'
  BY <1>2, Zenon DEF IInv, NextInv, Open
<1>12. CpuInv'
  BY <1>1, <1>2, <1>3, CpuFrame, Zenon DEF IInv
<1>13. WaitInv'
  BY <1>1, <1>2 DEF IInv, WaitInv, WaitPC
<1>14. TickInv'
  BY <1>1, <1>2, <1>3, <1>t, TickFrame, Zenon DEF IInv, Open
<1>15. ForkInv'
  BY <1>1, <1>2 DEF IInv, ForkInv, Forks, Active, Loc
<1>16. InitInv'
  BY <1>1, <1>2 DEF IInv, InitInv, Active, Loc
<1>17. FamilyInv'
  BY <1>1, <1>2 DEF IInv, TypeOK, FamilyInv, Active, Kids, WaitPC
<1>18. WakeInv'
  <2>1. ReapInv'
    BY <1>1, <1>3 DEF IInv, WakeInv, ReapInv, Waits, WaitPC
  <2>2. VisitInv'
    BY <1>2, <1>3, Zenon DEF VisitInv, WaitPC
  <2>3. ScanInv'
    BY <1>1, <1>3 DEF IInv, WakeInv, ScanInv, WaitPC, Kids
  <2> QED BY <2>1, <2>2, <2>3, Zenon DEF WakeInv
<1>19. TickWakeInv'
  BY <1>1, <1>2, <1>3 DEF IInv, TickWakeInv
<1> QED BY <1>10, <1>11, <1>12, <1>13, <1>14, <1>15, <1>16, <1>17, <1>18, <1>19, Zenon DEF IInv

\* kkill()
LEMMA KillStep ==
  ASSUME IInv, NEW c \in CPU, NEW p \in Proc, NEW q \in Proc, kkill(c, p, q)
  PROVE  IInv'
<1>t. TypeOK
  BY Zenon DEF IInv
<1>1. /\ q # initproc /\ lock[q] = None
      /\ UNCHANGED <<chan, parent, lock, wait_lock, tickslock, cpu, clk, th>>
  BY Zenon DEF kkill, locks
<1>2. /\ killed'[q] = TRUE /\ \A x \in Proc \ {q} : killed'[x] = killed[x]
      /\ state'[q] = (IF state[q] = "SLEEPING" THEN "RUNNABLE" ELSE state[q])
      /\ \A x \in Proc \ {q} : state'[x] = state[x]
  BY <1>t DEF kkill, TypeOK
<1>10. TypeOK'
  BY <1>t, <1>1 DEF TypeOK, State, kkill
<1>11. NextInv'
  BY <1>1, Zenon DEF IInv, NextInv
<1>12. CpuInv'
  BY <1>1, <1>2, CpuFrame, Zenon DEF IInv
<1>13. WaitInv'
  BY <1>1, Zenon DEF IInv, WaitInv, Open
<1>14. TickInv'
  BY <1>1, <1>2 DEF IInv, TickInv
<1>15. ForkInv'
  BY <1>1, <1>2, ForkFrame, Zenon DEF IInv, Active, Loc
<1>16. InitInv'
  BY <1>1, <1>2, Zenon DEF IInv, InitInv, Active, Loc
<1>17. FamilyInv'
  BY <1>1, <1>2 DEF IInv, TypeOK, FamilyInv, Active, Kids, WaitPC, Open
<1>18. WakeInv'
  BY <1>1, <1>2, WakeFrame, Zenon DEF IInv
<1>19. TickWakeInv'
  BY <1>1, <1>2, Zenon DEF IInv, TickWakeInv
<1> QED BY <1>10, <1>11, <1>12, <1>13, <1>14, <1>15, <1>16, <1>17, <1>18, <1>19, Zenon DEF IInv

\* A thread that enters sched() is a thread.
LEMMA SleptType ==
  ASSUME TypeOK, NEW p \in Proc, NEW l \in PC,
         th' = [x \in Proc |-> th'[x]], \A x \in Proc \ {p} : th'[x] = th[x],
         th'[p] = [th[p] EXCEPT !.pc = "sched", !.next = l]
  PROVE  th' \in [Proc -> Thread]
<1>1. \A x \in Proc : th[x] \in Thread
  BY Zenon DEF TypeOK
<1>2. th'[p] \in Thread
  <2>1. "sched" \in PC
    BY Zenon DEF PC
  <2> QED BY <1>1, <2>1, ZenonT(40) DEF Thread
<1>3. \A x \in Proc : th'[x] \in Thread
  BY <1>1, <1>2, Zenon
<1> QED BY <1>3, Zenon

\* sleep() in kwait(): p->lock is taken before wait_lock is given up.
LEMMA WaitSleepStep ==
  ASSUME IInv, NEW c \in CPU, NEW p \in Proc, th[p].pc = "wait_sleep", sleep(c, p)
  PROVE  IInv'
<1>t. TypeOK
  BY Zenon DEF IInv
<1>1. /\ cpu[c] = p /\ (c = cpu0 => clk = None) /\ wait_lock' = None
      /\ UNCHANGED <<parent, killed, tickslock, cpu, clk>>
  BY Zenon DEF sleep, Runs
<1>2. /\ lock'[p] = c /\ \A x \in Proc \ {p} : lock'[x] = lock[x]
      /\ state'[p] = "SLEEPING" /\ \A x \in Proc \ {p} : state'[x] = state[x]
      /\ chan'[p] = p /\ \A x \in Proc \ {p} : chan'[x] = chan[x]
      /\ th'[p].pc = "sched" /\ th'[p].next = "wait" /\ th'[p].np = th[p].np
      /\ \A x \in Proc \ {p} : th'[x] = th[x]
  BY <1>t, <1>1 DEF sleep, TypeOK, Thread
<1>3. /\ state[p] = "RUNNING" /\ lock[p] = None
      /\ \A d \in CPU : d # c => cpu[d] # p
      /\ wait_lock = c /\ \A x \in Proc \ {p} : th[x].pc \notin WaitPC
      /\ \A x \in Proc : th'[x].pc \notin WaitPC
  BY <1>1, <1>2, OneWaiter DEF IInv, CpuInv, WaitPC
<1>10. TypeOK'
  <2>1. th' = [x \in Proc |-> th'[x]] /\ th'[p] = [th[p] EXCEPT !.pc = "sched", !.next = "wait"]
    BY <1>t, ZenonT(40) DEF sleep, TypeOK
  <2>2. "wait" \in PC
    BY Zenon DEF PC
  <2>3. th' \in [Proc -> Thread]
    BY <1>t, <1>2, <2>1, <2>2, SleptType, ZenonT(40)
  <2> QED BY <1>t, <1>1, <2>3 DEF TypeOK, State, sleep
<1>11. NextInv'
  BY <1>1, <1>2, <1>3 DEF IInv, NextInv, Open
<1>12. CpuInv'
  BY <1>1, <1>2, <1>3 DEF IInv, CpuInv
<1>13. WaitInv'
  BY <1>1, <1>3, Zenon DEF IInv, WaitInv
<1>14. TickInv'
  BY <1>t, <1>1, <1>2, <1>3, TickFrame, Zenon DEF IInv
<1>15. ForkInv'
  BY <1>1, <1>2, <1>3 DEF IInv, ForkInv, Forks, Active, Loc
<1>16. InitInv'
  BY <1>1, <1>2 DEF IInv, InitInv, Active, Loc
<1>17. FamilyInv'
  BY <1>1, <1>2, <1>3 DEF IInv, TypeOK, FamilyInv, Active, WaitPC
<1>18. WakeInv'
  <2>1. \A x \in Proc \ {p} : Waits(x)' => Waits(x)
    BY <1>2, Zenon DEF Waits
  <2>2. ReapInv'
    <3> SUFFICES ASSUME NEW x \in Proc, Waits(parent[x])', state'[x] = "ZOMBIE"
                 PROVE  FALSE
      BY Zenon DEF ReapInv
    <3>1. parent[x] \in Proc /\ state[x] = "ZOMBIE" /\ x # p
      BY <1>t, <1>1, <1>2 DEF Waits, TypeOK
    <3>2. parent[x] # p
      BY <3>1, Zenon DEF IInv, WakeInv, ScanInv, Kids
    <3>3. Waits(parent[x])
      BY <1>1, <2>1, <3>1, <3>2, Zenon
    <3> QED BY <1>3, <3>1, <3>3, Zenon DEF IInv, WakeInv, ReapInv, WaitPC
  <2> QED BY <1>3, <2>2, Zenon DEF WakeInv, VisitInv, ScanInv, WaitPC
<1>19. TickWakeInv'
  BY <1>1, <1>2 DEF IInv, TickWakeInv
<1> QED BY <1>10, <1>11, <1>12, <1>13, <1>14, <1>15, <1>16, <1>17, <1>18, <1>19, Zenon DEF IInv

\* sleep() in pause(): p->lock is taken before tickslock is given up.
LEMMA PauseSleepStep ==
  ASSUME IInv, NEW c \in CPU, NEW p \in Proc, th[p].pc = "pause_sleep", sleep(c, p)
  PROVE  IInv'
<1>t. TypeOK
  BY Zenon DEF IInv
<1>1. /\ cpu[c] = p /\ (c = cpu0 => clk = None) /\ tickslock' = None
      /\ UNCHANGED <<parent, killed, wait_lock, cpu, clk>>
  BY Zenon DEF sleep, Runs
<1>2. /\ lock'[p] = c /\ \A x \in Proc \ {p} : lock'[x] = lock[x]
      /\ state'[p] = "SLEEPING" /\ \A x \in Proc \ {p} : state'[x] = state[x]
      /\ chan'[p] = "ticks" /\ \A x \in Proc \ {p} : chan'[x] = chan[x]
      /\ th'[p].pc = "sched" /\ th'[p].next = "pause_again" /\ th'[p].np = th[p].np /\ th'[p].n = th[p].n
      /\ \A x \in Proc \ {p} : th'[x] = th[x]
  BY <1>t DEF sleep, TypeOK, Thread
<1>3. /\ state[p] = "RUNNING" /\ lock[p] = None /\ \A d \in CPU : d # c => cpu[d] # p
      /\ tickslock = c /\ th[p].n > 0 /\ clk = None
      /\ \A x \in Proc \ {p} : th[x].pc # "pause_sleep"
  BY <1>1 DEF IInv, CpuInv, TickInv
<1>10. TypeOK'
  <2>1. th' = [x \in Proc |-> th'[x]] /\ th'[p] = [th[p] EXCEPT !.pc = "sched", !.next = "pause_again"]
    BY <1>t, ZenonT(40) DEF sleep, TypeOK
  <2>2. "pause_again" \in PC
    BY Zenon DEF PC
  <2>3. th' \in [Proc -> Thread]
    BY <1>t, <1>2, <2>1, <2>2, SleptType, ZenonT(40)
  <2> QED BY <1>t, <1>1, <2>3 DEF TypeOK, State, sleep
<1>11. NextInv'
  BY <1>1, <1>2, <1>3 DEF IInv, NextInv, Open
<1>12. CpuInv'
  BY <1>1, <1>2, <1>3 DEF IInv, CpuInv
<1>13. WaitInv'
  BY <1>1, <1>2 DEF IInv, TypeOK, WaitInv, WaitPC
<1>14. TickInv'
  <2>1. tickslock' = None /\ clk' = None
    BY <1>1, <1>3, Zenon
  <2>2. \A x \in Proc : th'[x].pc # "pause_sleep"
    BY <1>2, <1>3
  <2> QED BY <2>1, <2>2, Zenon DEF TickInv
<1>15. ForkInv'
  <2>1. \A x \in Proc : (state'[x] = "USED" <=> state[x] = "USED") /\ (Active(x)' <=> Active(x))
    BY <1>2, <1>3 DEF Active
  <2>2. \A x \in Proc \ {p} : Loc(x)' = Loc(x) /\ th'[x].np = th[x].np
    BY <1>2, Zenon DEF Loc
  <2>3. Loc(p) \notin {"fork_parent", "fork_run"} /\ Loc(p)' \notin {"fork_parent", "fork_run"}
    BY <1>2, Zenon DEF Loc
  <2>4. UNCHANGED parent /\ state[p] # "USED"
    BY <1>1, <1>3, Zenon
  <2> QED BY <2>1, <2>2, <2>3, <2>4, ForkFrame, Zenon DEF IInv
<1>16. InitInv'
  BY <1>1, <1>2 DEF IInv, InitInv, Active, Loc
<1>17. FamilyInv'
  BY <1>1, <1>2, <1>3 DEF IInv, TypeOK, FamilyInv, Active, Kids, WaitPC
<1>18. WakeInv'
  <2>1. \A x \in Proc \cup {None} : Waits(x)' => Waits(x)
    BY <1>2 DEF Waits
  <2>2. ReapInv'
    <3> SUFFICES ASSUME NEW x \in Proc, Waits(parent[x])', state'[x] = "ZOMBIE"
                 PROVE  /\ parent[x] = initproc
                        /\ \E r \in Proc : th'[r].pc = "reparent" /\ initproc \in th'[r].todo
      BY <1>1, Zenon DEF ReapInv
    <3>1. parent[x] \in Proc \cup {None} /\ state[x] = "ZOMBIE"
      BY <1>t, <1>2, Zenon DEF TypeOK
    <3>2. Waits(parent[x])
      BY <1>1, <2>1, <3>1, Zenon
    <3>3. parent[x] = initproc /\ \E r \in Proc : th[r].pc = "reparent" /\ initproc \in th[r].todo
      BY <3>1, <3>2, Zenon DEF IInv, WakeInv, ReapInv
    <3> QED BY <1>2, <3>3
  <2>3. VisitInv'
    <3>1. \A x \in Proc : parent'[x] = parent[x] /\ parent[x] \in Proc \cup {None}
      BY <1>t, <1>1, Zenon DEF TypeOK
    <3>2. \A x \in Proc : th'[x].pc \in {"wakeup", "zombie"} => th'[x] = th[x]
      BY <1>2, Zenon
    <3> QED BY <1>1, <2>1, <3>1, <3>2 DEF IInv, WakeInv, VisitInv
  <2>4. ScanInv'
    BY <1>1, <1>2 DEF IInv, WakeInv, ScanInv, Kids
  <2> QED BY <2>2, <2>3, <2>4, Zenon DEF WakeInv
<1>19. TickWakeInv'
  BY <1>2, <1>3 DEF IInv, TickWakeInv
<1> QED BY <1>10, <1>11, <1>12, <1>13, <1>14, <1>15, <1>16, <1>17, <1>18, <1>19, Zenon DEF IInv

\* The loop of pause().
LEMMA PauseStep ==
  ASSUME IInv, NEW c \in CPU, NEW p \in Proc, NEW n \in 0..MaxPause,
         Runs(c, p), th[p].pc \in {"pause", "pause_again"}, pause_loop(c, p, n)
  PROVE  IInv'
<1>t. TypeOK
  BY Zenon DEF IInv
<1>1. /\ cpu[c] = p /\ (c = cpu0 => clk = None) /\ tickslock = None
      /\ UNCHANGED <<state, chan, parent, killed, lock, wait_lock, cpu, clk>>
  BY Zenon DEF pause_loop, Runs
<1>2. /\ \/ /\ UNCHANGED tickslock /\ th' = [th EXCEPT ![p] = At("user")]
            /\ th'[p].pc = "user" /\ th'[p].next = "user"
         \/ /\ tickslock' = c /\ th' = [th EXCEPT ![p].pc = "pause_sleep", ![p].n = n]
            /\ th'[p].pc = "pause_sleep" /\ th'[p].next = th[p].next /\ th'[p].np = th[p].np
            /\ th'[p].n = n /\ n > 0
      /\ \A x \in Proc \ {p} : th'[x] = th[x]
  BY <1>t DEF pause_loop, TypeOK, Thread, At
<1>3. /\ state[p] = "RUNNING" /\ lock[p] = None /\ \A d \in CPU : d # c => cpu[d] # p
      /\ clk = None /\ \A x \in Proc : th[x].pc # "pause_sleep"
  BY <1>1 DEF IInv, CpuInv, TickInv
<1>10. TypeOK'
  <2>1. At("user") \in Thread /\ "pause_sleep" \in PC
    BY DEF At, Thread, PC
  <2>2. th' \in [Proc -> Thread]
    BY <1>t, <1>2, <2>1 DEF TypeOK, Thread
  <2> QED BY <1>t, <1>1, <1>2, <2>2, Zenon DEF TypeOK
<1>11. NextInv'
  BY <1>2, Zenon DEF IInv, NextInv, Open
<1>12. CpuInv'
  BY <1>1, <1>2, <1>3, CpuFrame, Zenon DEF IInv
<1>13. WaitInv'
  BY <1>t, <1>1, <1>2 DEF IInv, TypeOK, WaitInv, WaitPC
<1>14. TickInv'
  BY <1>1, <1>2 DEF IInv, TickInv, Open
<1>15. ForkInv'
  BY <1>1, <1>2 DEF IInv, ForkInv, Forks, Active, Loc, Open
<1>16. InitInv'
  BY <1>1, <1>2, Zenon DEF IInv, InitInv, Active, Loc
<1>17. FamilyInv'
  BY <1>1, <1>2 DEF IInv, FamilyInv, Active, Kids, Open
<1>18. WakeInv'
  BY <1>1, <1>2, WakeFrame, Zenon DEF IInv, WaitPC
<1>19. TickWakeInv'
  BY <1>1, <1>2, <1>3, Zenon DEF IInv, TickWakeInv
<1> QED BY <1>10, <1>11, <1>12, <1>13, <1>14, <1>15, <1>16, <1>17, <1>18, <1>19, Zenon DEF IInv

-----------------------------------------------------------------------------
(* The theorems. *)

\* Every step of the process table keeps the invariant.
LEMMA Inductive == IInv /\ [Next]_vars => IInv'
<1> SUFFICES ASSUME IInv, [Next]_vars PROVE IInv'
  OBVIOUS
<1>1. ASSUME NEW p \in Proc, Schedule(p) \/ Switch(p) PROVE IInv'
  BY <1>1, SchedulerStep, ResumeStep, SchedStep, Zenon DEF Schedule, Switch
<1>2. ASSUME NEW p \in Proc, Kernel(p) PROVE IInv'
  <2> PICK c \in CPU :
        \/ fork_parent(c, p) \/ fork_run(c, p)
        \/ reparent(c, p) \/ kexit(c, p) \/ kwait(c, p) \/ wait_end(c, p) \/ sleep(c, p)
        \/ pause_again(c, p)
        \/ \E n \in 0..MaxPause : sys_pause(c, p, n)
        \/ \E q \in Proc : wakeup(c, p, q) \/ wait_next(c, p, q) \/ freeproc(c, p, q)
    BY <1>2, Zenon DEF Kernel
  <2>1. CASE fork_parent(c, p) \/ fork_run(c, p)
    BY <2>1, ForkParentStep, ForkRunStep, Zenon
  <2>2. CASE reparent(c, p) \/ kexit(c, p) \/ kwait(c, p) \/ wait_end(c, p)
    BY <2>2, ReparentStep, ExitStep, WaitStep, WaitEndStep, Zenon
  <2>3. CASE sleep(c, p)
    BY <2>3, WaitSleepStep, PauseSleepStep, ZenonT(40) DEF sleep
  <2>4. CASE pause_again(c, p)
    <3>1. th[p].n \in 0..MaxPause
      BY Zenon DEF IInv, TypeOK, Thread
    <3> QED BY <2>4, <3>1, PauseStep, Zenon DEF pause_again
  <2>5. CASE \E n \in 0..MaxPause : sys_pause(c, p, n)
    BY <2>5, PauseStep, Zenon DEF sys_pause
  <2>6. CASE \E q \in Proc : wakeup(c, p, q) \/ wait_next(c, p, q) \/ freeproc(c, p, q)
    BY <2>6, WakeupStep, WaitNextStep, FreeStep, Zenon
  <2> QED BY <2>1, <2>2, <2>3, <2>4, <2>5, <2>6, Zenon
<1>3. ASSUME NEW p \in Proc, User(p) PROVE IInv'
  BY <1>3, CallStep, ForkStep, ForkFailStep, KillStep, WaitBadStep, Zenon DEF User
<1>4. ASSUME NEW c \in CPU, NEW p \in Proc \cup {None}, Timer(c, p) PROVE IInv'
  BY <1>4, TimerStep, Zenon
<1>5. ASSUME NEW q \in Proc, wakeup_ticks(q) PROVE IInv'
  BY <1>5, WakeupTicksStep, Zenon
<1>6. CASE UNCHANGED vars
  <2>1. UNCHANGED <<state, chan, parent, killed, lock, wait_lock, tickslock, cpu, clk, th>>
    BY <1>6, Zenon DEF vars, locks
  <2>2. TypeOK' /\ NextInv' /\ CpuInv' /\ WaitInv'
    BY <2>1 DEF IInv, TypeOK, NextInv, CpuInv, WaitInv
  <2>3. TickInv' /\ InitInv' /\ TickWakeInv'
    BY <2>1 DEF IInv, TickInv, InitInv, TickWakeInv, Active, Loc
  <2>4. ForkInv' /\ FamilyInv'
    BY <2>1 DEF IInv, ForkInv, FamilyInv, Forks, Active, Loc, Kids
  <2>5. WakeInv'
    BY <2>1, WakeFrame, Zenon DEF IInv
  <2> QED BY <2>2, <2>3, <2>4, <2>5, Zenon DEF IInv
<1> QED BY <1>1, <1>2, <1>3, <1>4, <1>5, <1>6, Zenon DEF Next

\* It holds after userinit(), so it holds for ever.
LEMMA Invariance == Spec => []IInv
<1>1. Init => IInv
  <2> SUFFICES ASSUME Init PROVE IInv
    OBVIOUS
  <2>1. At("resume") \in Thread /\ At("resume").pc = "resume" /\ At("resume").next = "user"
    BY DEF At, Thread, PC
  <2>2. /\ \A p \in Proc : th[p] = At("resume")
        /\ \A p \in Proc : th[p].pc = "resume" /\ th[p].next = "user"
    BY <2>1, Zenon DEF Init
  <2>3. TypeOK
    BY <2>1, Zenon DEF Init, TypeOK, State
  <2>4. NextInv /\ CpuInv
    BY <2>2, Zenon DEF Init, NextInv, CpuInv, Open
  <2>5. WaitInv /\ TickInv
    BY <2>2, Zenon DEF Init, WaitInv, TickInv, WaitPC
  <2>6. ForkInv /\ InitInv
    BY <2>2 DEF Init, ForkInv, InitInv, Forks, Active, Loc
  <2>7. FamilyInv /\ TickWakeInv
    BY <2>2, Zenon DEF Init, FamilyInv, TickWakeInv
  <2>8. WakeInv
    BY <2>2, Zenon DEF Init, WakeInv, ReapInv, VisitInv, ScanInv, Waits
  <2> QED BY <2>3, <2>4, <2>5, <2>6, <2>7, <2>8, Zenon DEF IInv
<1> QED BY <1>1, Inductive, PTL DEF Spec

\* A kernel stack is used by one CPU at most, and never after its process was
\* freed, however scheduler(), sched(), yield() and kwait() interleave.
THEOREM OneCPUThm == Spec => []OneCPU
<1>1. IInv => OneCPU
  <2> SUFFICES ASSUME IInv PROVE OneCPU
    OBVIOUS
  <2>1. TypeOK /\ \A c, d \in CPU : cpu[c] # None /\ cpu[c] = cpu[d] => c = d
    BY Zenon DEF IInv, CpuInv
  <2>2. \A p \in Proc : state[p] = "RUNNING" => \E c \in CPU : cpu[c] = p
    BY Zenon DEF IInv, CpuInv
  <2>3. \A c \in CPU, p \in Proc : cpu[c] = p =>
           state[p] = "RUNNING" \/ (lock[p] = c /\ state[p] # "UNUSED")
    BY DEF IInv, CpuInv
  <2> QED BY <2>1, <2>2, <2>3, Zenon DEF OneCPU
<1> QED BY <1>1, Invariance, PTL

\* The assertions of sched() never fail: its CPU holds p->lock and no other
\* lock, and p is not RUNNING.
THEOREM SchedAssertionsThm == Spec => []SchedAssertions
<1>1. IInv => SchedAssertions
  <2> SUFFICES ASSUME IInv, NEW c \in CPU, NEW p \in Proc, cpu[c] = p, th[p].pc = "sched"
               PROVE  /\ {q \in Proc : lock[q] = c} = {p} /\ wait_lock # c /\ tickslock # c
                      /\ state[p] # "RUNNING"
    BY Zenon DEF SchedAssertions
  <2>1. lock[p] = c /\ state[p] # "RUNNING"
    BY DEF IInv, CpuInv
  <2>2. ASSUME NEW q \in Proc, lock[q] = c PROVE q = p
    <3>1. PICK d \in CPU : cpu[d] = q
      BY <2>2 DEF IInv, CpuInv
    <3>2. lock[q] \in {d, None}
      BY <3>1 DEF IInv, CpuInv
    <3> QED BY <2>2, <3>1, <3>2, Zenon
  <2>3. wait_lock # c
    BY Zenon DEF IInv, WaitInv, WaitPC
  <2>4. tickslock # c
    BY Zenon DEF IInv, TickInv, Open
  <2> QED BY <2>1, <2>2, <2>3, <2>4, Zenon
<1> QED BY <1>1, Invariance, PTL

\* No wakeup() of wait() or pause() is lost.
THEOREM SleepersWaitThm == Spec => []SleepersWait
<1>1. IInv => SleepersWait
  <2> SUFFICES ASSUME IInv, NEW p \in Proc, state[p] = "SLEEPING"
               PROVE  /\ chan[p] = p /\ wait_lock = None => \A q \in Kids(p) : state[q] # "ZOMBIE"
                      /\ chan[p] = "ticks" /\ tickslock = None => th[p].n > 0
    BY Zenon DEF SleepersWait
  <2>1. ASSUME chan[p] = p, wait_lock = None, NEW q \in Kids(p) PROVE state[q] # "ZOMBIE"
    <3>1. \A r \in Proc : th[r].pc # "reparent"
      BY <2>1, OneWaiter, Zenon DEF WaitPC
    <3> QED BY <2>1, <3>1, Zenon DEF IInv, WakeInv, ReapInv, Waits, Kids
  <2>2. ASSUME chan[p] = "ticks", tickslock = None PROVE th[p].n > 0
    BY <2>2, Zenon DEF IInv, TickInv, TickWakeInv
  <2> QED BY <2>1, <2>2, Zenon
<1> QED BY <1>1, Invariance, PTL

\* Every process has a parent that can still reap it, through kfork(),
\* reparent() and freeproc().
THEOREM ParentLivesThm == Spec => []ParentLives
<1>1. IInv => ParentLives
  BY Zenon DEF IInv, FamilyInv, ParentLives, Active
<1> QED BY <1>1, Invariance, PTL
=============================================================================
