-------------------------------- MODULE Proc --------------------------------
(***************************************************************************)
(* The process table (kernel/proc.c): fork, exit, wait, kill, sleep,       *)
(* wakeup, pause, the per-CPU scheduler and the timer interrupt            *)
(* (kernel/trap.c, kernel/sysproc.c), with the locks they take.            *)
(*                                                                         *)
(* A spinlock is held by a CPU (lk->cpu), also across swtch(): the         *)
(* scheduler acquires p->lock and the process releases it, and the other   *)
(* way round.  A step runs up to the next acquire(); a critical section    *)
(* that takes no second lock is one step.  Loops over the table visit it   *)
(* in any order.                                                           *)
(***************************************************************************)
EXTENDS Naturals, FiniteSets

CONSTANTS Proc,      \* the slots of proc[NPROC]
          initproc,  \* the slot of the first process
          CPU,
          cpu0,      \* the CPU whose timer interrupts count ticks
          MaxPause,  \* bound on the argument of pause()
          None       \* a null pointer, a free lock

ASSUME ProcAssumption ==
    /\ initproc \in Proc /\ cpu0 \in CPU /\ MaxPause \in Nat
    /\ None \notin Proc \cup CPU \cup {"ticks"} /\ \A S \in SUBSET Proc : S # None
    /\ "ticks" \notin Proc

VARIABLES state, chan, parent, killed,  \* fields of struct proc
          lock,       \* the CPU that holds p->lock
          wait_lock, tickslock,  \* the CPU that holds each
          cpu,        \* cpus[c].proc
          clk,        \* cpu0 in clockintr(): what wakeup(&ticks) has to visit
          th          \* the kernel thread of each process

locks == <<lock, wait_lock, tickslock>>
vars == <<state, chan, parent, killed, locks, cpu, clk, th>>

State == {"UNUSED", "USED", "SLEEPING", "RUNNABLE", "RUNNING", "ZOMBIE"}
PC == {"user", "fork_parent", "fork_run", "exit", "reparent", "wakeup",
       "zombie", "wait", "wait_scan", "wait_sleep", "pause", "pause_again",
       "pause_sleep", "sched", "resume"}

\* todo is what a loop over the table has still to visit, np the child of a
\* fork, n the ticks that pause() has still to wait for, next where the thread
\* goes on after sched().
Thread == [pc : PC, todo : SUBSET Proc, np : Proc \cup {None}, n : 0..MaxPause, next : PC]
At(l) == [pc |-> l, todo |-> {}, np |-> None, n |-> 0, next |-> "user"]

Kids(p) == {q \in Proc : parent[q] = p}

\* CPU c executes process p, not the scheduler and not clockintr().
Runs(c, p) == cpu[c] = p /\ (c = cpu0 => clk = None)

\* Where a thread holds no lock, so interrupts are on.
Open == {"user", "fork_parent", "fork_run", "exit", "wait", "pause", "pause_again"}

\* After userinit(): the first process is ready to run, every CPU schedules.
Init ==
    /\ state = [p \in Proc |-> IF p = initproc THEN "RUNNABLE" ELSE "UNUSED"]
    /\ chan = [p \in Proc |-> None]
    /\ parent = [p \in Proc |-> None]
    /\ killed = [p \in Proc |-> FALSE]
    /\ lock = [p \in Proc |-> None]
    /\ wait_lock = None /\ tickslock = None
    /\ cpu = [c \in CPU |-> None] /\ clk = None
    /\ th = [p \in Proc |-> At("resume")]

-----------------------------------------------------------------------------
(* Switching. *)

\* scheduler(): take a RUNNABLE process, keep its lock, swtch() to it.
scheduler(c, p) ==
    /\ cpu[c] = None /\ (c = cpu0 => clk = None)
    /\ state[p] = "RUNNABLE" /\ lock[p] = None
    /\ lock' = [lock EXCEPT ![p] = c]
    /\ state' = [state EXCEPT ![p] = "RUNNING"]
    /\ cpu' = [cpu EXCEPT ![c] = p]
    /\ UNCHANGED <<chan, parent, killed, wait_lock, tickslock, th, clk>>

\* The process side of swtch(): forkret(), or the end of sleep() or yield(),
\* releases p->lock.
resume(c, p) ==
    /\ Runs(c, p) /\ th[p].pc = "resume"
    /\ chan' = [chan EXCEPT ![p] = None]
    /\ lock' = [lock EXCEPT ![p] = None]
    /\ th' = [th EXCEPT ![p].pc = th[p].next]
    /\ UNCHANGED <<state, parent, killed, wait_lock, tickslock, cpu, clk>>

\* sched(): swtch() back to the scheduler, which releases p->lock.
sched(c, p) ==
    /\ Runs(c, p) /\ th[p].pc = "sched"
    /\ cpu' = [cpu EXCEPT ![c] = None]
    /\ lock' = [lock EXCEPT ![p] = None]
    /\ th' = [th EXCEPT ![p].pc = "resume"]
    /\ UNCHANGED <<state, chan, parent, killed, wait_lock, tickslock, clk>>

\* What follows the timer interrupt of process p on c: usertrap() ends a
\* killed process; otherwise usertrap() or kerneltrap() calls yield().
yield(c, p) ==
    IF th[p].pc = "user" /\ killed[p]
    THEN th' = [th EXCEPT ![p] = At("exit")] /\ UNCHANGED <<state, lock>>
    ELSE /\ lock[p] = None
         /\ lock' = [lock EXCEPT ![p] = c]
         /\ state' = [state EXCEPT ![p] = "RUNNABLE"]
         /\ th' = [th EXCEPT ![p].pc = "sched", ![p].next = th[p].pc]

\* The timer interrupt of a CPU other than cpu0.
devintr(c, p) ==
    /\ c # cpu0 /\ p # None /\ Runs(c, p) /\ th[p].pc \in Open
    /\ yield(c, p)
    /\ UNCHANGED <<chan, parent, killed, wait_lock, tickslock, cpu, clk>>

\* The timer interrupt of cpu0, in a process or in the scheduler: clockintr()
\* takes tickslock, counts the tick and begins wakeup(&ticks).
clockintr(p) ==
    /\ clk = None /\ tickslock = None /\ cpu[cpu0] = p
    /\ p # None => th[p].pc \in Open
    /\ tickslock' = cpu0
    /\ clk' = Proc \ {p}
    /\ th' = [q \in Proc |-> [th[q] EXCEPT !.n = IF @ = 0 THEN 0 ELSE @ - 1]]
    /\ UNCHANGED <<state, chan, parent, killed, lock, wait_lock, cpu>>

\* Mutant: wakeup() compares the channel with the wrong address.
wakeup_ticks_none(q) ==
    /\ clk # None /\ q \in clk /\ lock[q] = None
    /\ clk' = clk \ {q}
    /\ UNCHANGED <<state, chan, parent, killed, locks, cpu, th>>

\* One turn of the loop of wakeup(&ticks).
wakeup_ticks(q) ==
    /\ clk # None /\ q \in clk /\ lock[q] = None
    /\ state' = IF state[q] = "SLEEPING" /\ chan[q] = "ticks"
                THEN [state EXCEPT ![q] = "RUNNABLE"] ELSE state
    /\ clk' = clk \ {q}
    /\ UNCHANGED <<chan, parent, killed, locks, cpu, th>>

\* clockintr() releases tickslock; the interrupted process yields.
clockintr_end(p) ==
    /\ clk = {} /\ cpu[cpu0] = p
    /\ tickslock' = None
    /\ clk' = None
    /\ IF p = None THEN UNCHANGED <<state, lock, th>> ELSE yield(cpu0, p)
    /\ UNCHANGED <<chan, parent, killed, wait_lock, cpu>>

-----------------------------------------------------------------------------
(* kfork() *)

\* allocproc() and the copying, under np->lock.
kfork(c, p, np) ==
    /\ Runs(c, p) /\ th[p].pc = "user" /\ ~killed[p]
    /\ state[np] = "UNUSED" /\ lock[np] = None
    /\ state' = [state EXCEPT ![np] = "USED"]
    /\ th' = [th EXCEPT ![np] = At("resume"),
                        ![p] = [At("fork_parent") EXCEPT !.np = np]]
    /\ UNCHANGED <<chan, parent, killed, locks, cpu, clk>>

\* uvmcopy() failed: freeproc(np), which also takes back a kill(0).
kfork_fail(c, p, np) ==
    /\ Runs(c, p) /\ th[p].pc = "user" /\ ~killed[p]
    /\ state[np] = "UNUSED" /\ lock[np] = None
    /\ killed' = [killed EXCEPT ![np] = FALSE]
    /\ UNCHANGED <<state, chan, parent, locks, cpu, clk, th>>

\* np->parent = p under wait_lock.
fork_parent(c, p) ==
    /\ Runs(c, p) /\ th[p].pc = "fork_parent" /\ wait_lock = None
    /\ parent' = [parent EXCEPT ![th[p].np] = p]
    /\ th' = [th EXCEPT ![p].pc = "fork_run"]
    /\ UNCHANGED <<state, chan, killed, locks, cpu, clk>>

\* np->state = RUNNABLE under np->lock.
fork_run(c, p) ==
    /\ Runs(c, p) /\ th[p].pc = "fork_run" /\ lock[th[p].np] = None
    /\ state' = [state EXCEPT ![th[p].np] = "RUNNABLE"]
    /\ th' = [th EXCEPT ![p] = At("user")]
    /\ UNCHANGED <<chan, parent, killed, locks, cpu, clk>>

-----------------------------------------------------------------------------
(* kexit() *)

\* A program enters exit(), wait() or pause(): usertrap() ends a killed
\* process before the system call.
Call(c, p, l) ==
    /\ Runs(c, p) /\ th[p].pc = "user"
    /\ l = "exit" => p # initproc
    /\ th' = [th EXCEPT ![p] = At(IF killed[p] THEN "exit" ELSE l)]
    /\ UNCHANGED <<state, chan, parent, killed, locks, cpu, clk>>

\* Mutant: the children keep their parent.
reparent_lost(c, p) ==
    /\ Runs(c, p) /\ th[p].pc = "exit" /\ wait_lock = None
    /\ wait_lock' = c
    /\ th' = [th EXCEPT ![p].pc = "wakeup", ![p].todo = Proc \ {p}]
    /\ UNCHANGED <<state, chan, parent, killed, lock, tickslock, cpu, clk>>

\* acquire(&wait_lock) and reparent().  Each adopted child costs a
\* wakeup(initproc); one stands for all, as wait_lock is held throughout.
reparent(c, p) ==
    /\ Runs(c, p) /\ th[p].pc = "exit" /\ wait_lock = None
    /\ wait_lock' = c
    /\ parent' = [q \in Proc |-> IF parent[q] = p THEN initproc ELSE parent[q]]
    /\ th' = [th EXCEPT ![p].pc = IF Kids(p) = {} THEN "wakeup" ELSE "reparent",
                        ![p].todo = Proc \ {p}]
    /\ UNCHANGED <<state, chan, killed, lock, tickslock, cpu, clk>>

\* Mutant: the parent is not woken.
wakeup_self(c, p, q) ==
    LET last == th[p].todo = {q} IN
    /\ Runs(c, p) /\ th[p].pc \in {"reparent", "wakeup"}
    /\ q \in th[p].todo /\ lock[q] = None
    /\ state' = IF th[p].pc = "reparent" /\ state[q] = "SLEEPING" /\ chan[q] = initproc
                THEN [state EXCEPT ![q] = "RUNNABLE"] ELSE state
    /\ th' = [th EXCEPT
                ![p].pc = IF ~last THEN @ ELSE IF @ = "reparent" THEN "wakeup" ELSE "zombie",
                ![p].todo = IF last /\ th[p].pc = "reparent" THEN Proc \ {p} ELSE @ \ {q}]
    /\ UNCHANGED <<chan, parent, killed, locks, cpu, clk>>

\* One turn of the loop of wakeup(initproc) and then of wakeup(p->parent).
wakeup(c, p, q) ==
    LET last == th[p].todo = {q} IN
    /\ Runs(c, p) /\ th[p].pc \in {"reparent", "wakeup"}
    /\ q \in th[p].todo /\ lock[q] = None
    /\ LET on == IF th[p].pc = "reparent" THEN initproc ELSE parent[p]
       IN  state' = IF state[q] = "SLEEPING" /\ chan[q] = on
                    THEN [state EXCEPT ![q] = "RUNNABLE"] ELSE state
    /\ th' = [th EXCEPT
                ![p].pc = IF ~last THEN @ ELSE IF @ = "reparent" THEN "wakeup" ELSE "zombie",
                ![p].todo = IF last /\ th[p].pc = "reparent" THEN Proc \ {p} ELSE @ \ {q}]
    /\ UNCHANGED <<chan, parent, killed, locks, cpu, clk>>

\* Mutant: wait_lock is not released.
kexit_locked(c, p) ==
    /\ Runs(c, p) /\ th[p].pc = "zombie" /\ lock[p] = None
    /\ lock' = [lock EXCEPT ![p] = c]
    /\ state' = [state EXCEPT ![p] = "ZOMBIE"]
    /\ th' = [th EXCEPT ![p].pc = "sched"]
    /\ UNCHANGED <<chan, parent, killed, wait_lock, tickslock, cpu, clk>>

\* Under p->lock: ZOMBIE, release(&wait_lock), sched().
kexit(c, p) ==
    /\ Runs(c, p) /\ th[p].pc = "zombie" /\ lock[p] = None
    /\ lock' = [lock EXCEPT ![p] = c]
    /\ state' = [state EXCEPT ![p] = "ZOMBIE"]
    /\ wait_lock' = None
    /\ th' = [th EXCEPT ![p].pc = "sched"]
    /\ UNCHANGED <<chan, parent, killed, tickslock, cpu, clk>>

-----------------------------------------------------------------------------
(* kwait(), sleep(), kkill() *)

\* acquire(&wait_lock), at the start and at the end of sleep().
kwait(c, p) ==
    /\ Runs(c, p) /\ th[p].pc = "wait" /\ wait_lock = None
    /\ wait_lock' = c
    /\ th' = [th EXCEPT ![p].pc = "wait_scan", ![p].todo = Kids(p)]
    /\ UNCHANGED <<state, chan, parent, killed, lock, tickslock, cpu, clk>>

\* A child that is no zombie is passed over.
wait_next(c, p, q) ==
    /\ Runs(c, p) /\ th[p].pc = "wait_scan" /\ q \in th[p].todo
    /\ lock[q] = None /\ state[q] # "ZOMBIE"
    /\ th' = [th EXCEPT ![p].todo = @ \ {q}]
    /\ UNCHANGED <<state, chan, parent, killed, locks, cpu, clk>>

\* Mutant: kwait() does not take pp->lock.
freeproc_unlocked(c, p, q) ==
    /\ Runs(c, p) /\ th[p].pc = "wait_scan" /\ q \in th[p].todo
    /\ state[q] = "ZOMBIE"
    /\ state' = [state EXCEPT ![q] = "UNUSED"]
    /\ parent' = [parent EXCEPT ![q] = None]
    /\ chan' = [chan EXCEPT ![q] = None]
    /\ killed' = [killed EXCEPT ![q] = FALSE]
    /\ wait_lock' = None
    /\ th' = [th EXCEPT ![p] = At("user")]
    /\ UNCHANGED <<lock, tickslock, cpu, clk>>

\* freeproc() of a zombie.
freeproc(c, p, q) ==
    /\ Runs(c, p) /\ th[p].pc = "wait_scan" /\ q \in th[p].todo
    /\ lock[q] = None /\ state[q] = "ZOMBIE"
    /\ state' = [state EXCEPT ![q] = "UNUSED"]
    /\ parent' = [parent EXCEPT ![q] = None]
    /\ chan' = [chan EXCEPT ![q] = None]
    /\ killed' = [killed EXCEPT ![q] = FALSE]
    /\ wait_lock' = None
    /\ th' = [th EXCEPT ![p] = At("user")]
    /\ UNCHANGED <<lock, tickslock, cpu, clk>>

\* copyout() of the status failed: -1, and the zombie stays.  init passes no
\* address to copy to.
wait_bad(c, p, q) ==
    /\ p # initproc
    /\ Runs(c, p) /\ th[p].pc = "wait_scan" /\ q \in th[p].todo
    /\ lock[q] = None /\ state[q] = "ZOMBIE"
    /\ wait_lock' = None
    /\ th' = [th EXCEPT ![p] = At("user")]
    /\ UNCHANGED <<state, chan, parent, killed, lock, tickslock, cpu, clk>>

\* Mutant: wait_lock is given up before sleep().
wait_end_early(c, p) ==
    /\ Runs(c, p) /\ th[p].pc = "wait_scan" /\ th[p].todo = {} /\ lock[p] = None
    /\ wait_lock' = None
    /\ th' = [th EXCEPT ![p] = At(IF Kids(p) = {} \/ killed[p] THEN "user" ELSE "wait_sleep")]
    /\ UNCHANGED <<state, chan, parent, killed, lock, tickslock, cpu, clk>>

\* The end of the scan: return -1 without children or when killed.
wait_end(c, p) ==
    /\ Runs(c, p) /\ th[p].pc = "wait_scan" /\ th[p].todo = {} /\ lock[p] = None
    /\ \/ /\ Kids(p) = {} \/ killed[p]
          /\ wait_lock' = None
          /\ th' = [th EXCEPT ![p] = At("user")]
       \/ /\ Kids(p) # {} /\ ~killed[p]
          /\ th' = [th EXCEPT ![p].pc = "wait_sleep"]
          /\ UNCHANGED wait_lock
    /\ UNCHANGED <<state, chan, parent, killed, lock, tickslock, cpu, clk>>

\* sleep(p, &wait_lock) and sleep(&ticks, &tickslock): p->lock is taken
\* before the condition lock is given up.
sleep(c, p) ==
    /\ Runs(c, p) /\ th[p].pc \in {"wait_sleep", "pause_sleep"} /\ lock[p] = None
    /\ lock' = [lock EXCEPT ![p] = c]
    /\ state' = [state EXCEPT ![p] = "SLEEPING"]
    /\ IF th[p].pc = "wait_sleep"
       THEN /\ chan' = [chan EXCEPT ![p] = p]
            /\ wait_lock' = None /\ UNCHANGED tickslock
            /\ th' = [th EXCEPT ![p].pc = "sched", ![p].next = "wait"]
       ELSE /\ chan' = [chan EXCEPT ![p] = "ticks"]
            /\ tickslock' = None /\ UNCHANGED wait_lock
            /\ th' = [th EXCEPT ![p].pc = "sched", ![p].next = "pause_again"]
    /\ UNCHANGED <<parent, killed, cpu, clk>>

\* while(ticks - ticks0 < n), under tickslock, with a return when killed;
\* nobody holds the lock of a process that is running.
pause_loop(c, p, n) ==
    /\ tickslock = None /\ lock[p] = None
    /\ IF n = 0 \/ killed[p]
       THEN th' = [th EXCEPT ![p] = At("user")] /\ UNCHANGED tickslock
       ELSE /\ th' = [th EXCEPT ![p].pc = "pause_sleep", ![p].n = n]
            /\ tickslock' = c
    /\ UNCHANGED <<state, chan, parent, killed, lock, wait_lock, cpu, clk>>

\* sys_pause(n), and where sleep() has reacquired tickslock.
sys_pause(c, p, n) == Runs(c, p) /\ th[p].pc = "pause" /\ pause_loop(c, p, n)
pause_again(c, p) == Runs(c, p) /\ th[p].pc = "pause_again" /\ pause_loop(c, p, th[p].n)

\* kkill() by pid.  An UNUSED slot has pid 0, so kill(0) marks one; programs
\* do not kill init.
kkill(c, p, q) ==
    /\ Runs(c, p) /\ th[p].pc = "user" /\ ~killed[p]
    /\ q # initproc /\ lock[q] = None
    /\ killed' = [killed EXCEPT ![q] = TRUE]
    /\ state' = IF state[q] = "SLEEPING" THEN [state EXCEPT ![q] = "RUNNABLE"] ELSE state
    /\ UNCHANGED <<chan, parent, locks, cpu, clk, th>>

-----------------------------------------------------------------------------

\* The two sides of swtch().
Switch(p) == \E c \in CPU : resume(c, p) \/ sched(c, p)

\* The steps that the kernel owes process p once it is in the kernel.
Kernel(p) == \E c \in CPU :
    \/ fork_parent(c, p) \/ fork_run(c, p)
    \/ reparent(c, p) \/ kexit(c, p) \/ kwait(c, p) \/ wait_end(c, p) \/ sleep(c, p)
    \/ pause_again(c, p)
    \/ \E n \in 0..MaxPause : sys_pause(c, p, n)
    \/ \E q \in Proc : wakeup(c, p, q) \/ wait_next(c, p, q) \/ freeproc(c, p, q)

\* Timer interrupts.
Timer(c, p) == devintr(c, p) \/ (c = cpu0 /\ (clockintr(p) \/ clockintr_end(p)))

\* The steps that programs and failures decide on.
User(p) == \E c \in CPU :
    \/ \E l \in {"exit", "wait", "pause"} : Call(c, p, l)
    \/ \E q \in Proc : kfork(c, p, q) \/ kfork_fail(c, p, q) \/ kkill(c, p, q) \/ wait_bad(c, p, q)

Schedule(p) == \E c \in CPU : scheduler(c, p)

Next ==
    \/ \E p \in Proc : Schedule(p) \/ Switch(p) \/ Kernel(p) \/ User(p)
    \/ \E c \in CPU, p \in Proc \cup {None} : Timer(c, p)
    \/ \E q \in Proc : wakeup_ticks(q)

Spec == Init /\ [][Next]_vars

-----------------------------------------------------------------------------
(* Safety. *)

\* Every field holds a value of its C type; a channel is a process or &ticks.
TypeOK ==
    /\ state \in [Proc -> State]
    /\ chan \in [Proc -> Proc \cup {None, "ticks"}]
    /\ parent \in [Proc -> Proc \cup {None}]
    /\ killed \in [Proc -> BOOLEAN]
    /\ lock \in [Proc -> CPU \cup {None}]
    /\ wait_lock \in CPU \cup {None} /\ tickslock \in CPU \cup {None}
    /\ clk \in (SUBSET Proc) \cup {None}
    /\ cpu \in [CPU -> Proc \cup {None}]
    /\ th \in [Proc -> Thread]

\* The assertions of sched(): the CPU holds p->lock and no other lock
\* (noff == 1), and p->state is not RUNNING.
SchedAssertions == \A c \in CPU, p \in Proc :
    cpu[c] = p /\ th[p].pc = "sched" =>
        /\ {q \in Proc : lock[q] = c} = {p} /\ wait_lock # c /\ tickslock # c
        /\ state[p] # "RUNNING"

\* A kernel stack is used by one CPU at most, and never after its process
\* was freed: while a process is still on its way through sched(), p->lock
\* keeps other schedulers and kwait() away, whatever its state says.
OneCPU ==
    /\ TypeOK
    /\ \A c, d \in CPU : cpu[c] # None /\ cpu[c] = cpu[d] => c = d
    /\ \A p \in Proc : state[p] = "RUNNING" => \E c \in CPU : cpu[c] = p
    /\ \A c \in CPU, p \in Proc : cpu[c] = p =>
         state[p] = "RUNNING" \/ (lock[p] = c /\ state[p] # "UNUSED")

\* No wakeup() is lost: while nobody is inside the lock of its condition, a
\* parent asleep in kwait() has no zombie child, not even one that reparent()
\* gave to init, and a process asleep in pause() has ticks to wait for.
SleepersWait == \A p \in Proc : state[p] = "SLEEPING" =>
    /\ chan[p] = p /\ wait_lock = None => \A q \in Kids(p) : state[q] # "ZOMBIE"
    /\ chan[p] = "ticks" /\ tickslock = None => th[p].n > 0

\* A process always has a parent that can still reap it: exit hands children
\* on before the parent becomes a zombie, and kfork() sets np->parent before
\* np can run.
ParentLives == \A q \in Proc \ {initproc} :
    state[q] \notin {"UNUSED", "USED"} =>
        parent[q] # None /\ state[parent[q]] \notin {"UNUSED", "USED", "ZOMBIE"}

-----------------------------------------------------------------------------
(* Liveness.  scheduler() passes over the whole table, so a process that is  *)
(* RUNNABLE again and again is run; a CPU that spins for a lock that becomes *)
(* free again and again gets it; timers keep interrupting; user/init.c calls *)
(* wait() for ever.                                                          *)

FairSpec ==
    /\ Spec
    /\ \A p \in Proc : WF_vars(Schedule(p)) /\ WF_vars(Switch(p)) /\ WF_vars(Kernel(p))
    /\ SF_vars(Schedule(initproc)) /\ SF_vars(Kernel(initproc))
    /\ SF_vars(\E c \in CPU, p \in Proc \cup {None} : Timer(c, p))
    /\ WF_vars(\E q \in Proc : wakeup_ticks(q))
    /\ SF_vars(\E c \in CPU : Call(c, initproc, "wait"))

\* A full table drains: when every slot is taken and init has a zombie to reap,
\* its own child or one that reparent() gave it, a slot comes free.  (Which
\* zombie goes first is up to the scan: a low slot that keeps refilling can
\* keep a high one waiting.)
TableDrains ==
    (/\ \A p \in Proc : state[p] # "UNUSED"
     /\ \E p \in Kids(initproc) : state[p] = "ZOMBIE")
    ~> \E p \in Proc : state[p] = "UNUSED"

\* pause() returns, although ticks pass while its process is only RUNNABLE.
\* Stated for the process that the fairness above is about.
PauseReturns == th[initproc].pc = "pause" ~> th[initproc].pc = "user"
=============================================================================
