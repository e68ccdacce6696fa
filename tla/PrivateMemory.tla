---------------------------- MODULE PrivateMemory ----------------------------
(***************************************************************************)
(* What fork, exec, sbrk, exit and user stores promise about user memory,  *)
(* with no pages, reference counts or page tables: every process has an    *)
(* address space of its own that only its own steps change, and fork       *)
(* gives the child a copy made at one instant.                             *)
(***************************************************************************)
CONSTANTS Proc, VA, Val, Zero, None

VARIABLE space   \* space[p][va]: what p reads at va, None if nothing is there;
                 \* space[p] = None when p is not running

Init == \E p \in Proc, S \in SUBSET VA :
    space = [q \in Proc |-> IF q = p THEN [va \in VA |-> IF va \in S THEN Zero
                                                                     ELSE None]
                                     ELSE None]

\* A store by the program, or copyout() by its own system call.
Store(p, va, v) ==
    /\ space[p] # None /\ space[p][va] # None
    /\ space' = [space EXCEPT ![p][va] = v]

\* fork: all of the parent's memory, copied at once; the parent keeps it.
Fork(p, c) ==
    /\ space[p] # None /\ space[c] = None
    /\ space' = [space EXCEPT ![c] = space[p]]

\* sbrk: a page keeps its contents, disappears, or appears cleared.
Sbrk(p, f) ==
    /\ space[p] # None
    /\ \A va \in VA : f[va] \in {space[p][va], None} \/ (space[p][va] = None /\ f[va] = Zero)
    /\ space' = [space EXCEPT ![p] = f]

\* exec: a fresh address space replaces the old one in one step.
Exec(p, S) ==
    /\ space[p] # None
    /\ space' = [space EXCEPT ![p] = [va \in VA |-> IF va \in S THEN Zero ELSE None]]

\* exit, or a fault that kills p.
Exit(p) ==
    /\ space[p] # None
    /\ space' = [space EXCEPT ![p] = None]

Next == \E p \in Proc :
    \/ \E va \in VA, v \in Val : Store(p, va, v)
    \/ \E c \in Proc : Fork(p, c)
    \/ \E f \in [VA -> Val \cup {None}] : Sbrk(p, f)
    \/ \E S \in SUBSET VA : Exec(p, S)
    \/ Exit(p)

Spec == Init /\ [][Next]_space
=============================================================================
