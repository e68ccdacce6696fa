-------------------------------- MODULE User --------------------------------
(***************************************************************************)
(* The programs of user/ that are modelled, side by side: a behaviour is   *)
(* one of the allocator, of grep, of the string functions, or of the shell *)
(* with the programs it runs, whichever prog says.                         *)
(***************************************************************************)
EXTENDS Umalloc, Grep, Strings, Sh

VARIABLE prog

uservars == <<prog, heapvars, grepvars, strvars, shvars>>

\* The programs that do not run.
GrepIdle ==
    /\ grep = [pc |-> "done", re |-> <<>>, left |-> <<>>, buf |-> <<>>, p |-> 0]
    /\ given = <<>> /\ out = <<>>
StringsIdle ==
    /\ cells = [a \in Addrs |-> 0] /\ was = cells
    /\ fn = [Call("none", 0, 0, 0) EXCEPT !.pc = "done"]
ShIdle == ShStart(<<>>)

Init ==
    \/ prog = "umalloc" /\ UmallocInit /\ GrepIdle /\ StringsIdle /\ ShIdle
    \/ prog = "grep" /\ UmallocInit /\ GrepInit /\ StringsIdle /\ ShIdle
    \/ prog = "strings" /\ UmallocInit /\ GrepIdle /\ (StringsInit \/ PrintInit) /\ ShIdle
    \/ prog = "sh" /\ UmallocInit /\ GrepIdle /\ StringsIdle /\ ShInit

Next ==
    \/ prog = "umalloc" /\ UmallocNext /\ UNCHANGED <<prog, grepvars, strvars, shvars>>
    \/ prog = "grep" /\ GrepNext /\ UNCHANGED <<prog, heapvars, strvars, shvars>>
    \/ prog = "strings" /\ StringsNext /\ UNCHANGED <<prog, heapvars, grepvars, shvars>>
    \/ prog = "sh" /\ ShNext /\ UNCHANGED <<prog, heapvars, grepvars, strvars>>

Spec == Init /\ [][Next]_uservars

\* The scheduler runs every process that can run (scheduler() of proc.c takes the
\* processes in turn), so a call that has begun goes on.
Fair ==
    /\ WF_uservars(prog = "umalloc" /\ UmallocStep /\ UNCHANGED <<prog, grepvars, strvars, shvars>>)
    /\ WF_uservars(prog = "grep" /\ GrepNext /\ UNCHANGED <<prog, heapvars, strvars, shvars>>)
    /\ WF_uservars(prog = "strings" /\ StringsNext /\ UNCHANGED <<prog, heapvars, grepvars, shvars>>)
    /\ \A p \in Procs :
         WF_uservars(prog = "sh" /\ step(p) /\ UNCHANGED <<prog, heapvars, grepvars, strvars>>)

FairSpec == Spec /\ Fair

\* Every program comes back: a call of malloc() or free() returns, although its
\* loop runs around a ring that it changes (umalloc.c); grep comes to the end of its
\* input, also when a line does not fit its buffer; the string functions return; and
\* the shell prompts again, because each process closes the pipe ends it does not
\* use (runcmd() of sh.c), whatever call fails on the way.
ProgramsReturn ==
    /\ heap.pc # "user" ~> heap.pc = "user"
    /\ <>(grep.pc = "done")
    /\ <>(fn.pc = "done")
    /\ PromptReturns
=============================================================================
