------------------------------- MODULE MCProc -------------------------------
(* Small instances of Proc. *)
EXTENDS Proc, TLC

\* The processes other than init are interchangeable.
Symmetric == Permutations(Proc \ {initproc})
=============================================================================
