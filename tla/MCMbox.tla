------------------------------- MODULE MCMbox -------------------------------
(* Small instances of Mbox. *)
EXTENDS Mbox, TLC

\* Processes, keys and messages are interchangeable.
Symmetric == Permutations(Proc) \cup Permutations(Key) \cup Permutations(Msg)
=============================================================================
