------------------------------- MODULE MCShm -------------------------------
(* Small instances of Shm. *)
EXTENDS Shm, TLC

\* A program of one data page.
DataImage == [i \in 0..0 |-> {"W", "U"}]

\* Processes, tables, pages and keys are interchangeable.
Symmetric == Permutations(Proc) \cup Permutations(PT) \cup Permutations(Page)
             \cup Permutations(Key)
=============================================================================
