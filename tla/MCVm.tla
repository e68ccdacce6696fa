-------------------------------- MODULE MCVm --------------------------------
(* Small instances of Vm. *)
EXTENDS Vm, TLC

\* A program of one data page.
DataImage == [i \in 0..0 |-> {"W", "U"}]

\* Processes, tables and pages are interchangeable.
Symmetric == Permutations(Proc) \cup Permutations(PT) \cup Permutations(Page)
=============================================================================
