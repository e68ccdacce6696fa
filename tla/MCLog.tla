------------------------------- MODULE MCLog --------------------------------
(* Small instances of Log. *)
EXTENDS Log

\* Buffers are interchangeable, and so are home blocks.
Symmetric == Permutations(Buf) \cup Permutations(Block)
=============================================================================
