------------------------------- MODULE MCFile -------------------------------
(* Small instances of File. *)
EXTENDS File, TLC
CONSTANTS a, b

\* Writes of two bytes to a pipe of two: they fill it, or block half way.
Texts == {<<a, b>>}

\* O_RDWR on a file.
Modes == {<<"FD_INODE", TRUE, TRUE>>}

\* Processes are interchangeable.
Symmetric == Permutations(Proc)
=============================================================================
