------------------------------ MODULE MCInode ------------------------------
(* Small instances of Inode. *)
EXTENDS Inode, TLC
CONSTANTS p1, p2

Op(o, i) == [op |-> o, i |-> i, n |-> 0]
IO(o, n) == [op |-> o, i |-> 0, n |-> n]

\* A process alone with one file, which it keeps open: it may grow to its full
\* size, and beyond it.
Large == [sizes |-> <<1>>, reboot |-> FALSE,
          lim |-> (p1 :> MAXFILE * BSIZE + 4) @@ (p2 :> 0),
          calls |-> (p1 :> {Op("open", 2), Op("trunc", 2), IO("write", 1), IO("write", 4),
                            IO("write", 6), IO("read", 2)})
                    @@ (p2 :> {})]

\* Two processes with files below the doubly-indirect blocks, until the disk is
\* full.
Small == (NDIRECT + NINDIRECT) * BSIZE
Full == [sizes |-> <<5, 0, 2>>, reboot |-> TRUE,
         lim |-> (p1 :> Small) @@ (p2 :> Small),
         calls |-> (p1 :> {Op("open", 2), Op("open", 3), Op("close", 0), IO("write", 3)})
                   @@ (p2 :> {Op("open", 1), Op("open", 3), Op("open", 4), Op("close", 0),
                              IO("write", 6), IO("read", 4)})]

\* A process that truncates and rewrites such files, one after the other.
Again == [sizes |-> <<6, 0, 3>>, reboot |-> TRUE,
          lim |-> (p1 :> Small) @@ (p2 :> 0),
          calls |-> (p1 :> {Op("open", 1), Op("open", 2), Op("trunc", 2), Op("trunc", 4), Op("close", 0),
                            IO("write", 5), IO("write", 2), IO("read", 3)})
                    @@ (p2 :> {})]

\* An image with a file of full size.
Image == [sizes |-> <<MAXFILE * BSIZE>>, reboot |-> FALSE, lim |-> (p1 :> 0) @@ (p2 :> 0),
          calls |-> (p1 :> {}) @@ (p2 :> {})]

\* A process that closes and opens again a file with doubly-indirect blocks.
Reopen == [Large EXCEPT !.calls[p1] = @ \cup {Op("close", 0)}]
Reopens == {Reopen}

Cases == {Large, Full, Again, Image}
=============================================================================
