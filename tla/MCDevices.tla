------------------------------ MODULE MCDevices ------------------------------
(***************************************************************************)
(* Devices for model checking.                                             *)
(***************************************************************************)
EXTENDS Devices

CONSTANTS p1, p2, p3

Disk(n, write, data) == [op |-> "disk", job |-> [n |-> n, write |-> write, data |-> data]]
ReadBlock(n) == Disk(n, FALSE, "stale")
WriteBlock(n) == Disk(n, TRUE, "new")
ReadLine(n) == [op |-> "read", n |-> n]
WriteText(n) == [op |-> "write", s |-> [i \in 1..n |-> "o"]]

Calls(a, b, c) == [p \in Proc |-> CASE p = p1 -> a [] p = p2 -> b [] p = p3 -> c]
Case(calls, typed, victims) == [work |-> calls, keys |-> typed, kills |-> victims]

\* Three processes for descriptors that serve two; the ring indices wrap around.
DiskCase == Case(Calls(<<WriteBlock(1)>>, <<WriteBlock(2)>>, <<ReadBlock(3)>>), <<>>, {})

\* Editing keys, a full buffer, end of file alone and after text, two readers.
EditCases == {Case(Calls(<<ReadLine(3), ReadLine(1)>>, <<>>, <<>>), k, {}) :
                k \in {<<"x", "H", "y", "\n", "D", "P", "x">>,
                       <<"x", "y", "U", "H", "x", "D", "\n">>,
                       <<"x", "y", "x", "U", "y", "\n">>}}
ReadersCase == Case(Calls(<<ReadLine(2)>>, <<ReadLine(2)>>, <<>>), <<"x", "\n", "\n">>, {p1})

\* Writers and the echo share the port.
WriteCase == Case(Calls(<<WriteText(3)>>, <<WriteText(1)>>, <<>>), <<"x">>, {p2})

\* Both devices at once.
MixedCase == Case(Calls(<<ReadBlock(1)>>, <<WriteText(1)>>, <<ReadLine(2)>>), <<"\n">>, {p1})

MCCases == {DiskCase, WriteCase, ReadersCase, MixedCase} \cup EditCases
=============================================================================
