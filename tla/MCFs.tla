-------------------------------- MODULE MCFs --------------------------------
(* Small instances of Fs. *)
EXTENDS Fs, TLC
CONSTANTS p1, p2

Rel(s) == [abs |-> FALSE, elems |-> s]
Abs(s) == [abs |-> TRUE, elems |-> s]
C(op, path, arg) == [op |-> op, path |-> path, arg |-> arg]

Names == {"a", "b"}
Dir(up, a, b, nlink) == Inode("T_DIR", nlink, [n \in Names |-> IF n = "a" THEN a ELSE b], up, None)
File(nlink) == Inode("T_FILE", nlink, NoEnts, None, None)
Disk(i1, i2, i3) == [i \in Inum |-> CASE i = 1 -> i1 [] i = 2 -> i2 [] i = 3 -> i3
                                      [] OTHER -> FreeInode]
Start(disk, c1, c2, calls) ==
    [ino |-> disk, cwd |-> [p \in Proc |-> IF p = p1 THEN c1 ELSE c2], calls |-> calls]

A == Rel(<<"a">>)
B == Rel(<<"b">>)
AB == Rel(<<"a", "b">>)
Up == Rel(<<"..">>)

\* A file a that one process removes while another uses it.
Files == Start(Disk(Dir(1, 2, None, 1), File(1), FreeInode), 1, 1,
               {C("creat", A, None), C("unlink", A, None), C("link", A, B), C("link", A, Rel(<<>>)),
                C("open", A, "O_RDWR"), C("chdir", A, None), C("mknod", B, None), C("close", A, None)})

\* A directory a with a directory b, where p1 is while they are removed.
Dirs == Start(Disk(Dir(1, 2, None, 2), Dir(1, None, 3, 2), Dir(2, None, None, 1)), 3, 1,
              {C("unlink", AB, None), C("unlink", A, None), C("open", Up, "O_RDONLY"),
               C("open", A, "O_RDWR"), C("mkdir", A, None), C("chdir", Abs(<<"a">>), None),
               C("creat", Rel(<<"a", "a">>), None)})

\* Symbolic links, also to themselves.
Links == Start(Disk(Dir(1, 2, None, 1), File(1), FreeInode), 1, 1,
               {C("symlink", B, A), C("symlink", B, B), C("open", B, "O_RDONLY"),
                C("open", B, "O_NOFOLLOW"), C("unlink", B, None), C("exec", A, None),
                C("link", Up, A)})

Cases == {Files, Dirs, Links}
=============================================================================
