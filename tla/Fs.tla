--------------------------------- MODULE Fs ---------------------------------
(***************************************************************************)
(* Inodes, directories and paths (kernel/fs.c) and the system calls on     *)
(* them (kernel/sysfile.c), run by several processes at once.              *)
(*                                                                         *)
(* The inode table holds at most one entry per inode, so an entry is named *)
(* by its inode number; its copy of an inode is written back (iupdate)     *)
(* before the inode is unlocked, so there is one copy here.  A step runs   *)
(* from one acquiresleep() of an inode to the next, or through one         *)
(* section under itable.lock.  What a file holds is left to Inode, and the *)
(* transactions between begin_op() and end_op() to Log: a crash takes the  *)
(* file system back to the last commit, which happened when no operation   *)
(* was under way.                                                          *)
(***************************************************************************)
EXTENDS Integers, Sequences, FiniteSets, FiniteSetsExt

CONSTANTS Proc,
          NINODES,   \* inodes on the disk, numbered from 1
          Name,      \* names of directory entries other than "." and ".."
          Case,      \* file systems to start from, the processes' cwd there, and
                     \* the system calls that programs make
          Calls,     \* how many calls, or reboots, a behaviour has
          Depth,     \* symbolic links that open() follows: 10 in the code
          None

ROOTINO == 1
Inum == 1..NINODES

ASSUME FsAssumption == {NINODES, Calls, Depth} \subseteq Nat /\ ROOTINO \in Inum

VARIABLES ino,    \* inodes: on disk, in the inode table, and their entries
          cwd,    \* p->cwd
          fd,     \* the inode p has open, or None: one descriptor per process
          th,     \* the kernel thread of each process
          work,   \* the calls that programs make, and how many are left
          torn,   \* history: symlink() failed after it made the entry
          lost,   \* history: inodes with entries in a directory that was freed
          stray,  \* history: a directory was freed that some ".." still names
          panic   \* the message of panic(), or None

vars == <<ino, cwd, fd, th, work, torn, lost, stray, panic>>

-----------------------------------------------------------------------------
(* Inodes and paths. *)

\* ents holds the entries with names in Name, up the inode of "..", target the
\* path in a symbolic link.  ref, valid and lock are those of the table, where
\* valid is "stale" if the inode changed on disk behind the table's copy.
NoEnts == [n \in Name |-> None]
Inode(type, nlink, ents, up, target) ==
    [type |-> type, nlink |-> nlink, ents |-> ents, up |-> up, target |-> target,
     ref |-> 0, valid |-> "no", lock |-> None]
FreeInode == Inode("free", 0, NoEnts, None, None)
Empty == [abs |-> FALSE, elems |-> <<>>]

\* dirlookup(): "." is an entry like any other.
dirlookup(i, n) == IF n = "." THEN i ELSE IF n = ".." THEN ino[i].up ELSE ino[i].ents[n]

isdirempty(i) == ino[i].ents = NoEnts

\* The directories and files below the root.
RECURSIVE Below(_, _)
Below(f, S) == LET T == S \cup (UNION {{f[i].ents[n] : n \in Name} : i \in S} \ {None}) IN
               IF T = S THEN S ELSE Below(f, T)

\* The inodes whose only owner is a reference (ireclaim()).
Orphans(f) == {i \in Inum : f[i].type # "free" /\ f[i].nlink = 0}

-----------------------------------------------------------------------------
(* Threads. *)

\* ip: the inode in hand, or where namex() is; dp: the directory a call works
\* on; keep: the inode link() holds meanwhile; rest: the path
\* that namex() has before it and nret the label after it;
\* todo: inodes to iput() and ret the label after the last one.
At(l) == [pc |-> l, call |-> None, ip |-> None, dp |-> None, keep |-> None, rest |-> <<>>,
          nret |-> "end", todo |-> <<>>, ret |-> "end", depth |-> 0]

\* A call is done with end_op().
Goto(r, l) == IF l = "end" THEN At("user") ELSE [r EXCEPT !.pc = l]
Puts(r, s, l) == IF s = <<>> THEN Goto(r, l)
                 ELSE [r EXCEPT !.pc = "iput", !.todo = s, !.ret = l]

\* namex(path) starts at the root or at cwd: iget() or idup().
From(p, path) == IF path.abs THEN ROOTINO ELSE cwd[p]
Namex(p, r, path, l) ==
    [r EXCEPT !.pc = "namex", !.ip = From(p, path), !.rest = path.elems, !.nret = l]

\* The label after nameiparent() or namei() returned 0.
NoInode(l) == IF l = "link_dp" THEN "link_bad" ELSE "end"

Init ==
    \E m \in Case :
        /\ ino = [i \in Inum |->
                    [m.ino[i] EXCEPT !.ref = Cardinality({p \in Proc : m.cwd[p] = i})]]
        /\ cwd = m.cwd
        /\ fd = [p \in Proc |-> None]
        /\ th = [p \in Proc |-> At("user")]
        /\ work = [calls |-> m.calls, left |-> Calls]
        /\ torn = FALSE /\ lost = {} /\ stray = FALSE
        /\ panic = None

\* The inode that a thread is about to ilock().
Wants(p) ==
    LET r == th[p] IN
    CASE r.pc \in {"open", "link", "chdir", "exec", "create_old", "create_new", "unlink_ip",
                   "symlink_ip"} -> r.ip
      [] r.pc \in {"create", "unlink", "symlink", "link_dp"} -> r.dp
      [] r.pc = "link_bad" -> r.keep
      [] r.pc = "namex" /\ r.rest # <<>> -> r.ip
      [] OTHER -> None

\* ilock() at label l: the thread gets the lock and finds an inode.
Locks(p, l) ==
    LET i == Wants(p) IN
    th[p].pc = l /\ i # None /\ ino[i].lock = None /\ ino[i].ref >= 1 /\ ino[i].type # "free"

\* ilock() that does not find one.
ilock_panic(p) ==
    LET i == Wants(p) IN
    /\ i # None /\ ino[i].lock = None
    /\ \/ ino[i].ref < 1 /\ panic' = "ilock"
       \/ ino[i].ref >= 1 /\ ino[i].type = "free" /\ panic' = "ilock: no type"
    /\ UNCHANGED <<ino, cwd, fd, th, work, torn, lost, stray>>

\* Steps that change inodes and p's thread only.
Step(p, f, r) == /\ ino' = f /\ th' = [th EXCEPT ![p] = r]
                 /\ UNCHANGED <<cwd, fd, work, torn, lost, stray, panic>>

\* The table once inode i was read into it.
Read(i) == [ino EXCEPT ![i].valid = "yes"]

-----------------------------------------------------------------------------
(* iput(). *)

Popped(r) == IF Len(r.todo) = 1 THEN Goto([r EXCEPT !.todo = <<>>], r.ret)
             ELSE [r EXCEPT !.pc = "iput", !.todo = Tail(@)]

\* The last reference to an inode without links keeps the entry and locks it,
\* still under itable.lock: nobody else may have the lock.
iput(p) ==
    LET r == th[p]  i == Head(r.todo)
        last == ino[i].ref = 1 /\ ino[i].valid # "no" /\ ino[i].nlink = 0 IN
    /\ r.pc = "iput"
    /\ \/ ~last /\ Step(p, [ino EXCEPT ![i].ref = @ - 1], Popped(r))
       \/ /\ last /\ ino[i].lock = None
          /\ Step(p, [ino EXCEPT ![i].lock = p], [r EXCEPT !.pc = "iput_free"])
       \/ /\ last /\ ino[i].lock # None
          /\ panic' = "sched locks"
          /\ UNCHANGED <<ino, cwd, fd, th, work, torn, lost, stray>>

\* itrunc(), type 0 and iupdate(): from here ialloc() may hand out the inode.
iput_free(p) ==
    LET r == th[p]  i == Head(r.todo) IN
    /\ r.pc = "iput_free"
    /\ ino' = [ino EXCEPT ![i].type = "free", ![i].ents = NoEnts, ![i].up = None,
                          ![i].target = None]
    /\ th' = [th EXCEPT ![p].pc = "iput_end"]
    /\ lost' = (lost \cup {ino[i].ents[n] : n \in Name}) \ {i, None}
    /\ stray' = (stray \/ \E j \in Inum \ {i} : ino[j].up = i)
    /\ UNCHANGED <<cwd, fd, work, torn, panic>>

\* valid = 0 and releasesleep().
iput_end(p) ==
    LET r == th[p]  i == Head(r.todo) IN
    /\ r.pc = "iput_end"
    /\ Step(p, [ino EXCEPT ![i].valid = "no", ![i].lock = None], [r EXCEPT !.pc = "iput_ref"])

\* The reference itself, under itable.lock again.
iput_ref(p) ==
    LET r == th[p]  i == Head(r.todo) IN
    /\ r.pc = "iput_ref"
    /\ Step(p, [ino EXCEPT ![i].ref = @ - 1], Popped(r))

-----------------------------------------------------------------------------
(* namex(). *)

\* nameiparent() stops one level early.
Parent(l) == l \in {"create", "unlink", "symlink", "link_dp"}

\* f with one more reference to i: iget() of an entry it finds or makes.
Get(f, i) == [f EXCEPT ![i].ref = @ + 1, ![i].valid = IF f[i].ref = 0 THEN "no" ELSE @]

\* No element is left: return the inode, or put it if its parent was wanted.
namex_end(p) ==
    LET r == th[p] IN
    /\ r.pc = "namex" /\ r.rest = <<>>
    /\ Step(p, ino, IF Parent(r.nret) THEN Puts(r, <<r.ip>>, NoInode(r.nret))
                    ELSE [r EXCEPT !.pc = r.nret])

\* One element: ilock(ip), look it up, iunlock(ip) and iput(ip).
namex(p) ==
    LET r == th[p]  i == r.ip  n == Head(r.rest) IN
    /\ Locks(p, "namex")
    /\ \/ /\ ino[i].type # "T_DIR"
          /\ Step(p, Read(i), Puts(r, <<i>>, NoInode(r.nret)))
       \/ /\ ino[i].type = "T_DIR" /\ Parent(r.nret) /\ Len(r.rest) = 1
          /\ Step(p, Read(i), [r EXCEPT !.pc = r.nret, !.dp = i, !.ip = None])
       \/ /\ ino[i].type = "T_DIR" /\ ~(Parent(r.nret) /\ Len(r.rest) = 1)
          /\ LET next == dirlookup(i, n) IN
             IF next = None THEN Step(p, Read(i), Puts(r, <<i>>, NoInode(r.nret)))
             ELSE Step(p, Get(Read(i), next),
                       Puts([r EXCEPT !.ip = next, !.rest = Tail(@)], <<i>>, "namex"))

-----------------------------------------------------------------------------
(* System calls. *)

\* A program makes a call; its path is looked up first.
First(op) == CASE op \in {"creat", "mkdir", "mknod"} -> "create" [] OTHER -> op
call(p, c) ==
    /\ th[p].pc = "user" /\ work.left > 0 /\ c.op # "close"
    /\ ino' = Get(ino, From(p, c.path))
    /\ th' = [th EXCEPT ![p] = Namex(p, [At("user") EXCEPT !.call = c], c.path, First(c.op))]
    /\ work' = [work EXCEPT !.left = @ - 1]
    /\ UNCHANGED <<cwd, fd, torn, lost, stray, panic>>

\* fileclose() of the last descriptor of a file.
close(p, c) ==
    /\ th[p].pc = "user" /\ work.left > 0 /\ c.op = "close" /\ fd[p] # None
    /\ fd' = [fd EXCEPT ![p] = None]
    /\ th' = [th EXCEPT ![p] = Puts(At("user"), <<fd[p]>>, "end")]
    /\ work' = [work EXCEPT !.left = @ - 1]
    /\ UNCHANGED <<ino, cwd, torn, lost, stray, panic>>

\* kexec() reads the file under its lock and puts it.
exec(p) == /\ Locks(p, "exec")
           /\ Step(p, Read(th[p].ip), Puts(th[p], <<th[p].ip>>, "end"))

\* sys_chdir().  p->cwd is p's own, so it may change before the iput().
chdir(p) ==
    LET r == th[p]  i == r.ip IN
    /\ Locks(p, "chdir")
    /\ \/ ino[i].type # "T_DIR" /\ Step(p, Read(i), Puts(r, <<i>>, "end"))
       \/ /\ ino[i].type = "T_DIR"
          /\ ino' = Read(i) /\ cwd' = [cwd EXCEPT ![p] = i]
          /\ th' = [th EXCEPT ![p] = Puts(r, <<cwd[p]>>, "end")]
          /\ UNCHANGED <<fd, work, torn, lost, stray, panic>>

\* The end of sys_open(), with ip locked: a descriptor, or unlock and put.
Opened(p, f, r) ==
    LET i == r.ip IN
    \/ /\ fd[p] = None
       /\ ino' = [f EXCEPT ![i].lock = None] /\ fd' = [fd EXCEPT ![p] = i]
       /\ th' = [th EXCEPT ![p] = At("user")]
       /\ UNCHANGED <<cwd, work, torn, lost, stray, panic>>
    \/ /\ fd[p] # None \/ f[i].type = "T_DEVICE"
       /\ Step(p, [f EXCEPT ![i].lock = None], Puts(r, <<i>>, "end"))

\* Mutant: depth is not counted.
open_loops(p) ==
    LET r == th[p]  i == r.ip IN
    /\ Locks(p, "open")
    /\ \/ /\ ino[i].type = "T_SYMLINK" /\ r.call.arg # "O_NOFOLLOW"
          /\ Step(p, Read(i), Puts([r EXCEPT !.call.path = ino[i].target], <<i>>, "follow"))
       \/ /\ ino[i].type = "T_SYMLINK" => r.call.arg = "O_NOFOLLOW"
          /\ Opened(p, Read(i), r)

\* sys_open() without O_CREATE: follow symbolic links, then open.
open(p) ==
    LET r == th[p]  i == r.ip
        follow == ino[i].type = "T_SYMLINK" /\ r.call.arg # "O_NOFOLLOW" IN
    /\ Locks(p, "open")
    /\ \/ /\ follow /\ r.depth > Depth
          /\ Step(p, Read(i), Puts(r, <<i>>, "end"))
       \/ /\ follow /\ r.depth <= Depth
          /\ Step(p, Read(i), Puts([r EXCEPT !.depth = @ + 1, !.call.path = ino[i].target],
                                   <<i>>, "follow"))
       \/ /\ ~follow /\ ino[i].type = "T_DIR" /\ r.call.arg # "O_RDONLY"
          /\ Step(p, Read(i), Puts(r, <<i>>, "end"))
       \/ /\ ~follow /\ (ino[i].type = "T_DIR" => r.call.arg = "O_RDONLY")
          /\ Opened(p, Read(i), r)

\* namei(target).
follow(p) ==
    LET r == th[p] IN
    /\ r.pc = "follow"
    /\ Step(p, Get(ino, From(p, r.call.path)), Namex(p, r, r.call.path, "open"))

\* drop: iunlockput(dp) after an iput() that was done with dp locked.
drop(p) ==
    LET r == th[p] IN
    /\ r.pc = "drop"
    /\ Step(p, [ino EXCEPT ![r.dp].lock = None], Puts(r, <<r.dp>>, "end"))

-----------------------------------------------------------------------------
(* create(): open() with O_CREATE, mkdir() and mknod(). *)

\* ialloc(): the first inode that is free on disk, and iget() of it.
FreeInums == {i \in Inum : ino[i].type = "free"}
ialloc(f, i, type) ==
    [f EXCEPT ![i].type = type, ![i].nlink = 0, ![i].target = Empty, ![i].ref = @ + 1,
              ![i].valid = IF f[i].ref = 0 \/ @ = "no" THEN "no" ELSE "stale"]

\* A new inode for the entry that dp does not have; dp stays locked.
NewInode(p, type, l) ==
    LET r == th[p]  i == Min(FreeInums) IN
    \/ FreeInums = {} /\ Step(p, Read(r.dp), Puts(r, <<r.dp>>, "end"))
    \/ /\ FreeInums # {}
       /\ Step(p, [ialloc(Read(r.dp), i, type) EXCEPT ![r.dp].lock = p],
               [r EXCEPT !.pc = l, !.ip = i])

TypeOf(op) == CASE op = "mkdir" -> "T_DIR" [] op = "mknod" -> "T_DEVICE" [] OTHER -> "T_FILE"

create(p) ==
    LET r == th[p]  i == dirlookup(r.dp, Head(r.rest)) IN
    /\ Locks(p, "create")
    /\ \/ i # None /\ Step(p, Get(Read(r.dp), i), Puts([r EXCEPT !.ip = i], <<r.dp>>, "create_old"))
       \/ i = None /\ NewInode(p, TypeOf(r.call.op), "create_new")

\* Only open() takes an inode that exists, if it is a file or a device.
create_old(p) ==
    LET r == th[p]  take == r.call.op = "creat" /\ ino[r.ip].type \in {"T_FILE", "T_DEVICE"} IN
    /\ Locks(p, "create_old")
    /\ \/ take /\ Opened(p, Read(r.ip), r)
       \/ ~take /\ Step(p, Read(r.ip), Puts(r, <<r.ip>>, "end"))

\* The new inode gets its link, a directory its "." and "..", and dp the entry;
\* or the disk is full, and the link is taken back.
create_new(p) ==
    LET r == th[p]  i == r.ip  d == r.dp  dir == ino[i].type = "T_DIR"
        f == [Read(i) EXCEPT ![i].nlink = 1, ![i].up = IF dir THEN d ELSE None] IN
    /\ Locks(p, "create_new")
    /\ \/ Step(p, [f EXCEPT ![i].lock = p, ![d].ents[Head(r.rest)] = i, ![d].lock = None,
                            ![d].nlink = IF dir THEN @ + 1 ELSE @],
               Puts(r, <<d>>, "created"))
       \/ Step(p, [f EXCEPT ![i].nlink = 0], Puts(r, <<i>>, "drop"))

\* create() has returned ip, locked.
created(p) ==
    LET r == th[p] IN
    /\ r.pc = "created"
    /\ \/ r.call.op = "creat" /\ Opened(p, ino, r)
       \/ r.call.op # "creat" /\ Step(p, [ino EXCEPT ![r.ip].lock = None], Puts(r, <<r.ip>>, "end"))

-----------------------------------------------------------------------------
(* unlink(), link() and symlink(). *)

unlink(p) ==
    LET r == th[p]  d == r.dp  n == Head(r.rest)
        none == n \in {".", ".."} \/ dirlookup(d, n) = None IN
    /\ Locks(p, "unlink")
    /\ \/ none /\ Step(p, Read(d), Puts(r, <<d>>, "end"))
       \/ /\ ~none
          /\ Step(p, [Get(Read(d), dirlookup(d, n)) EXCEPT ![d].lock = p],
                  [r EXCEPT !.pc = "unlink_ip", !.ip = dirlookup(d, n)])

\* With dp and ip locked: the entry goes, and the link that ".." was.
unlink_ip(p) ==
    LET r == th[p]  i == r.ip  d == r.dp  dir == ino[i].type = "T_DIR" IN
    /\ Locks(p, "unlink_ip")
    /\ \/ /\ ino[i].nlink < 1 /\ panic' = "unlink: nlink < 1"
          /\ UNCHANGED <<ino, cwd, fd, th, work, torn, lost, stray>>
       \/ /\ ino[i].nlink >= 1 /\ dir /\ ~isdirempty(i)
          /\ Step(p, Read(i), Puts(r, <<i>>, "drop"))
       \/ /\ ino[i].nlink >= 1 /\ ~(dir /\ ~isdirempty(i))
          /\ Step(p, [Read(i) EXCEPT ![i].lock = p, ![d].ents[Head(r.rest)] = None,
                                     ![d].nlink = IF dir THEN @ - 1 ELSE @, ![d].lock = None],
                  Puts(r, <<d>>, "unlink_end"))

unlink_end(p) ==
    LET r == th[p] IN
    /\ r.pc = "unlink_end"
    /\ Step(p, [ino EXCEPT ![r.ip].nlink = @ - 1, ![r.ip].lock = None], Puts(r, <<r.ip>>, "end"))

\* sys_link() counts the link before there is an entry for it ...
link(p) ==
    LET r == th[p]  i == r.ip IN
    /\ Locks(p, "link")
    /\ \/ ino[i].type = "T_DIR" /\ Step(p, Read(i), Puts(r, <<i>>, "end"))
       \/ /\ ino[i].type # "T_DIR"
          /\ Step(p, Get([Read(i) EXCEPT ![i].nlink = @ + 1], From(p, r.call.arg)),
                  Namex(p, [r EXCEPT !.keep = i], r.call.arg, "link_dp"))

\* ... makes the entry, unless the name exists or the disk is full ...
link_dp(p) ==
    LET r == th[p]  d == r.dp  n == Head(r.rest) IN
    /\ Locks(p, "link_dp")
    /\ \/ /\ dirlookup(d, n) = None
          /\ Step(p, [Read(d) EXCEPT ![d].ents[n] = r.keep], Puts(r, <<d, r.keep>>, "end"))
       \/ Step(p, Read(d), Puts(r, <<d>>, "link_bad"))

\* Mutant: the link stays counted.
link_bad_counted(p) ==
    LET r == th[p] IN
    /\ Locks(p, "link_bad")
    /\ Step(p, Read(r.keep), Puts(r, <<r.keep>>, "end"))

\* ... and uncounts it if there is none.
link_bad(p) ==
    LET r == th[p] IN
    /\ Locks(p, "link_bad")
    /\ Step(p, [Read(r.keep) EXCEPT ![r.keep].nlink = @ - 1], Puts(r, <<r.keep>>, "end"))

\* Mutant: the inode that exists is not put.
symlink_leaks(p) ==
    LET r == th[p]  d == r.dp  i == dirlookup(d, Head(r.rest)) IN
    /\ Locks(p, "symlink")
    /\ \/ i # None /\ Step(p, Get(Read(d), i), Puts(r, <<d>>, "end"))
       \/ i = None /\ NewInode(p, "T_SYMLINK", "symlink_ip")

symlink(p) ==
    LET r == th[p]  d == r.dp  i == dirlookup(d, Head(r.rest)) IN
    /\ Locks(p, "symlink")
    /\ \/ i # None /\ Step(p, Get(Read(d), i), Puts(r, <<d, i>>, "end"))
       \/ i = None /\ NewInode(p, "T_SYMLINK", "symlink_ip")

symlink_ip(p) ==
    LET r == th[p]  i == r.ip  d == r.dp  f == [Read(i) EXCEPT ![i].nlink = 1] IN
    /\ Locks(p, "symlink_ip")
    /\ \/ Step(p, [f EXCEPT ![i].lock = p, ![d].ents[Head(r.rest)] = i, ![d].lock = None],
               Puts(r, <<d>>, "symlink_write"))
       \/ Step(p, [f EXCEPT ![i].nlink = 0], Puts(r, <<i>>, "drop"))

\* writei() of the target.  If it fails the inode loses its link, and the entry
\* stays.
symlink_write(p) ==
    LET r == th[p]  i == r.ip IN
    /\ r.pc = "symlink_write"
    /\ \/ Step(p, [ino EXCEPT ![i].target = r.call.arg, ![i].lock = None], Puts(r, <<i>>, "end"))
       \/ /\ ino' = [ino EXCEPT ![i].nlink = 0, ![i].lock = None]
          /\ th' = [th EXCEPT ![p] = Puts(r, <<i>>, "end")]
          /\ torn' = TRUE
          /\ UNCHANGED <<cwd, fd, work, lost, stray, panic>>

-----------------------------------------------------------------------------
(* A crash.  It loses the operations under way and takes the disk back to   *)
(* the last commit, a state without such operations, where the same crash   *)
(* may happen.  So it is enough to crash there.                             *)

Quiescent == \A p \in Proc : th[p].pc = "user"

\* ireclaim() of every inode without links, before processes run.
reboot ==
    LET gone == Orphans(ino) IN
    /\ Quiescent /\ work.left > 0
    /\ ino' = [i \in Inum |->
                 [(IF i \in gone THEN FreeInode ELSE ino[i])
                    EXCEPT !.ref = IF i = ROOTINO THEN Cardinality(Proc) ELSE 0,
                           !.valid = "no", !.lock = None]]
    /\ lost' = (lost \cup UNION {{ino[i].ents[n] : n \in Name} : i \in gone}) \ (gone \cup {None})
    /\ stray' = (stray \/ \E j \in Inum \ gone : ino[j].up \in gone)
    /\ cwd' = [p \in Proc |-> ROOTINO]
    /\ fd' = [p \in Proc |-> None]
    /\ work' = [work EXCEPT !.left = @ - 1]
    /\ UNCHANGED <<th, torn, panic>>

\* What a thread does inside the kernel.
Kernel(p) ==
    \/ iput(p)
    \/ iput_free(p)
    \/ iput_end(p)
    \/ iput_ref(p)
    \/ namex_end(p)
    \/ namex(p)
    \/ exec(p)
    \/ chdir(p)
    \/ open(p)
    \/ follow(p)
    \/ drop(p)
    \/ create(p)
    \/ create_old(p)
    \/ create_new(p)
    \/ created(p)
    \/ unlink(p)
    \/ unlink_ip(p)
    \/ unlink_end(p)
    \/ link(p)
    \/ link_dp(p)
    \/ link_bad(p)
    \/ symlink(p)
    \/ symlink_ip(p)
    \/ symlink_write(p)
    \/ ilock_panic(p)

Next ==
    /\ panic = None
    /\ \/ \E p \in Proc : Kernel(p) \/ \E c \in work.calls : call(p, c) \/ close(p, c)
       \/ reboot

Spec == Init /\ [][Next]_vars

\* Threads in the kernel are scheduled and get the locks they wait for.
FairSpec == Spec /\ \A p \in Proc : WF_vars(panic = None /\ Kernel(p))
-----------------------------------------------------------------------------

PC == {"user", "iput", "iput_free", "iput_end", "iput_ref", "namex", "exec", "chdir", "open",
       "follow", "drop", "create", "create_old", "create_new", "created", "unlink", "unlink_ip",
       "unlink_end", "link", "link_dp", "link_bad", "symlink", "symlink_ip", "symlink_write"}
Some(S) == S \cup {None}

\* Type correctness of inodes and threads.
TypeOK ==
    /\ \A i \in Inum :
          /\ ino[i].type \in {"free", "T_FILE", "T_DIR", "T_DEVICE", "T_SYMLINK"}
          /\ ino[i].nlink \in Int /\ ino[i].ref \in Nat
          /\ ino[i].valid \in {"no", "yes", "stale"} /\ ino[i].lock \in Some(Proc)
          /\ ino[i].ents \in [Name -> Some(Inum)] /\ ino[i].up \in Some(Inum)
    /\ cwd \in [Proc -> Inum] /\ fd \in [Proc -> Some(Inum)]
    /\ \A p \in Proc : /\ th[p].pc \in PC /\ th[p].todo \in Seq(Inum)
                       /\ {th[p].ip, th[p].dp, th[p].keep} \subseteq Some(Inum)
    /\ torn \in BOOLEAN /\ lost \subseteq Inum /\ stray \in BOOLEAN

\* The inodes that thread p has references to: those it is to put, and those
\* that it needs at the label that follows.
InHand(p) ==
    LET r == th[p]  l == IF r.todo = <<>> THEN r.pc ELSE r.ret IN
    r.todo
    \o (IF l \in {"namex", "open", "exec", "chdir", "create_old", "create_new", "created",
                  "unlink_ip", "unlink_end", "link", "symlink_ip", "symlink_write"}
        THEN <<r.ip>> ELSE <<>>)
    \o (IF l \in {"create", "create_new", "unlink", "unlink_ip", "symlink", "symlink_ip",
                  "link_dp", "drop"}
        THEN <<r.dp>> ELSE <<>>)
    \o (IF r.keep # None /\ l # "end" THEN <<r.keep>> ELSE <<>>)

\* The inode table is what its users take it for.  Every path through the system
\* calls, with all its error exits, balances iget() and idup() with iput(): ip->ref
\* counts the working directories, the open files and what threads have in hand.
\* Whoever holds an ip->lock has a reference, so that iput() may sleep on it while
\* it holds a spin lock (the comment in iput()).  An inode that ialloc() takes while
\* iput() still has the old one in the table is read again: an unlocked entry is
\* never an old copy.
RefExact ==
    /\ TypeOK
    /\ \A i \in Inum :
         /\ ino[i].ref = Cardinality({p \in Proc : cwd[p] = i})
                         + Cardinality({p \in Proc : fd[p] = i})
                         + Cardinality({x \in Proc \X (1..4) :
                                          x[2] <= Len(InHand(x[1])) /\ InHand(x[1])[x[2]] = i})
         /\ ino[i].lock # None =>
              \E k \in DOMAIN InHand(ino[i].lock) : InHand(ino[i].lock)[k] = i
         /\ ino[i].lock = None /\ ino[i].ref > 0 => ino[i].valid # "stale"

\* The entries that name inode i, and the entries of i that are directories.
Entries(i) == Cardinality({x \in Inum \X Name : ino[x[1]].ents[x[2]] = i})
Subdirs(i) == Cardinality({n \in Name : ino[i].ents[n] # None
                                        /\ ino[ino[i].ents[n]].type = "T_DIR"})

\* What a crash leaves is a tree: when no call is under way, everything below
\* the root is allocated, a directory has one entry and its ".." names the
\* directory of that entry, and nlink counts entries (and subdirectories, for
\* their ".."), so that unlink() frees exactly what nothing names.  symlink()
\* whose writei() failed breaks this, and an entry made in a removed directory
\* goes with it.  But for these two, in which an entry outlives its inode, the
\* panics of fs.c and sysfile.c do not happen.
TreeSound ==
    /\ Quiescent /\ ~torn =>
         /\ \A i \in Below(ino, {ROOTINO}) :
               /\ ino[i].type # "free"
               /\ \A n \in Name : LET j == ino[i].ents[n] IN
                     j # None /\ ino[j].type = "T_DIR" => ino[j].up = i /\ Entries(j) = 1
         /\ \A i \in Inum : ino[i].type # "free" /\ i \notin lost =>
               ino[i].nlink = Entries(i) + Subdirs(i) + (IF i = ROOTINO THEN 1 ELSE 0)
    /\ ~torn /\ ~stray => panic = None

\* ilock()'s assertion "ilock: no type": every inode that a path leads to is
\* allocated.
HasType == ~torn => panic # "ilock: no type"

\* iput() frees an inode without links with the last reference to it (the
\* comment in iput()): none stays allocated with neither.
NoOrphan == \A i \in Orphans(ino) : ino[i].ref > 0

\* Every system call returns, whatever the other processes do: no deadlock on
\* inode locks, no loop of symbolic links without end.
CallsReturn == \A p \in Proc : th[p].pc # "user" ~> th[p].pc = "user" \/ panic # None
=============================================================================
