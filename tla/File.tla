-------------------------------- MODULE File --------------------------------
(***************************************************************************)
(* Open files (kernel/file.c), the descriptor system calls                 *)
(* (kernel/sysfile.c) and pipes (kernel/pipe.c).                           *)
(*                                                                         *)
(* ftable.lock and the lock of a pipe are spin locks: what runs under      *)
(* ftable.lock is one step.  A pipe's lock is held over several steps      *)
(* where kill() can come in between: between the test of killed() and the  *)
(* sleep(), and between two bytes of pipewrite().  ofile[p] is touched by  *)
(* p alone.  Inodes appear only as the number of references that open      *)
(* files hold on them (Fs and Inode model the rest).                       *)
(***************************************************************************)
EXTENDS Integers, Sequences, FiniteSets, FiniteSetsExt

CONSTANTS Proc,
          NFILE,      \* struct file slots in the system
          NOFILE,     \* descriptors per process
          Pipe,       \* pages a pipe can live in
          PIPESIZE,
          UINT,       \* 2^32: the counters of a pipe wrap around here
          Byte, Text, \* bytes, and the byte strings that programs write
          Mode,       \* the ways they open files: type, readable and writable
          None

ASSUME FileAssumption ==
    /\ {NFILE, NOFILE, PIPESIZE, UINT} \subseteq Nat \ {0}
    /\ UINT > PIPESIZE /\ UINT % PIPESIZE = 0
    /\ Text \subseteq Seq(Byte)

VARIABLES ofile,   \* ofile[p][fd]: p->ofile[fd]
          file,    \* ftable.file
          pipe,    \* the pipes, and whether their page is allocated
          stream,  \* history: the bytes written to a pipe and not yet read
          cut,     \* history: pipes whose last writer gave up without wakeup()
          iref,    \* references on inodes held through open files
          th,      \* the kernel thread of each process
          killed,  \* p->killed
          panic    \* the message of panic(), or None

vars == <<ofile, file, pipe, stream, cut, iref, th, killed, panic>>

Slot == 0..NFILE-1
FD == 0..NOFILE-1

\* "close" has fileclose() of Head(todo) to do, "put" has given the slot back
\* and has the pipe or the inode of ff to put.  "piperead", "pipewrite" are
\* about to take the pipe's lock; "write_loop", "read_sleep" and "write_sleep"
\* hold it; "read_wait" and "write_wait" sleep without it.
PC == {"unused", "user", "zombie", "pipe_f1", "pipe_kalloc", "open", "open_put",
       "close", "put", "piperead", "read_sleep", "read_wait", "pipewrite",
       "write_loop", "write_sleep", "write_wait"}

Kind == {"FD_NONE", "FD_PIPE", "FD_INODE", "FD_DEVICE"}
FileRec == [ref : Nat, type : Kind, readable : BOOLEAN, writable : BOOLEAN,
            pipe : Pipe \cup {None}]
\* A free slot: the fields other than ref and type keep old values in the code
\* and are set again before anyone reads them.
FreeFile == [ref |-> 0, type |-> "FD_NONE", readable |-> FALSE, writable |-> FALSE,
             pipe |-> None]

\* f and g are files in hand, s the bytes pipewrite() has left, i whether it
\* stored one since its last wakeup(), ret the label after the last close.
At(l) == [pc |-> l, f |-> None, g |-> None, s |-> <<>>, i |-> FALSE,
          todo |-> <<>>, ff |-> None, ret |-> "user"]

\* A page that is no pipe: kfree() has overwritten it.
NoPipe == [live |-> FALSE, readopen |-> FALSE, writeopen |-> FALSE, nread |-> 0,
           nwrite |-> 0, lock |-> None, data |-> [k \in 0..PIPESIZE-1 |-> None]]

Init ==
    /\ ofile = [p \in Proc |-> [fd \in FD |-> None]]
    /\ file = [f \in Slot |-> FreeFile]
    /\ pipe = [pi \in Pipe |-> NoPipe]
    /\ stream = [pi \in Pipe |-> <<>>]
    /\ cut = {}
    /\ iref = 0
    /\ \E p \in Proc : th = [q \in Proc |-> At(IF q = p THEN "user" ELSE "unused")]
    /\ killed = [p \in Proc |-> FALSE]
    /\ panic = None

-----------------------------------------------------------------------------
(* Descriptors. *)

\* A program enters a system call; usertrap() exits first if it was killed.
Enters(p) == th[p].pc = "user" /\ ~killed[p]

\* filealloc() and fdalloc() take the first free one, if there is any.
FreeSlots == {f \in Slot : file[f].ref = 0}
filealloc == Min(FreeSlots)
FreeFds(p) == {fd \in FD : ofile[p][fd] = None}
fdalloc(p) == Min(FreeFds(p))

\* filedup(f) done k times.
Dup(f, k) == [file EXCEPT ![f].ref = @ + k]

\* Mutant: the file's count is left alone.
sys_dup_shared(p, fd) ==
    /\ Enters(p) /\ ofile[p][fd] # None /\ FreeFds(p) # {}
    /\ ofile' = [ofile EXCEPT ![p][fdalloc(p)] = ofile[p][fd]]
    /\ UNCHANGED <<file, pipe, stream, cut, iref, th, killed, panic>>

\* sys_dup(): fdalloc(f), then filedup(f).
sys_dup(p, fd) ==
    LET f == ofile[p][fd] IN
    /\ Enters(p) /\ f # None /\ FreeFds(p) # {}
    /\ ofile' = [ofile EXCEPT ![p][fdalloc(p)] = f]
    /\ \/ file[f].ref < 1 /\ panic' = "filedup" /\ UNCHANGED file
       \/ file[f].ref >= 1 /\ file' = Dup(f, 1) /\ UNCHANGED panic
    /\ UNCHANGED <<pipe, stream, cut, iref, th, killed>>

\* sys_close(): forget the descriptor, then fileclose().
sys_close(p, fd) ==
    /\ Enters(p) /\ ofile[p][fd] # None
    /\ ofile' = [ofile EXCEPT ![p][fd] = None]
    /\ th' = [th EXCEPT ![p] = [At("close") EXCEPT !.todo = <<ofile[p][fd]>>]]
    /\ UNCHANGED <<file, pipe, stream, cut, iref, killed, panic>>

\* The part of kfork() about open files: the child shares every open file.
kfork(p, c) ==
    LET n(f) == Cardinality({fd \in FD : ofile[p][fd] = f}) IN
    /\ Enters(p) /\ th[c].pc = "unused"
    /\ ofile' = [ofile EXCEPT ![c] = ofile[p]]
    /\ \/ /\ \E f \in Slot : n(f) > 0 /\ file[f].ref < 1
          /\ panic' = "filedup" /\ UNCHANGED file
       \/ /\ \A f \in Slot : n(f) > 0 => file[f].ref >= 1
          /\ file' = [f \in Slot |-> [file[f] EXCEPT !.ref = @ + n(f)]]
          /\ UNCHANGED panic
    /\ th' = [th EXCEPT ![c] = At("user")]
    /\ UNCHANGED <<pipe, stream, cut, iref, killed>>

\* The part of kexit() about open files: close them all.
kexit(p) ==
    LET open == SelectSeq([k \in 1..NOFILE |-> ofile[p][k-1]], LAMBDA f : f # None) IN
    /\ th[p].pc = "user"
    /\ ofile' = [ofile EXCEPT ![p] = [fd \in FD |-> None]]
    /\ th' = [th EXCEPT ![p] = IF open = <<>> THEN At("zombie")
                               ELSE [At("close") EXCEPT !.todo = open, !.ret = "zombie"]]
    /\ UNCHANGED <<file, pipe, stream, cut, iref, killed, panic>>

\* freeproc(), when the parent waits for p.
freeproc(p) ==
    /\ th[p].pc = "zombie"
    /\ th' = [th EXCEPT ![p] = At("unused")]
    /\ killed' = [killed EXCEPT ![p] = FALSE]
    /\ UNCHANGED <<ofile, file, pipe, stream, cut, iref, panic>>

-----------------------------------------------------------------------------
(* fileclose(). *)

\* What is left of r once its Head(todo) is closed.
Closed(r) == IF Len(r.todo) = 1 THEN At(r.ret)
             ELSE [r EXCEPT !.pc = "close", !.todo = Tail(@), !.ff = None]

\* fileclose() under ftable.lock: the last reference copies the file to ff and
\* gives the slot back.
fileclose(p) ==
    LET r == th[p]  f == Head(r.todo) IN
    /\ r.pc = "close"
    /\ \/ /\ file[f].ref < 1
          /\ panic' = "fileclose" /\ UNCHANGED <<file, th>>
       \/ /\ file[f].ref > 1
          /\ file' = [file EXCEPT ![f].ref = @ - 1]
          /\ th' = [th EXCEPT ![p] = Closed(r)]
          /\ UNCHANGED panic
       \/ /\ file[f].ref = 1
          /\ file' = [file EXCEPT ![f] = FreeFile]
          /\ th' = [th EXCEPT ![p] = IF file[f].type = "FD_NONE" THEN Closed(r)
                                     ELSE [r EXCEPT !.pc = "put", !.ff = file[f]]]
          /\ UNCHANGED panic
    /\ UNCHANGED <<ofile, pipe, stream, cut, iref, killed>>

\* wakeup(&pi->nread) or wakeup(&pi->nwrite): the sleepers at label "from"
\* contend for the lock again at label "to".
Wakeup(pi, from, to, t) ==
    [q \in Proc |-> IF t[q].pc = from /\ file[t[q].f].pipe = pi
                    THEN [t[q] EXCEPT !.pc = to] ELSE t[q]]
WakeReaders(pi, t) == Wakeup(pi, "read_wait", "piperead", t)
WakeWriters(pi, t) == Wakeup(pi, "write_wait", "pipewrite", t)

\* Mutant: nobody is woken.
pipeclose_silent(p) ==
    LET r == th[p]  pi == r.ff.pipe
        P == [pipe[pi] EXCEPT !.writeopen = @ /\ ~r.ff.writable,
                              !.readopen = @ /\ r.ff.writable] IN
    /\ r.pc = "put" /\ r.ff.type = "FD_PIPE" /\ pipe[pi].lock = None
    /\ pipe' = [pipe EXCEPT ![pi] = IF P.readopen \/ P.writeopen THEN P ELSE NoPipe]
    /\ th' = [th EXCEPT ![p] = Closed(r)]
    /\ UNCHANGED <<ofile, file, stream, cut, iref, killed, panic>>

\* pipeclose(ff.pipe, ff.writable): shut one end, wake the other; the second
\* of the two frees the page.
pipeclose(p) ==
    LET r == th[p]  pi == r.ff.pipe
        P == [pipe[pi] EXCEPT !.writeopen = @ /\ ~r.ff.writable,
                              !.readopen = @ /\ r.ff.writable]
        t == [th EXCEPT ![p] = Closed(r)] IN
    /\ r.pc = "put" /\ r.ff.type = "FD_PIPE" /\ pipe[pi].lock = None
    /\ pipe' = [pipe EXCEPT ![pi] = IF P.readopen \/ P.writeopen THEN P ELSE NoPipe]
    /\ th' = IF r.ff.writable THEN WakeReaders(pi, t) ELSE WakeWriters(pi, t)
    /\ stream' = [stream EXCEPT ![pi] = IF P.readopen \/ P.writeopen THEN @ ELSE <<>>]
    /\ cut' = IF r.ff.writable THEN cut \ {pi} ELSE cut
    /\ UNCHANGED <<ofile, file, iref, killed, panic>>

\* iput(ff.ip), in a transaction of its own.
fileput(p) ==
    /\ th[p].pc = "put" /\ th[p].ff.type \in {"FD_INODE", "FD_DEVICE"}
    /\ iref' = iref - 1
    /\ th' = [th EXCEPT ![p] = Closed(th[p])]
    /\ UNCHANGED <<ofile, file, pipe, stream, cut, killed, panic>>

-----------------------------------------------------------------------------
(* sys_open() from the point where it has its inode, and sys_pipe(). *)

\* namei() or create() returned a referenced inode.
sys_open(p) ==
    /\ Enters(p)
    /\ iref' = iref + 1
    /\ th' = [th EXCEPT ![p] = At("open")]
    /\ UNCHANGED <<ofile, file, pipe, stream, cut, killed, panic>>

\* filealloc() and fdalloc(), or the way out: close the file that was
\* allocated, put the inode.
open(p, m) ==
    /\ th[p].pc = "open"
    /\ \/ /\ FreeSlots # {} /\ FreeFds(p) # {}
          /\ file' = [file EXCEPT ![filealloc].ref = 1, ![filealloc].type = m[1],
                                  ![filealloc].readable = m[2], ![filealloc].writable = m[3]]
          /\ ofile' = [ofile EXCEPT ![p][fdalloc(p)] = filealloc]
          /\ th' = [th EXCEPT ![p] = At("user")]
       \/ /\ FreeSlots # {} /\ FreeFds(p) = {}
          /\ file' = [file EXCEPT ![filealloc].ref = 1]
          /\ th' = [th EXCEPT ![p] = [At("close") EXCEPT !.todo = <<filealloc>>,
                                                         !.ret = "open_put"]]
          /\ UNCHANGED ofile
       \/ /\ FreeSlots = {}
          /\ th' = [th EXCEPT ![p] = At("open_put")]
          /\ UNCHANGED <<ofile, file>>
    /\ UNCHANGED <<pipe, stream, cut, iref, killed, panic>>

open_put(p) ==
    /\ th[p].pc = "open_put"
    /\ iref' = iref - 1
    /\ th' = [th EXCEPT ![p] = At("user")]
    /\ UNCHANGED <<ofile, file, pipe, stream, cut, killed, panic>>

\* pipealloc(): the first filealloc() ...
sys_pipe(p) ==
    /\ Enters(p)
    /\ \/ /\ FreeSlots = {}
          /\ UNCHANGED <<file, th>>
       \/ /\ FreeSlots # {}
          /\ file' = [file EXCEPT ![filealloc].ref = 1]
          /\ th' = [th EXCEPT ![p] = [At("pipe_f1") EXCEPT !.f = filealloc]]
    /\ UNCHANGED <<ofile, pipe, stream, cut, iref, killed, panic>>

\* ... the second; without it, close the first.
pipe_f1(p) ==
    LET f0 == th[p].f IN
    /\ th[p].pc = "pipe_f1"
    /\ \/ /\ FreeSlots = {}
          /\ th' = [th EXCEPT ![p] = [At("close") EXCEPT !.todo = <<f0>>]]
          /\ UNCHANGED file
       \/ /\ FreeSlots # {}
          /\ file' = [file EXCEPT ![filealloc].ref = 1]
          /\ th' = [th EXCEPT ![p] = [At("pipe_kalloc") EXCEPT !.f = f0, !.g = filealloc]]
    /\ UNCHANGED <<ofile, pipe, stream, cut, iref, killed, panic>>

\* A pipe of the two files f0 and f1, empty and open at both ends.
NewPipe(pi) == [pipe[pi] EXCEPT !.live = TRUE, !.readopen = TRUE, !.writeopen = TRUE,
                                !.nread = 0, !.nwrite = 0]
PipeFiles(f0, f1, pi) ==
    [file EXCEPT
       ![f0] = [@ EXCEPT !.type = "FD_PIPE", !.readable = TRUE, !.writable = FALSE, !.pipe = pi],
       ![f1] = [@ EXCEPT !.type = "FD_PIPE", !.readable = FALSE, !.writable = TRUE, !.pipe = pi]]

\* kalloc() fails: close both files.
pipe_nomem(p) ==
    /\ th[p].pc = "pipe_kalloc"
    /\ th' = [th EXCEPT ![p] = [At("close") EXCEPT !.todo = <<th[p].f, th[p].g>>]]
    /\ UNCHANGED <<ofile, file, pipe, stream, cut, iref, killed, panic>>

\* It does not: the pipe is made and gets two descriptors, or the files are
\* closed because there are fewer than two or copyout() to the program fails.
pipe_kalloc(p, pi) ==
    LET f0 == th[p].f  f1 == th[p].g
        fd0 == fdalloc(p)  fd1 == Min(FreeFds(p) \ {fd0}) IN
    /\ th[p].pc = "pipe_kalloc" /\ ~pipe[pi].live
    /\ pipe' = [pipe EXCEPT ![pi] = NewPipe(pi)]
    /\ file' = PipeFiles(f0, f1, pi)
    /\ \/ /\ Cardinality(FreeFds(p)) >= 2
          /\ ofile' = [ofile EXCEPT ![p][fd0] = f0, ![p][fd1] = f1]
          /\ th' = [th EXCEPT ![p] = At("user")]
       \/ /\ th' = [th EXCEPT ![p] = [At("close") EXCEPT !.todo = <<f0, f1>>]]
          /\ UNCHANGED ofile
    /\ UNCHANGED <<stream, cut, iref, killed, panic>>

-----------------------------------------------------------------------------
(* fileread() and filewrite(). *)

PipeOf(p) == file[th[p].f].pipe
Used(pi) == (pipe[pi].nwrite - pipe[pi].nread + UINT) % UINT
Full(pi) == pipe[pi].nwrite = (pipe[pi].nread + PIPESIZE) % UINT
Empty(pi) == pipe[pi].nread = pipe[pi].nwrite

\* sys_read(): a pipe goes on to piperead(); an inode or a device is read and
\* the call returns.  A file that is not open for reading gives -1.
sys_read(p, fd) ==
    LET f == ofile[p][fd] IN
    /\ Enters(p) /\ f # None
    /\ \/ /\ file[f].readable /\ file[f].type = "FD_PIPE"
          /\ th' = [th EXCEPT ![p] = [At("piperead") EXCEPT !.f = f]]
          /\ UNCHANGED panic
       \/ /\ file[f].readable /\ file[f].type = "FD_NONE"
          /\ panic' = "fileread" /\ UNCHANGED th
       \/ /\ ~file[f].readable \/ file[f].type \in {"FD_INODE", "FD_DEVICE"}
          /\ UNCHANGED <<th, panic>>
    /\ UNCHANGED <<ofile, file, pipe, stream, cut, iref, killed>>

\* sys_write(), likewise.
sys_write(p, fd, s) ==
    LET f == ofile[p][fd] IN
    /\ Enters(p) /\ f # None
    /\ \/ /\ file[f].writable /\ file[f].type = "FD_PIPE"
          /\ th' = [th EXCEPT ![p] = [At("pipewrite") EXCEPT !.f = f, !.s = s]]
          /\ UNCHANGED panic
       \/ /\ file[f].writable /\ file[f].type = "FD_NONE"
          /\ panic' = "filewrite" /\ UNCHANGED th
       \/ /\ ~file[f].writable \/ file[f].type \in {"FD_INODE", "FD_DEVICE"}
          /\ UNCHANGED <<th, panic>>
    /\ UNCHANGED <<ofile, file, pipe, stream, cut, iref, killed>>

\* piperead() finds the pipe empty and somebody who may still write: return if
\* killed, else prepare to sleep with the lock held.
piperead_empty(p) ==
    LET pi == PipeOf(p) IN
    /\ th[p].pc = "piperead" /\ pipe[pi].lock = None
    /\ Empty(pi) /\ pipe[pi].writeopen
    /\ IF killed[p]
       THEN th' = [th EXCEPT ![p] = At("user")] /\ UNCHANGED pipe
       ELSE /\ th' = [th EXCEPT ![p].pc = "read_sleep"]
            /\ pipe' = [pipe EXCEPT ![pi].lock = p]
    /\ UNCHANGED <<ofile, file, stream, cut, iref, killed, panic>>

\* The index after k: an unsigned increment.
Succ(k) == (k + 1) % UINT

\* Pipe pi without its first k bytes.  Their cells are marked, as nobody may
\* read them again.
Taken(pi, k) ==
    LET P == pipe[pi]  cells == {(P.nread + j) % PIPESIZE : j \in 0..k-1} IN
    [P EXCEPT !.nread = (@ + k) % UINT,
              !.data = [c \in DOMAIN @ |-> IF c \in cells THEN None ELSE @[c]]]

\* piperead() takes k bytes: all there are, the n that were asked for, or fewer
\* when copyout() fails at the last of them.
piperead(p, k) ==
    LET pi == PipeOf(p) IN
    /\ th[p].pc = "piperead" /\ pipe[pi].lock = None
    /\ ~(Empty(pi) /\ pipe[pi].writeopen)
    /\ k <= Used(pi)
    /\ pipe' = [pipe EXCEPT ![pi] = Taken(pi, k)]
    /\ stream' = [stream EXCEPT ![pi] = SubSeq(@, k + 1, Len(@))]
    /\ th' = WakeWriters(pi, [th EXCEPT ![p] = At("user")])
    /\ cut' = IF k = Used(pi) THEN cut \ {pi} ELSE cut
    /\ UNCHANGED <<ofile, file, iref, killed, panic>>

\* sleep(&pi->nread, &pi->lock) and sleep(&pi->nwrite, &pi->lock).
pipe_sleep(p) ==
    /\ th[p].pc \in {"read_sleep", "write_sleep"}
    /\ pipe' = [pipe EXCEPT ![PipeOf(p)].lock = None]
    /\ th' = [th EXCEPT ![p].pc = IF @ = "read_sleep" THEN "read_wait" ELSE "write_wait"]
    /\ UNCHANGED <<ofile, file, stream, cut, iref, killed, panic>>

\* pipewrite() takes the lock, at the start and after every sleep.
pipewrite(p) ==
    /\ th[p].pc = "pipewrite" /\ pipe[PipeOf(p)].lock = None
    /\ pipe' = [pipe EXCEPT ![PipeOf(p)].lock = p]
    /\ th' = [th EXCEPT ![p].pc = "write_loop"]
    /\ UNCHANGED <<ofile, file, stream, cut, iref, killed, panic>>

\* Out of the loop: all bytes are stored, or copyin() failed.
write_done(p) ==
    LET pi == PipeOf(p) IN
    /\ th[p].pc = "write_loop"
    /\ th[p].s = <<>> \/ (pipe[pi].readopen /\ ~killed[p] /\ ~Full(pi))
    /\ pipe' = [pipe EXCEPT ![pi].lock = None]
    /\ th' = WakeReaders(pi, [th EXCEPT ![p] = At("user")])
    /\ cut' = cut \ {pi}
    /\ UNCHANGED <<ofile, file, stream, iref, killed, panic>>

\* Mutant: a byte is stored before the test for a full pipe.
write_loop_over(p) ==
    LET pi == PipeOf(p)  P == pipe[pi] IN
    /\ th[p].pc = "write_loop" /\ th[p].s # <<>>
    /\ pipe' = [pipe EXCEPT ![pi].data[P.nwrite % PIPESIZE] = Head(th[p].s),
                            ![pi].nwrite = Succ(@)]
    /\ stream' = [stream EXCEPT ![pi] = Append(@, Head(th[p].s))]
    /\ th' = [th EXCEPT ![p].s = Tail(@), ![p].i = TRUE]
    /\ UNCHANGED <<ofile, file, cut, iref, killed, panic>>

\* One turn of pipewrite()'s loop: give up if nobody can read or p was killed,
\* without waking the readers; wake them and sleep if the pipe is full; store
\* a byte otherwise.
write_loop(p) ==
    LET pi == PipeOf(p)  P == pipe[pi]  fail == ~P.readopen \/ killed[p] IN
    /\ th[p].pc = "write_loop" /\ th[p].s # <<>>
    /\ \/ /\ fail
          /\ pipe' = [pipe EXCEPT ![pi].lock = None]
          /\ th' = [th EXCEPT ![p] = At("user")]
          /\ cut' = IF th[p].i THEN cut \cup {pi} ELSE cut
          /\ UNCHANGED stream
       \/ /\ ~fail /\ Full(pi)
          /\ th' = WakeReaders(pi, [th EXCEPT ![p].pc = "write_sleep", ![p].i = FALSE])
          /\ cut' = cut \ {pi}
          /\ UNCHANGED <<pipe, stream>>
       \/ /\ ~fail /\ ~Full(pi)
          /\ pipe' = [pipe EXCEPT ![pi].data[P.nwrite % PIPESIZE] = Head(th[p].s),
                                  ![pi].nwrite = Succ(@)]
          /\ stream' = [stream EXCEPT ![pi] = Append(@, Head(th[p].s))]
          /\ th' = [th EXCEPT ![p].s = Tail(@), ![p].i = TRUE]
          /\ UNCHANGED cut
    /\ UNCHANGED <<ofile, file, iref, killed, panic>>

\* kill(p): the victim is woken wherever it sleeps.  Only pipes look at the
\* flag before the call returns to usertrap(), which exits: a kill at another
\* label is the kexit() that follows.
kkill(p) ==
    /\ th[p].pc \in {"piperead", "read_sleep", "read_wait", "pipewrite", "write_loop",
                     "write_sleep", "write_wait"}
    /\ ~killed[p]
    /\ killed' = [killed EXCEPT ![p] = TRUE]
    /\ th' = [th EXCEPT ![p].pc = IF @ = "read_wait" THEN "piperead"
                                  ELSE IF @ = "write_wait" THEN "pipewrite" ELSE @]
    /\ UNCHANGED <<ofile, file, pipe, stream, cut, iref, panic>>

-----------------------------------------------------------------------------

\* What a process does inside the kernel once it is there.
Kernel(p) ==
    \/ fileclose(p)
    \/ pipeclose(p)
    \/ fileput(p)
    \/ \E m \in Mode : open(p, m)
    \/ open_put(p)
    \/ pipe_f1(p)
    \/ pipe_nomem(p)
    \/ \E pi \in Pipe : pipe_kalloc(p, pi)
    \/ piperead_empty(p)
    \/ \E k \in 0..PIPESIZE : piperead(p, k)
    \/ pipe_sleep(p)
    \/ pipewrite(p)
    \/ write_done(p)
    \/ write_loop(p)

\* The system calls a program may make.
Calls(p) ==
    \/ \E fd \in FD :
          \/ sys_dup(p, fd)
          \/ sys_close(p, fd)
          \/ sys_read(p, fd)
          \/ \E s \in Text : sys_write(p, fd, s)
    \/ \E c \in Proc : kfork(p, c)
    \/ kexit(p)
    \/ sys_open(p)
    \/ sys_pipe(p)
    \/ freeproc(p)
    \/ kkill(p)

Next == panic = None /\ \E p \in Proc : Kernel(p) \/ Calls(p)

Spec == Init /\ [][Next]_vars

-----------------------------------------------------------------------------

Thread == [pc : PC, f : Slot \cup {None}, g : Slot \cup {None}, s : Seq(Byte), i : BOOLEAN,
           todo : Seq(Slot), ff : FileRec \cup {None},
           ret : {"user", "zombie", "open_put"}]

\* Type correctness of the file table, the descriptors, the pipes and the
\* threads.
TypeOK ==
    /\ ofile \in [Proc -> [FD -> Slot \cup {None}]]
    /\ file \in [Slot -> FileRec]
    /\ pipe \in [Pipe -> [live : BOOLEAN, readopen : BOOLEAN, writeopen : BOOLEAN,
                          nread : 0..UINT-1, nwrite : 0..UINT-1, lock : Proc \cup {None},
                          data : [0..PIPESIZE-1 -> Byte \cup {None}]]]
    /\ \A pi \in Pipe : stream[pi] \in Seq(Byte)
    /\ cut \subseteq Pipe /\ iref \in Nat
    /\ \A p \in Proc : th[p] \in Thread
    /\ killed \in [Proc -> BOOLEAN]

\* The files that thread p has a reference to and no descriptor shows.
InHand(p) == CASE th[p].pc = "close" -> th[p].todo
               [] th[p].pc = "put" -> Tail(th[p].todo)
               [] th[p].pc = "pipe_f1" -> <<th[p].f>>
               [] th[p].pc = "pipe_kalloc" -> <<th[p].f, th[p].g>>
               [] OTHER -> <<>>
Refs(f) == Cardinality({x \in Proc \X FD : ofile[x[1]][x[2]] = f})
           + Cardinality({x \in Proc \X (1..NOFILE+2) :
                            x[2] <= Len(InHand(x[1])) /\ InHand(x[1])[x[2]] = f})

\* Whether the file is, or is about to be no longer, an end of pipe pi.
IsEnd(r, pi, wr) == r.type = "FD_PIPE" /\ r.pipe = pi /\ r.writable = wr
HasEnd(pi, wr) == \/ \E f \in Slot : IsEnd(file[f], pi, wr)
                  \/ \E p \in Proc : th[p].pc = "put" /\ IsEnd(th[p].ff, pi, wr)

OnInode(r) == r.type \in {"FD_INODE", "FD_DEVICE"}
InodeInHand(p) == \/ th[p].pc = "put" /\ OnInode(th[p].ff)
                  \/ th[p].pc = "open" \/ th[p].pc = "open_put" \/ th[p].ret = "open_put"

\* Nothing is closed while in use and nothing is left open (filedup(),
\* fileclose(), pipealloc(), pipeclose(), the error paths of sys_open() and
\* sys_pipe()): f->ref counts the descriptors of all processes and what the
\* system calls under way have in hand, a slot without references has no type,
\* a pipe is open at an end exactly while some file is that end, its page is
\* allocated exactly while one end is open, and every inode reference belongs
\* to one open file.  So filedup(), fileclose(), fileread() and filewrite() never
\* panic.
RefsExact ==
    /\ TypeOK /\ panic = None
    /\ \A f \in Slot :
          /\ file[f].ref = Refs(f)
          /\ file[f].ref = 0 => file[f].type = "FD_NONE"
    /\ \A pi \in Pipe :
          /\ pipe[pi].writeopen <=> HasEnd(pi, TRUE)
          /\ pipe[pi].readopen <=> HasEnd(pi, FALSE)
          /\ pipe[pi].live <=> pipe[pi].readopen \/ pipe[pi].writeopen
    /\ iref = Cardinality({f \in Slot : OnInode(file[f])})
              + Cardinality({p \in Proc : InodeInHand(p)})

\* No lost wakeup in pipe.c: a reader sleeps only on an empty pipe that can
\* still be written, or while a writer holds the lock and will wake it; a writer
\* sleeps only on a full pipe that can still be read.  The exception is a pipe
\* to which a writer that was killed half way added bytes without wakeup().
PipeSleepersWait ==
    \A p \in Proc :
        LET pi == PipeOf(p) IN
        /\ th[p].pc = "read_wait" =>
              /\ pipe[pi].writeopen
              /\ \/ Empty(pi) \/ pi \in cut
                 \/ \E q \in Proc : pipe[pi].lock = q /\ th[q].pc = "write_loop"
        /\ th[p].pc = "write_wait" => pipe[pi].readopen /\ Full(pi)

\* The ring buffer of a pipe holds exactly the bytes written and not yet read,
\* in order, also when nread and nwrite wrap around (data[nwrite++ % PIPESIZE]).
StreamExact ==
    \A pi \in Pipe : pipe[pi].live =>
        /\ Len(stream[pi]) = Used(pi)
        /\ \A k \in DOMAIN stream[pi] :
              pipe[pi].data[(pipe[pi].nread + k - 1) % PIPESIZE] = stream[pi][k]
=============================================================================
