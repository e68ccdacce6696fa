-------------------------------- MODULE Log ---------------------------------
(***************************************************************************)
(* The write-ahead log (kernel/log.c) over the buffer cache (kernel/bio.c) *)
(* and the disk.  A crash may strike between any two steps and leaves the  *)
(* disk only; recovery runs in the first process after the reboot.         *)
(*                                                                         *)
(* A step runs from one lock, disk transfer or wait to the next.  A block  *)
(* is written as a whole.  brelse() is joined to the step before it: until *)
(* then the buffer's sleep-lock and reference keep everybody else away.    *)
(***************************************************************************)
EXTENDS Naturals, FiniteSets, Sequences, SequencesExt

CONSTANTS Proc,
          initproc,     \* runs recover_from_log() after a reboot
          Block,        \* home blocks, the ones that operations write
          Val,          \* contents of a home block
          Buf,          \* bcache.buf[NBUF]
          header,       \* the block log.start
          LOGBLOCKS,    \* the blocks log.start + 1, ... are 1..LOGBLOCKS
          MAXOPBLOCKS,  \* max # of blocks any FS op writes
          None          \* no process, no block

ASSUME LogAssumption ==
    /\ initproc \in Proc
    /\ LOGBLOCKS \in Nat /\ MAXOPBLOCKS \in Nat \ {0}

VARIABLES disk,  \* what survives a crash
          buf,   \* the buffer cache
          lh,    \* log.lh: the home blocks of the transaction, in log order
          outstanding, committing,  \* fields of struct log
          first, \* of forkret(): recovery is not done
          panic, \* the kernel stopped
          th     \* the thread of each process

vars == <<disk, buf, lh, outstanding, committing, first, panic, th>>

Addr == Block \cup {header} \cup 1..LOGBLOCKS
Seqs(S, n) == UNION {[1..k -> S] : k \in 0..n}
Data == Val \cup Seqs(Block, LOGBLOCKS)

\* want is the block that bread() is to return, ret where the thread goes on
\* then, held the buffers it has, tail the index of a loop over lh, wrote the
\* blocks an operation has modified.
PC == {"off", "user", "begin", "asleep", "op", "bget", "acquiresleep", "look",
       "have", "commit", "log_from", "log_copy", "head_write", "inst_dst", "inst_copy",
       "committed", "read_head"}
Thread == [pc : PC, want : Addr \cup {None}, ret : PC, held : Seq(Buf),
           tail : 0..LOGBLOCKS, wrote : SUBSET Block]
At(l) == [pc |-> l, want |-> None, ret |-> "user", held |-> <<>>, tail |-> 0, wrote |-> {}]

\* A call of bread(a) that goes on at l.
Bread(t, a, l) == [t EXCEPT !.pc = "bget", !.want = a, !.ret = l]

EmptyBuf == [blockno |-> None, valid |-> FALSE, refcnt |-> 0, lock |-> None, data |-> None]

\* The state after power-on: the first process starts recovery, the others do
\* not exist yet.
Boot ==
    /\ buf' = [i \in Buf |-> EmptyBuf]
    /\ lh' = <<>> /\ outstanding' = 0 /\ committing' = FALSE
    /\ first' = TRUE /\ panic' = "none"
    /\ th' = [p \in Proc |-> IF p = initproc THEN Bread(At("off"), header, "read_head")
                                             ELSE At("off")]

\* mkfs leaves an empty log and some image.
Init ==
    /\ \E v \in Val : disk = [a \in Addr |-> IF a = header THEN <<>> ELSE v]
    /\ buf = [i \in Buf |-> EmptyBuf]
    /\ lh = <<>> /\ outstanding = 0 /\ committing = FALSE
    /\ first = TRUE /\ panic = "none"
    /\ th = [p \in Proc |-> IF p = initproc THEN Bread(At("off"), header, "read_head")
                                            ELSE At("off")]

-----------------------------------------------------------------------------
(* The buffer cache. *)

\* bget(): under bcache.lock, the buffer that caches the block, or else one
\* that nobody refers to.  (The code takes the least recently used.)
bget(p) ==
    /\ th[p].pc = "bget"
    /\ LET hit == {i \in Buf : buf[i].blockno = th[p].want}
           free == {i \in Buf : buf[i].refcnt = 0}
       IN  IF hit = {} /\ free = {}
           THEN panic' = "bget: no buffers" /\ UNCHANGED <<buf, th>>
           ELSE \E i \in IF hit # {} THEN hit ELSE free :
                  /\ buf' = IF hit # {} THEN [buf EXCEPT ![i].refcnt = @ + 1]
                            ELSE [buf EXCEPT ![i] = [EmptyBuf EXCEPT !.blockno = th[p].want,
                                                                     !.refcnt = 1]]
                  /\ th' = [th EXCEPT ![p].pc = "acquiresleep",
                                      ![p].held = Append(@, i)]
                  /\ UNCHANGED panic
    /\ UNCHANGED <<disk, lh, outstanding, committing, first>>

\* acquiresleep() of the buffer; bread() reads the block when it is not valid.
acquiresleep(p) ==
    LET i == Last(th[p].held) IN
    /\ th[p].pc = "acquiresleep" /\ buf[i].lock = None
    /\ buf' = [buf EXCEPT ![i].lock = p, ![i].valid = TRUE,
                          ![i].data = IF buf[i].valid THEN @ ELSE disk[th[p].want]]
    /\ th' = [th EXCEPT ![p].pc = th[p].ret]
    /\ UNCHANGED <<disk, lh, outstanding, committing, first, panic>>

\* The buffers after brelse() of those in S.
brelse(bs, S) == [i \in Buf |-> IF i \in S THEN [bs[i] EXCEPT !.lock = None, !.refcnt = @ - 1]
                                ELSE bs[i]]

-----------------------------------------------------------------------------
(* Operations. *)

\* A system call without a transaction reads a block (fileread()).
look(p, b) ==
    /\ th[p].pc = "user"
    /\ th' = [th EXCEPT ![p] = Bread(@, b, "look")]
    /\ UNCHANGED <<disk, buf, lh, outstanding, committing, first, panic>>

look_end(p) ==
    /\ th[p].pc = "look"
    /\ buf' = brelse(buf, {Last(th[p].held)})
    /\ th' = [th EXCEPT ![p] = At("user")]
    /\ UNCHANGED <<disk, lh, outstanding, committing, first, panic>>

\* Mutant: begin_op() does not wait for a commit.
begin_op_early(p) ==
    /\ th[p].pc \in {"user", "begin"}
    /\ IF Len(lh) + (outstanding + 1) * MAXOPBLOCKS > LOGBLOCKS
       THEN th' = [th EXCEPT ![p] = At("asleep")] /\ UNCHANGED outstanding
       ELSE th' = [th EXCEPT ![p] = At("op")] /\ outstanding' = outstanding + 1
    /\ UNCHANGED <<disk, buf, lh, committing, first, panic>>

\* begin_op(), from the start or after a wakeup.
begin_op(p) ==
    /\ th[p].pc \in {"user", "begin"}
    /\ IF committing \/ Len(lh) + (outstanding + 1) * MAXOPBLOCKS > LOGBLOCKS
       THEN th' = [th EXCEPT ![p] = At("asleep")] /\ UNCHANGED outstanding
       ELSE th' = [th EXCEPT ![p] = At("op")] /\ outstanding' = outstanding + 1
    /\ UNCHANGED <<disk, buf, lh, committing, first, panic>>

\* An operation reads a block, modifies it or not, and releases it.
op_bread(p, b) ==
    /\ th[p].pc = "op"
    /\ th' = [th EXCEPT ![p] = Bread(@, b, "have")]
    /\ UNCHANGED <<disk, buf, lh, outstanding, committing, first, panic>>

op_brelse(p) ==
    /\ th[p].pc = "have"
    /\ buf' = brelse(buf, {Last(th[p].held)})
    /\ th' = [th EXCEPT ![p].pc = "op", ![p].held = <<>>]
    /\ UNCHANGED <<disk, lh, outstanding, committing, first, panic>>

\* Mutant: an absorbed block is pinned again.
log_write_repin(p, v) ==
    LET i == Last(th[p].held)
        b == buf[i].blockno
    IN
    /\ th[p].pc = "have" /\ Len(lh) < LOGBLOCKS
    /\ b \in th[p].wrote \/ Cardinality(th[p].wrote) < MAXOPBLOCKS
    /\ buf' = [buf EXCEPT ![i].data = v, ![i].refcnt = @ + 1]
    /\ lh' = IF Contains(lh, b) THEN lh ELSE Append(lh, b)
    /\ th' = [th EXCEPT ![p].wrote = @ \cup {b}]
    /\ UNCHANGED <<disk, outstanding, committing, first, panic>>

\* The buffer is modified, then log_write() records it, and pins it when it is
\* new to the log; the test for a full log comes before the one for absorption.
log_write(p, v) ==
    LET i == Last(th[p].held)
        b == buf[i].blockno
    IN
    /\ th[p].pc = "have"
    /\ b \in th[p].wrote \/ Cardinality(th[p].wrote) < MAXOPBLOCKS
    /\ IF Len(lh) >= LOGBLOCKS THEN panic' = "too big a transaction" /\ UNCHANGED <<buf, lh, th>>
       ELSE IF outstanding < 1 THEN panic' = "log_write outside of trans" /\ UNCHANGED <<buf, lh, th>>
       ELSE /\ buf' = [buf EXCEPT ![i].data = v,
                                  ![i].refcnt = IF Contains(lh, b) THEN @ ELSE @ + 1]
            /\ lh' = IF Contains(lh, b) THEN lh ELSE Append(lh, b)
            /\ th' = [th EXCEPT ![p].wrote = @ \cup {b}]
            /\ UNCHANGED panic
    /\ UNCHANGED <<disk, outstanding, committing, first>>

\* Everybody in sleep(&log) wakes up.
WakeLog(t) == [q \in Proc |-> IF t[q].pc = "asleep" THEN At("begin") ELSE t[q]]

\* end_op(): the last operation commits.
end_op(p) ==
    /\ th[p].pc = "op"
    /\ outstanding' = outstanding - 1
    /\ IF committing THEN panic' = "log.committing" /\ UNCHANGED <<committing, th>>
       ELSE /\ committing' = (outstanding = 1)
            /\ th' = IF outstanding = 1 THEN [th EXCEPT ![p] = At("commit")]
                     ELSE WakeLog([th EXCEPT ![p] = At("user")])
            /\ UNCHANGED panic
    /\ UNCHANGED <<disk, buf, lh, first>>

-----------------------------------------------------------------------------
(* commit() and recover_from_log() *)

\* Mutant: write_head() comes before write_log().
commit_head_first(p) ==
    /\ th[p].pc = "commit"
    /\ disk' = [disk EXCEPT ![header] = lh]
    /\ th' = [th EXCEPT ![p] = IF lh = <<>> THEN At("committed")
                               ELSE Bread(At("commit"), 1, "log_from")]
    /\ UNCHANGED <<buf, lh, outstanding, committing, first, panic>>

\* commit() does nothing for an empty transaction, else starts write_log().
commit(p) ==
    /\ th[p].pc = "commit"
    /\ th' = [th EXCEPT ![p] = IF lh = <<>> THEN At("committed")
                               ELSE Bread(At("commit"), 1, "log_from")]
    /\ UNCHANGED <<disk, buf, lh, outstanding, committing, first, panic>>

\* The loops of write_log() and install_trans() hold the log block and go on
\* to the home block.
log_from(p) ==
    /\ th[p].pc \in {"log_from", "inst_dst"}
    /\ th' = [th EXCEPT ![p] = Bread(@, lh[th[p].tail + 1],
                                     IF @.pc = "log_from" THEN "log_copy" ELSE "inst_copy")]
    /\ UNCHANGED <<disk, buf, lh, outstanding, committing, first, panic>>

\* write_log(): copy the cached block to the log block, bwrite(), brelse() both.
write_log(p) ==
    LET to == th[p].held[1]
        from == th[p].held[2]
        next == th[p].tail + 1
    IN
    /\ th[p].pc = "log_copy"
    /\ buf' = brelse([buf EXCEPT ![to].data = buf[from].data], {to, from})
    /\ disk' = [disk EXCEPT ![buf[to].blockno] = buf[from].data]
    /\ th' = [th EXCEPT ![p] =
                IF next < Len(lh) THEN Bread([At("commit") EXCEPT !.tail = next], next + 1, "log_from")
                ELSE Bread(At("commit"), header, "head_write")]
    /\ UNCHANGED <<lh, outstanding, committing, first, panic>>

\* write_head(), followed by install_trans() for the head that commits.  After
\* the head that erases the log, commit() or the recovery is done.
write_head(p) ==
    LET i == th[p].held[1] IN
    /\ th[p].pc = "head_write"
    /\ buf' = brelse([buf EXCEPT ![i].data = lh], {i})
    /\ disk' = [disk EXCEPT ![header] = lh]
    /\ th' = IF lh # <<>> THEN [th EXCEPT ![p] = Bread(At("commit"), 1, "inst_dst")]
             ELSE IF first THEN [q \in Proc |-> At("user")]
             ELSE [th EXCEPT ![p] = At("committed")]
    /\ first' = (first /\ lh # <<>>)
    /\ UNCHANGED <<lh, outstanding, committing, panic>>

\* install_trans(): copy the log block home, bwrite(), bunpin() unless
\* recovering, brelse() both; then log.lh.n = 0 and write_head().
install_trans(p) ==
    LET from == th[p].held[1]
        dst == th[p].held[2]
        next == th[p].tail + 1
    IN
    /\ th[p].pc = "inst_copy"
    /\ buf' = brelse([buf EXCEPT ![dst].data = buf[from].data,
                                 ![dst].refcnt = IF first THEN @ ELSE @ - 1], {from, dst})
    /\ disk' = [disk EXCEPT ![buf[dst].blockno] = buf[from].data]
    /\ IF next < Len(lh)
       THEN /\ th' = [th EXCEPT ![p] = Bread([At("commit") EXCEPT !.tail = next], next + 1, "inst_dst")]
            /\ UNCHANGED lh
       ELSE /\ th' = [th EXCEPT ![p] = Bread(At("commit"), header, "head_write")]
            /\ lh' = <<>>
    /\ UNCHANGED <<outstanding, committing, first, panic>>

\* Mutant: no wakeup(&log) after the commit.
committed_silent(p) ==
    /\ th[p].pc = "committed"
    /\ committing' = FALSE
    /\ th' = [th EXCEPT ![p] = At("user")]
    /\ UNCHANGED <<disk, buf, lh, outstanding, first, panic>>

\* end_op() after commit().
committed(p) ==
    /\ th[p].pc = "committed"
    /\ committing' = FALSE
    /\ th' = WakeLog([th EXCEPT ![p] = At("user")])
    /\ UNCHANGED <<disk, buf, lh, outstanding, first, panic>>

\* recover_from_log(): read_head(), then install_trans(1) if there is a
\* committed transaction, and write_head() in any case.
read_head(p) ==
    LET i == th[p].held[1] IN
    /\ th[p].pc = "read_head"
    /\ lh' = buf[i].data
    /\ buf' = brelse(buf, {i})
    /\ th' = [th EXCEPT ![p] = IF buf[i].data = <<>> THEN Bread(At("off"), header, "head_write")
                               ELSE Bread(At("off"), 1, "inst_dst")]
    /\ UNCHANGED <<disk, outstanding, committing, first, panic>>

Crash == Boot /\ UNCHANGED disk

Step(p) ==
    \/ bget(p) \/ acquiresleep(p) \/ look_end(p) \/ begin_op(p) \/ op_brelse(p) \/ end_op(p)
    \/ commit(p) \/ log_from(p) \/ write_log(p) \/ write_head(p) \/ install_trans(p)
    \/ committed(p) \/ read_head(p)
    \/ \E b \in Block : look(p, b) \/ op_bread(p, b)
    \/ \E v \in Val : log_write(p, v)

Next == Crash \/ (panic = "none" /\ \E p \in Proc : Step(p))

Spec == Init /\ [][Next]_vars

-----------------------------------------------------------------------------

\* Every field holds a value of its type: a transaction fits the log.
TypeOK ==
    /\ disk \in [Addr -> Data] /\ disk[header] \in Seqs(Block, LOGBLOCKS)
    /\ buf \in [Buf -> [blockno : Addr \cup {None}, valid : BOOLEAN, refcnt : Nat,
                        lock : Proc \cup {None}, data : Data \cup {None}]]
    /\ lh \in Seqs(Block, LOGBLOCKS)
    /\ outstanding \in Nat /\ committing \in BOOLEAN
    /\ th \in [Proc -> Thread]

\* A block is cached once at most (bget()), so everybody sees the same contents.
\* A buffer's count is the number of threads that have it, plus one from the
\* log_write() that records its block until install_trans() has copied it home:
\* a modified block stays cached until then, and not longer.
RefcntExact ==
    /\ TypeOK
    /\ \A i \in Buf :
         /\ \A j \in Buf \ {i} : buf[i].blockno # None => buf[i].blockno # buf[j].blockno
         /\ LET Installing(p) == th[p].ret \in {"inst_dst", "inst_copy"}
                users == {p \in Proc : Contains(th[p].held, i)}
                pins == {k \in 1..Len(lh) : /\ lh[k] = buf[i].blockno /\ ~first
                                            /\ \A p \in Proc : Installing(p) => k > th[p].tail}
            IN  buf[i].refcnt = Cardinality(users) + Cardinality(pins)

\* No lost wakeup: a process asleep in begin_op() has somebody to wake it.
SleepersWait == \A p \in Proc : th[p].pc = "asleep" => committing \/ outstanding > 0

\* The log has room for what operations may write, and the cache for what
\* they hold: the one panic left is that of log_write() for a block that is
\* in a full log already, as it tests for space before absorption.
NoPanic == panic # "none" =>
    /\ panic = "too big a transaction"
    /\ \E p \in Proc : th[p].pc = "have" /\ Contains(lh, buf[Last(th[p].held)].blockno)

\* The contents after a crash: what the committed transaction in the log says,
\* else what the home blocks say.
durable == [b \in Block |->
    IF Contains(disk[header], b) THEN disk[CHOOSE k \in 1..Len(disk[header]) : disk[header][k] = b]
    ELSE disk[b]]

\* The contents that bread() gives.
now == IF first THEN durable ELSE [b \in Block |->
    IF \E i \in Buf : buf[i].blockno = b /\ buf[i].valid
    THEN buf[CHOOSE i \in Buf : buf[i].blockno = b].data ELSE disk[b]]

\* The log and the cache implement atomic, durable operations.
Atomic == INSTANCE AtomicDisk WITH MaxOps <- LOGBLOCKS, ops <- outstanding
AtomicDiskSpec == Atomic!Spec
=============================================================================
