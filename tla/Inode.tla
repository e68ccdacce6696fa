-------------------------------- MODULE Inode --------------------------------
(***************************************************************************)
(* The contents of inodes: mkfs/mkfs.c, which builds the disk image, and   *)
(* block allocation, block mapping, reading, writing and truncation in     *)
(* kernel/fs.c under filewrite() and fileread() of kernel/file.c.          *)
(*                                                                         *)
(* A block is a sequence of words that holds either the bytes of a file or *)
(* the addresses of blocks; blk is what the buffer cache and the log make  *)
(* of the disk (module Log).  One step holds one buffer of the file at a   *)
(* time; the inode stays locked over the steps of a call.                  *)
(*                                                                         *)
(* struct inode has addrs[NDIRECT+1] where struct dinode has               *)
(* addrs[NDIRECT+2].  The address of the doubly-indirect block,            *)
(* ip->addrs[NDIRECT+1], is thus the word behind the structure: dev of the *)
(* next entry of itable (struct inode has no padding at its end).  The     *)
(* model keeps that layout.                                                *)
(***************************************************************************)
EXTENDS Integers, Sequences, FiniteSets, FiniteSetsExt, SequencesExt

CONSTANTS Proc,
          NDIRECT,
          WORDS,        \* words of a block: BSIZE and NINDIRECT at this scale
          NINODE,       \* entries of itable
          FSSIZE,       \* blocks of the disk
          NMETA,        \* blocks before the data: boot, super, log, inodes, bitmap
          MAXOPBLOCKS,
          Case,         \* disk images and the calls that are made on them
          Calls,        \* bound on the number of calls
          None

ROOTDEV == 1
NINDIRECT == WORDS
BSIZE == WORDS
MAXFILE == NDIRECT + NINDIRECT + NINDIRECT * NINDIRECT
Block == 0..FSSIZE-1
FSMAGIC == 1000000

\* The blocks of the inodes and of the free map: one each, at this scale.
InodeBlock == NMETA - 2
BitmapBlock == NMETA - 1

ASSUME InodeAssumption ==
    /\ {NDIRECT, WORDS, NINODE, FSSIZE, NMETA, MAXOPBLOCKS, Calls} \subseteq Nat \ {0}
    /\ 3 < NMETA /\ NMETA < FSSIZE

VARIABLES bitmap,  \* the blocks marked in the free map
          blk,     \* the blocks
          din,     \* struct dinode of each inode
          itab,    \* itable; the entry NINODE+1 is the memory behind it
          file,    \* the open file of each process
          th,      \* the kernel thread of each process
          text,    \* history: the bytes each file should hold
          logged,  \* the blocks that each thread's transaction wrote
          work,    \* the case that was chosen and the calls left to make
          panic    \* the message of panic(), or None

vars == <<bitmap, blk, din, itab, file, th, text, logged, work, panic>>

\* The bytes programs write: which file and where.
Byte(i, k) == FSMAGIC + 1000 * i + k

ZeroBlock == [j \in 0..WORDS-1 |-> 0]
ZeroAddrs == [k \in 0..NDIRECT+1 |-> 0]
Least(S) == IF S = {} THEN 0 ELSE Min(S)

-----------------------------------------------------------------------------
(* mkfs: blocks are handed out in order and the bitmap is written last. *)

\* What iappend() is at work on: the next free block, the blocks, and the block
\* that it found or took.
Blank == [free |-> NMETA, blk |-> [b \in Block |-> IF b = 1 THEN [ZeroBlock EXCEPT ![0] = FSMAGIC]
                                                  ELSE ZeroBlock],
          din |-> <<>>, x |-> 0]

\* Entry j of index block b, set to freeblock++ if it is 0.
Index(d, b, j) == IF d.blk[b][j] # 0 THEN [d EXCEPT !.x = d.blk[b][j]]
                  ELSE [d EXCEPT !.x = d.free, !.free = @ + 1, !.blk[b][j] = d.free]
Addr(d, i, k) == IF d.din[i].addrs[k] # 0 THEN [d EXCEPT !.x = d.din[i].addrs[k]]
                 ELSE [d EXCEPT !.x = d.free, !.free = @ + 1, !.din[i].addrs[k] = d.free]

\* iappend() of byte v to inode i.
iappend(d, i, v) ==
    LET off == d.din[i].size
        fbn == off \div BSIZE
        dbn == fbn - NDIRECT - NINDIRECT
        s == Addr(d, i, NDIRECT)
        t == Addr(d, i, NDIRECT + 1)
        u == Index(t, t.x, dbn \div NINDIRECT)
        e == CASE fbn < NDIRECT -> Addr(d, i, fbn)
               [] fbn >= NDIRECT /\ dbn < 0 -> Index(s, s.x, fbn - NDIRECT)
               [] OTHER -> Index(u, u.x, dbn % NINDIRECT) IN
    [e EXCEPT !.blk[e.x][off % BSIZE] = v, !.din[i].size = off + 1]

\* ialloc() and the iappend()s of the n bytes of file i.
Fill(d, i, n) == FoldLeft(LAMBDA e, k : iappend(e, i, Byte(i, k - 1)), d,
                          [k \in 1..n |-> k])
ialloc(d) == [d EXCEPT !.din = Append(@, [size |-> 0, addrs |-> ZeroAddrs])]

\* main(): the root directory with ".", ".." and an entry of one byte per
\* file, each file after its entry, and last the size of the root directory
\* made a multiple of BSIZE.
AddFile(d, n) ==
    LET e == ialloc(d) IN Fill(iappend(e, 1, Byte(1, e.din[1].size)), Len(e.din), n)
mkfs(sizes) ==
    LET full == FoldLeft(AddFile, Fill(ialloc(Blank), 1, 2), sizes) IN
    [full EXCEPT !.din[1].size = (@ \div BSIZE + 1) * BSIZE]

-----------------------------------------------------------------------------

\* size and addrs are copies of the disk inode's, without the last address.
FreeEntry == [dev |-> 0, inum |-> 0, ref |-> 0, valid |-> FALSE, size |-> 0,
              addrs |-> [k \in 0..NDIRECT |-> 0], lock |-> None]

\* left: bytes that filewrite() has not yet passed to writei(); n1, tot, off:
\* the arguments and the progress of writei(); idx: the index block in the
\* second half of bmap().
At(l) == [pc |-> l, left |-> 0, n1 |-> 0, tot |-> 0, off |-> 0, idx |-> 0]

\* After fsinit(): every process stands in the root directory.
Boot == [s \in 1..NINODE+1 |->
           IF s = 1 THEN [FreeEntry EXCEPT !.dev = ROOTDEV, !.inum = 1, !.ref = 1]
           ELSE FreeEntry]

Init ==
    \E c \in Case :
        LET d == mkfs(c.sizes) IN
        /\ bitmap = 0..d.free-1 /\ blk = d.blk /\ din = d.din
        /\ itab = Boot
        /\ file = [p \in Proc |-> None]
        /\ th = [p \in Proc |-> At("user")]
        /\ text = [i \in DOMAIN d.din |->
                     [k \in 1..d.din[i].size |->
                        IF i = 1 /\ k > 2 + Len(c.sizes) THEN 0 ELSE Byte(i, k - 1)]]
        /\ logged = [p \in Proc |-> {}]
        /\ work = [case |-> c, left |-> Calls]
        /\ panic = None

-----------------------------------------------------------------------------
(* bmap(). *)

\* ip->addrs[k] of entry s.
addrs(tab, s, k) == IF k <= NDIRECT THEN tab[s].addrs[k] ELSE tab[s+1].dev
SetAddrs(tab, s, k, b) == IF k <= NDIRECT THEN [tab EXCEPT ![s].addrs[k] = b]
                          ELSE [tab EXCEPT ![s+1].dev = b]

\* The state that bmap() changes; addr is its result so far and log the blocks
\* it passed to log_write().
Here(p) == [bitmap |-> bitmap, blk |-> blk, tab |-> itab, log |-> logged[p], addr |-> 0]

\* balloc(): the first free block, zeroed; 0 if there is none.
balloc(d) ==
    LET b == Least(Block \ d.bitmap) IN
    IF b = 0 THEN [d EXCEPT !.addr = 0]
    ELSE [d EXCEPT !.addr = b, !.bitmap = @ \cup {b}, !.blk[b] = ZeroBlock,
                   !.log = @ \cup {BitmapBlock, b}]

\* The block in ip->addrs[k], allocated if there is none.
Top(d, s, k) ==
    LET a == addrs(d.tab, s, k)  e == balloc(d) IN
    IF a # 0 THEN [d EXCEPT !.addr = a]
    ELSE IF e.addr = 0 THEN e ELSE [e EXCEPT !.tab = SetAddrs(@, s, k, e.addr)]

\* The block in entry j of index block b, likewise.
Entry(d, b, j) ==
    LET a == d.blk[b][j]  e == balloc(d) IN
    IF a # 0 THEN [d EXCEPT !.addr = a]
    ELSE IF e.addr = 0 THEN e
    ELSE [e EXCEPT !.blk[b][j] = e.addr, !.log = @ \cup {b}]

\* bmap() of a block below the doubly-indirect ones ...
bmap(d, s, bn) ==
    LET t == Top(d, s, NDIRECT) IN
    IF bn < NDIRECT THEN Top(d, s, bn)
    ELSE IF t.addr = 0 THEN t ELSE Entry(t, t.addr, bn - NDIRECT)

\* Mutant: the entry of the second index block is computed like that of the first.
bmap_second_div(d, idx, bn) == Entry(d, idx, (bn - NDIRECT - NINDIRECT) \div NINDIRECT)

\* ... and of one of those: up to brelse() of the first index block, and the
\* rest.  When balloc() fails in the first half, the second half reads block 0
\* as an index block.
Double(bn) == bn >= NDIRECT + NINDIRECT
Dbn(bn) == bn - NDIRECT - NINDIRECT
bmap_first(d, s, bn) ==
    LET t == Top(d, s, NDIRECT + 1) IN
    IF t.addr = 0 THEN t ELSE Entry(t, t.addr, Dbn(bn) \div NINDIRECT)
bmap_second(d, idx, bn) == Entry(d, idx, Dbn(bn) % NINDIRECT)

-----------------------------------------------------------------------------
(* Open files. *)

Enters(p) == th[p].pc = "user" /\ work.left > 0
Spend == work' = [work EXCEPT !.left = @ - 1]

\* The step changes p's thread, and only what the caller of this says besides.
Goes(p, r) == th' = [th EXCEPT ![p] = r]

\* iget(): the entry that holds inode i, else the first that is free.
Holds(i) == {s \in 1..NINODE : itab[s].ref > 0 /\ itab[s].dev = ROOTDEV /\ itab[s].inum = i}
Empty == {s \in 1..NINODE : itab[s].ref = 0}
iget(i) == IF Holds(i) # {} THEN Min(Holds(i)) ELSE Least(Empty)
Got(s, i) == IF Holds(i) # {} THEN [itab EXCEPT ![s].ref = @ + 1]
             ELSE [itab EXCEPT ![s] = [@ EXCEPT !.dev = ROOTDEV, !.inum = i, !.ref = 1,
                                                !.valid = FALSE]]

\* What ilock() makes of entry e: it copies sizeof(ip->addrs) bytes.
ilock(e) == IF e.valid THEN e
            ELSE [e EXCEPT !.valid = TRUE, !.size = din[e.inum].size,
                           !.addrs = [k \in 0..NDIRECT |-> din[e.inum].addrs[k]]]

\* iupdate(): likewise.
iupdate(e) == [din EXCEPT ![e.inum].size = e.size,
                          ![e.inum].addrs = [k \in 0..NDIRECT+1 |->
                                               IF k <= NDIRECT THEN e.addrs[k] ELSE @[k]]]

\* sys_open() of inode i, with O_TRUNC or not.  A process that has the file open
\* already closes that descriptor afterwards.
open(p, i, trunc) ==
    LET s == iget(i)
        tab == Got(s, i)
        e == ilock(tab[s])
        f == [inum |-> i, s |-> s, off |-> 0] IN
    /\ Enters(p) /\ Spend
    /\ file[p] # None => file[p].inum = i
    /\ \/ /\ s = 0
          /\ panic' = "iget: no inodes" /\ UNCHANGED <<itab, file, th>>
       \/ /\ s # 0 /\ itab[s].lock = None
          /\ itab' = [tab EXCEPT ![s] = [e EXCEPT !.ref = IF file[p] = None THEN @ ELSE @ - 1,
                                                  !.lock = IF trunc THEN p ELSE None]]
          /\ file' = [file EXCEPT ![p] = f]
          /\ Goes(p, At(IF trunc THEN "itrunc" ELSE "user"))
          /\ UNCHANGED panic
    /\ UNCHANGED <<bitmap, blk, din, text, logged>>

\* close(): the inode has links, so iput() only drops the reference.
close(p) ==
    /\ Enters(p) /\ Spend /\ file[p] # None
    /\ itab' = [itab EXCEPT ![file[p].s].ref = @ - 1]
    /\ file' = [file EXCEPT ![p] = None]
    /\ UNCHANGED <<bitmap, blk, din, th, text, logged, panic>>

-----------------------------------------------------------------------------
(* itrunc(). *)

\* The addresses in index block b, 0 left out.
Entries(b) == SelectSeq([j \in 1..NINDIRECT |-> blk[b][j-1]], LAMBDA a : a # 0)

\* bfree() of the blocks in sequence q; log are other blocks that the step logs.
bfree(p, q, log) ==
    IF ToSet(q) \subseteq bitmap /\ IsInjective(q)
    THEN /\ bitmap' = bitmap \ ToSet(q)
         /\ logged' = [logged EXCEPT ![p] = @ \cup log \cup (IF q = <<>> THEN {} ELSE {BitmapBlock})]
         /\ UNCHANGED panic
    ELSE panic' = "freeing free block" /\ UNCHANGED <<bitmap, logged>>

\* The direct blocks ...
itrunc(p) ==
    LET s == file[p].s
        q == SelectSeq([k \in 1..NDIRECT |-> itab[s].addrs[k-1]], LAMBDA a : a # 0) IN
    /\ th[p].pc = "itrunc"
    /\ bfree(p, q, {})
    /\ itab' = [itab EXCEPT ![s].addrs = [k \in 0..NDIRECT |-> IF k < NDIRECT THEN 0 ELSE @[k]]]
    /\ Goes(p, At("itrunc_single"))
    /\ UNCHANGED <<blk, din, file, text, work>>

\* ... the blocks of the indirect block, and that block ...
itrunc_single(p) ==
    LET s == file[p].s  a == itab[s].addrs[NDIRECT] IN
    /\ th[p].pc = "itrunc_single"
    /\ bfree(p, IF a = 0 THEN <<>> ELSE Append(Entries(a), a), {})
    /\ itab' = [itab EXCEPT ![s].addrs[NDIRECT] = 0]
    /\ Goes(p, At("itrunc_double"))
    /\ UNCHANGED <<blk, din, file, text, work>>

\* ... and those of the doubly-indirect block; then iupdate().  bread() of a
\* block that the disk does not have fails in virtio_disk_intr().
itrunc_double(p) ==
    LET s == file[p].s
        a == addrs(itab, s, NDIRECT + 1)
        q == FlattenSeq([j \in DOMAIN Entries(a) |-> Append(Entries(Entries(a)[j]), Entries(a)[j])])
        e == [itab[s] EXCEPT !.size = 0, !.lock = None] IN
    /\ th[p].pc = "itrunc_double"
    /\ IF a = 0 \/ ToSet(Entries(a)) \subseteq Block
       THEN bfree(p, IF a = 0 THEN <<>> ELSE Append(q, a), {InodeBlock})
       ELSE panic' = "virtio_disk_intr status" /\ UNCHANGED <<bitmap, logged>>
    /\ itab' = SetAddrs([itab EXCEPT ![s] = e], s, NDIRECT + 1, 0)
    /\ din' = iupdate(e)
    /\ text' = [text EXCEPT ![e.inum] = <<>>]
    /\ Goes(p, At("end_op"))
    /\ UNCHANGED <<blk, file, work>>

\* end_op(); filewrite() goes on with the next piece.
end_op(p) ==
    LET r == th[p] IN
    /\ r.pc = "end_op"
    /\ logged' = [logged EXCEPT ![p] = {}]
    /\ Goes(p, IF r.left = 0 THEN At("user") ELSE [At("filewrite") EXCEPT !.left = r.left])
    /\ UNCHANGED <<bitmap, blk, din, itab, file, text, work, panic>>

-----------------------------------------------------------------------------
(* fileread() and filewrite(). *)

\* The block of entry s that holds byte off, 0 if there is none.
Lookup(tab, s, off) ==
    LET bn == off \div BSIZE
        a == addrs(tab, s, NDIRECT)
        b == addrs(tab, s, NDIRECT + 1)
        c == blk[b][Dbn(bn) \div NINDIRECT] IN
    CASE bn < NDIRECT -> addrs(tab, s, bn)
      [] bn >= NDIRECT /\ ~Double(bn) -> IF a = 0 THEN 0 ELSE blk[a][bn - NDIRECT]
      [] OTHER -> IF b = 0 \/ c = 0 THEN 0 ELSE blk[c][Dbn(bn) % NINDIRECT]

\* fileread() and readi(): not in a transaction, so that a bmap() which had to
\* allocate would panic in log_write().  A failed either_copyout() leaves f->off.
read(p, n) ==
    LET f == file[p]
        size == itab[f.s].size
        m == Min({n, size - f.off}) IN
    /\ Enters(p) /\ Spend /\ f # None /\ itab[f.s].lock = None
    /\ IF \E k \in 0..m-1 : Lookup(itab, f.s, f.off + k) = 0
       THEN panic' = "log_write outside of trans" /\ UNCHANGED file
       ELSE /\ \/ file' = [file EXCEPT ![p].off = @ + Max({m, 0})]
               \/ m > 0 /\ UNCHANGED file
            /\ UNCHANGED panic
    /\ UNCHANGED <<bitmap, blk, din, itab, th, text, logged>>

write(p, n) ==
    /\ Enters(p) /\ Spend /\ file[p] # None /\ file[p].inum # 1
    /\ file[p].off + n <= work.case.lim[p]
    /\ Goes(p, [At("filewrite") EXCEPT !.left = n])
    /\ UNCHANGED <<bitmap, blk, din, itab, file, text, logged, panic>>

\* Mutant: no room is left for the blocks of the free map and the index blocks.
MaxBytes_all == (MAXOPBLOCKS - 1 - 1 - 2) * BSIZE

\* The most bytes that filewrite() writes in one transaction.
MaxBytes == ((MAXOPBLOCKS - 1 - 1 - 2) \div 2) * BSIZE

\* begin_op(), ilock() and the tests of writei(), for the next piece.
filewrite(p) ==
    LET r == th[p]  f == file[p]
        n1 == Min({r.left, MaxBytes}) IN
    /\ r.pc = "filewrite" /\ itab[f.s].lock = None
    /\ \/ /\ f.off > itab[f.s].size \/ f.off + n1 > MAXFILE * BSIZE
          /\ Goes(p, At("end_op")) /\ UNCHANGED itab
       \/ /\ f.off <= itab[f.s].size /\ f.off + n1 <= MAXFILE * BSIZE
          /\ Goes(p, [r EXCEPT !.pc = "writei", !.n1 = n1, !.off = f.off])
          /\ itab' = [itab EXCEPT ![f.s].lock = p]
    /\ UNCHANGED <<bitmap, blk, din, file, text, logged, work, panic>>

\* What thread p makes of the state d that bmap() left behind.
Mapped(p, d) == /\ bitmap' = d.bitmap /\ itab' = d.tab
                /\ logged' = [logged EXCEPT ![p] = d.log]

\* bmap() returned d.addr: stop if it is 0 or if either_copyin() fails, else
\* copy m bytes of the file to the block.
Copy(p, d) ==
    LET r == th[p]  i == file[p].inum
        m == Min({r.n1 - r.tot, BSIZE - (r.off % BSIZE)})
        at == (r.off)..(r.off+m-1) IN
    \/ /\ Mapped(p, d) /\ blk' = d.blk
       /\ Goes(p, [r EXCEPT !.pc = "writei_end"])
       /\ UNCHANGED text
    \/ /\ d.addr # 0
       /\ Mapped(p, [d EXCEPT !.log = @ \cup {d.addr}])
       /\ blk' = [d.blk EXCEPT ![d.addr] =
                    [j \in DOMAIN @ |-> IF j \in {(k % BSIZE) : k \in at}
                                        THEN Byte(i, (r.off \div BSIZE) * BSIZE + j) ELSE @[j]]]
       /\ text' = [text EXCEPT ![i] = [k \in 1..Max({Len(@), r.off + m}) |->
                                         IF k - 1 \in at THEN Byte(i, k - 1) ELSE @[k]]]
       /\ Goes(p, [r EXCEPT !.pc = IF r.tot + m = r.n1 THEN "writei_end" ELSE "writei",
                            !.tot = @ + m, !.off = @ + m, !.idx = 0])

\* One turn of writei()'s loop.
writei(p) ==
    LET r == th[p]  s == file[p].s  bn == r.off \div BSIZE
        d == bmap_first(Here(p), s, bn) IN
    /\ r.pc = "writei"
    /\ \/ ~Double(bn) /\ Copy(p, bmap(Here(p), s, bn))
       \/ /\ Double(bn)
          /\ Mapped(p, d) /\ blk' = d.blk
          /\ Goes(p, IF addrs(d.tab, s, NDIRECT + 1) = 0 THEN [r EXCEPT !.pc = "writei_end"]
                     ELSE [r EXCEPT !.pc = "writei_second", !.idx = d.addr])
          /\ UNCHANGED text
    /\ UNCHANGED <<din, file, work, panic>>

writei_second(p) ==
    LET r == th[p] IN
    /\ r.pc = "writei_second"
    /\ Copy(p, bmap_second(Here(p), r.idx, r.off \div BSIZE))
    /\ UNCHANGED <<din, file, work, panic>>

\* Mutant: the inode is written back only when its size changed.
writei_end_lazy(p) ==
    LET r == th[p]  f == file[p]
        e == [itab[f.s] EXCEPT !.size = Max({@, r.off}), !.lock = None] IN
    /\ r.pc = "writei_end"
    /\ itab' = [itab EXCEPT ![f.s] = e]
    /\ din' = IF r.off > itab[f.s].size THEN iupdate(e) ELSE din
    /\ logged' = [logged EXCEPT ![p] = @ \cup {InodeBlock}]
    /\ file' = [file EXCEPT ![p].off = @ + r.tot]
    /\ Goes(p, [At("end_op") EXCEPT !.left = IF r.tot = r.n1 THEN r.left - r.n1 ELSE 0])
    /\ UNCHANGED <<bitmap, blk, text, work, panic>>

\* After the loop: the size, iupdate(), and back in filewrite() iunlock().  An
\* incomplete piece is the last one.
writei_end(p) ==
    LET r == th[p]  f == file[p]
        e == [itab[f.s] EXCEPT !.size = Max({@, r.off}), !.lock = None] IN
    /\ r.pc = "writei_end"
    /\ itab' = [itab EXCEPT ![f.s] = e]
    /\ din' = iupdate(e)
    /\ logged' = [logged EXCEPT ![p] = @ \cup {InodeBlock}]
    /\ file' = [file EXCEPT ![p].off = @ + r.tot]
    /\ Goes(p, [At("end_op") EXCEPT !.left = IF r.tot = r.n1 THEN r.left - r.n1 ELSE 0])
    /\ UNCHANGED <<bitmap, blk, text, work, panic>>

\* The machine is switched off between two calls and boots again.
reboot ==
    /\ \A p \in Proc : th[p].pc = "user"
    /\ work.case.reboot /\ work.left > 0 /\ Spend
    /\ itab' = Boot
    /\ file' = [p \in Proc |-> None]
    /\ UNCHANGED <<bitmap, blk, din, th, text, logged, panic>>

-----------------------------------------------------------------------------

Kernel(p) ==
    \/ itrunc(p)
    \/ itrunc_single(p)
    \/ itrunc_double(p)
    \/ end_op(p)
    \/ filewrite(p)
    \/ writei(p)
    \/ writei_second(p)
    \/ writei_end(p)

Next ==
    /\ panic = None
    /\ \/ \E p \in Proc :
            \/ Kernel(p)
            \/ \E c \in work.case.calls[p] :
                 \/ c.op = "close" /\ close(p)
                 \/ c.op = "open" /\ open(p, c.i, FALSE)
                 \/ c.op = "trunc" /\ open(p, c.i, TRUE)
                 \/ c.op = "read" /\ read(p, c.n)
                 \/ c.op = "write" /\ write(p, c.n)
       \/ reboot

Spec == Init /\ [][Next]_vars

-----------------------------------------------------------------------------

\* The entry of inode i, if it is in the table and was read, and its addresses.
Cached(i) == {s \in Holds(i) : itab[s].valid}
\* The word behind the entry is an address unless it is the dev of the next one.
AddrsOf(i) ==
    [k \in 0..NDIRECT+1 |->
       LET s == Min(Cached(i)) IN
       IF Cached(i) = {} THEN din[i].addrs[k]
       ELSE IF k = NDIRECT + 1 /\ itab[s+1].dev = ROOTDEV THEN 0 ELSE addrs(itab, s, k)]
SizeOf(i) == IF Cached(i) = {} THEN din[i].size ELSE itab[Min(Cached(i))].size

\* All places that hold the address of a block: in inodes and in index blocks.
IndexBlocks ==
    LET single == {AddrsOf(i)[NDIRECT] : i \in DOMAIN din}
        double == {AddrsOf(i)[NDIRECT+1] : i \in DOMAIN din} \ {0} IN
    (single \cup double \cup {blk[b][j] : b \in double, j \in 0..NINDIRECT-1}) \ {0}
InodeCells == {x \in (DOMAIN din) \X (0..NDIRECT+1) : AddrsOf(x[1])[x[2]] # 0}
IndexCells == {x \in IndexBlocks \X (0..NINDIRECT-1) : blk[x[1]][x[2]] # 0}

\* No block is lost, none belongs to two files or twice to one (balloc(),
\* bfree(), bmap(), itrunc(), mkfs): the blocks of the data area that are
\* marked in the bitmap are exactly those that inodes and index blocks refer
\* to, each of them in one place, also when the disk is full; so bfree() never
\* meets a free block, and none of the other assertions on the way fails.
BlocksExact ==
    LET found == {AddrsOf(x[1])[x[2]] : x \in InodeCells}
                 \cup {blk[x[1]][x[2]] : x \in IndexCells} IN
    /\ bitmap = found \cup 0..NMETA-1
    /\ Cardinality(found) = Cardinality(InodeCells) + Cardinality(IndexCells)
    /\ panic = None

\* The byte at position k of inode i: what readi() copies out.
ByteAt(i, k) ==
    LET bn == k \div BSIZE
        a == AddrsOf(i)
        b == CASE bn < NDIRECT -> a[bn]
               [] bn >= NDIRECT /\ ~Double(bn) -> blk[a[NDIRECT]][bn - NDIRECT]
               [] OTHER -> blk[blk[a[NDIRECT+1]][Dbn(bn) \div NINDIRECT]][Dbn(bn) % NINDIRECT] IN
    blk[b][k % BSIZE]

\* A file holds what was written to it (writei(), readi(), bmap(), iupdate(),
\* ilock(), mkfs): outside a call its size and every byte are those of the
\* writes that succeeded, across block boundaries, failures half way, closing,
\* reopening, and a restart.
ContentExact ==
    \A i \in DOMAIN din : (\A s \in Cached(i) : itab[s].lock = None) =>
        /\ SizeOf(i) = Len(text[i])
        /\ \A k \in 1..Len(text[i]) : ByteAt(i, k - 1) = text[i][k]

\* A transaction of filewrite() or of itrunc() fits the log: it writes no more
\* than the MAXOPBLOCKS different blocks that begin_op() reserved.
LogBound == \A p \in Proc : Cardinality(logged[p]) <= MAXOPBLOCKS
=============================================================================
