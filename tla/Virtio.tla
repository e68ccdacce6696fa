------------------------------- MODULE Virtio -------------------------------
(***************************************************************************)
(* The disk driver (kernel/virtio_disk.c) and, external, the disk.         *)
(*                                                                         *)
(* disk.vdisk_lock is a spin lock.  A step is what runs under it between   *)
(* two points where the device looks: the device sees the avail ring and   *)
(* its index as they are written, takes chains in the order of the ring,   *)
(* finishes them in any order, writes data, status, used ring and index,   *)
(* and raises its interrupt after that.                                    *)
(***************************************************************************)
EXTENDS Plic

CONSTANTS NUM,      \* descriptors, and entries of each ring
          UINT16,   \* 2^16: the ring indices wrap around here
          Blockno,  \* disk blocks
          Served    \* requests served before the behaviour starts

ASSUME VirtioAssumption ==
    /\ NUM \in Nat /\ NUM >= 3 /\ UINT16 \in Nat \ {0} /\ UINT16 % NUM = 0
    /\ Served \in Nat

Desc == 0..NUM-1

VARIABLES disk,   \* struct disk: driver, descriptors and rings
          buf,    \* the buffer each process has locked: b->disk, b->data
          dev,    \* the device: chains seen and taken, interrupt owed and raised
          block   \* what the disk holds

diskvars == <<disk, buf, dev, block>>

NoDesc == [addr |-> None, flags |-> FALSE, next |-> 0]
Ring == [ring |-> [i \in Desc |-> 0], idx |-> Served % UINT16]

\* virtio_disk_init(): all descriptors are free and the rings are empty.  (One
\* request at a time always took the chain at 0.)  flags is VRING_DESC_F_NEXT;
\* a buffer is named by the process that has it locked.
VirtioInit ==
    /\ disk = [free |-> Desc, desc |-> [i \in Desc |-> NoDesc], ops |-> [i \in Desc |-> None],
               info |-> [i \in Desc |-> [b |-> None, status |-> 0]],
               avail |-> Ring, used |-> Ring, used_idx |-> Served % UINT16, lock |-> None]
    /\ buf = [p \in Proc |-> [disk |-> FALSE, data |-> None]]
    /\ dev = [seen |-> Served % UINT16, taken |-> {}, owed |-> FALSE, status |-> FALSE]
    /\ block = [n \in Blockno |-> None]

Next16(x) == (x + 1) % UINT16

-----------------------------------------------------------------------------
(* virtio_disk_rw(). *)

\* bread() or bwrite() has a job: a block number, whether to write, the data.
virtio_disk_rw(p, job) ==
    /\ th[p].pc = "user" /\ ~th[p].killed
    /\ th' = [th EXCEPT ![p].pc = "rw", ![p].job = job]
    /\ buf' = [buf EXCEPT ![p].data = job.data]
    /\ UNCHANGED <<hart, panic, disk, dev, block>>

\* alloc3_desc(): take three descriptors or, after giving back those it got
\* with a wakeup() for each, sleep on &disk.free[0].
alloc3_desc(p) ==
    LET i == Min(disk.free)  j == Min(disk.free \ {i})  k == Min(disk.free \ {i, j}) IN
    /\ th[p].pc = "rw" /\ disk.lock = None
    /\ \/ /\ Cardinality(disk.free) >= 3
          /\ disk' = [disk EXCEPT !.free = @ \ {i, j, k}, !.lock = p]
          /\ th' = [th EXCEPT ![p].pc = "format", ![p].idx = <<i, j, k>>]
       \/ /\ Cardinality(disk.free) < 3
          /\ th' = [(IF disk.free = {} THEN th ELSE Wakeup(th, "rw_free", "rw"))
                      EXCEPT ![p].pc = "rw_free"]
          /\ UNCHANGED disk
    /\ UNCHANGED <<hart, panic, buf, dev, block>>

\* Format the chain, record the buffer, and put the chain in the avail ring.
format(p) ==
    LET idx == th[p].idx  a == disk.avail IN
    /\ th[p].pc = "format"
    /\ disk' = [disk EXCEPT
         !.ops[idx[1]] = th[p].job,
         !.desc[idx[1]] = [addr |-> idx[1], flags |-> TRUE, next |-> idx[2]],
         !.desc[idx[2]] = [addr |-> p, flags |-> TRUE, next |-> idx[3]],
         !.desc[idx[3]] = [addr |-> idx[1], flags |-> FALSE, next |-> 0],
         !.info[idx[1]] = [b |-> p, status |-> 255],
         !.avail.ring[a.idx % NUM] = idx[1]]
    /\ buf' = [buf EXCEPT ![p].disk = TRUE]
    /\ Goes(p, "notify")
    /\ UNCHANGED <<hart, panic, dev, block>>

\* After the barrier, the new index; then sleep on b: b->disk is still 1, since
\* virtio_disk_intr() needs the lock.
notify(p) ==
    /\ th[p].pc = "notify"
    /\ disk' = [disk EXCEPT !.avail.idx = Next16(@), !.lock = None]
    /\ Goes(p, "rw_wait")
    /\ UNCHANGED <<hart, panic, buf, dev, block>>

\* Mutant: the loop of free_chain() stops after the first descriptor.
Chain_head(i) == {i}

\* The descriptors of the chain that starts at i.
Chain(i) == {i} \cup (IF disk.desc[i].flags
                      THEN LET j == disk.desc[i].next IN
                           {j} \cup (IF disk.desc[j].flags THEN {disk.desc[j].next} ELSE {})
                      ELSE {})

\* Mutant: a process that wakes up takes its request to be done (if for while).
free_chain_if(p) ==
    LET i == th[p].idx[1] IN
    /\ th[p].pc = "rw_done" /\ disk.lock = None
    /\ disk' = [disk EXCEPT !.info[i].b = None, !.free = @ \cup Chain(i)]
    /\ th' = [Wakeup(th, "rw_free", "rw") EXCEPT ![p].pc = "user", ![p].idx = <<>>]
    /\ UNCHANGED <<hart, panic, buf, dev, block>>

\* Woken: free_chain() with a wakeup() of those who wait for descriptors.
free_chain(p) ==
    LET i == th[p].idx[1] IN
    /\ th[p].pc = "rw_done" /\ disk.lock = None
    /\ \/ /\ buf[p].disk
          /\ Goes(p, "rw_wait") /\ UNCHANGED <<disk, panic>>
       \/ /\ ~buf[p].disk /\ Chain(i) \cap disk.free = {}
          /\ disk' = [disk EXCEPT !.info[i].b = None, !.free = @ \cup Chain(i),
                                  !.desc = [d \in Desc |-> IF d \in Chain(i) THEN NoDesc ELSE @[d]]]
          /\ th' = [Wakeup(th, "rw_free", "rw") EXCEPT ![p].pc = "user", ![p].idx = <<>>]
          /\ UNCHANGED panic
       \/ /\ ~buf[p].disk /\ Chain(i) \cap disk.free # {}
          /\ panic' = "free_desc 2" /\ UNCHANGED <<disk, th>>
    /\ UNCHANGED <<hart, buf, dev, block>>

-----------------------------------------------------------------------------
(* virtio_disk_intr(). *)

\* Acknowledge the interrupt, with the lock.
virtio_disk_intr(h) ==
    /\ hart[h].pc = "virtio_disk_intr" /\ disk.lock = None
    /\ disk' = [disk EXCEPT !.lock = h]
    /\ dev' = [dev EXCEPT !.status = FALSE]
    /\ Turns(h, "used")
    /\ UNCHANGED <<th, panic, buf, block>>

\* One used entry, or the end of the loop.
used(h) ==
    LET i == disk.used.ring[disk.used_idx % NUM]  b == disk.info[i].b IN
    /\ hart[h].pc = "used"
    /\ \/ /\ disk.used_idx = disk.used.idx
          /\ disk' = [disk EXCEPT !.lock = None]
          /\ Turns(h, "plic_complete")
          /\ UNCHANGED <<th, panic, buf>>
       \/ /\ disk.used_idx # disk.used.idx
          /\ disk.info[i].status # 0 \/ b = None
          /\ panic' = "virtio_disk_intr status"
          /\ UNCHANGED <<th, hart, disk, buf>>
       \/ /\ disk.used_idx # disk.used.idx /\ disk.info[i].status = 0 /\ b # None
          /\ buf' = [buf EXCEPT ![b].disk = FALSE]
          /\ th' = [th EXCEPT ![b].pc = IF @ = "rw_wait" THEN "rw_done" ELSE @]
          /\ disk' = [disk EXCEPT !.used_idx = Next16(@)]
          /\ UNCHANGED <<hart, panic>>
    /\ UNCHANGED <<dev, block>>

-----------------------------------------------------------------------------
(* External: the device. *)

take ==
    /\ dev.seen # disk.avail.idx
    /\ dev' = [dev EXCEPT !.seen = Next16(@), !.taken = @ \cup {disk.avail.ring[dev.seen % NUM]}]
    /\ UNCHANGED <<plicvars, disk, buf, block>>

\* The request of the chain at i, as its descriptors say.
finish(i) ==
    LET j == disk.desc[i].next
        b == disk.desc[j].addr
        s == disk.desc[disk.desc[j].next].addr
        op == disk.ops[disk.desc[i].addr] IN
    /\ i \in dev.taken
    /\ IF op.write THEN block' = [block EXCEPT ![op.n] = buf[b].data] /\ UNCHANGED buf
       ELSE buf' = [buf EXCEPT ![b].data = block[op.n]] /\ UNCHANGED block
    /\ disk' = [disk EXCEPT !.info[s].status = 0, !.used.ring[disk.used.idx % NUM] = i,
                            !.used.idx = Next16(@)]
    /\ dev' = [dev EXCEPT !.taken = @ \ {i}, !.owed = TRUE]
    /\ UNCHANGED plicvars

raise ==
    /\ dev.owed
    /\ dev' = [dev EXCEPT !.owed = FALSE, !.status = TRUE]
    /\ UNCHANGED <<plicvars, disk, buf, block>>

DiskLine == IF dev.status THEN {VIRTIO0_IRQ} ELSE {}

-----------------------------------------------------------------------------

\* Requests between the new avail index and the used entry that the driver has
\* seen: the device may use their descriptors at any time.
Between(a, b, ring) == {ring[k % NUM] : k \in {x \in 0..UINT16-1 :
                                            (x - a + UINT16) % UINT16 < (b - a + UINT16) % UINT16}}
Given == Between(dev.seen, disk.avail.idx, disk.avail.ring) \cup dev.taken
         \cup Between(disk.used_idx, disk.used.idx, disk.used.ring)

\* Descriptors have one owner (alloc3_desc(), free_chain(), the ring indices):
\* a descriptor is free or belongs to one request; a chain that the device was
\* given stays as it was formatted, with its buffer, until the interrupt
\* handler saw it in the used ring.
RingExact ==
    /\ \A d \in Desc : Cardinality({p \in Proc : \E k \in DOMAIN th[p].idx : th[p].idx[k] = d})
                       = IF d \in disk.free THEN 0 ELSE 1
    /\ \A i \in Given : \E p \in Proc :
          /\ th[p].pc \in {"rw_wait", "rw_done"} /\ th[p].idx[1] = i /\ buf[p].disk
          /\ disk.info[i].b = p /\ disk.ops[i] = th[p].job
          /\ Chain(i) = {th[p].idx[k] : k \in 1..3}

\* A request is done when virtio_disk_rw() returns: the block holds what was
\* written and the buffer what was read (a process has its blocks to itself,
\* as the buffer cache makes sure).
DiskExact ==
    \A p \in Proc : th[p].pc = "user" /\ th[p].job # None =>
        /\ buf[p].data = block[th[p].job.n] /\ ~buf[p].disk
        /\ th[p].job.write => block[th[p].job.n] = th[p].job.data

\* No lost wakeup in virtio_disk.c: a process waits for descriptors only while
\* there are fewer than three, and for its buffer only while the device has it
\* or an interrupt is coming.
DiskSleepersWait ==
    \A p \in Proc :
        /\ th[p].pc = "rw_free" => Cardinality(disk.free) < 3
        /\ th[p].pc = "rw_wait" =>
             /\ buf[p].disk /\ th[p].idx[1] \in Given
             /\ disk.used_idx # disk.used.idx =>
                  dev.owed \/ dev.status \/ \E h \in Hart : hart[h].pc = "used"
=============================================================================
