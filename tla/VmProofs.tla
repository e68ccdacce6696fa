----------------------------- MODULE VmProofs ------------------------------
(***************************************************************************)
(* Proofs about user memory, for any number of processes, page tables and  *)
(* pages and any size of the address space: the inductive invariant about  *)
(* threads, what a step that changes one thread, one page or nothing of a  *)
(* page table keeps of it, that every step keeps it, and the theorems.     *)
(***************************************************************************)
EXTENDS Vm, TLAPS

USE VmAssumption

Idle == {"unused", "embryo", "zombie", "user"}
CowPC == {"ref_get", "set_w", "cow_alloc", "cow_ref", "cow_copy", "cow_dec",
          "cow_push", "cow_map"}
UnmapPC == {"unmap_dec", "unmap_push", "unmap_clear"}
NewPC == {"cow_ref", "cow_copy", "cow_dec", "cow_push", "cow_map",
          "alloc_ref", "alloc_map", "kfree_dec", "kfree_push"}
OwnOp == {"load", "store", "grow", "grow_bad", "shrink", "reap"}
ForkOp == {"fork", "fork_bad"}
ExecOp == {"exec", "exec_bad", "exec_commit"}
UnmapOp == {"grow_bad", "shrink", "reap", "fork_bad", "exec_bad", "exec_commit"}

\* What holds of thread p when it is at label l: the operation it is in,
\* where in its loop it is, and what it has in its hands.
MayBe(p, l) ==
    /\ l \in CowPC \cup {"access", "vmfault"} =>
         th[p].op \in {"load", "store"} /\ th[p].i < NVA
    /\ l \in {"uvmcopy", "ref_inc"} => th[p].op = "fork"
    /\ l \in {"uvmalloc", "alloc_ref", "alloc_map"} => th[p].op \in {"grow", "exec"}
    /\ l \in {"kfree_dec", "kfree_push"} => th[p].op \in {"grow_bad", "exec_bad"}
    /\ l \in UnmapPC \cup {"uvmunmap"} => th[p].op \in UnmapOp
    /\ l = "freewalk" => th[p].op \in UnmapOp \ {"grow_bad", "shrink"}
    /\ l = "ref_inc" => /\ th[p].i < sz[p] /\ Pte(p, th[p].i) = Cur(p)
                        /\ "W" \notin Cur(p).flags
    /\ l \in {"alloc_ref", "alloc_map"} \cup UnmapPC => th[p].i < th[p].hi
    /\ l \in CowPC \cup UnmapPC \cup {"ref_inc"} => Cur(p) # None
    /\ l \in NewPC => th[p].new \in Page

OpInv(p) == /\ th[p].pc \in Idle => th[p] = At(th[p].pc)
            /\ th[p].op = "exec" => th[p].hi = ImageSize
            /\ MayBe(p, th[p].pc)

\* Which page table it works on: its own, that of the child it is making, or
\* one that no process has installed.
TableInv(p) ==
    /\ th[p].pc = "unused" <=> pagetable[p] = None
    /\ th[p].op \in OwnOp => th[p].tbl = pagetable[p]
    /\ th[p].op \in ForkOp => /\ th[p].child \in Proc
                              /\ th[th[p].child].pc = "embryo"
                              /\ th[p].tbl = pagetable[th[p].child]
    /\ th[p].op \in ExecOp => th[p].tbl \in PT /\ th[p].tbl # pagetable[p]
    /\ th[p].op \notin ForkOp => th[p].child = None

ThreadInv(p) == OpInv(p) /\ TableInv(p)

\* No two threads work on one page table.
Apart(p, q) ==
    /\ pagetable[p] # None => pagetable[p] # pagetable[q]
    /\ th[p].tbl # None => th[p].tbl # th[q].tbl
    /\ th[p].tbl # None => th[p].tbl # pagetable[q] \/ th[p].child = q
    /\ th[p].child # None => th[p].child # th[q].child

CInv == /\ TypeOK
        /\ \A p \in Proc : ThreadInv(p)
        /\ \A p, q \in Proc : p # q => Apart(p, q)

-----------------------------------------------------------------------------

\* A thread that stands still, with its PTEs and its child, keeps its invariant.
LEMMA SameThread ==
  ASSUME NEW q \in Proc, ThreadInv(q),
         th'[q] = th[q], sz'[q] = sz[q], pagetable'[q] = pagetable[q],
         th[q].pc \in CowPC \cup UnmapPC \cup {"ref_inc"} => pt'[th[q].tbl] = pt[th[q].tbl],
         th[q].pc = "ref_inc" => pt'[pagetable[q]] = pt[pagetable[q]],
         th[q].op \in ForkOp => /\ th'[th[q].child] = th[th[q].child]
                                /\ pagetable'[th[q].child] = pagetable[th[q].child]
  PROVE  ThreadInv(q)'
<1>1. MayBe(q, th[q].pc) => MayBe(q, th[q].pc)'
  <2>1. th[q].pc \in CowPC \cup UnmapPC \cup {"ref_inc"} => Cur(q)' = Cur(q)
    BY Zenon DEF Cur
  <2>2. th[q].pc = "ref_inc" => Pte(q, th[q].i)' = Pte(q, th[q].i)
    BY Zenon DEF Pte
  <2> QED BY <2>1, <2>2 DEF MayBe
<1>2. OpInv(q)'
  BY <1>1, Zenon DEF ThreadInv, OpInv
<1>3. TableInv(q)'
  BY Zenon DEF ThreadInv, TableInv
<1> QED BY <1>2, <1>3, Zenon DEF ThreadInv

\* A thread in user mode, not yet or no longer there needs only a page table.
LEMMA IdleThread ==
  ASSUME NEW q \in Proc, NEW l \in Idle, th'[q] = At(l),
         l = "unused" <=> pagetable'[q] = None
  PROVE  ThreadInv(q)'
<1>1. th'[q].pc = l /\ th'[q].op = "none" /\ th'[q].child = None
  BY DEF At
<1>2. MayBe(q, l)'
  BY Zenon DEF MayBe, Idle, CowPC, UnmapPC, NewPC
<1>3. OpInv(q)'
  BY <1>1, <1>2, Zenon DEF OpInv
<1>4. TableInv(q)'
  BY <1>1, Zenon DEF TableInv, OwnOp, ForkOp, ExecOp
<1> QED BY <1>3, <1>4, Zenon DEF ThreadInv

\* A step of thread p that changes only its own state, the page tables it
\* works on and its own size keeps the invariant of the other threads.
LEMMA Frame ==
  ASSUME CInv, NEW p \in Proc, th[p].pc \notin {"unused", "embryo"},
         NEW r \in Thread, th' = [th EXCEPT ![p] = r],
         TypeOK', UNCHANGED pagetable,
         \A q \in Proc \ {p} : sz'[q] = sz[q],
         \A t \in PT \ {th[p].tbl, pagetable[p]} : pt'[t] = pt[t],
         \/ r.tbl = th[p].tbl /\ r.child = th[p].child
         \/ r.tbl \in {pagetable[p], None} /\ r.child = None,
         ThreadInv(p)'
  PROVE  CInv'
<1> USE DEF CInv
<1>1. \A q \in Proc : q # p => th'[q] = th[q]
  BY Zenon DEF TypeOK
<1>2. th'[p] = r
  BY Zenon DEF TypeOK
<1>3. \A q \in Proc : th[q].tbl \in PT \cup {None} /\ th[q].child \in Proc \cup {None}
  BY Zenon DEF TypeOK, Thread
<1>4. \A q \in Proc : th[q].child # p
  BY <1>3 DEF ThreadInv, TableInv
<1>5. \A q \in Proc : th[q].pc # "unused" => pagetable[q] \in PT
  BY DEF TypeOK, ThreadInv, TableInv
<1>6. ASSUME NEW q \in Proc, q # p  PROVE ThreadInv(q)'
  <2>1. th[q].op \in ForkOp => th'[th[q].child] = th[th[q].child]
    BY <1>1, <1>4, <1>6 DEF ThreadInv, TableInv
  <2>2. th[q].pc \in CowPC \cup UnmapPC \cup {"ref_inc"} => th[q].tbl \in PT
    <3>1. th[q].pc \in CowPC \cup UnmapPC \cup {"ref_inc"} =>
             th[q].pc # "unused" /\ th[q].op \in OwnOp \cup ForkOp \cup ExecOp
      BY <1>6, Zenon DEF ThreadInv, OpInv, MayBe, CowPC, UnmapPC, OwnOp, ForkOp, ExecOp, UnmapOp
    <3>2. th[q].pc # "unused" /\ th[q].op \in OwnOp \cup ForkOp \cup ExecOp => th[q].tbl \in PT
      BY <1>5, <1>6 DEF ThreadInv, TableInv
    <3> QED BY <3>1, <3>2, Zenon
  <2>3. th[q].tbl \in PT => pt'[th[q].tbl] = pt[th[q].tbl]
    BY <1>3, <1>4, <1>6 DEF Apart
  <2>4. th[q].pc = "ref_inc" => pt'[pagetable[q]] = pt[pagetable[q]]
    <3>1. th[p].child = q => th[q].pc = "embryo"
      BY <1>6 DEF ThreadInv, TableInv
    <3>2. th[q].pc = "ref_inc" => pagetable[q] \in PT /\ pagetable[q] \notin {th[p].tbl, pagetable[p]}
      BY <1>5, <1>6, <3>1 DEF Apart
    <3> QED BY <3>2, Zenon
  <2> QED BY <1>1, <1>6, <2>1, <2>2, <2>3, <2>4, SameThread, Zenon
<1>7. ASSUME NEW q \in Proc, NEW s \in Proc, q # s  PROVE Apart(q, s)'
  <2>1. CASE q = p
    BY <1>1, <1>2, <1>3, <1>4, <1>7, <2>1 DEF Apart
  <2>2. CASE s = p
    BY <1>1, <1>2, <1>3, <1>4, <1>7, <2>2 DEF Apart
  <2>3. CASE q # p /\ s # p
    BY <1>1, <1>7, <2>3 DEF Apart
  <2> QED BY <2>1, <2>2, <2>3, Zenon
<1> QED BY <1>6, <1>7, Zenon

\* What the invariant says of thread p: its page tables exist, and the PTE it
\* is working on is a PTE.
LEMMA Facts ==
  ASSUME CInv, NEW p \in Proc
  PROVE  /\ th[p] \in Thread
         /\ th[p].pc # "unused" => pagetable[p] \in PT
         /\ th[p].pc \notin Idle =>
              th[p].tbl \in PT /\ th[p].op \in OwnOp \cup ForkOp \cup ExecOp
         /\ th[p].pc \in CowPC \cup UnmapPC \cup {"ref_inc"} =>
              th[p].i \in VA /\ Cur(p) \in PTE
<1> USE DEF CInv
<1>1. th[p] \in Thread
  BY Zenon DEF TypeOK
<1>2. \A q \in Proc : th[q].pc # "unused" => pagetable[q] \in PT
  BY DEF TypeOK, ThreadInv, TableInv
<1>3. th[p].pc \notin Idle => th[p].op \in OwnOp \cup ForkOp \cup ExecOp
  BY <1>1 DEF ThreadInv, OpInv, MayBe, Thread, PC, Idle, CowPC, UnmapPC, OwnOp, ForkOp,
     ExecOp, UnmapOp
<1>4. th[p].pc \notin Idle => th[p].tbl \in PT
  BY <1>2, <1>3 DEF ThreadInv, TableInv, Idle
<1>5. th[p].pc \in CowPC \cup UnmapPC \cup {"ref_inc"} => th[p].i \in VA
  <2>1. sz[p] \in 0..NVA /\ th[p].i \in 0..NVA /\ th[p].hi \in 0..NVA
    BY <1>1, Zenon DEF TypeOK, Thread
  <2> QED BY <2>1 DEF ThreadInv, OpInv, MayBe, VA
<1>6. th[p].pc \in CowPC \cup UnmapPC \cup {"ref_inc"} => th[p].pc \notin Idle /\ Cur(p) # None
  BY Zenon DEF ThreadInv, OpInv, MayBe, CowPC, UnmapPC, Idle
<1>7. th[p].pc \in CowPC \cup UnmapPC \cup {"ref_inc"} => Cur(p) \in PTE
  BY <1>4, <1>5, <1>6 DEF Cur, TypeOK
<1> QED BY <1>1, <1>2, <1>3, <1>4, <1>5, <1>7, Zenon

\* A step of thread p that only moves to another label of its operation.
LEMMA Move ==
  ASSUME CInv, NEW p \in Proc, th[p].pc \notin Idle,
         NEW l \in PC \ Idle, MayBe(p, l), th' = [th EXCEPT ![p].pc = l],
         freelist' \subseteq Page, refcount' \in [Page -> Nat],
         mem' \in [Page -> Contents], panic' \in Panics,
         UNCHANGED <<pt, pagetable, sz>>
  PROVE  CInv'
<1> DEFINE r == [th[p] EXCEPT !.pc = l]
<1>1. th[p] \in Thread
  BY Facts, Zenon
<1>2. /\ r \in Thread /\ r.pc = l
      /\ r.op = th[p].op /\ r.tbl = th[p].tbl /\ r.i = th[p].i
      /\ r.hi = th[p].hi /\ r.new = th[p].new /\ r.child = th[p].child
  BY <1>1, ZenonT(60) DEF Thread
<1>3. th' = [th EXCEPT ![p] = r]
  BY Zenon DEF CInv, TypeOK
<1>4. th'[p] = r /\ th' \in [Proc -> Thread]
  BY <1>2, Zenon DEF CInv, TypeOK
<1> HIDE DEF r
<1>5. TypeOK' /\ th'[p] = r
  BY <1>4, Zenon DEF CInv, TypeOK
<1>6. MayBe(p, l)'
  BY <1>2, <1>5 DEF MayBe, Cur, Pte
<1>7. OpInv(p)'
  BY <1>2, <1>5, <1>6 DEF CInv, ThreadInv, OpInv
<1>8. \A q \in Proc : th'[q].pc = th[q].pc \/ q = p
  BY <1>3, Zenon DEF CInv, TypeOK
<1>9. TableInv(p)'
  BY <1>2, <1>5, <1>8 DEF CInv, ThreadInv, TableInv, Idle
<1> QED BY <1>2, <1>3, <1>5, <1>7, <1>9, Frame, Zenon DEF Idle, ThreadInv

\* A step that ends the operation of thread p.
LEMMA Finish ==
  ASSUME CInv, NEW p \in Proc, th[p].pc \notin {"unused", "embryo"},
         NEW l \in {"user", "zombie"}, th' = [th EXCEPT ![p] = At(l)],
         freelist' \subseteq Page, refcount' \in [Page -> Nat],
         mem' \in [Page -> Contents], panic' \in Panics,
         NEW n \in 0..NVA, sz' = [sz EXCEPT ![p] = n],
         UNCHANGED <<pt, pagetable>>
  PROVE  CInv'
<1> DEFINE r == At(l)
<1>1. r \in Thread
  BY DEF At, Thread, PC, Op
<1>2. r.pc = l /\ r.op = "none" /\ r.tbl = None /\ r.child = None
  BY Zenon DEF At
<1>3. th' = [th EXCEPT ![p] = r] /\ r = At(r.pc)
  BY <1>2, Zenon
<1> HIDE DEF r
<1>4. TypeOK' /\ th'[p] = r
  BY <1>1, <1>3 DEF CInv, TypeOK
<1>5. OpInv(p)'
  BY <1>2, <1>3, <1>4, Zenon DEF OpInv, MayBe, Idle, CowPC, UnmapPC, NewPC
<1>6. TableInv(p)'
  BY <1>2, <1>4, Zenon DEF CInv, ThreadInv, TableInv, OwnOp, ForkOp, ExecOp
<1>7. \A q \in Proc \ {p} : sz'[q] = sz[q]
  BY Zenon DEF CInv, TypeOK
<1> QED BY <1>1, <1>2, <1>3, <1>4, <1>5, <1>6, <1>7, Frame, Zenon DEF ThreadInv

\* A step that leaves threads, page tables and sizes alone.
LEMMA Still ==
  ASSUME CInv, UNCHANGED <<pt, pagetable, sz, th>>,
         freelist' \subseteq Page, refcount' \in [Page -> Nat],
         mem' \in [Page -> Contents], panic' \in Panics
  PROVE  CInv'
<1>1. TypeOK'
  BY Zenon DEF CInv, TypeOK
<1>2. ASSUME NEW p \in Proc  PROVE ThreadInv(p)'
  BY SameThread, Zenon DEF CInv
<1>3. ASSUME NEW p \in Proc, NEW q \in Proc, p # q  PROVE Apart(p, q)'
  BY <1>3, Zenon DEF CInv, Apart
<1> QED BY <1>1, <1>2, <1>3, Zenon DEF CInv

\* ref_dec() and the first half of kfree(), wherever they are called.
LEMMA RefDec ==
  ASSUME CInv, NEW p \in Proc, NEW g \in Page, NEW here \in PC \ Idle,
         NEW push \in PC \ Idle, NEW next \in PC \ Idle,
         MayBe(p, push), MayBe(p, next), ref_dec(p, here, g, push, next)
  PROVE  CInv'
<1>1. CASE panic' = "ref_dec: decrementing non-positive refcount" /\ UNCHANGED <<refcount, th>>
  <2>1. UNCHANGED <<freelist, refcount, mem, pt, pagetable, sz, th>>
    BY <1>1, Zenon DEF ref_dec
  <2>2. panic' \in Panics
    BY <1>1, Zenon DEF Panics
  <2> QED BY <2>1, <2>2, Still, Zenon DEF CInv, TypeOK
<1>2. CASE /\ refcount[g] > 0 /\ refcount' = [refcount EXCEPT ![g] = @ - 1]
           /\ th' = [th EXCEPT ![p].pc = IF refcount[g] = 1 THEN push ELSE next]
           /\ UNCHANGED panic
  <2>1. refcount' \in [Page -> Nat]
    BY <1>2 DEF CInv, TypeOK
  <2>2. CASE refcount[g] = 1
    BY <1>2, <2>1, <2>2, Move, Zenon DEF ref_dec, CInv, TypeOK
  <2>3. CASE refcount[g] # 1
    BY <1>2, <2>1, <2>3, Move, Zenon DEF ref_dec, CInv, TypeOK
  <2> QED BY <2>2, <2>3, Zenon
<1> QED BY <1>1, <1>2, Zenon DEF ref_dec

\* The rest of kfree() and ref_dec(), wherever they are called.
LEMMA FreePage ==
  ASSUME CInv, NEW p \in Proc, NEW g \in Page, NEW here \in PC \ Idle,
         NEW next \in PC \ Idle, MayBe(p, next), free_page(p, here, g, next)
  PROVE  CInv'
<1>1. mem' \in [Page -> Contents] /\ freelist' \subseteq Page
  BY Zenon DEF free_page, CInv, TypeOK, Contents
<1> QED BY <1>1, Move, Zenon DEF free_page, CInv, TypeOK

\* kalloc(), wherever it is called.
LEMMA Kalloc ==
  ASSUME CInv, NEW p \in Proc, NEW next \in {"cow_ref", "alloc_ref"},
         \/ th[p].pc = "cow_alloc" /\ next = "cow_ref"
         \/ th[p].pc = "uvmalloc" /\ next = "alloc_ref" /\ th[p].i < th[p].hi,
         kalloc(p, next), UNCHANGED <<refcount, pt, pagetable, sz, panic>>
  PROVE  CInv'
<1>1. PICK g \in Page :
         /\ freelist' = freelist \ {g}
         /\ mem' = [mem EXCEPT ![g] = Junk]
         /\ th' = [th EXCEPT ![p].pc = next, ![p].new = g]
  BY Zenon DEF kalloc, CInv, TypeOK
<1> DEFINE r == [th[p] EXCEPT !.pc = next, !.new = g]
<1>2. /\ r \in Thread /\ r.pc = next /\ r.new = g
      /\ r.op = th[p].op /\ r.tbl = th[p].tbl /\ r.i = th[p].i
      /\ r.hi = th[p].hi /\ r.child = th[p].child
  BY Facts, ZenonT(60) DEF Thread, PC
<1>3. th' = [th EXCEPT ![p] = r]
  BY <1>1, Zenon DEF CInv, TypeOK
<1>4. th'[p] = r /\ th' \in [Proc -> Thread]
  BY <1>2, <1>3, Zenon DEF CInv, TypeOK
<1> HIDE DEF r
<1>5. mem' \in [Page -> Contents]
  BY <1>1, Zenon DEF CInv, TypeOK, Contents
<1>6. TypeOK'
  BY <1>1, <1>4, <1>5, Zenon DEF CInv, TypeOK
<1>7. MayBe(p, th[p].pc)
  BY Zenon DEF CInv, ThreadInv, OpInv
<1>8. MayBe(p, next)'
  BY <1>2, <1>4, <1>7, Zenon DEF MayBe, Cur, CowPC, UnmapPC, NewPC
<1>9. OpInv(p)'
  BY <1>2, <1>4, <1>8 DEF CInv, ThreadInv, OpInv, Idle
<1>10. \A q \in Proc : th'[q].pc = th[q].pc \/ q = p
  BY <1>3, Zenon DEF CInv, TypeOK
<1>11. TableInv(p)'
  BY <1>2, <1>4, <1>10, SMTT(120) DEF CInv, ThreadInv, TableInv
<1> QED BY <1>2, <1>3, <1>6, <1>9, <1>11, Frame, Zenon DEF ThreadInv

\* A step of thread p to label l of an operation on the same page table, or
\* on its own, that writes no other page table.
LEMMA Local ==
  ASSUME CInv, NEW p \in Proc, th[p].pc \notin {"unused", "embryo"},
         NEW r \in Thread, th' = [th EXCEPT ![p] = r],
         NEW l \in PC \ Idle, r.pc = l, MayBe(p, l)',
         \/ /\ r.tbl = th[p].tbl /\ r.child = th[p].child
            /\ \E O \in {OwnOp, ForkOp, ExecOp} : th[p].op \in O /\ r.op \in O
         \/ r.tbl = pagetable[p] /\ r.child = None /\ r.op \in OwnOp,
         r.op = "exec" => r.hi = ImageSize,
         pt' \in [PT -> [VA -> PTE \cup {None}]],
         \A t \in PT \ {th[p].tbl, pagetable[p]} : pt'[t] = pt[t],
         freelist' \subseteq Page, refcount' \in [Page -> Nat],
         mem' \in [Page -> Contents], panic' \in Panics,
         UNCHANGED <<pagetable, sz>>
  PROVE  CInv'
<1>1. th'[p] = r /\ th' \in [Proc -> Thread]
  BY Zenon DEF CInv, TypeOK
<1>2. TypeOK'
  BY <1>1, Zenon DEF CInv, TypeOK
<1>3. OpInv(p)'
  BY <1>1, Zenon DEF OpInv
<1>4. \A q \in Proc : th'[q].pc = th[q].pc \/ q = p
  BY Zenon DEF CInv, TypeOK
<1>5. th[p].pc # "unused" /\ l # "unused" /\ TableInv(p)
  BY Zenon DEF CInv, ThreadInv, Idle
<1>6. TableInv(p)'
  <2>1. CASE \E O \in {OwnOp, ForkOp, ExecOp} : th[p].op \in O /\ r.op \in O
    BY <1>1, <1>4, <1>5, <2>1, SMTT(40) DEF TableInv, OwnOp, ForkOp, ExecOp
  <2>2. CASE r.tbl = pagetable[p] /\ r.child = None /\ r.op \in OwnOp
    BY <1>1, <1>5, <2>2, Zenon DEF TableInv, OwnOp, ForkOp, ExecOp
  <2> QED BY <2>1, <2>2, Zenon
<1> QED BY <1>2, <1>3, <1>6, Frame, ZenonT(60) DEF ThreadInv

\* A step of thread p that writes the PTE it works on.
LEMMA Store ==
  ASSUME CInv, NEW p \in Proc, th[p].pc \notin Idle, th[p].i \in VA,
         NEW e \in PTE \cup {None}, pt' = [pt EXCEPT ![th[p].tbl][th[p].i] = e],
         NEW r \in Thread, th' = [th EXCEPT ![p] = r],
         NEW l \in PC \ Idle, r.pc = l, r.op = th[p].op, r.tbl = th[p].tbl, r.hi = th[p].hi,
         r.child = th[p].child, MayBe(p, l)',
         mem' \in [Page -> Contents],
         UNCHANGED <<freelist, refcount, pagetable, sz, panic>>
  PROVE  CInv'
<1>1. th[p].tbl \in PT /\ th[p].op \in OwnOp \cup ForkOp \cup ExecOp
  BY Facts, Zenon
<1>2. pt' \in [PT -> [VA -> PTE \cup {None}]] /\ \A t \in PT \ {th[p].tbl} : pt'[t] = pt[t]
  BY <1>1, Zenon DEF CInv, TypeOK
<1>3. th[p].op = "exec" => th[p].hi = ImageSize
  BY Zenon DEF CInv, ThreadInv, OpInv
<1>4. \E O \in {OwnOp, ForkOp, ExecOp} : th[p].op \in O /\ r.op \in O
  BY <1>1, Zenon
<1> QED BY <1>2, <1>3, <1>4, Local, Zenon DEF CInv, TypeOK, Idle

-----------------------------------------------------------------------------

\* Steps of a page fault.
LEMMA FaultStep ==
  ASSUME CInv, NEW p \in Proc, Fault(p)
  PROVE  CInv'
<1>0. /\ CInv /\ MayBe(p, th[p].pc)
      /\ sz[p] \in 0..NVA /\ sz = [sz EXCEPT ![p] = sz[p]]
  BY Zenon DEF CInv, TypeOK, ThreadInv, OpInv
<1> USE DEF Idle, CowPC, UnmapPC, NewPC
<1>1. CASE usertrap(p)
  <2>1. MayBe(p, "vmfault")
    BY <1>0, <1>1, Zenon DEF usertrap, MayBe
  <2> QED BY <1>1, <2>1, Move, Zenon DEF usertrap, PC, CInv, TypeOK
<1>2. CASE vmfault(p)
  <2>1. CASE th' = [th EXCEPT ![p] = At("zombie")]
    BY <1>0, <1>2, <2>1, Finish, Zenon DEF vmfault, CInv, TypeOK
  <2>2. CASE Cur(p) # None /\ th' = [th EXCEPT ![p].pc = "access"]
    <3>1. MayBe(p, "access")
      BY <1>0, <1>2, Zenon DEF vmfault, MayBe
    <3> QED BY <1>2, <2>2, <3>1, Move, Zenon DEF vmfault, PC, CInv, TypeOK
  <2>3. CASE Cur(p) # None /\ th' = [th EXCEPT ![p].pc = "ref_get"]
    <3>1. MayBe(p, "ref_get")
      BY <1>0, <1>2, <2>3, Zenon DEF vmfault, MayBe
    <3> QED BY <1>2, <2>3, <3>1, Move, Zenon DEF vmfault, PC, CInv, TypeOK
  <2> QED BY <1>2, <2>1, <2>2, <2>3, Zenon DEF vmfault
<1>3. CASE ref_get(p)
  <2>1. PICK l \in {"cow_alloc", "set_w"} : th' = [th EXCEPT ![p].pc = l]
    BY <1>3, Zenon DEF ref_get
  <2>2. MayBe(p, l)
    BY <1>0, <1>3, <2>1, Zenon DEF ref_get, MayBe
  <2> QED BY <1>3, <2>1, <2>2, Move, Zenon DEF ref_get, PC, CInv, TypeOK
<1>4. CASE set_w(p)
  <2> DEFINE r == [th[p] EXCEPT !.pc = "access"]
             e == [Cur(p) EXCEPT !.flags = @ \cup {"W"}]
  <2>1. th[p] \in Thread /\ th[p].tbl \in PT /\ th[p].i \in VA /\ Cur(p) \in PTE
    BY <1>4, Facts, Zenon DEF set_w
  <2>2. e \in PTE
    BY <2>1, Zenon DEF PTE, Flags
  <2>3. /\ r \in Thread /\ r.pc = "access" /\ r.op = th[p].op /\ r.tbl = th[p].tbl
        /\ r.i = th[p].i /\ r.hi = th[p].hi /\ r.child = th[p].child
    BY <2>1 DEF Thread, PC
  <2>4. th' = [th EXCEPT ![p] = r] /\ th'[p] = r
    BY <1>4, Zenon DEF set_w, CInv, TypeOK
  <2>5. pt' = [pt EXCEPT ![th[p].tbl][th[p].i] = e]
    BY <1>4, <2>1, Zenon DEF set_w, Cur, CInv, TypeOK
  <2> HIDE DEF r, e
  <2>6. MayBe(p, "access")' /\ "access" \in PC \ Idle
    BY <1>0, <1>4, <2>3, <2>4, Zenon DEF set_w, MayBe, PC
  <2> QED BY <1>4, <2>1, <2>2, <2>3, <2>4, <2>5, <2>6, Store, ZenonT(60) DEF set_w, CInv, TypeOK
<1>5. CASE cow_alloc(p)
  <2>1. CASE th' = [th EXCEPT ![p] = At("zombie")] /\ UNCHANGED <<freelist, mem>>
    BY <1>0, <1>5, <2>1, Finish, Zenon DEF cow_alloc, CInv, TypeOK
  <2>2. CASE kalloc(p, "cow_ref")
    BY <1>5, <2>2, Kalloc, Zenon DEF cow_alloc
  <2> QED BY <1>5, <2>1, <2>2, Zenon DEF cow_alloc
<1>6. CASE kalloc_ref(p, "cow_ref", "cow_copy")
  <2>1. MayBe(p, "cow_copy")
    BY <1>0, <1>6, Zenon DEF kalloc_ref, MayBe
  <2> QED BY <1>6, <2>1, Move, Zenon DEF kalloc_ref, PC, CInv, TypeOK
<1>7. CASE cow_copy(p)
  <2>1. MayBe(p, "cow_dec")
    BY <1>0, <1>7, Zenon DEF cow_copy, MayBe
  <2>2. Cur(p).pa \in Page
    BY <1>7, Facts, Zenon DEF cow_copy, PTE
  <2> QED BY <1>7, <2>1, <2>2, Move, Zenon DEF cow_copy, PC, CInv, TypeOK
<1>8. CASE ref_dec(p, "cow_dec", Cur(p).pa, "cow_push", "cow_map")
  <2>1. MayBe(p, "cow_push") /\ MayBe(p, "cow_map")
    BY <1>0, <1>8, Zenon DEF ref_dec, MayBe
  <2>2. Cur(p).pa \in Page
    BY <1>8, Facts, Zenon DEF ref_dec, PTE
  <2> QED BY <1>8, <2>1, <2>2, RefDec DEF PC
<1>9. CASE free_page(p, "cow_push", Cur(p).pa, "cow_map")
  <2>1. MayBe(p, "cow_map")
    BY <1>0, <1>9, Zenon DEF free_page, MayBe
  <2>2. Cur(p).pa \in Page
    BY <1>9, Facts, Zenon DEF free_page, PTE
  <2> QED BY <1>9, <2>1, <2>2, FreePage, Zenon DEF PC
<1>10. CASE cow_map(p)
  <2> DEFINE r == [th[p] EXCEPT !.pc = "access", !.new = None]
             e == [pa |-> th[p].new, flags |-> Cur(p).flags \cup {"W"}]
  <2>1. th[p] \in Thread /\ th[p].tbl \in PT /\ th[p].i \in VA /\ Cur(p) \in PTE
    BY <1>10, Facts, Zenon DEF cow_map
  <2>2. e \in PTE
    BY <1>0, <1>10, <2>1, Zenon DEF cow_map, MayBe, PTE, Flags
  <2>3. /\ r \in Thread /\ r.pc = "access" /\ r.op = th[p].op /\ r.tbl = th[p].tbl
        /\ r.i = th[p].i /\ r.hi = th[p].hi /\ r.child = th[p].child
    BY <2>1, Zenon DEF Thread, PC
  <2>4. th' = [th EXCEPT ![p] = r] /\ th'[p] = r
    BY <1>10, Zenon DEF cow_map, CInv, TypeOK
  <2>5. pt' = [pt EXCEPT ![th[p].tbl][th[p].i] = e]
    BY <1>10, <2>1, Zenon DEF cow_map, Cur, CInv, TypeOK
  <2> HIDE DEF r, e
  <2>6. MayBe(p, "access")' /\ "access" \in PC \ Idle
    BY <1>0, <1>10, <2>3, <2>4, Zenon DEF cow_map, MayBe, PC
  <2> QED BY <1>10, <2>1, <2>2, <2>3, <2>4, <2>5, <2>6, Store, ZenonT(60) DEF cow_map, CInv,
            TypeOK
<1> QED BY <1>1, <1>2, <1>3, <1>4, <1>5, <1>6, <1>7, <1>8, <1>9, <1>10, Zenon DEF Fault

\* The steps of kfork() within one page of uvmcopy().
LEMMA CopyStep ==
  ASSUME CInv, NEW p \in Proc,
         \/ uvmcopy_skip(p) \/ uvmcopy_map(p) \/ uvmcopy_bad(p) \/ ref_inc(p)
  PROVE  CInv'
<1> USE DEF Idle, CowPC, UnmapPC, NewPC
<1>0. /\ CInv /\ TypeOK /\ MayBe(p, th[p].pc) /\ th[p].pc \in {"uvmcopy", "ref_inc"}
      /\ sz[p] \in 0..NVA /\ th[p] \in Thread /\ th[p].op = "fork"
      /\ th[p].tbl \in PT /\ pagetable[p] \in PT /\ th[p].i \in 0..NVA
      /\ th[p].i < sz[p] => th[p].i \in VA /\ th[p].i + 1 \in 0..NVA
  <2>1. MayBe(p, th[p].pc) /\ th[p].pc \in {"uvmcopy", "ref_inc"}
    BY Zenon DEF CInv, ThreadInv, OpInv, uvmcopy_skip, uvmcopy_map, uvmcopy_bad, ref_inc
  <2>2. th[p].op = "fork"
    BY <2>1, Zenon DEF MayBe
  <2>3. th[p] \in Thread /\ sz[p] \in 0..NVA /\ th[p].i \in 0..NVA
    BY Zenon DEF CInv, TypeOK, Thread
  <2>4. th[p].i < sz[p] => th[p].i \in VA /\ th[p].i + 1 \in 0..NVA
    BY <2>3 DEF VA
  <2>5. th[p].tbl \in PT /\ pagetable[p] \in PT
    BY <2>1, Facts, Zenon
  <2> QED BY <2>1, <2>2, <2>3, <2>4, <2>5, Zenon DEF CInv
<1>1. CASE uvmcopy_skip(p)
  <2> DEFINE r == [th[p] EXCEPT !.i = @ + 1]
  <2>1. /\ r \in Thread /\ r.pc = "uvmcopy" /\ r.op = "fork"
        /\ r.tbl = th[p].tbl /\ r.child = th[p].child
    BY <1>0, <1>1, Zenon DEF uvmcopy_skip, Thread
  <2>2. th' = [th EXCEPT ![p] = r] /\ th'[p] = r
    BY <1>0, <1>1, Zenon DEF uvmcopy_skip, TypeOK
  <2> HIDE DEF r
  <2>3. MayBe(p, "uvmcopy")' /\ "uvmcopy" \in PC \ Idle
    BY <2>1, <2>2, Zenon DEF MayBe, PC
  <2> QED BY <1>0, <1>1, <2>1, <2>2, <2>3, Local, Zenon DEF uvmcopy_skip, TypeOK, ForkOp
<1>2. CASE uvmcopy_map(p)
  <2>1. CASE panic' = "mappages: remap" /\ UNCHANGED <<pt, th>>
    BY <1>0, <1>2, <2>1, Still, ZenonT(60) DEF uvmcopy_map, TypeOK, Panics
  <2>2. CASE UNCHANGED panic /\ th' = [th EXCEPT ![p].pc = "ref_inc"] /\ Cur(p) = None
    <3> DEFINE r == [th[p] EXCEPT !.pc = "ref_inc"]
               e == [Pte(p, th[p].i) EXCEPT !.flags = @ \ {"W"}]
    <3>1. th[p].i < sz[p] /\ th[p].i \in VA /\ Pte(p, th[p].i) \in PTE
      <4>1. th[p].i < sz[p] /\ Pte(p, th[p].i) # None
        BY <1>2, Zenon DEF uvmcopy_map
      <4>2. pt[pagetable[p]] \in [VA -> PTE \cup {None}] /\ th[p].i \in VA
        BY <1>0, <4>1, Zenon DEF TypeOK
      <4> QED BY <4>1, <4>2, Zenon DEF Pte
    <3>2. e \in PTE /\ "W" \notin e.flags
      BY <3>1, Zenon DEF PTE, Flags
    <3>3. /\ r \in Thread /\ r.pc = "ref_inc" /\ r.op = "fork" /\ r.i = th[p].i
          /\ r.tbl = th[p].tbl /\ r.child = th[p].child
      BY <1>0, SMTT(30) DEF Thread, PC
    <3>4. th' = [th EXCEPT ![p] = r] /\ th'[p] = r
      BY <1>0, <2>2, Zenon DEF TypeOK
    <3>5. pt' = [pt EXCEPT ![th[p].tbl][th[p].i] = e, ![pagetable[p]][th[p].i] = e]
      BY <1>2, <2>2, Zenon DEF uvmcopy_map
    <3> HIDE DEF r, e
    <3>6. /\ pt' \in [PT -> [VA -> PTE \cup {None}]]
          /\ \A t \in PT \ {th[p].tbl, pagetable[p]} : pt'[t] = pt[t]
          /\ pt'[th[p].tbl][th[p].i] = e /\ pt'[pagetable[p]][th[p].i] = e
      BY <1>0, <3>1, <3>2, <3>5, ZenonT(60) DEF TypeOK
    <3>7. Cur(p)' = e /\ Pte(p, th[p].i)' = e /\ e # None
      BY <1>2, <3>2, <3>3, <3>4, <3>6, Zenon DEF Cur, Pte, uvmcopy_map
    <3>8. MayBe(p, "ref_inc")' /\ "ref_inc" \in PC \ Idle
      BY <1>2, <3>1, <3>2, <3>3, <3>4, <3>7, Zenon DEF uvmcopy_map, MayBe, PC
    <3> QED BY <1>0, <1>2, <2>2, <3>3, <3>4, <3>6, <3>8, Local, Zenon DEF uvmcopy_map, TypeOK,
              ForkOp
  <2> QED BY <1>2, <2>1, <2>2, Zenon DEF uvmcopy_map
<1>3. CASE uvmcopy_bad(p)
  <2> DEFINE r == [th[p] EXCEPT !.pc = "uvmunmap", !.op = "fork_bad", !.i = 0, !.hi = th[p].i]
  <2>1. /\ r \in Thread /\ r.pc = "uvmunmap" /\ r.op = "fork_bad"
        /\ r.tbl = th[p].tbl /\ r.child = th[p].child
    <3>1. 0 \in 0..NVA
      BY VmAssumption
    <3> QED BY <1>0, <3>1, ZenonT(60) DEF Thread, PC, Op
  <2>2. th' = [th EXCEPT ![p] = r] /\ th'[p] = r
    BY <1>0, <1>3, Zenon DEF uvmcopy_bad, TypeOK, Thread
  <2> HIDE DEF r
  <2>3. MayBe(p, "uvmunmap")' /\ "uvmunmap" \in PC \ Idle
    BY <2>1, <2>2, Zenon DEF MayBe, PC, UnmapOp
  <2> QED BY <1>0, <1>3, <2>1, <2>2, <2>3, Local, Zenon DEF uvmcopy_bad, TypeOK, ForkOp
<1>4. CASE ref_inc(p)
  <2> DEFINE r == [th[p] EXCEPT !.pc = "uvmcopy", !.i = @ + 1]
  <2>1. th[p].i < sz[p] /\ Cur(p).pa \in Page
    BY <1>0, <1>4, Facts, Zenon DEF ref_inc, MayBe, PTE
  <2>2. /\ r \in Thread /\ r.pc = "uvmcopy" /\ r.op = "fork"
        /\ r.tbl = th[p].tbl /\ r.child = th[p].child
    BY <1>0, <2>1, Zenon DEF Thread, PC
  <2>3. th' = [th EXCEPT ![p] = r] /\ th'[p] = r
    BY <1>0, <1>4, Zenon DEF ref_inc, TypeOK
  <2> HIDE DEF r
  <2>4. MayBe(p, "uvmcopy")' /\ "uvmcopy" \in PC \ Idle
    BY <2>2, <2>3, Zenon DEF MayBe, PC
  <2>5. refcount' \in [Page -> Nat]
    BY <1>0, <1>4, <2>1 DEF ref_inc, TypeOK
  <2> QED BY <1>0, <1>4, <2>2, <2>3, <2>4, <2>5, Local, Zenon DEF ref_inc, TypeOK, ForkOp
<1> QED BY <1>1, <1>2, <1>3, <1>4, Zenon

\* kfork() returns: parent and child run.
LEMMA ForkDoneStep ==
  ASSUME CInv, NEW p \in Proc, kfork_done(p)
  PROVE  CInv'
<1> DEFINE c == th[p].child
<1>1. /\ TypeOK /\ th[p].pc = "uvmcopy" /\ c \in Proc /\ th[c].pc = "embryo" /\ c # p
      /\ UNCHANGED <<freelist, refcount, mem, pt, pagetable, panic>>
  BY Zenon DEF kfork_done, CInv, ThreadInv, TableInv, OpInv, MayBe, ForkOp
<1>2. /\ th' = [th EXCEPT ![c] = At("user"), ![p] = At("user")]
      /\ sz' = [sz EXCEPT ![c] = sz[p]]
  BY Zenon DEF kfork_done
<1>3. \A q \in Proc : th[q].tbl \in PT \cup {None} /\ th[q].child \in Proc \cup {None}
  BY Zenon DEF CInv, TypeOK, Thread
<1>4. \A q \in Proc : th[q].child # p /\ (q # p => th[q].child # c)
  BY <1>1, <1>3 DEF CInv, ThreadInv, TableInv, Apart
<1> HIDE DEF c
<1>5. At("user") \in Thread
  BY DEF At, Thread, PC, Op
<1>6. \A q \in {p, c} : th'[q] = At("user")
  BY <1>1, <1>2 DEF TypeOK
<1>7. \A q \in Proc \ {p, c} : th'[q] = th[q] /\ sz'[q] = sz[q]
  BY <1>1, <1>2, Zenon DEF TypeOK
<1>8. TypeOK'
  BY <1>1, <1>2, <1>5, Zenon DEF TypeOK
<1>9. ASSUME NEW q \in Proc  PROVE ThreadInv(q)'
  <2>1. CASE q \in {p, c}
    <3>1. pagetable[q] # None
      BY <1>1, <2>1, SMTT(30) DEF CInv, ThreadInv, TableInv
    <3> QED BY <1>1, <1>6, <2>1, <3>1, IdleThread, Zenon DEF Idle
  <2>2. CASE q \notin {p, c}
    <3>1. th[q].op \in ForkOp => th[q].child \in Proc \ {p, c}
      BY <1>4, <2>2, Zenon DEF CInv, ThreadInv, TableInv
    <3> QED BY <1>1, <1>7, <2>2, <3>1, SameThread, Zenon DEF CInv
  <2> QED BY <2>1, <2>2, Zenon
<1>10. \A q \in Proc : th'[q] = th[q] \/ (th'[q].tbl = None /\ th'[q].child = None)
  <2>1. At("user").tbl = None /\ At("user").child = None
    BY Zenon DEF At
  <2> QED BY <1>6, <1>7, <2>1, Zenon
<1>11. ASSUME NEW q \in Proc, NEW s \in Proc, q # s  PROVE Apart(q, s)'
  <2>1. Apart(q, s)
    BY <1>11, Zenon DEF CInv
  <2> QED BY <1>1, <1>10, <2>1, Zenon DEF Apart
<1> QED BY <1>8, <1>9, <1>11, Zenon DEF CInv

\* A failed uvmalloc() goes on to unmap what it has mapped.
LEMMA UndoStep ==
  ASSUME CInv, NEW p \in Proc, NEW next \in {"uvmunmap", "kfree_dec"},
         \/ th[p].pc = "uvmalloc" /\ next = "uvmunmap"
         \/ th[p].pc = "alloc_map" /\ next = "kfree_dec",
         Undo(p, next),
         UNCHANGED <<freelist, refcount, mem, pt, pagetable, sz, panic>>
  PROVE  CInv'
<1> DEFINE o == IF th[p].op = "exec" THEN "exec_bad" ELSE "grow_bad"
           r == [th[p] EXCEPT !.pc = next, !.op = o, !.i = th[p].lo, !.hi = th[p].i]
<1>1. th[p] \in Thread /\ TypeOK /\ MayBe(p, th[p].pc)
  BY Zenon DEF CInv, TypeOK, ThreadInv, OpInv
<1>2. th[p].op \in {"grow", "exec"}
  BY <1>1, Zenon DEF MayBe
<1>3. /\ o \in {"grow_bad", "exec_bad"} /\ o \in Op
      /\ \E O \in {OwnOp, ForkOp, ExecOp} : th[p].op \in O /\ o \in O
  BY <1>2, Zenon DEF OwnOp, ForkOp, ExecOp, Op
<1>4. th' = [th EXCEPT ![p] = r]
  BY <1>1, Zenon DEF Undo, TypeOK, Thread
<1> HIDE DEF o
<1>5. /\ r \in Thread /\ r.pc = next /\ r.op = o /\ r.new = th[p].new
      /\ r.tbl = th[p].tbl /\ r.child = th[p].child
  BY <1>1, <1>3, ZenonT(60) DEF Thread, PC
<1> HIDE DEF r
<1>6. th'[p] = r
  BY <1>1, <1>4, Zenon DEF TypeOK
<1>7. MayBe(p, next)' /\ next \in PC \ Idle
  BY <1>1, <1>3, <1>5, <1>6, Zenon DEF MayBe, PC, UnmapOp, Idle, CowPC, UnmapPC, NewPC
<1> QED BY <1>1, <1>3, <1>4, <1>5, <1>7, Local, Zenon DEF TypeOK

\* Steps of uvmalloc() and of its callers but for the commit of exec.
LEMMA AllocStep ==
  ASSUME CInv, NEW p \in Proc, Alloc(p), ~kexec_commit(p)
  PROVE  CInv'
<1> USE DEF Idle, CowPC, UnmapPC, NewPC
<1>0. CInv /\ TypeOK /\ th[p] \in Thread /\ MayBe(p, th[p].pc)
  BY Zenon DEF CInv, TypeOK, ThreadInv, OpInv
<1>1. CASE uvmalloc(p)
  <2>1. CASE freelist = {} /\ Undo(p, "uvmunmap") /\ UNCHANGED <<freelist, mem>>
    BY <1>1, <2>1, UndoStep, Zenon DEF uvmalloc
  <2>2. CASE kalloc(p, "alloc_ref")
    BY <1>1, <2>2, Kalloc, Zenon DEF uvmalloc
  <2> QED BY <1>1, <2>1, <2>2, Zenon DEF uvmalloc
<1>2. CASE kalloc_ref(p, "alloc_ref", "alloc_map")
  <2>1. MayBe(p, "alloc_map")
    BY <1>0, <1>2, Zenon DEF kalloc_ref, MayBe
  <2> QED BY <1>0, <1>2, <2>1, Move, Zenon DEF kalloc_ref, PC, TypeOK
<1>3. CASE uvmalloc_map(p)
  <2>1. /\ th[p].new \in Page /\ th[p].i < th[p].hi /\ th[p].i \in VA /\ th[p].tbl \in PT
        /\ th[p].i + 1 \in 0..NVA /\ th[p].op \in {"grow", "exec"}
        /\ th[p].op = "exec" => th[p].i \in 0..ImageSize-1
    <3>1. th[p].new \in Page /\ th[p].i < th[p].hi /\ th[p].op \in {"grow", "exec"}
      BY <1>0, <1>3, Zenon DEF uvmalloc_map, MayBe
    <3>2. th[p].tbl \in PT
      BY <1>3, Facts, Zenon DEF uvmalloc_map
    <3>3. th[p].op = "exec" => th[p].hi = ImageSize
      BY Zenon DEF CInv, ThreadInv, OpInv
    <3>4. th[p].i \in 0..NVA /\ th[p].hi \in 0..NVA
      BY <1>0, Zenon DEF Thread
    <3> QED BY <3>1, <3>2, <3>3, <3>4, SMTT(30) DEF VA
  <2>2. mem' \in [Page -> Contents]
    BY <1>0, <1>3, <2>1, Zenon DEF uvmalloc_map, TypeOK, Contents
  <2>3. CASE panic' = "mappages: remap" /\ UNCHANGED <<pt, th>>
    BY <1>0, <1>3, <2>2, <2>3, Still, ZenonT(60) DEF uvmalloc_map, TypeOK, Panics
  <2>4. CASE ~ (panic' = "mappages: remap" /\ UNCHANGED <<pt, th>>)
    <3> DEFINE r == [th[p] EXCEPT !.pc = "uvmalloc", !.i = @ + 1, !.new = None]
               f == IF th[p].op = "exec" THEN Image[th[p].i] ELSE {"W", "U"}
               e == [pa |-> th[p].new, flags |-> f]
    <3>1. f \in Flags
      BY <2>1, Zenon DEF Flags
    <3>2. e \in PTE
      BY <2>1, <3>1, Zenon DEF PTE
    <3>3. /\ r \in Thread /\ r.pc = "uvmalloc" /\ r.op = th[p].op /\ r.hi = th[p].hi
          /\ r.tbl = th[p].tbl /\ r.child = th[p].child
      BY <1>0, <2>1, Zenon DEF Thread, PC
    <3>4. th' = [th EXCEPT ![p] = r] /\ th'[p] = r
      BY <1>0, <1>3, <2>4, Zenon DEF uvmalloc_map, TypeOK
    <3>5. pt' = [pt EXCEPT ![th[p].tbl][th[p].i] = e] /\ UNCHANGED panic
      BY <1>3, <2>4, Zenon DEF uvmalloc_map
    <3> HIDE DEF r, f, e
    <3>6. MayBe(p, "uvmalloc")' /\ "uvmalloc" \in PC \ Idle
      BY <2>1, <3>3, <3>4, Zenon DEF MayBe, PC
    <3> QED BY <1>3, <2>1, <2>2, <3>2, <3>3, <3>4, <3>5, <3>6, Store, Zenon DEF uvmalloc_map
  <2> QED BY <2>3, <2>4, Zenon
<1>4. CASE uvmalloc_bad(p)
  BY <1>4, UndoStep, Zenon DEF uvmalloc_bad
<1>5. CASE ref_dec(p, "kfree_dec", th[p].new, "kfree_push", "uvmunmap")
  <2>1. MayBe(p, "kfree_push") /\ MayBe(p, "uvmunmap") /\ th[p].new \in Page
    BY <1>0, <1>5, Zenon DEF ref_dec, MayBe, UnmapOp
  <2> QED BY <1>5, <2>1, RefDec DEF PC
<1>6. CASE free_page(p, "kfree_push", th[p].new, "uvmunmap")
  <2>1. MayBe(p, "uvmunmap") /\ th[p].new \in Page
    BY <1>0, <1>6, Zenon DEF free_page, MayBe, UnmapOp
  <2> QED BY <1>6, <2>1, FreePage, Zenon DEF PC
<1>7. CASE growproc_done(p)
  <2>1. th[p].hi \in 0..NVA
    BY <1>0, Zenon DEF Thread
  <2> QED BY <1>0, <1>7, <2>1, Finish, Zenon DEF growproc_done, TypeOK
<1>8. CASE kexec_bad(p)
  BY <1>8, UndoStep, Zenon DEF kexec_bad
<1> QED BY <1>1, <1>2, <1>3, <1>4, <1>5, <1>6, <1>7, <1>8, Zenon DEF Alloc

\* exec installs the new page table and goes on to free the old one.
LEMMA CommitStep ==
  ASSUME CInv, NEW p \in Proc, kexec_commit(p)
  PROVE  CInv'
<1> DEFINE t == th[p].tbl
           u == pagetable[p]
           r == [th[p] EXCEPT !.pc = "uvmunmap", !.op = "exec_commit", !.tbl = u,
                              !.i = 0, !.lo = 0, !.hi = sz[p]]
<1>1. /\ TypeOK /\ ThreadInv(p) /\ th[p] \in Thread /\ th[p].op = "exec"
      /\ th[p].pc = "uvmalloc" /\ UNCHANGED <<freelist, refcount, mem, pt, panic>>
      /\ pagetable' = [pagetable EXCEPT ![p] = t] /\ sz' = [sz EXCEPT ![p] = ImageSize]
  BY Zenon DEF kexec_commit, CInv, TypeOK
<1>2. t \in PT /\ u \in PT /\ t # u /\ th[p].child = None /\ sz[p] \in 0..NVA
  <2>1. t \in PT /\ u \in PT
    BY <1>1, Facts, Zenon DEF Idle
  <2>2. t # u /\ th[p].child = None
    BY <1>1, Zenon DEF ThreadInv, TableInv, ExecOp, ForkOp
  <2> QED BY <1>1, <2>1, <2>2, Zenon DEF TypeOK
<1>3. th' = [th EXCEPT ![p] = r]
  BY <1>1, Zenon DEF kexec_commit, TypeOK, Thread
<1>4. r \in Thread /\ r.pc = "uvmunmap" /\ r.op = "exec_commit" /\ r.tbl = u /\ r.child = None
  <2>1. 0 \in 0..NVA
    BY VmAssumption
  <2> QED BY <1>1, <1>2, <2>1, ZenonT(60) DEF Thread, PC, Op
<1> HIDE DEF r, t, u
<1>5. \A q \in Proc : th[q].tbl \in PT \cup {None} /\ th[q].child \in Proc \cup {None}
  BY Zenon DEF CInv, TypeOK, Thread
<1>6. \A q \in Proc : th[q].child # p
  BY <1>1, <1>5 DEF CInv, ThreadInv, TableInv
<1>7. /\ th'[p] = r /\ pagetable'[p] = t
      /\ \A q \in Proc \ {p} : th'[q] = th[q] /\ sz'[q] = sz[q] /\ pagetable'[q] = pagetable[q]
  BY <1>1, <1>3 DEF TypeOK
<1>8. TypeOK'
  BY <1>1, <1>2, <1>3, <1>4 DEF TypeOK
<1>9. ASSUME NEW q \in Proc  PROVE ThreadInv(q)'
  <2>1. CASE q = p
    <3>1. OpInv(q)'
      BY <1>4, <1>7, <2>1, Zenon DEF OpInv, MayBe, Idle, CowPC, UnmapPC, NewPC, UnmapOp
    <3>2. TableInv(q)'
      BY <1>2, <1>4, <1>7, <2>1, Zenon DEF TableInv, OwnOp, ForkOp, ExecOp
    <3> QED BY <3>1, <3>2, Zenon DEF ThreadInv
  <2>2. CASE q # p
    <3>1. th[q].op \in ForkOp => th[q].child \in Proc \ {p}
      BY <1>6, <2>2, Zenon DEF CInv, ThreadInv, TableInv
    <3> QED BY <1>1, <1>7, <2>2, <3>1, SameThread, Zenon DEF CInv
  <2> QED BY <2>1, <2>2, Zenon
<1>10. ASSUME NEW q \in Proc, NEW s \in Proc, q # s  PROVE Apart(q, s)'
  <2>0. Apart(q, s) /\ Apart(s, q) /\ t = th[p].tbl /\ u = pagetable[p]
    BY <1>10, Zenon DEF CInv, t, u
  <2>1. CASE q = p
    BY <1>2, <1>4, <1>5, <1>6, <1>7, <1>10, <2>0, <2>1, SMTT(120) DEF Apart
  <2>2. CASE s = p
    BY <1>2, <1>4, <1>5, <1>6, <1>7, <1>10, <2>0, <2>2, SMTT(30) DEF Apart
  <2>3. CASE q # p /\ s # p
    BY <1>7, <1>10, <2>0, <2>3, Zenon DEF Apart
  <2> QED BY <2>1, <2>2, <2>3, Zenon
<1> QED BY <1>8, <1>9, <1>10, Zenon DEF CInv

\* Steps of uvmunmap() and its callers.
LEMMA UnmapStep ==
  ASSUME CInv, NEW p \in Proc, Unmap(p), ~freewalk(p)
  PROVE  CInv'
<1> USE DEF Idle, CowPC, UnmapPC, NewPC
<1>0. /\ CInv /\ TypeOK /\ th[p] \in Thread /\ MayBe(p, th[p].pc)
      /\ th[p].i \in 0..NVA /\ th[p].lo \in 0..NVA /\ th[p].hi \in 0..NVA
      /\ th[p].i < th[p].hi => th[p].i + 1 \in 0..NVA
      /\ th[p].op = "exec" => th[p].hi = ImageSize
      /\ sz[p] \in 0..NVA /\ sz = [sz EXCEPT ![p] = sz[p]]
  <2>1. CInv /\ TypeOK /\ th[p] \in Thread /\ MayBe(p, th[p].pc)
    BY Zenon DEF CInv, TypeOK, ThreadInv, OpInv
  <2>2. th[p].i \in 0..NVA /\ th[p].lo \in 0..NVA /\ th[p].hi \in 0..NVA
    BY <2>1, Zenon DEF Thread
  <2>3. sz[p] \in 0..NVA /\ sz = [sz EXCEPT ![p] = sz[p]]
    BY <2>1, Zenon DEF TypeOK
  <2>4. th[p].op = "exec" => th[p].hi = ImageSize
    BY Zenon DEF CInv, ThreadInv, OpInv
  <2> QED BY <2>1, <2>2, <2>3, <2>4
<1>1. CASE uvmunmap(p)
  <2>1. CASE Cur(p) = None
    <3> DEFINE r == [th[p] EXCEPT !.i = @ + 1]
    <3>1. /\ r \in Thread /\ r.pc = "uvmunmap" /\ r.op = th[p].op /\ r.hi = th[p].hi
          /\ r.tbl = th[p].tbl /\ r.child = th[p].child
      BY <1>0, <1>1, Zenon DEF uvmunmap, Thread
    <3>2. th' = [th EXCEPT ![p] = r] /\ th'[p] = r
      BY <1>0, <1>1, <2>1, Zenon DEF uvmunmap, TypeOK
    <3> HIDE DEF r
    <3>3. MayBe(p, "uvmunmap")' /\ "uvmunmap" \in PC \ Idle
      BY <1>0, <1>1, <3>1, <3>2, Zenon DEF uvmunmap, MayBe, PC
    <3>4. \E O \in {OwnOp, ForkOp, ExecOp} : th[p].op \in O /\ r.op \in O
      BY <1>1, <3>1, Facts, Zenon DEF uvmunmap
    <3> QED BY <1>0, <1>1, <3>1, <3>2, <3>3, <3>4, Local, ZenonT(60) DEF uvmunmap, TypeOK
  <2>2. CASE Cur(p) # None
    <3>1. MayBe(p, "unmap_dec")
      BY <1>0, <1>1, <2>2, Zenon DEF uvmunmap, MayBe
    <3> QED BY <1>0, <1>1, <2>2, <3>1, Move, Zenon DEF uvmunmap, PC, TypeOK
  <2> QED BY <2>1, <2>2, Zenon
<1>2. CASE unmap_clear(p)
  <2> DEFINE r == [th[p] EXCEPT !.pc = "uvmunmap", !.i = @ + 1]
  <2>1. th[p].i < th[p].hi /\ th[p].i \in VA
    BY <1>0, <1>2, Facts, Zenon DEF unmap_clear, MayBe
  <2>2. /\ r \in Thread /\ r.pc = "uvmunmap" /\ r.op = th[p].op /\ r.hi = th[p].hi
        /\ r.tbl = th[p].tbl /\ r.child = th[p].child
    BY <1>0, <2>1, Zenon DEF Thread, PC
  <2>3. th' = [th EXCEPT ![p] = r] /\ th'[p] = r
    BY <1>0, <1>2, Zenon DEF unmap_clear, TypeOK
  <2> HIDE DEF r
  <2>4. MayBe(p, "uvmunmap")' /\ "uvmunmap" \in PC \ Idle
    BY <1>0, <1>2, <2>2, <2>3, Zenon DEF unmap_clear, MayBe, PC
  <2> QED BY <1>0, <1>2, <2>1, <2>2, <2>3, <2>4, Store, Zenon DEF unmap_clear, TypeOK
<1>3. CASE uvmunmap_done(p)
  <2>1. CASE th[p].op \in {"shrink", "grow_bad"}
    <3>1. PICK n \in 0..NVA : sz' = [sz EXCEPT ![p] = n]
      BY <1>0, <1>3, Zenon DEF uvmunmap_done
    <3> QED BY <1>0, <1>3, <2>1, <3>1, Finish, Zenon DEF uvmunmap_done, TypeOK
  <2>2. CASE th[p].op \notin {"shrink", "grow_bad"}
    <3>1. MayBe(p, "freewalk")
      BY <1>0, <1>3, <2>2, Zenon DEF uvmunmap_done, MayBe
    <3> QED BY <1>0, <1>3, <2>2, <3>1, Move, Zenon DEF uvmunmap_done, PC, TypeOK
  <2> QED BY <2>1, <2>2, Zenon
<1>4. CASE ref_dec(p, "unmap_dec", Cur(p).pa, "unmap_push", "unmap_clear")
  <2>1. MayBe(p, "unmap_push") /\ MayBe(p, "unmap_clear")
    BY <1>0, <1>4, Zenon DEF ref_dec, MayBe
  <2>2. Cur(p).pa \in Page
    BY <1>4, Facts, Zenon DEF ref_dec, PTE
  <2> QED BY <1>4, <2>1, <2>2, RefDec DEF PC
<1>5. CASE free_page(p, "unmap_push", Cur(p).pa, "unmap_clear")
  <2>1. MayBe(p, "unmap_clear")
    BY <1>0, <1>5, Zenon DEF free_page, MayBe
  <2>2. Cur(p).pa \in Page
    BY <1>5, Facts, Zenon DEF free_page, PTE
  <2> QED BY <1>5, <2>1, <2>2, FreePage, Zenon DEF PC
<1> QED BY <1>1, <1>2, <1>3, <1>4, <1>5, Zenon DEF Unmap

\* The page table is freed, and with it the slot g of a reaped process or of
\* a child that could not be made.
LEMMA Release ==
  ASSUME CInv, NEW p \in Proc, NEW g \in Proc, th[p].pc = "freewalk",
         \/ g = p /\ th[p].op = "reap"
         \/ g = th[p].child /\ th[p].op = "fork_bad",
         pagetable' = [q \in Proc |-> IF q = g THEN None ELSE pagetable[q]],
         sz' = [q \in Proc |-> IF q = g THEN 0 ELSE sz[q]],
         th' = [q \in Proc |-> IF q = g THEN At("unused")
                               ELSE IF q = p THEN At("user") ELSE th[q]],
         UNCHANGED <<freelist, refcount, mem, pt, panic>>
  PROVE  CInv'
<1>1. TypeOK /\ ThreadInv(p) /\ (g = p \/ th[g].pc = "embryo")
  BY DEF CInv, ThreadInv, TableInv, ForkOp
<1>2. \A q \in Proc : th[q].tbl \in PT \cup {None} /\ th[q].child \in Proc \cup {None}
  BY Zenon DEF CInv, TypeOK, Thread
<1>3. \A q \in Proc : th[q].child # p /\ (q # p => th[q].child # g)
  <2>1. \A q \in Proc : th[q].child # p
    BY <1>1, <1>2, SMTT(40) DEF CInv, ThreadInv, TableInv
  <2> QED BY <1>1, <1>2, <2>1, SMTT(30) DEF CInv, Apart
<1>4. At("user") \in Thread /\ At("unused") \in Thread
  BY SMTT(30) DEF At, Thread, PC, Op
<1>5. TypeOK'
  BY <1>1, <1>4, 0 \in 0..NVA, Zenon DEF TypeOK
<1>6. ASSUME NEW q \in Proc  PROVE ThreadInv(q)'
  <2>1. CASE q = g
    <3>1. th'[q] = At("unused") /\ pagetable'[q] = None
      BY <2>1, Zenon
    <3> QED BY <3>1, IdleThread, Zenon DEF Idle
  <2>2. CASE q # g /\ q = p
    <3>1. th'[q] = At("user") /\ pagetable'[q] # None
      BY <2>2, Zenon DEF CInv, ThreadInv, TableInv
    <3> QED BY <3>1, IdleThread, Zenon DEF Idle
  <2>3. CASE q # g /\ q # p
    <3>1. th'[q] = th[q] /\ pagetable'[q] = pagetable[q] /\ sz'[q] = sz[q]
      BY <2>3, Zenon
    <3>2. th[q].op \in ForkOp => th[q].child \in Proc \ {p, g}
      BY <1>3, <2>3, Zenon DEF CInv, ThreadInv, TableInv
    <3> QED BY <3>1, <3>2, SameThread, ZenonT(60) DEF CInv
  <2> QED BY <2>1, <2>2, <2>3, Zenon
<1>7. \A q \in Proc : th'[q] = th[q] \/ (th'[q].tbl = None /\ th'[q].child = None)
  <2>1. \A l \in PC : At(l).tbl = None /\ At(l).child = None
    BY Zenon DEF At
  <2> QED BY <2>1, Zenon DEF PC
<1>8. \A q \in Proc : pagetable'[q] = pagetable[q] \/ pagetable'[q] = None
  OBVIOUS
<1>9. ASSUME NEW q \in Proc, NEW s \in Proc, q # s  PROVE Apart(q, s)'
  <2>1. Apart(q, s)
    BY <1>9, Zenon DEF CInv
  <2> QED BY <1>7, <1>8, <2>1, SMTT(30) DEF Apart
<1> QED BY <1>5, <1>6, <1>9, Zenon DEF CInv

\* Steps of freewalk().
LEMMA FreewalkStep ==
  ASSUME CInv, NEW p \in Proc, freewalk(p)
  PROVE  CInv'
<1>0. /\ TypeOK /\ th[p] \in Thread /\ th[p].pc = "freewalk"
      /\ th[p].op \in {"reap", "fork_bad", "exec_bad", "exec_commit"}
      /\ th[p].op = "fork_bad" => th[p].child \in Proc
  <2>1. TypeOK /\ th[p] \in Thread /\ th[p].pc = "freewalk"
    BY ZenonT(60) DEF freewalk, CInv, TypeOK
  <2>2. th[p].op \in {"reap", "fork_bad", "exec_bad", "exec_commit"}
    BY <2>1, Zenon DEF CInv, ThreadInv, OpInv, MayBe, UnmapOp
  <2>3. th[p].op = "fork_bad" => th[p].child \in Proc
    BY Zenon DEF CInv, ThreadInv, TableInv, ForkOp
  <2> QED BY <2>1, <2>2, <2>3, Zenon
<1>1. CASE panic' = "freewalk: leaf" /\ UNCHANGED <<pagetable, sz, th>>
  <2>1. UNCHANGED <<freelist, refcount, mem, pt, pagetable, sz, th>>
    BY <1>1, Zenon DEF freewalk
  <2>2. panic' \in Panics
    BY <1>1, ZenonT(60) DEF Panics
  <2> QED BY <1>0, <2>1, <2>2, Still, Zenon DEF TypeOK
<1>2. CASE pt[th[p].tbl] = NoMap /\ th[p].op = "reap"
  <2>1. /\ pagetable' = [q \in Proc |-> IF q = p THEN None ELSE pagetable[q]]
        /\ sz' = [q \in Proc |-> IF q = p THEN 0 ELSE sz[q]]
        /\ th' = [q \in Proc |-> IF q = p THEN At("unused")
                                 ELSE IF q = p THEN At("user") ELSE th[q]]
        /\ UNCHANGED <<freelist, refcount, mem, pt, panic>>
    BY <1>2, Zenon DEF freewalk
  <2> QED BY <1>0, <1>2, <2>1, Release, Zenon
<1>3. CASE pt[th[p].tbl] = NoMap /\ th[p].op = "fork_bad"
  <2> DEFINE g == th[p].child
  <2>1. /\ pagetable' = [q \in Proc |-> IF q = g THEN None ELSE pagetable[q]]
        /\ sz' = [q \in Proc |-> IF q = g THEN 0 ELSE sz[q]]
        /\ th' = [q \in Proc |-> IF q = g THEN At("unused")
                                 ELSE IF q = p THEN At("user") ELSE th[q]]
        /\ UNCHANGED <<freelist, refcount, mem, pt, panic>>
    BY <1>3 DEF freewalk
  <2> QED BY <1>0, <1>3, <2>1, Release, Zenon
<1>4. CASE pt[th[p].tbl] = NoMap /\ th[p].op \in {"exec_bad", "exec_commit"}
  <2>1. pagetable' = pagetable /\ UNCHANGED <<freelist, refcount, mem, pt, panic>>
    BY <1>0, <1>4, Zenon DEF freewalk, TypeOK
  <2>2. sz' = [sz EXCEPT ![p] = sz[p]] /\ sz[p] \in 0..NVA
    BY <1>0, <1>4, Zenon DEF freewalk, TypeOK
  <2>3. th' = [th EXCEPT ![p] = At("user")]
    BY <1>0, <1>4 DEF freewalk, TypeOK
  <2> QED BY <1>0, <2>1, <2>2, <2>3, Finish, Zenon DEF TypeOK
<1> QED BY <1>0, <1>1, <1>2, <1>3, <1>4, Zenon DEF freewalk

-----------------------------------------------------------------------------

\* A system call or access of thread p that works on its own page table.
LEMMA Enter ==
  ASSUME CInv, NEW p \in Proc, th[p].pc \in {"user", "zombie"},
         NEW r \in Thread, th' = [th EXCEPT ![p] = r],
         NEW l \in PC \ Idle, r.pc = l, MayBe(p, l)',
         r.tbl = pagetable[p], r.child = None, r.op \in OwnOp,
         UNCHANGED <<freelist, refcount, mem, pt, pagetable, sz, panic>>
  PROVE  CInv'
<1>1. r.op = "exec" => r.hi = ImageSize
  BY Zenon DEF OwnOp
<1> QED BY <1>1, Local, Zenon DEF CInv, TypeOK

\* The steps of user programs and of exec and fork, up to the page table.
LEMMA UserStep ==
  ASSUME CInv, NEW p \in Proc, User(p),
         ~ \E c \in Proc, t \in PT : kfork(p, c, t),
         ~ \E t \in PT : kexec(p, t)
  PROVE  CInv'
<1> USE DEF Idle, CowPC, UnmapPC, NewPC
<1>0. CInv /\ TypeOK /\ th[p] \in Thread /\ sz[p] \in 0..NVA
  BY Zenon DEF CInv, TypeOK
<1>1. /\ th[p].pc \in {"user", "zombie"} => th[p] = At(th[p].pc)
      /\ \A l \in PC : At(l).child = None
  BY Zenon DEF CInv, ThreadInv, OpInv, At
<1>2. th[p].pc \in {"user", "zombie"} => th[p].child = None /\ pagetable[p] \in PT
  BY <1>1, Facts DEF PC
<1>3. ASSUME NEW va \in VA, NEW op \in {"load", "store"}, Access(p, va, op)
      PROVE  CInv'
  <2> DEFINE r == [th[p] EXCEPT !.pc = "access", !.op = op, !.tbl = pagetable[p], !.i = va]
  <2>1. th[p].pc = "user" /\ va \in 0..NVA /\ va < NVA
    BY <1>3 DEF Access, VA
  <2>2. /\ r \in Thread /\ r.pc = "access" /\ r.op = op /\ r.tbl = pagetable[p]
        /\ r.i = va /\ r.child = None
    BY <1>0, <1>2, <2>1, Zenon DEF Thread, PC, Op
  <2>3. th' = [th EXCEPT ![p] = r] /\ th'[p] = r
    BY <1>0, <1>3, Zenon DEF Access, TypeOK
  <2> HIDE DEF r
  <2>4. MayBe(p, "access")' /\ "access" \in PC \ Idle
    BY <2>1, <2>2, <2>3, Zenon DEF MayBe, PC
  <2> QED BY <1>3, <2>1, <2>2, <2>3, <2>4, Enter, Zenon DEF Access, OwnOp
<1>4. ASSUME NEW va \in VA, NEW v \in Val, copyout(p, va, v)
      PROVE  CInv'
  <2>1. pt[pagetable[p]] \in [VA -> PTE \cup {None}]
    BY <1>0, <1>2, <1>4, Zenon DEF copyout, TypeOK
  <2>2. Pte(p, va).pa \in Page
    BY <1>4, <2>1, Zenon DEF copyout, Pte, PTE
  <2>3. mem' \in [Page -> Contents]
    BY <1>0, <1>4, <2>2, Zenon DEF copyout, TypeOK, Contents
  <2> QED BY <1>0, <1>4, <2>3, Still, Zenon DEF copyout, TypeOK
<1>5. ASSUME NEW n \in 1..NVA, growproc(p, n)
      PROVE  CInv'
  <2> DEFINE r == [th[p] EXCEPT !.pc = "uvmalloc", !.op = "grow", !.tbl = pagetable[p],
                                !.i = sz[p], !.lo = sz[p], !.hi = sz[p] + n]
  <2>1. th[p].pc = "user" /\ sz[p] + n \in 0..NVA
    BY <1>0, <1>5 DEF growproc
  <2>2. /\ r \in Thread /\ r.pc = "uvmalloc" /\ r.op = "grow" /\ r.tbl = pagetable[p]
        /\ r.child = None
    BY <1>0, <1>2, <2>1, Zenon DEF Thread, PC, Op
  <2>3. th' = [th EXCEPT ![p] = r] /\ th'[p] = r
    BY <1>0, <1>5, Zenon DEF growproc, TypeOK
  <2> HIDE DEF r
  <2>4. MayBe(p, "uvmalloc")' /\ "uvmalloc" \in PC \ Idle
    BY <2>2, <2>3, Zenon DEF MayBe, PC
  <2> QED BY <1>5, <2>1, <2>2, <2>3, <2>4, Enter, Zenon DEF growproc, OwnOp
<1>6. ASSUME NEW n \in 1..NVA, sbrk_lazy(p, n)
      PROVE  CInv'
  <2>1. /\ th[p].pc = "user" /\ sz[p] + n \in 0..NVA /\ sz' = [sz EXCEPT ![p] = sz[p] + n]
        /\ UNCHANGED <<freelist, refcount, mem, pt, pagetable, th, panic>>
    BY <1>0, <1>6, SMTT(30) DEF sbrk_lazy
  <2>2. th[p] = At("user") /\ th' = [th EXCEPT ![p] = At("user")]
    BY <1>0, <1>1, <2>1, Zenon DEF TypeOK
  <2> QED BY <1>0, <2>1, <2>2, Finish, ZenonT(60) DEF TypeOK
<1>7. ASSUME NEW n \in 1..NVA, growproc_shrink(p, n)
      PROVE  CInv'
  <2> DEFINE m == sz[p] - n
             r == [th[p] EXCEPT !.pc = "uvmunmap", !.op = "shrink", !.tbl = pagetable[p],
                                !.i = m, !.lo = m, !.hi = sz[p]]
  <2>1. th[p].pc = "user" /\ m \in 0..NVA
    BY <1>0, <1>7 DEF growproc_shrink
  <2>2. th' = [th EXCEPT ![p] = r]
    BY <1>0, <1>7, Zenon DEF growproc_shrink, TypeOK
  <2> HIDE DEF m
  <2>3. /\ r \in Thread /\ r.pc = "uvmunmap" /\ r.op = "shrink" /\ r.tbl = pagetable[p]
        /\ r.child = None
    BY <1>0, <1>2, <2>1, Zenon DEF Thread, PC, Op
  <2> HIDE DEF r
  <2>4. th'[p] = r
    BY <1>0, <2>2, Zenon DEF TypeOK
  <2>5. MayBe(p, "uvmunmap")' /\ "uvmunmap" \in PC \ Idle
    BY <2>3, <2>4, Zenon DEF MayBe, PC, UnmapOp
  <2> QED BY <1>7, <2>1, <2>2, <2>3, <2>5, Enter, Zenon DEF growproc_shrink, OwnOp
<1>8. CASE kexit(p)
  <2>1. sz = [sz EXCEPT ![p] = sz[p]]
    BY <1>0, Zenon DEF TypeOK
  <2> QED BY <1>0, <1>8, <2>1, Finish, Zenon DEF kexit, TypeOK
<1>9. CASE freeproc(p)
  <2> DEFINE r == [th[p] EXCEPT !.pc = "uvmunmap", !.op = "reap", !.tbl = pagetable[p],
                                !.hi = sz[p]]
  <2>1. th[p].pc = "zombie"
    BY <1>9, Zenon DEF freeproc
  <2>2. /\ r \in Thread /\ r.pc = "uvmunmap" /\ r.op = "reap" /\ r.tbl = pagetable[p]
        /\ r.child = None
    BY <1>0, <1>2, <2>1, Zenon DEF Thread, PC, Op
  <2>3. th' = [th EXCEPT ![p] = r] /\ th'[p] = r
    BY <1>0, <1>9, Zenon DEF freeproc, TypeOK
  <2> HIDE DEF r
  <2>4. MayBe(p, "uvmunmap")' /\ "uvmunmap" \in PC \ Idle
    BY <2>2, <2>3, Zenon DEF MayBe, PC, UnmapOp
  <2> QED BY <1>9, <2>1, <2>2, <2>3, <2>4, Enter, Zenon DEF freeproc, OwnOp
<1> QED BY <1>3, <1>4, <1>5, <1>6, <1>7, <1>8, <1>9, Zenon DEF User

\* fork takes a slot and an empty page table for the child.
LEMMA KforkStep ==
  ASSUME CInv, NEW p \in Proc, NEW c \in Proc, NEW t \in PT, kfork(p, c, t)
  PROVE  CInv'
<1> DEFINE r == [th[p] EXCEPT !.pc = "uvmcopy", !.op = "fork", !.tbl = t, !.child = c]
<1>1. /\ TypeOK /\ th[p].pc = "user" /\ th[c].pc = "unused" /\ c # p
      /\ th[p] \in Thread /\ pagetable' = [pagetable EXCEPT ![c] = t]
      /\ UNCHANGED <<freelist, refcount, mem, pt, sz, panic>>
  BY Zenon DEF kfork, CInv, TypeOK
<1>2. th' = [th EXCEPT ![c] = At("embryo"), ![p] = r]
  BY <1>1, Zenon DEF kfork, TypeOK
<1>3. r \in Thread /\ r.pc = "uvmcopy" /\ r.op = "fork" /\ r.tbl = t /\ r.child = c
  BY <1>1, Zenon DEF Thread, PC, Op
<1> HIDE DEF r
<1>4. /\ At("embryo") \in Thread /\ At("embryo").pc = "embryo" /\ At("embryo").op = "none"
      /\ At("embryo").tbl = None /\ At("embryo").child = None
  BY DEF At, Thread, PC, Op
<1>5. \A q \in Proc : th[q].tbl \in PT \cup {None} /\ th[q].child \in Proc \cup {None}
  BY Zenon DEF CInv, TypeOK, Thread
<1>6. \A q \in Proc : th[q].child # p /\ th[q].child # c
  BY <1>1, <1>5 DEF CInv, ThreadInv, TableInv
<1>7. \A q \in Proc : pagetable[q] # t /\ th[q].tbl # t
  BY Zenon DEF kfork, InUse
<1>8. /\ th'[p] = r /\ th'[c] = At("embryo")
      /\ \A q \in Proc : q \notin {p, c} => th'[q] = th[q]
      /\ pagetable'[c] = t /\ \A q \in Proc : q # c => pagetable'[q] = pagetable[q]
  BY <1>1, <1>2, SMTT(30) DEF TypeOK
<1>9. TypeOK'
  BY <1>1, <1>2, <1>3, <1>4, ZenonT(60) DEF TypeOK
<1>10. ASSUME NEW q \in Proc  PROVE ThreadInv(q)'
  <2>1. CASE q = p
    <3>1. OpInv(q)'
      BY <1>3, <1>8, <2>1, Zenon DEF OpInv, MayBe, Idle, CowPC, UnmapPC, NewPC
    <3>2. pagetable[p] # None
      BY <1>1, Zenon DEF CInv, ThreadInv, TableInv
    <3>3. TableInv(q)'
      BY <1>1, <1>3, <1>4, <1>8, <2>1, <3>2, Zenon DEF TableInv, OwnOp, ForkOp, ExecOp
    <3> QED BY <3>1, <3>3, Zenon DEF ThreadInv
  <2>2. CASE q = c
    BY <1>8, <2>2, IdleThread, Zenon DEF Idle
  <2>3. CASE q \notin {p, c}
    <3>1. th[q].op \in ForkOp => th[q].child \in Proc \ {p, c}
      BY <1>6, <2>3, Zenon DEF CInv, ThreadInv, TableInv
    <3>2. ThreadInv(q)
      BY Zenon DEF CInv
    <3>3. /\ th'[q] = th[q] /\ sz'[q] = sz[q] /\ pagetable'[q] = pagetable[q]
          /\ pt'[th[q].tbl] = pt[th[q].tbl] /\ pt'[pagetable[q]] = pt[pagetable[q]]
      BY <1>1, <1>8, <2>3, Zenon
    <3>4. th[q].op \in ForkOp => /\ th'[th[q].child] = th[th[q].child]
                                 /\ pagetable'[th[q].child] = pagetable[th[q].child]
      BY <1>8, <3>1, Zenon
    <3> QED BY <3>2, <3>3, <3>4, SameThread, Zenon
  <2> QED BY <2>1, <2>2, <2>3, Zenon
<1>11. ASSUME NEW q \in Proc, NEW s \in Proc, q # s  PROVE Apart(q, s)'
  <2>0. Apart(q, s) /\ Apart(s, q)
    BY <1>11, Zenon DEF CInv
  <2>1. (pagetable[q] # None => pagetable[q] # pagetable[s])'
    BY <1>7, <1>8, <1>11, <2>0, Zenon DEF Apart
  <2>2. (th[q].tbl # None => th[q].tbl # th[s].tbl)'
    BY <1>3, <1>4, <1>7, <1>8, <1>11, <2>0 DEF Apart
  <2>3. (th[q].tbl # None => th[q].tbl # pagetable[s] \/ th[q].child = s)'
    <3>1. CASE q = p
      BY <1>3, <1>7, <1>8, <1>11, <3>1, Zenon
    <3>2. CASE q = c
      BY <1>4, <1>8, <3>2, Zenon
    <3>3. CASE q \notin {p, c}
      BY <1>7, <1>8, <2>0, <3>3, Zenon DEF Apart
    <3> QED BY <3>1, <3>2, <3>3, Zenon
  <2>4. (th[q].child # None => th[q].child # th[s].child)'
    BY <1>3, <1>4, <1>6, <1>8, <1>11, <2>0 DEF Apart
  <2> QED BY <2>1, <2>2, <2>3, <2>4, Zenon DEF Apart
<1> QED BY <1>9, <1>10, <1>11, Zenon DEF CInv

\* exec takes an empty page table.
LEMMA KexecStep ==
  ASSUME CInv, NEW p \in Proc, NEW t \in PT, kexec(p, t)
  PROVE  CInv'
<1> DEFINE r == [th[p] EXCEPT !.pc = "uvmalloc", !.op = "exec", !.tbl = t, !.hi = ImageSize]
<1>1. /\ TypeOK /\ th[p].pc = "user" /\ th[p] \in Thread
      /\ UNCHANGED <<freelist, refcount, mem, pt, pagetable, sz, panic>>
  BY Zenon DEF kexec, CInv, TypeOK
<1>2. th[p].child = None /\ th[p].op = "none" /\ pagetable[p] # None
  <2>1. th[p] = At("user") /\ TableInv(p)
    BY <1>1, Zenon DEF CInv, ThreadInv, OpInv, Idle
  <2>2. At("user").child = None /\ At("user").op = "none"
    BY Zenon DEF At
  <2> QED BY <1>1, <2>1, <2>2, Zenon DEF TableInv
<1>3. th' = [th EXCEPT ![p] = r]
  BY <1>1, Zenon DEF kexec, TypeOK
<1>4. /\ r \in Thread /\ r.pc = "uvmalloc" /\ r.op = "exec" /\ r.tbl = t
      /\ r.hi = ImageSize /\ r.child = None
  <2>1. ImageSize \in 0..NVA
    BY VmAssumption
  <2> QED BY <1>1, <1>2, <2>1, ZenonT(60) DEF Thread, PC, Op
<1> HIDE DEF r
<1>5. \A q \in Proc : th[q].tbl \in PT \cup {None} /\ th[q].child \in Proc \cup {None}
  BY Zenon DEF CInv, TypeOK, Thread
<1>6. \A q \in Proc : th[q].child # p
  BY <1>1, <1>5 DEF CInv, ThreadInv, TableInv
<1>7. \A q \in Proc : pagetable[q] # t /\ th[q].tbl # t
  BY Zenon DEF kexec, InUse
<1>8. th'[p] = r /\ \A q \in Proc : q # p => th'[q] = th[q]
  BY <1>1, <1>3, Zenon DEF TypeOK
<1>9. TypeOK'
  BY <1>1, <1>3, <1>4, Zenon DEF TypeOK
<1>10. ASSUME NEW q \in Proc  PROVE ThreadInv(q)'
  <2>1. CASE q = p
    <3>1. OpInv(q)'
      BY <1>4, <1>8, <2>1, Zenon DEF OpInv, MayBe, Idle, CowPC, UnmapPC, NewPC
    <3>2. TableInv(q)'
      BY <1>1, <1>2, <1>4, <1>7, <1>8, <2>1, Zenon DEF TableInv, OwnOp, ForkOp, ExecOp
    <3> QED BY <3>1, <3>2, Zenon DEF ThreadInv
  <2>2. CASE q # p
    <3>1. th[q].op \in ForkOp => th[q].child \in Proc \ {p}
      BY <1>6, <2>2, Zenon DEF CInv, ThreadInv, TableInv
    <3> QED BY <1>1, <1>8, <2>2, <3>1, SameThread, Zenon DEF CInv
  <2> QED BY <2>1, <2>2, Zenon
<1>11. ASSUME NEW q \in Proc, NEW s \in Proc, q # s  PROVE Apart(q, s)'
  <2>1. Apart(q, s)
    BY <1>11, Zenon DEF CInv
  <2> QED BY <1>1, <1>4, <1>5, <1>7, <1>8, <1>11, <2>1, ZenonT(60) DEF Apart
<1> QED BY <1>9, <1>10, <1>11, Zenon DEF CInv

\* The first process runs a program; everything else is free.
LEMMA InitCInv ==
  ASSUME Init
  PROVE  CInv
<1>1. PICK p \in Proc, t \in PT, f \in [0..ImageSize-1 -> Page] : Init!(p, t, f)
  BY Zenon DEF Init
<1>2. /\ freelist = Page \ {f[i] : i \in 0..ImageSize-1}
      /\ refcount = [g \in Page |-> IF g \in freelist THEN 0 ELSE 1]
      /\ mem = [g \in Page |-> IF g \in freelist THEN Junk ELSE Zero]
      /\ pt = [u \in PT |-> [va \in VA |->
                 IF u = t /\ va < ImageSize
                 THEN [pa |-> f[va], flags |-> Image[va]] ELSE None]]
      /\ pagetable = [q \in Proc |-> IF q = p THEN t ELSE None]
      /\ sz = [q \in Proc |-> IF q = p THEN ImageSize ELSE 0]
      /\ th = [q \in Proc |-> At(IF q = p THEN "user" ELSE "unused")]
      /\ panic = "none"
  BY <1>1, Zenon
<1>3. \A l \in {"user", "unused"} :
        /\ At(l) \in Thread /\ At(l).pc = l /\ At(l).op = "none"
        /\ At(l).tbl = None /\ At(l).child = None
  BY DEF At, Thread, PC, Op
<1>4. \A q \in Proc : \E l \in {"user", "unused"} :
        th[q] = At(l) /\ (l = "unused" <=> pagetable[q] = None)
  BY <1>2, Zenon
<1>5. TypeOK
  <2>1. pt \in [PT -> [VA -> PTE \cup {None}]]
    <3>1. ASSUME NEW va \in VA, va < ImageSize
          PROVE  [pa |-> f[va], flags |-> Image[va]] \in PTE
      BY <3>1 DEF VA, PTE
    <3> QED BY <1>2, <3>1, Zenon
  <2>2. refcount \in [Page -> Nat] /\ mem \in [Page -> Contents] /\ freelist \subseteq Page
    BY <1>2, Zenon DEF Contents
  <2>3. th \in [Proc -> Thread]
    BY <1>2, <1>3, Zenon
  <2>4. pagetable \in [Proc -> PT \cup {None}] /\ panic \in Panics
    BY <1>2, Zenon DEF Panics
  <2>5. sz \in [Proc -> 0..NVA]
    BY <1>2
  <2> QED BY <2>1, <2>2, <2>3, <2>4, <2>5, Zenon DEF TypeOK
<1>6. ASSUME NEW q \in Proc  PROVE ThreadInv(q)
  <2>1. OpInv(q)
    BY <1>3, <1>4 DEF OpInv, MayBe, Idle, CowPC, UnmapPC, NewPC
  <2>2. TableInv(q)
    BY <1>3, <1>4, Zenon DEF TableInv, OwnOp, ForkOp, ExecOp
  <2> QED BY <2>1, <2>2, Zenon DEF ThreadInv
<1>7. ASSUME NEW q \in Proc, NEW s \in Proc, q # s  PROVE Apart(q, s)
  BY <1>2, <1>3, <1>4, <1>7, Zenon DEF Apart
<1> QED BY <1>5, <1>6, <1>7, Zenon DEF CInv

\* An access that the MMU permits.
LEMMA CompleteStep ==
  ASSUME CInv, NEW p \in Proc, NEW v \in Val, Complete(p, v)
  PROVE  CInv'
<1>1. TypeOK /\ th[p].pc = "access" /\ Cur(p) # None /\ sz[p] \in 0..NVA
  BY Zenon DEF Complete, Permitted, CInv, TypeOK
<1>2. th[p].tbl \in PT /\ th[p].i \in VA
  <2>1. th[p].tbl \in PT /\ th[p].i \in 0..NVA
    BY <1>1, Facts, Zenon DEF Idle, Thread
  <2>2. th[p].i < NVA
    BY <1>1, ZenonT(60) DEF CInv, ThreadInv, OpInv, MayBe
  <2> QED BY <2>1, <2>2 DEF VA
<1>3. Cur(p).pa \in Page
  <2>1. Cur(p) \in PTE
    BY <1>1, <1>2, SMTT(30) DEF Cur, TypeOK
  <2> QED BY <2>1, Zenon DEF PTE
<1>4. mem' \in [Page -> Contents]
  BY <1>1, <1>3, Zenon DEF Complete, TypeOK, Contents
<1>5. sz' = [sz EXCEPT ![p] = sz[p]]
  BY <1>1, Zenon DEF Complete, TypeOK
<1> QED BY <1>1, <1>4, <1>5, Finish, Zenon DEF Complete, TypeOK

\* Every step keeps the invariant.
LEMMA NextCInv ==
  ASSUME CInv, [Next]_vars
  PROVE  CInv'
<1>1. CASE UNCHANGED vars
  BY <1>1, Still, Zenon DEF vars, CInv, TypeOK
<1>2. CASE Next
  <2>1. PICK p \in Proc : User(p) \/ Kernel(p)
    BY <1>2, Zenon DEF Next
  <2>2. CASE User(p)
    <3>1. CASE \E c \in Proc, t \in PT : kfork(p, c, t)
      BY <3>1, KforkStep, Zenon
    <3>2. CASE \E t \in PT : kexec(p, t)
      BY <3>2, KexecStep, Zenon
    <3> QED BY <2>2, <3>1, <3>2, UserStep, Zenon
  <2>3. CASE \E v \in Val : Complete(p, v)
    BY <2>3, CompleteStep, Zenon
  <2>4. CASE Fault(p)
    BY <2>4, FaultStep, Zenon
  <2>5. CASE Fork(p)
    BY <2>5, CopyStep, ForkDoneStep, Zenon DEF Fork
  <2>6. CASE Alloc(p)
    BY <2>6, AllocStep, CommitStep, Zenon
  <2>7. CASE Unmap(p)
    BY <2>7, UnmapStep, FreewalkStep, Zenon
  <2> QED BY <2>1, <2>2, <2>3, <2>4, <2>5, <2>6, <2>7, Zenon DEF Kernel
<1> QED BY <1>1, <1>2, Zenon

\* User memory keeps its shape: every thread works, label by label, on a page
\* table that no other thread works on or has installed, on PTEs and pages
\* that exist, whatever forks, faults, exits, execs and sbrks interleave.
THEOREM Invariance == Spec => []CInv
<1>1. Init => CInv
  BY InitCInv, Zenon
<1>2. CInv /\ [Next]_vars => CInv'
  BY NextCInv, Zenon
<1> QED BY <1>1, <1>2, PTL DEF Spec

\* Every variable of the page allocator, the page tables and the threads
\* keeps its type; a reference count never goes below zero.
THEOREM TypeOKThm == Spec => []TypeOK
<1>1. CInv => TypeOK
  BY Zenon DEF CInv
<1> QED BY <1>1, Invariance, PTL

=============================================================================
