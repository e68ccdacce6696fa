---------------------------- MODULE VmRefProofs ----------------------------
(***************************************************************************)
(* Proofs about the reference counts of user pages, for any number of      *)
(* processes, page tables and pages: the counts are exact, and a page is   *)
(* free, in use or in one thread's hands.                                  *)
(***************************************************************************)
EXTENDS VmRefSteps

USE VmAssumption

\* A page fault keeps the counts.
LEMMA FaultRef ==
  ASSUME RInv, CInv', NEW p \in Proc, Fault(p)
  PROVE  RefcountExact' /\ FreeExact'
<1>0. /\ CInv /\ TypeOK /\ th \in [Proc -> Thread] /\ th[p] \in Thread
      /\ \A l \in {"access", "vmfault", "ref_get", "set_w", "cow_alloc"} : l \in PC /\ l \notin LivePC
  BY DEF RInv, CInv, TypeOK, PC, LivePC, UncPC, OwnPC, MovePC
<1>1. CASE usertrap(p)
  BY <1>0, <1>1, QuietMove, Zenon DEF usertrap
<1>2. CASE vmfault(p)
  BY <1>0, <1>2, QuietMove, QuietEnd DEF vmfault
<1>3. CASE ref_get(p)
  <2>1. PICK l \in {"cow_alloc", "set_w"} : th' = [th EXCEPT ![p].pc = l]
    BY <1>3, Zenon DEF ref_get
  <2> QED BY <1>0, <1>3, <2>1, QuietMove, ZenonT(60) DEF ref_get
<1>4. CASE set_w(p)
  <2>1. /\ th[p].pc = "set_w" /\ UNCHANGED <<refcount, freelist>>
        /\ th' \in [Proc -> Thread] /\ th'[p].pc = "access"
        /\ \A q \in Proc \ {p} : th'[q] = th[q]
    BY <1>0, <1>4, ZenonT(60) DEF set_w, CInv, TypeOK, Thread
  <2>2. th[p].tbl \in PT /\ th[p].i \in VA /\ Cur(p) \in PTE
    BY <1>0, <2>1, Facts, SMTT(30) DEF Idle, CowPC
  <2>3. ASSUME NEW u \in PT, NEW vb \in VA
        PROVE  /\ pt'[u][vb] = None <=> pt[u][vb] = None
               /\ pt[u][vb] # None => pt'[u][vb].pa = pt[u][vb].pa
    <3> DEFINE e == [Cur(p) EXCEPT !.flags = @ \cup {"W"}]
    <3>1. e \in PTE /\ e.pa = Cur(p).pa
      BY <2>2, Zenon DEF PTE, Flags
    <3>2. pt' = [pt EXCEPT ![th[p].tbl][th[p].i] = e]
      BY <1>0, <1>4, <2>2, Zenon DEF set_w, Cur, TypeOK
    <3> HIDE DEF e
    <3>3. CASE u = th[p].tbl /\ vb = th[p].i
      BY <1>0, <2>2, <3>1, <3>2, <3>3, SMTT(30) DEF Cur, TypeOK
    <3>4. CASE ~(u = th[p].tbl /\ vb = th[p].i)
      BY <1>0, <3>2, <3>4 DEF TypeOK
    <3> QED BY <3>3, <3>4, Zenon
  <2> QED BY <1>0, <2>1, <2>3, Quiet, ZenonT(60)
<1>5. CASE cow_alloc(p)
  <2>1. th[p].pc = "cow_alloc" /\ UNCHANGED <<refcount, pt>>
    BY <1>5, Zenon DEF cow_alloc
  <2>2. CASE kalloc(p, "cow_ref")
    <3>1. th[p].i \in VA
      BY <1>0, <2>1, Facts, Zenon DEF CowPC
    <3> QED BY <2>1, <2>2, <3>1, KallocRef, SMTT(30)
  <2>3. CASE ~kalloc(p, "cow_ref")
    BY <1>0, <1>5, <2>1, <2>3, QuietEnd, Zenon DEF cow_alloc
  <2> QED BY <2>2, <2>3
<1>6. CASE kalloc_ref(p, "cow_ref", "cow_copy")
  BY <1>6, KallocDone, Zenon
<1>7. CASE cow_copy(p)
  <2> DEFINE r == [th[p] EXCEPT !.pc = "cow_dec"]
  <2>1. r \in Thread /\ r.pc = "cow_dec" /\ r.new = th[p].new
    BY <1>0 DEF Thread, PC
  <2>2. th' = [th EXCEPT ![p] = r]
    BY <1>0, <1>7, Zenon DEF cow_copy
  <2> HIDE DEF r
  <2> QED BY <1>7, <2>1, <2>2, KeepStep, Zenon DEF cow_copy
<1>8. CASE ref_dec(p, "cow_dec", Cur(p).pa, "cow_push", "cow_map")
  BY <1>8, RefDecPte, Zenon
<1>9. CASE free_page(p, "cow_push", Cur(p).pa, "cow_map")
  <2>1. th[p].pc = "cow_push"
    BY <1>9, Zenon DEF free_page
  <2>2. /\ th[p].tbl \in PT /\ th[p].i \in VA /\ Cur(p) \in PTE
        /\ \A q \in Proc \ {p} : th[q].tbl # th[p].tbl
    BY <1>0, <2>1, Facts, Alone, SMTT(30) DEF Idle, CowPC
  <2>3. Cur(p).pa \in Page /\ \A g \in Page : InTransit(p, g) <=> g = Cur(p).pa
    BY <2>1, <2>2, Zenon DEF PTE, InTransit
  <2> QED BY <1>9, <2>1, <2>2, <2>3, PushStep
<1>10. CASE cow_map(p)
  <2>1. th[p].pc = "cow_map" /\ UNCHANGED <<refcount, freelist>>
    BY <1>10, Zenon DEF cow_map
  <2>2. th[p].tbl \in PT /\ th[p].i \in VA /\ Cur(p) \in PTE /\ th[p].new \in Page
    BY <1>0, <2>1, Facts, Hands DEF Idle, CowPC, LivePC, OwnPC
  <2> DEFINE r == [th[p] EXCEPT !.pc = "access", !.new = None]
             e == [pa |-> th[p].new, flags |-> Cur(p).flags \cup {"W"}]
  <2>3. r \in Thread /\ r.pc = "access"
    BY <1>0, Zenon DEF Thread, PC
  <2>4. e \in PTE /\ e.pa = th[p].new
    BY <2>2, Zenon DEF PTE, Flags
  <2>5. th' = [th EXCEPT ![p] = r]
    BY <1>0, <1>10, Zenon DEF cow_map
  <2>6. pt' = [pt EXCEPT ![th[p].tbl][th[p].i] = e]
    BY <1>0, <1>10, <2>2, Zenon DEF cow_map, Cur, TypeOK
  <2> HIDE DEF r, e
  <2> QED BY <2>1, <2>3, <2>4, <2>5, <2>6, MapStep, ZenonT(60)
<1> QED BY <1>1, <1>2, <1>3, <1>4, <1>5, <1>6, <1>7, <1>8, <1>9, <1>10, SMTT(30) DEF Fault

\* kfork() and uvmcopy() keep the counts.
LEMMA ForkRef ==
  ASSUME RInv, CInv', NEW p \in Proc, Fork(p)
  PROVE  RefcountExact' /\ FreeExact'
<1>0. /\ CInv /\ TypeOK /\ th \in [Proc -> Thread] /\ th[p] \in Thread
      /\ \A l \in {"uvmcopy", "uvmunmap", "user", "embryo"} : l \in PC /\ l \notin LivePC
      /\ sz[p] \in 0..NVA
  BY SMTT(30) DEF RInv, CInv, TypeOK, PC, LivePC, UncPC, OwnPC, MovePC
<1>1. th[p].i \in 0..NVA /\ (th[p].i < sz[p] => th[p].i \in VA)
  BY <1>0 DEF Thread, VA
<1>2. CASE uvmcopy_skip(p)
  <2> DEFINE r == [th[p] EXCEPT !.i = @ + 1]
  <2>1. th[p].i + 1 \in 0..NVA /\ th[p].pc = "uvmcopy"
    BY <1>0, <1>1, <1>2 DEF uvmcopy_skip
  <2>2. r \in Thread /\ r.pc = "uvmcopy"
    <3>1. th[p] \in Thread
      BY <1>0, Zenon
    <3> QED BY <2>1, <3>1, ZenonT(60) DEF Thread
  <2>3. th' = [th EXCEPT ![p] = r]
    BY <1>0, <1>2 DEF uvmcopy_skip
  <2> HIDE DEF r
  <2>4. UNCHANGED <<refcount, freelist, pt>>
    BY <1>2, Zenon DEF uvmcopy_skip
  <2> QED BY <1>0, <2>1, <2>2, <2>3, <2>4, QuietStep, ZenonT(60)
<1>3. CASE uvmcopy_bad(p)
  <2> DEFINE r == [th[p] EXCEPT !.pc = "uvmunmap", !.op = "fork_bad", !.i = 0, !.hi = th[p].i]
  <2>1. r \in Thread /\ r.pc = "uvmunmap"
    <3>1. 0 \in 0..NVA
      OBVIOUS
    <3> QED BY <1>0, <1>1, <3>1, ZenonT(60) DEF Thread, PC, Op
  <2>2. th' = [th EXCEPT ![p] = r]
    BY <1>0, <1>3, ZenonT(60) DEF uvmcopy_bad
  <2> HIDE DEF r
  <2>3. th[p].pc = "uvmcopy" /\ UNCHANGED <<refcount, freelist, pt>>
    BY <1>3 DEF uvmcopy_bad
  <2> QED BY <1>0, <2>1, <2>2, <2>3, QuietStep, ZenonT(60)
<1>4. CASE uvmcopy_map(p)
  <2>1. /\ th[p].pc = "uvmcopy" /\ th[p].i \in VA /\ Pte(p, th[p].i) # None
        /\ UNCHANGED <<refcount, freelist>>
    BY <1>1, <1>4, Zenon DEF uvmcopy_map
  <2>2. CASE Cur(p) # None
    BY <1>0, <1>4, <2>1, <2>2, Quiet, ZenonT(60) DEF uvmcopy_map
  <2>3. CASE Cur(p) = None
    <3>1. /\ pagetable[p] \in PT /\ th[p].tbl \in PT /\ th[p].op = "fork"
          /\ \A q \in Proc \ {p} : th[q].tbl # th[p].tbl
      BY <1>0, <2>1, Facts, Alone, Zenon DEF Idle, CInv, ThreadInv, OpInv, MayBe
    <3>2. PICK t \in PT, u \in PT, va \in VA :
            t = th[p].tbl /\ u = pagetable[p] /\ va = th[p].i
      BY <2>1, <3>1, Zenon
    <3>3. t # u
      BY <1>0, <2>1, <3>1, <3>2, ParentTable
    <3>4. pt \in [PT -> [VA -> PTE \cup {None}]] /\ pt[u][va] \in PTE /\ pt[t][va] = None
      BY <1>0, <2>1, <2>3, <3>2 DEF Pte, Cur, TypeOK
    <3> DEFINE e == [pt[u][va] EXCEPT !.flags = @ \ {"W"}]
    <3>5. e \in PTE /\ e.pa = pt[u][va].pa
      BY <3>4, Zenon DEF PTE, Flags
    <3>6. pt' = [pt EXCEPT ![t][va] = e, ![u][va] = e]
      BY <1>4, <2>3, <3>2, ZenonT(60) DEF uvmcopy_map, Pte
    <3> HIDE DEF e
    <3>7. SamePages(t, va)
      BY <3>3, <3>4, <3>5, <3>6 DEF SamePages
    <3> DEFINE r == [th[p] EXCEPT !.pc = "ref_inc"]
    <3>8. r \in Thread /\ r.pc = "ref_inc" /\ r.tbl = t /\ r.i = va
      <4>1. th[p] \in Thread
        BY <1>0, Zenon
      <4> QED BY <3>2, <4>1, ZenonT(60) DEF Thread, PC
    <3>9. th' = [th EXCEPT ![p] = r]
      BY <1>0, <1>4, <2>3, ZenonT(60) DEF uvmcopy_map
    <3> HIDE DEF r
    <3> QED BY <2>1, <3>1, <3>2, <3>4, <3>7, <3>8, <3>9, UncountedStep, ZenonT(60)
  <2> QED BY <2>2, <2>3, Zenon
<1>5. CASE ref_inc(p)
  BY <1>5, RefIncStep, Zenon
<1>6. CASE kfork_done(p)
  <2>1. th[p].pc = "uvmcopy" /\ UNCHANGED <<refcount, freelist, pt>>
    BY <1>6, Zenon DEF kfork_done
  <2>2. th[p].child \in Proc /\ th[th[p].child].pc = "embryo"
    BY <1>0, <2>1, Zenon DEF CInv, ThreadInv, OpInv, MayBe, TableInv, ForkOp
  <2>3. th' = [th EXCEPT ![th[p].child] = At("user"), ![p] = At("user")]
    BY <1>6, Zenon DEF kfork_done
  <2>4. At("user").pc = "user"
    BY Zenon DEF At
  <2>5. th' \in [Proc -> Thread]
    BY Zenon DEF CInv, TypeOK
  <2>6. \A q \in Proc : \/ th'[q] = th[q]
                        \/ th[q].pc \in {"uvmcopy", "embryo"} /\ th'[q].pc = "user"
    BY <1>0, <2>1, <2>2, <2>3, <2>4, Zenon
  <2> QED BY <1>0, <2>1, <2>5, <2>6, Quiet, Zenon
<1> QED BY <1>2, <1>3, <1>4, <1>5, <1>6, SMTT(30) DEF Fork

\* uvmalloc(), for sbrk and exec, keeps the counts.
LEMMA AllocRef ==
  ASSUME RInv, CInv', NEW p \in Proc, Alloc(p)
  PROVE  RefcountExact' /\ FreeExact'
<1>0. /\ CInv /\ TypeOK /\ th \in [Proc -> Thread] /\ th[p] \in Thread
      /\ \A l \in {"uvmalloc", "uvmunmap", "user"} : l \in PC /\ l \notin LivePC
      /\ sz[p] \in 0..NVA
  BY DEF RInv, CInv, TypeOK, PC, LivePC, UncPC, OwnPC, MovePC
<1>1. th[p].i \in 0..NVA /\ th[p].lo \in 0..NVA /\ th[p].hi \in 0..NVA
  BY <1>0, Zenon DEF Thread
<1>2. ASSUME NEW l \in PC, Undo(p, l)
      PROVE  \E r \in Thread : /\ th' = [th EXCEPT ![p] = r] /\ r.pc = l /\ r.new = th[p].new
  <2> DEFINE o == IF th[p].op = "exec" THEN "exec_bad" ELSE "grow_bad"
             r == [th[p] EXCEPT !.pc = l, !.op = o, !.i = th[p].lo, !.hi = th[p].i]
  <2>1. o \in Op
    BY Zenon DEF Op
  <2>2. th' = [th EXCEPT ![p] = r]
    BY <1>0, <1>2, Zenon DEF Undo
  <2> HIDE DEF o
  <2>3. r \in Thread /\ r.pc = l /\ r.new = th[p].new
    BY <1>0, <1>1, <2>1, ZenonT(60) DEF Thread
  <2> HIDE DEF r
  <2> QED BY <2>2, <2>3, Zenon
<1>3. CASE uvmalloc(p)
  <2>1. th[p].pc = "uvmalloc" /\ th[p].i \in VA /\ UNCHANGED <<refcount, pt>>
    BY <1>1, <1>3 DEF uvmalloc, VA
  <2>2. CASE kalloc(p, "alloc_ref")
    BY <2>1, <2>2, KallocRef, Zenon
  <2>3. CASE ~kalloc(p, "alloc_ref")
    <3>1. Undo(p, "uvmunmap") /\ UNCHANGED freelist
      BY <1>3, <2>3, Zenon DEF uvmalloc
    <3> QED BY <1>0, <1>2, <2>1, <3>1, QuietStep, SMTT(30)
  <2> QED BY <2>2, <2>3
<1>4. CASE kalloc_ref(p, "alloc_ref", "alloc_map")
  BY <1>4, KallocDone, Zenon
<1>5. CASE uvmalloc_map(p)
  <2>1. th[p].pc = "alloc_map" /\ UNCHANGED <<refcount, freelist>>
    BY <1>5, Zenon DEF uvmalloc_map
  <2>2. CASE Cur(p) # None
    BY <1>0, <1>5, <2>1, <2>2, Quiet, ZenonT(60) DEF uvmalloc_map
  <2>3. CASE Cur(p) = None
    <3>1. th[p].tbl \in PT /\ th[p].i \in VA /\ th[p].new \in Page
      BY <1>0, <2>1, Hands DEF LivePC, OwnPC
    <3>2. th[p].op = "exec" => th[p].i \in 0..ImageSize-1
      <4>1. th[p].i < th[p].hi /\ (th[p].op = "exec" => th[p].hi = ImageSize)
        BY <1>0, <2>1, ZenonT(60) DEF CInv, ThreadInv, OpInv, MayBe
      <4> QED BY <1>1, <4>1, SMTT(30)
    <3> DEFINE f == IF th[p].op = "exec" THEN Image[th[p].i] ELSE {"W", "U"}
               e == [pa |-> th[p].new, flags |-> f]
               r == [th[p] EXCEPT !.pc = "uvmalloc", !.i = @ + 1, !.new = None]
    <3>3. f \in Flags
      BY <3>2, Zenon DEF Flags
    <3>4. pt' = [pt EXCEPT ![th[p].tbl][th[p].i] = e]
      BY <1>5, <2>3, Zenon DEF uvmalloc_map
    <3> HIDE DEF f
    <3>5. e \in PTE /\ e.pa = th[p].new
      BY <3>1, <3>3, Zenon DEF PTE
    <3>6. th[p].i + 1 \in 0..NVA
      BY <3>1 DEF VA
    <3>7. r \in Thread /\ r.pc = "uvmalloc"
      BY <1>0, <3>6, Zenon DEF Thread, PC
    <3>8. th' = [th EXCEPT ![p] = r]
      BY <1>0, <1>5, <2>3, Zenon DEF uvmalloc_map
    <3> HIDE DEF e, r
    <3> QED BY <2>1, <2>3, <3>4, <3>5, <3>7, <3>8, MapStep, Zenon
  <2> QED BY <2>2, <2>3, Zenon
<1>6. CASE uvmalloc_bad(p)
  <2>1. th[p].pc = "alloc_map" /\ Undo(p, "kfree_dec") /\ UNCHANGED <<refcount, freelist, pt>>
    BY <1>6, Zenon DEF uvmalloc_bad
  <2>2. "kfree_dec" \in PC
    BY Zenon DEF PC
  <2>3. PICK r \in Thread : th' = [th EXCEPT ![p] = r] /\ r.pc = "kfree_dec" /\ r.new = th[p].new
    BY <1>2, <2>1, <2>2, Zenon
  <2> QED BY <2>1, <2>3, KeepStep, Zenon
<1>7. CASE ref_dec(p, "kfree_dec", th[p].new, "kfree_push", "uvmunmap")
  BY <1>7, RefDecNew, Zenon
<1>8. CASE free_page(p, "kfree_push", th[p].new, "uvmunmap")
  <2>1. th[p].pc = "kfree_push"
    BY <1>8, Zenon DEF free_page
  <2>2. /\ th[p].tbl \in PT /\ th[p].new \in Page
        /\ \A q \in Proc \ {p} : th[q].tbl # th[p].tbl
    BY <1>0, <2>1, Hands, Zenon DEF LivePC, MovePC
  <2>3. \A g \in Page : InTransit(p, g) <=> g = th[p].new
    BY <2>1, Zenon DEF InTransit
  <2>4. 0 \in VA
    BY DEF VA
  <2> QED BY <1>8, <2>1, <2>2, <2>3, <2>4, PushStep
<1>9. CASE growproc_done(p)
  BY <1>0, <1>9, QuietEnd, ZenonT(60) DEF growproc_done
<1>10. CASE kexec_bad(p)
  <2>1. th[p].pc = "uvmalloc" /\ Undo(p, "uvmunmap") /\ UNCHANGED <<refcount, freelist, pt>>
    BY <1>10, Zenon DEF kexec_bad
  <2> QED BY <1>0, <1>2, <2>1, QuietStep
<1>11. CASE kexec_commit(p)
  <2>1. /\ th[p].pc = "uvmalloc" /\ UNCHANGED <<refcount, freelist, pt>>
        /\ th'[p].pc = "uvmunmap" /\ \A q \in Proc \ {p} : th'[q] = th[q]
    BY <1>0, <1>11 DEF kexec_commit, Thread
  <2>2. th' \in [Proc -> Thread]
    BY Zenon DEF CInv, TypeOK
  <2> QED BY <1>0, <2>1, <2>2, Quiet, Zenon
<1> QED BY <1>3, <1>4, <1>5, <1>6, <1>7, <1>8, <1>9, <1>10, <1>11, SMTT(30) DEF Alloc

\* uvmunmap() and freewalk() keep the counts.
LEMMA UnmapRef ==
  ASSUME RInv, CInv', NEW p \in Proc, Unmap(p)
  PROVE  RefcountExact' /\ FreeExact'
<1>0. /\ CInv /\ TypeOK /\ th \in [Proc -> Thread] /\ th[p] \in Thread
      /\ \A l \in {"uvmunmap", "unmap_dec", "freewalk", "user", "unused", "embryo"} :
           l \in PC /\ l \notin LivePC
  BY DEF RInv, CInv, TypeOK, PC, LivePC, UncPC, OwnPC, MovePC
<1>1. th[p].i \in 0..NVA /\ th[p].hi \in 0..NVA
  BY <1>0, Zenon DEF Thread
<1>2. CASE uvmunmap(p)
  <2>1. th[p].pc = "uvmunmap" /\ th[p].i < th[p].hi /\ UNCHANGED <<refcount, freelist, pt>>
    BY <1>2, Zenon DEF uvmunmap
  <2>2. CASE Cur(p) # None
    <3>1. th' = [th EXCEPT ![p].pc = "unmap_dec"]
      BY <1>2, <2>2, Zenon DEF uvmunmap
    <3> QED BY <1>0, <2>1, <3>1, QuietMove, Zenon
  <2>3. CASE Cur(p) = None
    <3> DEFINE r == [th[p] EXCEPT !.i = @ + 1]
    <3>1. th[p].i + 1 \in 0..NVA
      BY <1>1, <2>1
    <3>2. r \in Thread /\ r.pc = "uvmunmap"
      <4>1. th[p] \in Thread
        BY <1>0, Zenon
      <4> QED BY <2>1, <3>1, <4>1, ZenonT(60) DEF Thread
    <3>3. th' = [th EXCEPT ![p] = r]
      BY <1>0, <1>2, <2>3, Zenon DEF uvmunmap
    <3> HIDE DEF r
    <3> QED BY <1>0, <2>1, <3>2, <3>3, QuietStep, Zenon
  <2> QED BY <2>2, <2>3, Zenon
<1>3. CASE unmap_clear(p)
  <2>1. th[p].pc = "unmap_clear" /\ UNCHANGED <<refcount, freelist>>
    BY <1>3, Zenon DEF unmap_clear
  <2>2. PICK t \in PT, va \in VA :
          t = th[p].tbl /\ va = th[p].i /\ \A q \in Proc \ {p} : th[q].tbl # t
    BY <1>0, <2>1, Hands DEF LivePC, UncPC
  <2>3. pt \in [PT -> [VA -> PTE \cup {None}]] /\ pt' = [pt EXCEPT ![t][va] = None]
    BY <1>0, <1>3, <2>2, Zenon DEF unmap_clear, TypeOK
  <2>4. pt'[t][va] = None /\ SamePages(t, va)
    BY <2>3, Zenon DEF SamePages
  <2> DEFINE r == [th[p] EXCEPT !.pc = "uvmunmap", !.i = @ + 1]
  <2>5. th[p].i + 1 \in 0..NVA
    BY <2>2 DEF VA
  <2>6. r \in Thread /\ r.pc = "uvmunmap"
    BY <1>0, <2>5, ZenonT(60) DEF Thread, PC
  <2>7. th' = [th EXCEPT ![p] = r]
    BY <1>0, <1>3, Zenon DEF unmap_clear
  <2> HIDE DEF r
  <2> QED BY <2>1, <2>2, <2>4, <2>6, <2>7, UncountedStep, Zenon
<1>4. CASE uvmunmap_done(p)
  <2>1. th[p].pc = "uvmunmap" /\ UNCHANGED <<refcount, freelist, pt>>
    BY <1>4, Zenon DEF uvmunmap_done
  <2>2. th' = [th EXCEPT ![p] = At("user")] \/ th' = [th EXCEPT ![p].pc = "freewalk"]
    BY <1>4, Zenon DEF uvmunmap_done
  <2> QED BY <1>0, <2>1, <2>2, QuietMove, QuietEnd
<1>5. CASE freewalk(p)
  <2>1. th[p].pc = "freewalk" /\ UNCHANGED <<refcount, freelist, pt>>
    BY <1>5, ZenonT(60) DEF freewalk
  <2>2. th[p].op = "fork_bad" => th[p].child \in Proc /\ th[th[p].child].pc = "embryo"
    BY <1>0, Zenon DEF CInv, ThreadInv, TableInv, ForkOp
  <2>3. At("user").pc = "user" /\ At("unused").pc = "unused"
    BY Zenon DEF At
  <2>4. PICK gone : /\ \A q \in gone : q = p \/ th[q].pc = "embryo"
                    /\ \/ th' = th
                       \/ th' = [q \in Proc |-> IF q \in gone THEN At("unused")
                                                ELSE IF q = p THEN At("user") ELSE th[q]]
    <3> DEFINE gone == CASE th[p].op = "reap" -> {p}
                         [] th[p].op = "fork_bad" -> {th[p].child}
                         [] OTHER -> {}
    <3>1. \A q \in gone : q = p \/ th[q].pc = "embryo"
      BY <2>2, Zenon
    <3>2. \/ th' = th
          \/ th' = [q \in Proc |-> IF q \in gone THEN At("unused")
                                   ELSE IF q = p THEN At("user") ELSE th[q]]
      BY <1>5, Zenon DEF freewalk
    <3> HIDE DEF gone
    <3> QED BY <3>1, <3>2, Zenon
  <2>5. \A q \in Proc : \/ th'[q] = th[q]
                        \/ /\ th[q].pc \in {"freewalk", "embryo"}
                           /\ th'[q].pc \in {"unused", "user"}
    BY <2>1, <2>3, <2>4
  <2>6. th' \in [Proc -> Thread]
    BY Zenon DEF CInv, TypeOK
  <2> QED BY <1>0, <2>1, <2>5, <2>6, Quiet
<1>6. CASE ref_dec(p, "unmap_dec", Cur(p).pa, "unmap_push", "unmap_clear")
  BY <1>6, RefDecPte, Zenon
<1>7. CASE free_page(p, "unmap_push", Cur(p).pa, "unmap_clear")
  <2>1. th[p].pc = "unmap_push"
    BY <1>7, Zenon DEF free_page
  <2>2. /\ th[p].tbl \in PT /\ th[p].i \in VA /\ Cur(p) \in PTE
        /\ \A q \in Proc \ {p} : th[q].tbl # th[p].tbl
    BY <1>0, <2>1, Facts, Alone, SMTT(30) DEF Idle, UnmapPC
  <2>3. Cur(p).pa \in Page /\ \A g \in Page : InTransit(p, g) <=> g = Cur(p).pa
    BY <2>1, <2>2, Zenon DEF PTE, InTransit
  <2> QED BY <1>7, <2>1, <2>2, <2>3, PushStep
<1> QED BY <1>2, <1>3, <1>4, <1>5, <1>6, <1>7, SMTT(30) DEF Unmap

\* What a user program or a reaping parent starts touches no reference yet.
LEMMA UserRef ==
  ASSUME RInv, CInv', NEW p \in Proc, User(p)
  PROVE  RefcountExact' /\ FreeExact'
<1>0. /\ th \in [Proc -> Thread] /\ th[p] \in Thread /\ th' \in [Proc -> Thread]
      /\ \A l \in {"user", "zombie", "unused", "embryo", "access", "uvmcopy", "uvmalloc",
                   "uvmunmap"} : l \notin LivePC
  BY Zenon DEF RInv, CInv, TypeOK, LivePC, UncPC, OwnPC, MovePC
<1>1. At("embryo").pc = "embryo" /\ At("zombie").pc = "zombie"
  BY Zenon DEF At
<1>2. UNCHANGED <<refcount, freelist, pt>>
  BY ZenonT(60) DEF User, Access, copyout, kfork, growproc, sbrk_lazy, growproc_shrink, kexec,
     kexit, freeproc
<1>3. \A q \in Proc : \/ th'[q] = th[q]
                      \/ /\ th[q].pc \in {"user", "zombie", "unused"}
                         /\ th'[q].pc \in {"access", "embryo", "uvmcopy", "uvmalloc", "uvmunmap",
                                           "zombie"}
  <2>1. CASE \E c \in Proc, t \in PT : kfork(p, c, t)
    <3>1. PICK c \in Proc, t \in PT : kfork(p, c, t)
      BY <2>1, Zenon
    <3>2. th[p].pc = "user" /\ th[c].pc = "unused" /\ c # p
      BY <3>1, Zenon DEF kfork
    <3>3. /\ th'[c] = At("embryo") /\ th'[p].pc = "uvmcopy"
          /\ \A q \in Proc \ {p, c} : th'[q] = th[q]
      BY <1>0, <3>1, <3>2 DEF kfork, Thread
    <3> QED BY <1>1, <3>2, <3>3, Zenon
  <2>2. CASE \E va \in VA, v \in Val : copyout(p, va, v)
    BY <2>2, Zenon DEF copyout
  <2>3. CASE \E va \in VA, op \in {"load", "store"} : Access(p, va, op)
    BY <1>0, <2>3 DEF Access, Thread
  <2>4. CASE \E n \in 1..NVA : growproc(p, n) \/ sbrk_lazy(p, n) \/ growproc_shrink(p, n)
    <3> PICK n \in 1..NVA : growproc(p, n) \/ sbrk_lazy(p, n) \/ growproc_shrink(p, n)
      BY <2>4, Zenon
    <3>1. CASE growproc(p, n)
      BY <1>0, <3>1, ZenonT(60) DEF growproc, Thread
    <3>2. CASE sbrk_lazy(p, n)
      BY <3>2, Zenon DEF sbrk_lazy
    <3>3. CASE growproc_shrink(p, n)
      BY <1>0, <3>3, ZenonT(60) DEF growproc_shrink, Thread
    <3> QED BY <3>1, <3>2, <3>3, Zenon
  <2>5. CASE \E t \in PT : kexec(p, t)
    BY <1>0, <2>5 DEF kexec, Thread
  <2>6. CASE kexit(p) \/ freeproc(p)
    BY <1>0, <1>1, <2>6 DEF kexit, freeproc, Thread
  <2> QED BY <2>1, <2>2, <2>3, <2>4, <2>5, <2>6, ZenonT(60) DEF User
<1> QED BY <1>0, <1>2, <1>3, Quiet, SMTT(30)

\* The PTEs of an image that puts each page in one place.
LEMMA ImageMappers ==
  ASSUME NEW t \in PT, NEW S \in SUBSET VA, NEW f \in [S -> Page],
         \A i, j \in S : i # j => f[i] # f[j],
         NEW g \in Page,
         \A u \in PT, va \in VA :
           <<u, va>> \in Mappers(g) <=> u = t /\ va \in S /\ f[va] = g
  PROVE  /\ (\E i \in S : f[i] = g) => Cardinality(Mappers(g)) = 1
         /\ (\A i \in S : f[i] # g) => Cardinality(Mappers(g)) = 0
<1>1. PICK M \in SUBSET (PT \X VA) : M = Mappers(g)
  <2>1. Mappers(g) \subseteq PT \X VA
    BY Zenon DEF Mappers
  <2> QED BY <2>1, Zenon
<1>2. CASE \A i \in S : f[i] # g
  <2>1. \A u \in PT, va \in VA : <<u, va>> \notin M
    BY <1>1, <1>2, Zenon
  <2>2. M = {}
    BY <1>1, <2>1
  <2> QED BY <1>1, <1>2, <2>2, FS_EmptySet
<1>3. ASSUME NEW i \in S, f[i] = g  PROVE Cardinality(M) = 1
  <2>1. i \in VA /\ \A u \in PT, va \in VA : <<u, va>> \in M <=> u = t /\ va = i
    BY <1>1, <1>3, Zenon
  <2>2. M = {<<t, i>>}
    BY <1>1, <2>1
  <2> QED BY <2>2, FS_Singleton, ZenonT(60)
<1> QED BY <1>1, <1>2, <1>3, Zenon

\* At the start one process maps the pages of its image, once each.
LEMMA InitRInv ==
  ASSUME Init
  PROVE  RInv
<1>1. PICK p \in Proc, t \in PT, f \in [0..ImageSize-1 -> Page] :
        /\ \A i, j \in 0..ImageSize-1 : i # j => f[i] # f[j]
        /\ freelist = Page \ {f[i] : i \in 0..ImageSize-1}
        /\ refcount = [g \in Page |-> IF g \in freelist THEN 0 ELSE 1]
        /\ pt = [u \in PT |-> [va \in VA |->
                   IF u = t /\ va < ImageSize
                   THEN [pa |-> f[va], flags |-> Image[va]] ELSE None]]
        /\ th = [q \in Proc |-> At(IF q = p THEN "user" ELSE "unused")]
  BY DEF Init
<1> DEFINE S == 0..ImageSize-1
<1>2. S \subseteq VA
  BY DEF VA
<1>3. \A q \in Proc : th[q].pc \in {"user", "unused"}
  <2>1. \A l : At(l).pc = l
    BY Zenon DEF At
  <2> QED BY <1>1, <2>1, Zenon
<1>4. \A u \in PT, va \in VA, g \in Page :
        pt[u][va] # None /\ pt[u][va].pa = g <=> u = t /\ va \in S /\ f[va] = g
  <2> SUFFICES ASSUME NEW u \in PT, NEW va \in VA, NEW g \in Page
               PROVE  pt[u][va] # None /\ pt[u][va].pa = g <=> u = t /\ va \in S /\ f[va] = g
    OBVIOUS
  <2>1. CASE u = t /\ va \in S
    <3> DEFINE e == [pa |-> f[va], flags |-> Image[va]]
    <3>1. pt[u][va] = e
      BY <1>1, <2>1
    <3>2. e \in PTE /\ e.pa = f[va]
      BY <2>1, Zenon DEF PTE
    <3> HIDE DEF e
    <3> QED BY <2>1, <3>1, <3>2
  <2>2. CASE ~(u = t /\ va \in S)
    <3>1. ~(u = t /\ va < ImageSize)
      BY <2>2 DEF VA
    <3>2. pt[u][va] = None
      BY <1>1, <3>1, Zenon
    <3> QED BY <2>2, <3>2, Zenon
  <2> QED BY <2>1, <2>2, Zenon
<1>5. \A u, va : ~Uncounted(u, va)
  BY <1>3, Zenon DEF Uncounted
<1>6. \A g \in Page : Owners(g) = {} /\ \A q \in Proc : ~InTransit(q, g)
  BY <1>3 DEF Owners, InTransit
<1>7. ASSUME NEW g \in Page  PROVE refcount[g] = Cardinality(Mappers(g))
  <2>1. /\ refcount[g] = IF g \in freelist THEN 0 ELSE 1
        /\ g \in freelist <=> \A i \in S : f[i] # g
        /\ \A i, j \in S : i # j => f[i] # f[j]
    BY <1>1, SMTT(30)
  <2>2. \A u \in PT, va \in VA : <<u, va>> \in Mappers(g) <=> u = t /\ va \in S /\ f[va] = g
    BY <1>4, <1>5 DEF Mappers
  <2>3. /\ (\E i \in S : f[i] = g) => Cardinality(Mappers(g)) = 1
        /\ (\A i \in S : f[i] # g) => Cardinality(Mappers(g)) = 0
    <3>1. S \in SUBSET VA /\ f \in [S -> Page]
      BY <1>2, Zenon
    <3> HIDE DEF S
    <3> QED BY <2>1, <2>2, <3>1, ImageMappers, SMTT(30)
  <2> QED BY <2>1, <2>3, Zenon
<1>8. RefcountExact
  <2>1. refcount \in [Page -> Nat]
    BY InitCInv, Zenon DEF CInv, TypeOK
  <2>2. ASSUME NEW g \in Page
        PROVE  refcount[g] = Cardinality(Mappers(g)) + Cardinality(Owners(g))
    <3>1. Cardinality(Owners(g)) = 0
      BY <1>6, FS_EmptySet, Zenon
    <3>2. refcount[g] = Cardinality(Mappers(g)) /\ refcount[g] \in Nat
      BY <1>7, <2>1, Zenon
    <3> QED BY <3>1, <3>2
  <2> QED BY <2>2, Zenon DEF RefcountExact
<1>9. FreeExact
  BY <1>1, <1>6 DEF FreeExact
<1> QED BY <1>8, <1>9, InitCInv, Zenon DEF RInv

\* Every step keeps the counts exact.
LEMMA NextRInv ==
  ASSUME RInv, [Next]_vars
  PROVE  RInv'
<1>1. CInv'
  BY NextCInv DEF RInv
<1>2. RefcountExact' /\ FreeExact'
  <2>1. CASE UNCHANGED vars
    <3>1. th' \in [Proc -> Thread]
      BY <1>1, Zenon DEF CInv, TypeOK
    <3> QED BY <2>1, <3>1, Quiet DEF vars
  <2>2. CASE Next
    <3>1. PICK p \in Proc : User(p) \/ Kernel(p)
      BY <2>2, Zenon DEF Next
    <3>2. CASE \E v \in Val : Complete(p, v)
      <4>1. /\ th[p].pc = "access" /\ th' = [th EXCEPT ![p] = At("user")]
            /\ UNCHANGED <<refcount, freelist, pt>>
        BY <3>2, Zenon DEF Complete
      <4>2. "access" \notin LivePC
        BY Zenon DEF LivePC, UncPC, OwnPC, MovePC
      <4> QED BY <1>1, <4>1, <4>2, QuietEnd, Zenon
    <3> QED BY <1>1, <3>1, <3>2, UserRef, FaultRef, ForkRef, AllocRef, UnmapRef,
              SMTT(30) DEF Kernel
  <2> QED BY <2>1, <2>2, Zenon
<1> QED BY <1>1, <1>2, Zenon DEF RInv

\* ref.refcount[g] counts the PTEs and kernel threads that refer to page g, in
\* every interleaving of ref_inc, ref_dec, kalloc and kfree with forks, faults,
\* exits, execs and sbrks of any number of processes.
THEOREM RefcountExactThm == Spec => []RefcountExact
<1>1. Init => RInv
  BY InitRInv, Zenon
<1>2. RInv /\ [Next]_vars => RInv'
  BY NextRInv, Zenon
<1>3. RInv => RefcountExact
  BY Zenon DEF RInv
<1> QED BY <1>1, <1>2, <1>3, PTL DEF Spec

\* kfree() and ref_dec() never free a page twice or lose it, and kalloc()
\* never hands out a page in use: a page has no references exactly when it is
\* free or in the hands of one thread.
THEOREM FreeExactThm == Spec => []FreeExact
<1>1. Init => RInv
  BY InitRInv, Zenon
<1>2. RInv /\ [Next]_vars => RInv'
  BY NextRInv, Zenon
<1>3. RInv => FreeExact
  BY Zenon DEF RInv
<1> QED BY <1>1, <1>2, <1>3, PTL DEF Spec
=============================================================================
