---------------------------- MODULE VmRefSteps -----------------------------
(***************************************************************************)
(* How the reference counts of user pages follow from what a step changes, *)
(* at most one PTE and one thread, and what each kind of step does to      *)
(* them: the lemmas that VmRefProofs applies to the actions.               *)
(***************************************************************************)
EXTENDS VmProofs, FiniteSetTheorems

USE VmAssumption

UncPC == {"ref_inc", "cow_push", "cow_map", "unmap_push", "unmap_clear"}
OwnPC == {"cow_copy", "cow_dec", "cow_push", "cow_map", "alloc_map", "kfree_dec"}
MovePC == {"cow_ref", "alloc_ref", "kfree_push"}
\* The labels at which a thread counts for something in the invariants.
LivePC == UncPC \cup OwnPC \cup MovePC

RInv == CInv /\ RefcountExact /\ FreeExact

Bit(b) == IF b THEN 1 ELSE 0

\* Two finite sets that differ in one element at most.
LEMMA Differ ==
  ASSUME NEW S, NEW T, NEW m, IsFiniteSet(S), IsFiniteSet(T),
         \A x : x # m => (x \in S <=> x \in T)
  PROVE  /\ Cardinality(S) \in Nat /\ Cardinality(T) \in Nat
         /\ Cardinality(S) + Bit(m \in T) = Cardinality(T) + Bit(m \in S)
<1>1. Cardinality(S) \in Nat /\ Cardinality(T) \in Nat
  BY FS_CardinalityType, Zenon
<1>2. CASE m \in S <=> m \in T
  <2>1. \A x : x \in S <=> x \in T
    BY <1>2, Zenon
  <2>2. S = T
    BY <2>1, Zenon
  <2> QED BY <1>1, <2>2, Zenon
<1>3. CASE m \notin S /\ m \in T
  <2>1. T = S \cup {m}
    BY <1>3, Zenon
  <2>2. Cardinality(T) = Cardinality(S) + 1
    BY <1>3, <2>1, FS_AddElement, Zenon
  <2> QED BY <1>1, <1>3, <2>2 DEF Bit
<1>4. CASE m \in S /\ m \notin T
  <2>1. S = T \cup {m}
    BY <1>4, Zenon
  <2>2. Cardinality(S) = Cardinality(T) + 1
    BY <1>4, <2>1, FS_AddElement, Zenon
  <2> QED BY <1>1, <1>4, <2>2 DEF Bit
<1> QED BY <1>2, <1>3, <1>4, Zenon

\* There are finitely many PTEs and threads.
LEMMA Finite ==
  /\ \A S : S \subseteq PT \X VA => IsFiniteSet(S)
  /\ \A S : S \subseteq Proc => IsFiniteSet(S)
<1>1. IsFiniteSet(VA)
  <2>1. 0 \in Int /\ NVA - 1 \in Int
    OBVIOUS
  <2> QED BY <2>1, FS_Interval, Zenon DEF VA
<1>2. IsFiniteSet(PT \X VA)
  BY <1>1, FS_Product, Zenon
<1>3. \A S, T : IsFiniteSet(S) /\ T \subseteq S => IsFiniteSet(T)
  BY FS_Subset, Zenon
<1> QED BY <1>2, <1>3, Zenon

\* A page that has a counted PTE or an owner has references.
LEMMA Counted ==
  ASSUME RInv, NEW g \in Page
  PROVE  /\ (\E m : m \in Mappers(g)) => refcount[g] > 0
         /\ (\E q : q \in Owners(g)) => refcount[g] > 0
         /\ \A m, n : m \in Mappers(g) /\ n \in Mappers(g) /\ m # n => refcount[g] > 1
         /\ \A m, q : m \in Mappers(g) /\ q \in Owners(g) => refcount[g] > 1
         /\ \A p, q : p \in Owners(g) /\ q \in Owners(g) /\ p # q => refcount[g] > 1
<1> DEFINE M == Mappers(g)
           W == Owners(g)
<1>1. IsFiniteSet(M) /\ IsFiniteSet(W)
  BY Finite, Zenon DEF Mappers, Owners
<1>2. refcount[g] = Cardinality(M) + Cardinality(W)
  BY Zenon DEF RInv, RefcountExact
<1> HIDE DEF M, W
<1>3. Cardinality(M) \in Nat /\ Cardinality(W) \in Nat
  BY <1>1, FS_CardinalityType, Zenon
<1>4. \A S : IsFiniteSet(S) /\ (\E m : m \in S) => Cardinality(S) > 0
  BY FS_EmptySet, FS_CardinalityType
<1>5. \A S : IsFiniteSet(S) /\ (\E m, n : m \in S /\ n \in S /\ m # n) => Cardinality(S) > 1
  <2> SUFFICES ASSUME NEW S, IsFiniteSet(S), NEW m \in S, NEW n \in S, m # n
               PROVE  Cardinality(S) > 1
    OBVIOUS
  <2>1. Cardinality(S) > 0 /\ Cardinality(S) \in Nat
    BY <1>4, FS_CardinalityType, Zenon
  <2>2. Cardinality(S) # 1
    BY FS_Singleton
  <2> QED BY <2>1, <2>2
<1>6. /\ (\E m : m \in M) => Cardinality(M) > 0
      /\ (\E q : q \in W) => Cardinality(W) > 0
      /\ \A m, n : m \in M /\ n \in M /\ m # n => Cardinality(M) > 1
      /\ \A m, n : m \in W /\ n \in W /\ m # n => Cardinality(W) > 1
  BY <1>1, <1>4, <1>5, Zenon
<1>7. /\ (\E m : m \in M) => refcount[g] > 0
      /\ (\E q : q \in W) => refcount[g] > 0
      /\ \A m, n : m \in M /\ n \in M /\ m # n => refcount[g] > 1
      /\ \A m, q : m \in M /\ q \in W => refcount[g] > 1
      /\ \A p, q : p \in W /\ q \in W /\ p # q => refcount[g] > 1
  BY <1>2, <1>3, <1>6
<1> QED BY <1>7, Zenon DEF M, W

\* Page tables that map the same pages, but for the PTE of va in t.
SamePages(t, va) == \A u \in PT, vb \in VA : u # t \/ vb # va =>
    /\ pt'[u][vb] = None <=> pt[u][vb] = None
    /\ pt[u][vb] # None => pt'[u][vb].pa = pt[u][vb].pa

\* The references that the PTE of va in t, on which only thread p may be at
\* work, and the thread itself hold to page g.
Maps(p, t, va, g) ==
    Bit(pt[t][va] # None /\ pt[t][va].pa = g /\ th[p].pc \notin UncPC)
Holds(p, g) == Bit(th[p].new = g /\ th[p].pc \in OwnPC)

\* Everything that a step changes in the references is the PTE of va in t and
\* what thread p holds.
Effect(p, t, va) ==
    /\ \A g \in Page :
         /\ \A m : m # <<t, va>> => (m \in Mappers(g)' <=> m \in Mappers(g))
         /\ <<t, va>> \in Mappers(g) <=>
              pt[t][va] # None /\ pt[t][va].pa = g /\ th[p].pc \notin UncPC
         /\ <<t, va>> \in Mappers(g)' <=>
              pt'[t][va] # None /\ pt'[t][va].pa = g /\ th'[p].pc \notin UncPC
         /\ \A q : q # p => (q \in Owners(g)' <=> q \in Owners(g))
         /\ p \in Owners(g) <=> th[p].new = g /\ th[p].pc \in OwnPC
         /\ p \in Owners(g)' <=> th'[p].new = g /\ th'[p].pc \in OwnPC
    /\ \A q \in Proc \ {p}, g \in Page : InTransit(q, g)' <=> InTransit(q, g)

\* What a step of thread p that works on the PTE of va in t changes: whether
\* that PTE and the thread count as references, and what the thread carries.
LEMMA OneThread ==
  ASSUME CInv, NEW p \in Proc, NEW r \in Thread, th' = [th EXCEPT ![p] = r],
         NEW t \in PT, NEW va \in VA, SamePages(t, va),
         \A q \in Proc \ {p} : th[q].tbl # t,
         th[p].pc \in UncPC => th[p].tbl = t /\ th[p].i = va,
         r.pc \in UncPC => r.tbl = t /\ r.i = va
  PROVE  Effect(p, t, va)
<1>1. th'[p] = r /\ \A q \in Proc \ {p} : th'[q] = th[q]
  BY Zenon DEF CInv, TypeOK
<1>2. \A u \in PT, vb \in VA : u # t \/ vb # va => (Uncounted(u, vb)' <=> Uncounted(u, vb))
  BY <1>1 DEF Uncounted, UncPC
<1>3. /\ Uncounted(t, va) <=> th[p].pc \in UncPC
      /\ Uncounted(t, va)' <=> r.pc \in UncPC
  BY <1>1 DEF Uncounted, UncPC
<1>4. ASSUME NEW g \in Page  PROVE
        /\ \A m : m # <<t, va>> => (m \in Mappers(g)' <=> m \in Mappers(g))
        /\ <<t, va>> \in Mappers(g) <=>
             pt[t][va] # None /\ pt[t][va].pa = g /\ th[p].pc \notin UncPC
        /\ <<t, va>> \in Mappers(g)' <=>
             pt'[t][va] # None /\ pt'[t][va].pa = g /\ r.pc \notin UncPC
  <2>1. ASSUME NEW u \in PT, NEW vb \in VA, u # t \/ vb # va
        PROVE  <<u, vb>> \in Mappers(g)' <=> <<u, vb>> \in Mappers(g)
    BY <1>2, <2>1 DEF Mappers, SamePages
  <2>2. ASSUME NEW m, m # <<t, va>>  PROVE m \in Mappers(g)' <=> m \in Mappers(g)
    <3>1. CASE m \notin PT \X VA
      BY <3>1, Zenon DEF Mappers
    <3>2. CASE m \in PT \X VA
      <4>1. PICK u \in PT, vb \in VA : m = <<u, vb>>
        BY <3>2
      <4> QED BY <2>1, <2>2, <4>1, Zenon
    <3> QED BY <3>1, <3>2, Zenon
  <2> QED BY <1>3, <2>2, Zenon DEF Mappers
<1>5. ASSUME NEW g \in Page  PROVE
        /\ \A q : q # p => (q \in Owners(g)' <=> q \in Owners(g))
        /\ p \in Owners(g) <=> th[p].new = g /\ th[p].pc \in OwnPC
        /\ p \in Owners(g)' <=> r.new = g /\ r.pc \in OwnPC
  BY <1>1, Zenon DEF Owners, OwnPC
<1>6. ASSUME NEW q \in Proc \ {p}, NEW g \in Page
      PROVE  InTransit(q, g)' <=> InTransit(q, g)
  <2>1. th[q].pc \in {"cow_push", "unmap_push"} => Cur(q)'.pa = Cur(q).pa
    <3> SUFFICES ASSUME th[q].pc \in {"cow_push", "unmap_push"}
                 PROVE  Cur(q)'.pa = Cur(q).pa
      OBVIOUS
    <3>1. th[q].tbl \in PT /\ th[q].i \in VA /\ Cur(q) # None
      BY Facts DEF Idle, CowPC, UnmapPC
    <3> QED BY <1>1, <3>1 DEF SamePages, Cur
  <2> QED BY <1>1, <2>1, Zenon DEF InTransit
<1> QED BY <1>1, <1>4, <1>5, <1>6 DEF Effect

\* The count follows what a step does to one PTE and one thread.
LEMMA RefStep ==
  ASSUME RInv, NEW p \in Proc, NEW t \in PT, NEW va \in VA, Effect(p, t, va),
         refcount' \in [Page -> Nat],
         \A g \in Page : refcount'[g] + Maps(p, t, va, g) + Holds(p, g)
                           = refcount[g] + Maps(p, t, va, g)' + Holds(p, g)'
  PROVE  RefcountExact'
<1> SUFFICES ASSUME NEW g \in Page
             PROVE  refcount'[g] = Cardinality(Mappers(g)') + Cardinality(Owners(g)')
  BY Zenon DEF RefcountExact
<1> DEFINE n == <<t, va>>
           M == Mappers(g)
           N == Mappers(g)'
           W == Owners(g)
           X == Owners(g)'
<1>1. IsFiniteSet(M) /\ IsFiniteSet(N) /\ IsFiniteSet(W) /\ IsFiniteSet(X)
  BY Finite, Zenon DEF Mappers, Owners
<1>2. /\ refcount[g] = Cardinality(M) + Cardinality(W)
      /\ \A m : m # n => (m \in M <=> m \in N)
      /\ \A q : q # p => (q \in W <=> q \in X)
      /\ refcount'[g] + Bit(n \in M) + Bit(p \in W)
           = refcount[g] + Bit(n \in N) + Bit(p \in X)
      /\ refcount'[g] \in Nat
  <2>1. refcount[g] = Cardinality(M) + Cardinality(W) /\ refcount'[g] \in Nat
    BY Zenon DEF RInv, RefcountExact
  <2>2. /\ \A m : m # n => (m \in M <=> m \in N)
        /\ \A q : q # p => (q \in W <=> q \in X)
    BY Zenon DEF Effect
  <2>3. /\ n \in M <=> pt[t][va] # None /\ pt[t][va].pa = g /\ th[p].pc \notin UncPC
        /\ n \in N <=> pt'[t][va] # None /\ pt'[t][va].pa = g /\ th'[p].pc \notin UncPC
        /\ p \in W <=> th[p].new = g /\ th[p].pc \in OwnPC
        /\ p \in X <=> th'[p].new = g /\ th'[p].pc \in OwnPC
    BY Zenon DEF Effect
  <2> HIDE DEF n, M, N, W, X
  <2>4. /\ refcount'[g] + Bit(n \in M) + Bit(p \in W)
           = refcount[g] + Bit(n \in N) + Bit(p \in X)
    BY <2>3, Zenon DEF Bit, Maps, Holds
  <2> QED BY <2>1, <2>2, <2>4, Zenon
<1> HIDE DEF n, M, N, W, X
<1>3. /\ Cardinality(M) \in Nat /\ Cardinality(N) \in Nat
      /\ Cardinality(M) + Bit(n \in N) = Cardinality(N) + Bit(n \in M)
  BY <1>1, <1>2, Differ
<1>4. /\ Cardinality(W) \in Nat /\ Cardinality(X) \in Nat
      /\ Cardinality(W) + Bit(p \in X) = Cardinality(X) + Bit(p \in W)
  BY <1>1, <1>2, Differ
<1>5. /\ Bit(n \in M) \in Nat /\ Bit(n \in N) \in Nat
      /\ Bit(p \in W) \in Nat /\ Bit(p \in X) \in Nat
  BY Zenon DEF Bit
<1>6. refcount'[g] = Cardinality(N) + Cardinality(X)
  <2> DEFINE a == Bit(n \in M)
             b == Bit(n \in N)
             c == Bit(p \in W)
             d == Bit(p \in X)
             cm == Cardinality(M)
             cn == Cardinality(N)
             cw == Cardinality(W)
             cx == Cardinality(X)
             y == refcount'[g]
  <2>1. /\ a \in Nat /\ b \in Nat /\ c \in Nat /\ d \in Nat
        /\ cm \in Nat /\ cn \in Nat /\ cw \in Nat /\ cx \in Nat /\ y \in Nat
        /\ y + a + c = (cm + cw) + b + d
        /\ cm + b = cn + a /\ cw + d = cx + c
    BY <1>2, <1>3, <1>4, <1>5, Zenon
  <2> HIDE DEF a, b, c, d, cm, cn, cw, cx, y
  <2>2. y = cn + cx
    BY <2>1
  <2> QED BY <2>2, Zenon DEF y, cn, cx
<1> QED BY <1>6, Zenon DEF N, X

\* Steps that touch no reference: the threads that move are at labels where
\* they count for nothing.
LEMMA Quiet ==
  ASSUME RInv, UNCHANGED <<refcount, freelist>>, th' \in [Proc -> Thread],
         \A q \in Proc : th'[q] = th[q] \/ (th[q].pc \notin LivePC /\ th'[q].pc \notin LivePC),
         \A u \in PT, vb \in VA : /\ pt'[u][vb] = None <=> pt[u][vb] = None
                                  /\ pt[u][vb] # None => pt'[u][vb].pa = pt[u][vb].pa
  PROVE  RefcountExact' /\ FreeExact'
<1>1. \A u \in PT, vb \in VA : Uncounted(u, vb)' <=> Uncounted(u, vb)
  BY Zenon DEF Uncounted, UncPC, LivePC
<1>2. \A g \in Page : Mappers(g)' = Mappers(g)
  <2> SUFFICES ASSUME NEW g \in Page, NEW u \in PT, NEW vb \in VA
               PROVE  <<u, vb>> \in Mappers(g)' <=> <<u, vb>> \in Mappers(g)
    BY DEF Mappers
  <2> QED BY <1>1 DEF Mappers
<1>3. \A g \in Page : Owners(g)' = Owners(g)
  BY DEF Owners, OwnPC, LivePC
<1>4. ASSUME NEW q \in Proc, NEW g \in Page
      PROVE  InTransit(q, g)' <=> InTransit(q, g)
  <2>1. CASE th'[q] # th[q]
    BY <2>1, Zenon DEF InTransit, LivePC, UncPC, MovePC
  <2>2. CASE th'[q] = th[q]
    <3>1. th[q].pc \in {"cow_push", "unmap_push"} => Cur(q)'.pa = Cur(q).pa
      <4> SUFFICES ASSUME th[q].pc \in {"cow_push", "unmap_push"}
                   PROVE  Cur(q)'.pa = Cur(q).pa
        OBVIOUS
      <4>1. th[q].tbl \in PT /\ th[q].i \in VA /\ Cur(q) # None
        BY Facts DEF RInv, Idle, CowPC, UnmapPC
      <4> QED BY <2>2, <4>1 DEF Cur
    <3> QED BY <2>2, <3>1, Zenon DEF InTransit
  <2> QED BY <2>1, <2>2, Zenon
<1>5. RefcountExact'
  BY <1>2, <1>3, Zenon DEF RInv, RefcountExact
<1>6. FreeExact'
  BY <1>4, Zenon DEF RInv, FreeExact
<1> QED BY <1>5, <1>6, Zenon

\* The page table of a busy thread is nobody else's.
LEMMA Alone ==
  ASSUME CInv, NEW p \in Proc, th[p].pc \notin Idle
  PROVE  th[p].tbl \in PT /\ \A q \in Proc \ {p} : th[q].tbl # th[p].tbl
<1>1. th[p].tbl \in PT
  BY Facts, Zenon
<1> QED BY <1>1, Zenon DEF CInv, Apart

\* kalloc() takes a page that has no references.
LEMMA KallocRef ==
  ASSUME RInv, NEW p \in Proc, NEW next \in {"cow_ref", "alloc_ref"},
         th[p].pc \in {"cow_alloc", "uvmalloc"}, th[p].i \in VA,
         kalloc(p, next), UNCHANGED <<refcount, pt>>
  PROVE  RefcountExact' /\ FreeExact'
<1>0. CInv /\ TypeOK /\ th[p] \in Thread /\ FreeExact
  BY Zenon DEF RInv, CInv, TypeOK
<1>1. PICK g0 \in freelist :
        /\ freelist' = freelist \ {g0} /\ th' = [th EXCEPT ![p].pc = next, ![p].new = g0]
  BY Zenon DEF kalloc
<1>2. PICK t \in PT, va \in VA :
        /\ t = th[p].tbl /\ va = th[p].i /\ \A q \in Proc \ {p} : th[q].tbl # t
  BY <1>0, Alone DEF Idle
<1> DEFINE r == [th[p] EXCEPT !.pc = next, !.new = g0]
<1>3. g0 \in Page
  BY <1>0, Zenon DEF TypeOK
<1>4. r \in Thread /\ r.pc = next /\ r.new = g0
  BY <1>0, <1>3, Zenon DEF Thread, PC
<1>5. th' = [th EXCEPT ![p] = r] /\ th'[p] = r
  BY <1>0, <1>1, Zenon DEF TypeOK
<1> HIDE DEF r
<1>6. th[p].pc \notin UncPC \cup OwnPC /\ r.pc \notin UncPC \cup OwnPC
  BY <1>4, Zenon DEF UncPC, OwnPC
<1>7. Effect(p, t, va)
  <2>1. SamePages(t, va)
    BY Zenon DEF SamePages
  <2> QED BY <1>0, <1>2, <1>4, <1>5, <1>6, <2>1, OneThread, Zenon
<1>8. RefcountExact'
  <2>1. ASSUME NEW g \in Page
        PROVE  refcount'[g] + Maps(p, t, va, g) + Holds(p, g)
                 = refcount[g] + Maps(p, t, va, g)' + Holds(p, g)'
    BY <1>5, <1>6, Zenon DEF Maps, Holds, Bit
  <2> QED BY <1>0, <1>7, <2>1, RefStep DEF TypeOK
<1>9. \A g \in Page : ~InTransit(p, g) /\ (InTransit(p, g)' <=> g = g0)
  BY <1>4, <1>5, Zenon DEF InTransit
<1>10. FreeExact'
  <2>1. refcount' = refcount /\ freelist' = freelist \ {g0} /\ refcount[g0] = 0
    BY <1>0, <1>1, <1>3, Zenon DEF FreeExact
  <2>2. \A q \in Proc : ~InTransit(q, g0)
    BY <1>0, <1>1, <1>3, Zenon DEF FreeExact
  <2>3. \A q \in Proc, g \in Page : InTransit(q, g)' <=>
          InTransit(q, g) \/ (q = p /\ g = g0)
    BY <1>7, <1>9, Zenon DEF Effect
  <2> QED BY <1>0, <2>1, <2>2, <2>3 DEF FreeExact
<1> QED BY <1>8, <1>10, Zenon

\* What kalloc_ref() and the steps after it need: the page a thread holds, and
\* the PTE it works on.
LEMMA Hands ==
  ASSUME CInv, NEW p \in Proc, th[p].pc \in LivePC
  PROVE  /\ th[p] \in Thread /\ th[p].tbl \in PT
         /\ th[p].pc \notin {"kfree_dec", "kfree_push"} => th[p].i \in VA
         /\ \A q \in Proc \ {p} : th[q].tbl # th[p].tbl
         /\ th[p].pc \in OwnPC \cup MovePC => th[p].new \in Page
<1>1. th[p].pc \notin Idle
  BY Zenon DEF LivePC, UncPC, OwnPC, MovePC, Idle
<1>2. MayBe(p, th[p].pc) /\ th[p] \in Thread /\ sz[p] \in 0..NVA
  BY Zenon DEF CInv, TypeOK, ThreadInv, OpInv
<1>3. th[p].i \in 0..NVA /\ th[p].hi \in 0..NVA
  BY <1>2, Zenon DEF Thread
<1> QED BY <1>1, <1>2, <1>3, Alone, SMTT(40) DEF MayBe, VA, LivePC, UncPC, OwnPC, MovePC,
          CowPC, UnmapPC, NewPC

\* Who may have a page in its hands after a step that concerns page g0 only.
LEMMA FreeStep ==
  ASSUME RInv, NEW p \in Proc, NEW t \in PT, NEW va \in VA, Effect(p, t, va),
         NEW g0 \in Page,
         \A g \in Page \ {g0} : /\ refcount'[g] = refcount[g]
                                /\ g \in freelist' <=> g \in freelist
                                /\ InTransit(p, g)' <=> InTransit(p, g),
         refcount'[g0] = 0 <=> g0 \in freelist' \/ InTransit(p, g0)',
         ~(g0 \in freelist' /\ InTransit(p, g0)'),
         \A q \in Proc \ {p} : ~InTransit(q, g0)
  PROVE  FreeExact'
<1>1. \A q \in Proc \ {p}, g \in Page : InTransit(q, g)' <=> InTransit(q, g)
  BY Zenon DEF Effect
<1>2. ASSUME NEW g \in Page  PROVE
        /\ refcount'[g] = 0 <=> g \in freelist' \/ \E q \in Proc : InTransit(q, g)'
        /\ g \in freelist' => \A q \in Proc : ~InTransit(q, g)'
        /\ \A q, s \in Proc : InTransit(q, g)' /\ InTransit(s, g)' => q = s
  <2>1. CASE g = g0
    BY <1>1, <2>1, Zenon
  <2>2. CASE g # g0
    <3>1. \A q \in Proc : InTransit(q, g)' <=> InTransit(q, g)
      BY <1>1, <2>2, Zenon
    <3>2. refcount'[g] = refcount[g] /\ (g \in freelist' <=> g \in freelist)
      BY <2>2, Zenon
    <3> QED BY <3>1, <3>2, Zenon DEF RInv, FreeExact
  <2> QED BY <2>1, <2>2, Zenon
<1> QED BY <1>2, Zenon DEF FreeExact

\* A step that leaves the counts, the free list and the pages in hand alone.
LEMMA FreeSame ==
  ASSUME RInv, NEW p \in Proc, NEW t \in PT, NEW va \in VA, Effect(p, t, va),
         UNCHANGED <<refcount, freelist>>,
         \A g \in Page : InTransit(p, g)' <=> InTransit(p, g)
  PROVE  FreeExact'
<1>1. \A q \in Proc, g \in Page : InTransit(q, g)' <=> InTransit(q, g)
  BY Zenon DEF Effect
<1> QED BY <1>1, Zenon DEF RInv, FreeExact

\* kalloc() counts the one reference of the page it took.
LEMMA KallocDone ==
  ASSUME RInv, NEW p \in Proc, NEW here \in {"cow_ref", "alloc_ref"},
         NEW next \in {"cow_copy", "alloc_map"}, kalloc_ref(p, here, next)
  PROVE  RefcountExact' /\ FreeExact'
<1>0. CInv /\ TypeOK /\ FreeExact /\ th[p].pc = here /\ th[p] \in Thread
  BY Zenon DEF RInv, CInv, TypeOK, kalloc_ref
<1>1. PICK t \in PT, va \in VA, g0 \in Page :
        /\ t = th[p].tbl /\ va = th[p].i /\ g0 = th[p].new
        /\ \A q \in Proc \ {p} : th[q].tbl # t
  BY <1>0, Hands DEF LivePC, MovePC
<1> DEFINE r == [th[p] EXCEPT !.pc = next]
<1>2. r \in Thread /\ r.pc = next /\ r.new = g0
  BY <1>0, <1>1 DEF Thread, PC
<1>3. th' = [th EXCEPT ![p] = r] /\ th'[p] = r
  BY <1>0, Zenon DEF TypeOK, kalloc_ref
<1> HIDE DEF r
<1>4. th[p].pc \notin UncPC \cup OwnPC /\ r.pc \notin UncPC /\ r.pc \in OwnPC
  BY <1>0, <1>2, Zenon DEF UncPC, OwnPC
<1>5. /\ refcount' = [refcount EXCEPT ![g0] = 1] /\ refcount \in [Page -> Nat]
      /\ UNCHANGED <<pt, freelist>>
  BY <1>0, <1>1, Zenon DEF kalloc_ref, TypeOK
<1>6. \A g \in Page : (InTransit(p, g) <=> g = g0) /\ ~InTransit(p, g)'
  BY <1>0, <1>1, <1>2, <1>3 DEF InTransit
<1>7. refcount[g0] = 0 /\ g0 \notin freelist /\ \A q \in Proc \ {p} : ~InTransit(q, g0)
  BY <1>0, <1>6, Zenon DEF FreeExact
<1>8. Effect(p, t, va)
  <2>1. SamePages(t, va)
    BY <1>5, Zenon DEF SamePages
  <2> QED BY <1>0, <1>1, <1>2, <1>3, <1>4, <2>1, OneThread, Zenon
<1>9. RefcountExact'
  <2>1. ASSUME NEW g \in Page
        PROVE  refcount'[g] + Maps(p, t, va, g) + Holds(p, g)
                 = refcount[g] + Maps(p, t, va, g)' + Holds(p, g)'
    <3>1. Maps(p, t, va, g)' = Maps(p, t, va, g)
      BY <1>3, <1>4, <1>5, Zenon DEF Maps
    <3>2. Holds(p, g) = 0 /\ Holds(p, g)' = Bit(g0 = g)
      BY <1>2, <1>3, <1>4, Zenon DEF Holds, Bit
    <3>3. refcount'[g] = refcount[g] + Bit(g0 = g) /\ refcount[g] \in Nat
      BY <1>5, <1>7 DEF Bit
    <3>4. Maps(p, t, va, g) \in Nat /\ Bit(g0 = g) \in Nat
      BY Zenon DEF Maps, Bit
    <3> QED BY <3>1, <3>2, <3>3, <3>4
  <2>2. refcount' \in [Page -> Nat]
    BY <1>5, Zenon
  <2> QED BY <1>8, <2>1, <2>2, RefStep
<1>10. FreeExact'
  BY <1>5, <1>6, <1>7, <1>8, FreeStep
<1> QED BY <1>9, <1>10

-----------------------------------------------------------------------------

\* ref_dec() of the page of a PTE: the PTE counts no more, and with the last
\* reference the page is in the thread's hands.
LEMMA RefDecPte ==
  ASSUME RInv, NEW p \in Proc, NEW here \in {"cow_dec", "unmap_dec"},
         NEW push \in {"cow_push", "unmap_push"}, NEW next \in {"cow_map", "unmap_clear"},
         here = "cow_dec" => push = "cow_push" /\ next = "cow_map",
         here = "unmap_dec" => push = "unmap_push" /\ next = "unmap_clear",
         ref_dec(p, here, Cur(p).pa, push, next)
  PROVE  RefcountExact' /\ FreeExact'
<1>0. CInv /\ TypeOK /\ FreeExact /\ th[p].pc = here /\ th[p] \in Thread
  BY Zenon DEF RInv, CInv, TypeOK, ref_dec
<1>1. /\ th[p].tbl \in PT /\ th[p].i \in VA /\ Cur(p) \in PTE
      /\ \A q \in Proc \ {p} : th[q].tbl # th[p].tbl
  BY <1>0, Facts, Alone, Zenon DEF Idle, CowPC, UnmapPC
<1>2. PICK t \in PT, va \in VA, g0 \in Page :
        /\ t = th[p].tbl /\ va = th[p].i /\ g0 = Cur(p).pa
        /\ \A q \in Proc \ {p} : th[q].tbl # t
  BY <1>1, Zenon DEF PTE
<1>3. pt[t][va] # None /\ pt[t][va].pa = g0
  BY <1>1, <1>2, Zenon DEF Cur
<1>4. <<t, va>> \in Mappers(g0)
  BY <1>0, <1>2, <1>3, SMTT(30) DEF Mappers, Uncounted
<1>5. refcount[g0] > 0 /\ g0 \notin freelist /\ \A q \in Proc : ~InTransit(q, g0)
  BY <1>0, <1>4, Counted DEF FreeExact
<1> DEFINE l == IF refcount[g0] = 1 THEN push ELSE next
<1>6. PICK m \in {push, next} : m = l
  OBVIOUS
<1> DEFINE r == [th[p] EXCEPT !.pc = m]
<1>7. r \in Thread /\ r.pc = m /\ r.new = th[p].new /\ r.tbl = t /\ r.i = va
  BY <1>0, <1>2 DEF Thread, PC
<1>8. /\ refcount' = [refcount EXCEPT ![g0] = @ - 1] /\ refcount \in [Page -> Nat]
      /\ th' = [th EXCEPT ![p].pc = m] /\ UNCHANGED <<pt, freelist>>
  <2>1. refcount \in [Page -> Nat] /\ refcount[g0] # 0
    BY <1>0, <1>5 DEF TypeOK
  <2>2. /\ refcount' = [refcount EXCEPT ![g0] = @ - 1]
        /\ th' = [th EXCEPT ![p].pc = l] /\ UNCHANGED <<pt, freelist>>
    BY <1>2, <2>1, Zenon DEF ref_dec
  <2> QED BY <1>6, <2>1, <2>2, Zenon
<1>9. th' = [th EXCEPT ![p] = r] /\ th'[p] = r
  BY <1>0, <1>8, Zenon DEF TypeOK
<1>10. m = push <=> refcount[g0] = 1
  BY <1>6, Zenon
<1> HIDE DEF r, l
<1>11. /\ th[p].pc \notin UncPC /\ r.pc \in UncPC
       /\ th[p].pc \in OwnPC <=> here = "cow_dec"
       /\ r.pc \in OwnPC <=> here = "cow_dec"
  BY <1>0, <1>7, Zenon DEF UncPC, OwnPC
<1>12. Effect(p, t, va)
  <2>1. SamePages(t, va)
    BY <1>8, Zenon DEF SamePages
  <2> QED BY <1>0, <1>2, <1>7, <1>9, <1>11, <2>1, OneThread, ZenonT(60)
<1>13. RefcountExact'
  <2>1. ASSUME NEW g \in Page
        PROVE  refcount'[g] + Maps(p, t, va, g) + Holds(p, g)
                 = refcount[g] + Maps(p, t, va, g)' + Holds(p, g)'
    <3>1. Holds(p, g)' = Holds(p, g)
      BY <1>7, <1>9, <1>11, Zenon DEF Holds
    <3>2. Holds(p, g) \in Nat
      BY Zenon DEF Holds, Bit
    <3>3. Maps(p, t, va, g) = Bit(g = g0) /\ Maps(p, t, va, g)' = 0
      BY <1>3, <1>9, <1>11, Zenon DEF Maps, Bit
    <3>4. refcount'[g] + Bit(g = g0) = refcount[g] /\ refcount[g] \in Nat /\ refcount'[g] \in Nat
      BY <1>5, <1>8 DEF Bit
    <3>5. Bit(g = g0) \in Nat
      BY Zenon DEF Bit
    <3> QED BY <3>1, <3>2, <3>3, <3>4, <3>5
  <2>2. refcount' \in [Page -> Nat]
    BY <1>5, <1>8
  <2> QED BY <1>12, <2>1, <2>2, RefStep
<1>14. FreeExact'
  <2>1. pt' = pt /\ Cur(p)' = Cur(p)
    BY <1>2, <1>7, <1>8, <1>9, ZenonT(60) DEF Cur
  <2>2. \A g \in Page : ~InTransit(p, g) /\ (InTransit(p, g)' <=> g = g0 /\ m = push)
    BY <1>0, <1>2, <1>7, <1>9, <2>1 DEF InTransit
  <2>3. refcount'[g0] = 0 <=> m = push
    BY <1>5, <1>8, <1>10
  <2> QED BY <1>5, <1>8, <1>12, <2>2, <2>3, FreeStep, SMTT(30)
<1> QED BY <1>13, <1>14, Zenon

\* kfree() of the page that uvmalloc() could not map.
LEMMA RefDecNew ==
  ASSUME RInv, NEW p \in Proc,
         ref_dec(p, "kfree_dec", th[p].new, "kfree_push", "uvmunmap")
  PROVE  RefcountExact' /\ FreeExact'
<1>0. CInv /\ TypeOK /\ FreeExact /\ th[p].pc = "kfree_dec" /\ th[p] \in Thread
  BY Zenon DEF RInv, CInv, TypeOK, ref_dec
<1>1. PICK t \in PT, g0 \in Page :
        /\ t = th[p].tbl /\ g0 = th[p].new /\ \A q \in Proc \ {p} : th[q].tbl # t
  BY <1>0, Hands, Zenon DEF LivePC, OwnPC
<1>2. PICK va \in VA : va = 0
  BY DEF VA
<1>3. p \in Owners(g0)
  BY <1>0, <1>1, Zenon DEF Owners
<1>4. refcount[g0] > 0 /\ g0 \notin freelist /\ \A q \in Proc : ~InTransit(q, g0)
  BY <1>0, <1>3, Counted DEF FreeExact
<1> DEFINE l == IF refcount[g0] = 1 THEN "kfree_push" ELSE "uvmunmap"
<1>5. PICK m \in {"kfree_push", "uvmunmap"} : m = l
  OBVIOUS
<1> DEFINE r == [th[p] EXCEPT !.pc = m]
<1>6. r \in Thread /\ r.pc = m /\ r.new = g0
  BY <1>0, <1>1 DEF Thread, PC
<1>7. /\ refcount' = [refcount EXCEPT ![g0] = @ - 1] /\ refcount \in [Page -> Nat]
      /\ th' = [th EXCEPT ![p].pc = m] /\ UNCHANGED <<pt, freelist>>
  <2>1. refcount \in [Page -> Nat] /\ refcount[g0] # 0
    BY <1>0, <1>4 DEF TypeOK
  <2>2. /\ refcount' = [refcount EXCEPT ![g0] = @ - 1]
        /\ th' = [th EXCEPT ![p].pc = l] /\ UNCHANGED <<pt, freelist>>
    BY <1>1, <2>1, Zenon DEF ref_dec
  <2> QED BY <1>5, <2>1, <2>2, Zenon
<1>8. th' = [th EXCEPT ![p] = r] /\ th'[p] = r
  BY <1>0, <1>7 DEF TypeOK
<1>9. m = "kfree_push" <=> refcount[g0] = 1
  BY <1>5, Zenon
<1> HIDE DEF r, l
<1>10. th[p].pc \notin UncPC /\ r.pc \notin UncPC /\ th[p].pc \in OwnPC /\ r.pc \notin OwnPC
  BY <1>0, <1>6 DEF UncPC, OwnPC
<1>11. Effect(p, t, va)
  <2>1. SamePages(t, va)
    BY <1>7, Zenon DEF SamePages
  <2> QED BY <1>0, <1>1, <1>6, <1>8, <1>10, <2>1, OneThread, Zenon
<1>12. RefcountExact'
  <2>1. ASSUME NEW g \in Page
        PROVE  refcount'[g] + Maps(p, t, va, g) + Holds(p, g)
                 = refcount[g] + Maps(p, t, va, g)' + Holds(p, g)'
    <3>1. Maps(p, t, va, g)' = Maps(p, t, va, g) /\ Maps(p, t, va, g) \in Nat
      BY <1>7, <1>8, <1>10, Zenon DEF Maps, Bit
    <3>2. Holds(p, g) = Bit(g = g0) /\ Holds(p, g)' = 0
      BY <1>1, <1>8, <1>10, Zenon DEF Holds, Bit
    <3>3. refcount'[g] + Bit(g = g0) = refcount[g] /\ refcount[g] \in Nat /\ refcount'[g] \in Nat
      BY <1>4, <1>7 DEF Bit
    <3>4. Bit(g = g0) \in Nat
      BY Zenon DEF Bit
    <3> QED BY <3>1, <3>2, <3>3, <3>4
  <2>2. refcount' \in [Page -> Nat]
    BY <1>4, <1>7
  <2> QED BY <1>11, <2>1, <2>2, RefStep
<1>13. FreeExact'
  <2>1. \A g \in Page : ~InTransit(p, g) /\ (InTransit(p, g)' <=> g = g0 /\ m = "kfree_push")
    BY <1>0, <1>6, <1>8, Zenon DEF InTransit
  <2>2. refcount'[g0] = 0 <=> m = "kfree_push"
    BY <1>4, <1>7, <1>9
  <2> QED BY <1>4, <1>7, <1>11, <2>1, <2>2, FreeStep, Zenon
<1> QED BY <1>12, <1>13, Zenon

\* The push of a page without references onto the free list.
LEMMA PushStep ==
  ASSUME RInv, NEW p \in Proc, NEW here \in {"cow_push", "unmap_push", "kfree_push"},
         NEW next \in {"cow_map", "unmap_clear", "uvmunmap"},
         here = "cow_push" => next = "cow_map",
         here = "unmap_push" => next = "unmap_clear",
         here = "kfree_push" => next = "uvmunmap",
         NEW g0 \in Page, InTransit(p, g0), \A g \in Page : InTransit(p, g) => g = g0,
         NEW t \in PT, t = th[p].tbl, \A q \in Proc \ {p} : th[q].tbl # t,
         NEW va \in VA, here # "kfree_push" => va = th[p].i,
         free_page(p, here, g0, next)
  PROVE  RefcountExact' /\ FreeExact'
<1>0. /\ CInv /\ TypeOK /\ FreeExact /\ th[p].pc = here /\ th[p] \in Thread
      /\ freelist' = freelist \cup {g0} /\ UNCHANGED <<refcount, pt>>
      /\ refcount \in [Page -> Nat]
  BY Zenon DEF RInv, CInv, TypeOK, free_page
<1> DEFINE r == [th[p] EXCEPT !.pc = next]
<1>1. r \in Thread /\ r.pc = next /\ r.new = th[p].new /\ r.tbl = t /\ r.i = th[p].i
  BY <1>0, Zenon DEF Thread, PC
<1>2. th' = [th EXCEPT ![p] = r] /\ th'[p] = r
  BY <1>0, Zenon DEF TypeOK, free_page
<1> HIDE DEF r
<1>3. /\ th[p].pc \in UncPC <=> here # "kfree_push"
      /\ r.pc \in UncPC <=> here # "kfree_push"
      /\ th[p].pc \in OwnPC <=> here = "cow_push"
      /\ r.pc \in OwnPC <=> here = "cow_push"
  BY <1>0, <1>1 DEF UncPC, OwnPC
<1>4. Effect(p, t, va)
  <2>1. SamePages(t, va)
    BY <1>0, Zenon DEF SamePages
  <2> QED BY <1>0, <1>1, <1>2, <1>3, <2>1, OneThread, ZenonT(60)
<1>5. RefcountExact'
  <2>1. ASSUME NEW g \in Page
        PROVE  refcount'[g] + Maps(p, t, va, g) + Holds(p, g)
                 = refcount[g] + Maps(p, t, va, g)' + Holds(p, g)'
    <3>1. Maps(p, t, va, g)' = Maps(p, t, va, g) /\ Holds(p, g)' = Holds(p, g)
      BY <1>0, <1>1, <1>2, <1>3, Zenon DEF Maps, Holds
    <3> QED BY <1>0, <3>1, Zenon
  <2> QED BY <1>0, <1>4, <2>1, RefStep
<1>6. FreeExact'
  <2>1. \A g \in Page : ~InTransit(p, g)'
    BY <1>1, <1>2, Zenon DEF InTransit
  <2>2. refcount'[g0] = 0 /\ \A q \in Proc \ {p} : ~InTransit(q, g0)
    BY <1>0, Zenon DEF FreeExact
  <2> QED BY <1>0, <1>4, <2>1, <2>2, FreeStep, Zenon
<1> QED BY <1>5, <1>6, Zenon

\* A thread that owns a page goes on owning it.
LEMMA KeepStep ==
  ASSUME RInv, NEW p \in Proc, th[p].pc \in {"cow_copy", "alloc_map"},
         NEW r \in Thread, th' = [th EXCEPT ![p] = r],
         r.pc \in {"cow_dec", "kfree_dec"}, r.new = th[p].new,
         UNCHANGED <<refcount, freelist, pt>>
  PROVE  RefcountExact' /\ FreeExact'
<1>0. CInv /\ TypeOK /\ refcount \in [Page -> Nat] /\ th'[p] = r
  BY Zenon DEF RInv, CInv, TypeOK
<1>1. PICK t \in PT : t = th[p].tbl /\ \A q \in Proc \ {p} : th[q].tbl # t
  BY <1>0, Hands, Zenon DEF LivePC, OwnPC
<1>2. PICK va \in VA : va = 0
  BY DEF VA
<1>3. th[p].pc \notin UncPC /\ r.pc \notin UncPC /\ th[p].pc \in OwnPC /\ r.pc \in OwnPC
  BY Zenon DEF UncPC, OwnPC
<1>4. Effect(p, t, va)
  <2>1. SamePages(t, va)
    BY Zenon DEF SamePages
  <2> QED BY <1>0, <1>1, <1>3, <2>1, OneThread, Zenon
<1>5. RefcountExact'
  <2>1. ASSUME NEW g \in Page
        PROVE  refcount'[g] + Maps(p, t, va, g) + Holds(p, g)
                 = refcount[g] + Maps(p, t, va, g)' + Holds(p, g)'
    BY <1>0, <1>3, Zenon DEF Maps, Holds
  <2> QED BY <1>0, <1>4, <2>1, RefStep
<1>6. FreeExact'
  <2>1. \A g \in Page : ~InTransit(p, g) /\ ~InTransit(p, g)'
    BY <1>0, Zenon DEF InTransit
  <2> QED BY <1>4, <2>1, FreeSame, Zenon
<1> QED BY <1>5, <1>6, Zenon

\* The page a thread owns is mapped: its PTE takes over the reference.
LEMMA MapStep ==
  ASSUME RInv, NEW p \in Proc, th[p].pc \in {"cow_map", "alloc_map"},
         th[p].pc = "alloc_map" => Cur(p) = None,
         NEW r \in Thread, th' = [th EXCEPT ![p] = r],
         r.pc \in {"access", "uvmalloc"},
         NEW e \in PTE, e.pa = th[p].new,
         pt' = [pt EXCEPT ![th[p].tbl][th[p].i] = e],
         UNCHANGED <<refcount, freelist>>
  PROVE  RefcountExact' /\ FreeExact'
<1>0. CInv /\ TypeOK /\ refcount \in [Page -> Nat] /\ th'[p] = r
  BY Zenon DEF RInv, CInv, TypeOK
<1>1. PICK t \in PT, va \in VA, g0 \in Page :
        /\ t = th[p].tbl /\ va = th[p].i /\ g0 = th[p].new
        /\ \A q \in Proc \ {p} : th[q].tbl # t
  BY <1>0, Hands, Zenon DEF LivePC, OwnPC
<1>2. /\ th[p].pc \in UncPC <=> th[p].pc = "cow_map"
      /\ r.pc \notin UncPC /\ th[p].pc \in OwnPC /\ r.pc \notin OwnPC
  BY Zenon DEF UncPC, OwnPC
<1>3. /\ pt'[t][va] = e /\ e # None /\ e.pa = g0
      /\ th[p].pc = "alloc_map" => pt[t][va] = None
  BY <1>0, <1>1 DEF TypeOK, Cur
<1>4. Effect(p, t, va)
  <2>1. SamePages(t, va)
    BY <1>0, <1>1 DEF SamePages, TypeOK
  <2> QED BY <1>0, <1>1, <1>2, <2>1, OneThread, ZenonT(60)
<1>5. RefcountExact'
  <2>1. ASSUME NEW g \in Page
        PROVE  refcount'[g] + Maps(p, t, va, g) + Holds(p, g)
                 = refcount[g] + Maps(p, t, va, g)' + Holds(p, g)'
    <3>1. Maps(p, t, va, g) = 0 /\ Maps(p, t, va, g)' = Bit(g = g0)
      BY <1>0, <1>2, <1>3 DEF Maps, Bit
    <3>2. Holds(p, g) = Bit(g = g0) /\ Holds(p, g)' = 0
      BY <1>0, <1>1, <1>2 DEF Holds, Bit
    <3>3. refcount'[g] = refcount[g] /\ refcount[g] \in Nat /\ Bit(g = g0) \in Nat
      BY <1>0, Zenon DEF Bit
    <3> QED BY <3>1, <3>2, <3>3
  <2> QED BY <1>0, <1>4, <2>1, RefStep
<1>6. FreeExact'
  <2>1. \A g \in Page : ~InTransit(p, g) /\ ~InTransit(p, g)'
    BY <1>0, Zenon DEF InTransit
  <2> QED BY <1>4, <2>1, FreeSame, Zenon
<1> QED BY <1>5, <1>6, Zenon

\* A PTE that does not count is written or cleared.
LEMMA UncountedStep ==
  ASSUME RInv, NEW p \in Proc, NEW t \in PT, NEW va \in VA,
         t = th[p].tbl, va = th[p].i, \A q \in Proc \ {p} : th[q].tbl # t,
         NEW r \in Thread, th' = [th EXCEPT ![p] = r],
         \/ /\ th[p].pc = "uvmcopy" /\ pt[t][va] = None
            /\ r.pc = "ref_inc" /\ r.tbl = t /\ r.i = va
         \/ /\ th[p].pc = "unmap_clear"
            /\ r.pc = "uvmunmap" /\ pt'[t][va] = None,
         SamePages(t, va), UNCHANGED <<refcount, freelist>>
  PROVE  RefcountExact' /\ FreeExact'
<1>0. CInv /\ TypeOK /\ refcount \in [Page -> Nat] /\ th'[p] = r
  BY Zenon DEF RInv, CInv, TypeOK
<1>1. /\ pt[t][va] = None \/ th[p].pc \in UncPC
      /\ pt'[t][va] = None \/ r.pc \in UncPC
      /\ r.pc \in UncPC => r.tbl = t /\ r.i = va
      /\ th[p].pc \notin OwnPC /\ r.pc \notin OwnPC
  BY Zenon DEF UncPC, OwnPC
<1>2. Effect(p, t, va)
  BY <1>0, <1>1, OneThread, ZenonT(60)
<1>3. RefcountExact'
  <2>1. ASSUME NEW g \in Page
        PROVE  refcount'[g] + Maps(p, t, va, g) + Holds(p, g)
                 = refcount[g] + Maps(p, t, va, g)' + Holds(p, g)'
    BY <1>0, <1>1, ZenonT(60) DEF Maps, Holds, Bit
  <2> QED BY <1>0, <1>2, <2>1, RefStep, SMTT(40)
<1>4. FreeExact'
  <2>1. \A g \in Page : ~InTransit(p, g) /\ ~InTransit(p, g)'
    BY <1>0, Zenon DEF InTransit
  <2>2. \A g \in Page : InTransit(p, g)' <=> InTransit(p, g)
    BY <2>1, Zenon
  <2> QED BY <1>2, <2>2, FreeSame, ZenonT(60)
<1> QED BY <1>3, <1>4, Zenon

\* In kfork() the parent's own table is not the one it builds, and every PTE
\* of it is counted.
LEMMA ParentTable ==
  ASSUME CInv, NEW p \in Proc, th[p].op = "fork", th[p].pc # "embryo"
  PROVE  /\ th[p].tbl # pagetable[p]
         /\ \A va \in VA : ~Uncounted(pagetable[p], va)
<1>1. /\ th[p].child \in Proc /\ th[p].tbl = pagetable[th[p].child]
      /\ th[th[p].child].pc = "embryo" /\ th[p].child # p
  BY DEF CInv, ThreadInv, TableInv, ForkOp
<1>2. th[p].tbl # pagetable[p] /\ pagetable[p] # None
  <2>1. th[p].pc \notin Idle
    <3>1. \A l : At(l).op = "none"
      BY Zenon DEF At
    <3>2. th[p].pc \in Idle => th[p] = At(th[p].pc)
      BY Zenon DEF CInv, ThreadInv, OpInv
    <3> QED BY <3>1, <3>2, Zenon
  <2>2. pagetable[p] # None
    BY <2>1, Zenon DEF CInv, ThreadInv, TableInv, Idle
  <2>3. Apart(p, th[p].child)
    BY <1>1, Zenon DEF CInv
  <2> QED BY <1>1, <2>2, <2>3, Zenon DEF Apart
<1>3. ASSUME NEW q \in Proc, q # p  PROVE th[q].tbl # pagetable[p]
  <2>1. th[q].child # p
    <3>1. ThreadInv(q) /\ p # None
      BY Zenon DEF CInv
    <3> QED BY <3>1, Zenon DEF ThreadInv, TableInv
  <2>2. Apart(q, p)
    BY <1>3, Zenon DEF CInv
  <2> QED BY <1>2, <2>1, <2>2, Zenon DEF Apart
<1> QED BY <1>2, <1>3, SMTT(30) DEF Uncounted

\* ref_inc() counts the child's PTE of a page that the parent's keeps alive.
LEMMA RefIncStep ==
  ASSUME RInv, NEW p \in Proc, ref_inc(p)
  PROVE  RefcountExact' /\ FreeExact'
<1>0. /\ CInv /\ TypeOK /\ FreeExact /\ th[p].pc = "ref_inc" /\ th[p] \in Thread
      /\ refcount \in [Page -> Nat] /\ UNCHANGED <<freelist, pt>>
  BY Zenon DEF RInv, CInv, TypeOK, ref_inc
<1>1. MayBe(p, "ref_inc")
  BY <1>0, Zenon DEF CInv, ThreadInv, OpInv
<1>2. /\ th[p].tbl \in PT /\ th[p].i \in VA /\ Cur(p) \in PTE /\ pagetable[p] \in PT
      /\ \A q \in Proc \ {p} : th[q].tbl # th[p].tbl
  BY <1>0, Facts, Alone, SMTT(30) DEF Idle
<1>3. PICK t \in PT, va \in VA, g0 \in Page :
        /\ t = th[p].tbl /\ va = th[p].i /\ g0 = Cur(p).pa
        /\ \A q \in Proc \ {p} : th[q].tbl # t
  BY <1>2, Zenon DEF PTE
<1>4. pt[t][va] # None /\ pt[t][va].pa = g0
  <2>1. pt[t][va] = Cur(p) /\ g0 = Cur(p).pa
    BY <1>3, Zenon DEF Cur
  <2>2. Cur(p) # None
    BY <1>1, ZenonT(60) DEF MayBe
  <2> QED BY ONLY <2>1, <2>2, Zenon
<1>5. <<pagetable[p], va>> \in Mappers(g0)
  <2>1. th[p].op = "fork" /\ pt[pagetable[p]][va] = pt[t][va]
    <3>1. th[p].op = "fork" /\ Pte(p, th[p].i) = Cur(p)
      BY <1>1, ZenonT(60) DEF MayBe
    <3> QED BY ONLY <1>3, <3>1, ZenonT(60) DEF Pte, Cur
  <2>2. ~Uncounted(pagetable[p], va)
    BY <1>0, <2>1, ParentTable, SMTT(30)
  <2> QED BY <1>2, <1>4, <2>1, <2>2, SMTT(30) DEF Mappers
<1>6. refcount[g0] > 0 /\ g0 \notin freelist /\ \A q \in Proc : ~InTransit(q, g0)
  BY <1>0, <1>5, Counted DEF FreeExact
<1> DEFINE r == [th[p] EXCEPT !.pc = "uvmcopy", !.i = @ + 1]
<1>7. r \in Thread /\ r.pc = "uvmcopy"
  <2>1. th[p].i + 1 \in 0..NVA
    BY <1>2 DEF VA
  <2> QED BY <1>0, <2>1, Zenon DEF Thread, PC
<1>8. /\ th' = [th EXCEPT ![p] = r] /\ th'[p] = r
      /\ refcount' = [refcount EXCEPT ![g0] = @ + 1]
  BY <1>0, <1>3, Zenon DEF TypeOK, ref_inc
<1> HIDE DEF r
<1>9. th[p].pc \in UncPC /\ r.pc \notin UncPC /\ th[p].pc \notin OwnPC /\ r.pc \notin OwnPC
  BY <1>0, <1>7, Zenon DEF UncPC, OwnPC
<1>10. Effect(p, t, va)
  <2>1. SamePages(t, va)
    BY <1>0, Zenon DEF SamePages
  <2> QED BY <1>0, <1>3, <1>7, <1>8, <1>9, <2>1, OneThread, ZenonT(60)
<1>11. RefcountExact'
  <2>1. ASSUME NEW g \in Page
        PROVE  refcount'[g] + Maps(p, t, va, g) + Holds(p, g)
                 = refcount[g] + Maps(p, t, va, g)' + Holds(p, g)'
    BY <1>0, <1>4, <1>8, <1>9, SMTT(30) DEF Maps, Holds, Bit
  <2>2. refcount' \in [Page -> Nat]
    BY <1>0, <1>8, SMTT(30)
  <2> QED BY <1>10, <2>1, <2>2, RefStep, SMTT(30)
<1>12. FreeExact'
  <2>1. \A g \in Page : ~InTransit(p, g) /\ ~InTransit(p, g)'
    BY <1>0, <1>7, <1>8 DEF InTransit
  <2>2. refcount'[g0] # 0 /\ g0 \notin freelist'
    BY <1>0, <1>6, <1>8, SMTT(30)
  <2> QED BY <1>0, <1>6, <1>8, <1>10, <2>1, <2>2, FreeStep, Zenon
<1> QED BY <1>11, <1>12, Zenon

\* A step of one thread that touches no reference.
LEMMA QuietStep ==
  ASSUME RInv, CInv', NEW p \in Proc, NEW r \in Thread, th' = [th EXCEPT ![p] = r],
         th[p].pc \notin LivePC, r.pc \notin LivePC,
         UNCHANGED <<refcount, freelist, pt>>
  PROVE  RefcountExact' /\ FreeExact'
<1>1. th' \in [Proc -> Thread] /\ th'[p] = r /\ \A q \in Proc \ {p} : th'[q] = th[q]
  BY Zenon DEF RInv, CInv, TypeOK
<1> QED BY <1>1, Quiet, Zenon

\* A step of one thread to another label.
LEMMA QuietMove ==
  ASSUME RInv, CInv', NEW p \in Proc, NEW l \in PC, th' = [th EXCEPT ![p].pc = l],
         th[p].pc \notin LivePC, l \notin LivePC,
         UNCHANGED <<refcount, freelist, pt>>
  PROVE  RefcountExact' /\ FreeExact'
<1> DEFINE r == [th[p] EXCEPT !.pc = l]
<1>1. th \in [Proc -> Thread] /\ th[p] \in Thread
  BY Zenon DEF RInv, CInv, TypeOK
<1>2. r \in Thread /\ r.pc = l
  BY <1>1, Zenon DEF Thread
<1>3. th' = [th EXCEPT ![p] = r]
  BY <1>1, Zenon
<1> HIDE DEF r
<1> QED BY <1>2, <1>3, QuietStep, Zenon

\* A step that ends an operation.
LEMMA QuietEnd ==
  ASSUME RInv, CInv', NEW p \in Proc, NEW l \in {"user", "zombie"},
         th' = [th EXCEPT ![p] = At(l)], th[p].pc \notin LivePC,
         UNCHANGED <<refcount, freelist, pt>>
  PROVE  RefcountExact' /\ FreeExact'
<1>1. At(l).pc = l
  BY Zenon DEF At
<1>2. At(l) \in Thread
  BY DEF At, Thread, PC, Op
<1>3. l \notin LivePC
  BY Zenon DEF LivePC, UncPC, OwnPC, MovePC
<1> QED BY <1>1, <1>2, <1>3, QuietStep, Zenon

=============================================================================
