------------------------------- MODULE Umalloc -------------------------------
(***************************************************************************)
(* malloc() and free() of the user library (user/umalloc.c).               *)
(*                                                                         *)
(* Memory is counted in units of a Header.  A block is a header and the    *)
(* units behind it; the free blocks are a ring in the order of their       *)
(* addresses, through base, which lies below the heap and has size 0.      *)
(* One step is one turn of a loop.  A header that is no longer the header  *)
(* of a block, and s.ptr of a block in use, are put to 0: nothing reads    *)
(* them.                                                                   *)
(***************************************************************************)
EXTENDS Integers, FiniteSets

CONSTANTS Units,   \* the units that the kernel has for the heap
          CORE,    \* the least that morecore() asks for
          Sizes    \* sizes, in units with the header, that programs ask for

ASSUME UmallocAssumption ==
    /\ Units \in Nat \ {0} /\ CORE \in Nat \ {0} /\ Sizes \subseteq Nat \ {0, 1}

base == 0
Addr == 0..Units

VARIABLES ptr, size,   \* the headers: s.ptr and s.size, by address
          freep,       \* -1 before the first malloc()
          brk,         \* the end of the heap
          heap,        \* the call in progress: pc, nunits, p, prevp, bp, back
          live,        \* history: the blocks the program has, with their sizes
          core         \* history: the units that morecore() got

heapvars == <<ptr, size, freep, brk, heap, live, core>>

NoCall == [pc |-> "user", nunits |-> 0, p |-> 0, prevp |-> 0, bp |-> 0, back |-> "user"]

UmallocInit ==
    /\ ptr = [a \in Addr |-> 0] /\ size = [a \in Addr |-> 0]
    /\ freep = -1 /\ brk = 1
    /\ heap = NoCall
    /\ live = {} /\ core = {}

\* malloc() begins, and makes the ring when it is called the first time.
malloc(n) ==
    LET prevp == IF freep = -1 THEN base ELSE freep IN
    /\ heap.pc = "user"
    /\ freep' = prevp
    /\ heap' = [NoCall EXCEPT !.pc = "malloc", !.nunits = n, !.prevp = prevp,
                              !.p = IF freep = -1 THEN base ELSE ptr[prevp]]
    /\ UNCHANGED <<ptr, size, brk, live, core>>

\* One turn of its loop: use a block that is large enough (its tail end, if it
\* is larger), else go on, or after a whole turn of the ring get more memory.
malloc_loop ==
    LET p == heap.p  n == heap.nunits  q == p + size[p] - n IN
    /\ heap.pc = "malloc"
    /\ \/ /\ size[p] >= n
          /\ ptr' = IF size[p] = n THEN [ptr EXCEPT ![p] = 0, ![heap.prevp] = ptr[p]] ELSE ptr
          /\ size' = IF size[p] = n THEN size ELSE [size EXCEPT ![p] = @ - n, ![q] = n]
          /\ freep' = heap.prevp
          /\ live' = live \cup {<<q, n>>}
          /\ heap' = NoCall
       \/ /\ size[p] < n /\ p # freep
          /\ heap' = [heap EXCEPT !.prevp = p, !.p = ptr[p]]
          /\ UNCHANGED <<ptr, size, freep, live>>
       \/ /\ size[p] < n /\ p = freep
          /\ heap' = [heap EXCEPT !.pc = "morecore"]
          /\ UNCHANGED <<ptr, size, freep, live>>
    /\ UNCHANGED <<brk, core>>

\* morecore(): sbrk() fails, or the new block goes through free().
morecore ==
    LET nu == IF heap.nunits < CORE THEN CORE ELSE heap.nunits IN
    /\ heap.pc = "morecore"
    /\ \/ /\ heap' = NoCall
          /\ UNCHANGED <<size, brk, core>>
       \/ /\ brk + nu <= Units + 1
          /\ size' = [size EXCEPT ![brk] = nu]
          /\ brk' = brk + nu
          /\ core' = core \cup brk..brk+nu-1
          /\ heap' = [heap EXCEPT !.pc = "free", !.bp = brk, !.p = freep, !.back = "malloc"]
    /\ UNCHANGED <<ptr, freep, live>>

\* The program itself moves the end of the heap.
sbrk ==
    /\ heap.pc = "user" /\ brk < Units
    /\ brk' = brk + 1
    /\ UNCHANGED <<ptr, size, freep, heap, live, core>>

free(b) ==
    /\ heap.pc = "user" /\ b \in live
    /\ live' = live \ {b}
    /\ heap' = [NoCall EXCEPT !.pc = "free", !.bp = b[1], !.p = freep]
    /\ UNCHANGED <<ptr, size, freep, brk, core>>

\* Mutant: at the end of the ring any block fits.
Place_end(p, bp) == (bp > p /\ bp < ptr[p]) \/ p >= ptr[p]

\* bp belongs between p and its successor.
Place(p, bp) == (bp > p /\ bp < ptr[p]) \/ (p >= ptr[p] /\ (bp > p \/ bp < ptr[p]))

\* The loop of free() that looks for the place of the block.
free_loop ==
    /\ heap.pc = "free" /\ ~Place(heap.p, heap.bp)
    /\ heap' = [heap EXCEPT !.p = ptr[@]]
    /\ UNCHANGED <<ptr, size, freep, brk, live, core>>

\* Found: join the block with its successor and its predecessor where they
\* touch.  malloc() goes on behind the block that morecore() returned.
free_join ==
    LET p == heap.p  bp == heap.bp  n == ptr[p]
        up == bp + size[bp] = n
        down == p + size[p] = bp
        next == IF up THEN ptr[n] ELSE n
        sz == IF up THEN size[bp] + size[n] ELSE size[bp] IN
    /\ heap.pc = "free" /\ Place(p, bp)
    /\ ptr' = LET joined == IF up THEN [ptr EXCEPT ![n] = 0] ELSE ptr IN
              IF down THEN [joined EXCEPT ![p] = next]
              ELSE [joined EXCEPT ![bp] = next, ![p] = bp]
    /\ size' = LET joined == IF up THEN [size EXCEPT ![n] = 0] ELSE size IN
               IF down THEN [joined EXCEPT ![p] = @ + sz, ![bp] = 0] ELSE [joined EXCEPT ![bp] = sz]
    /\ freep' = p
    /\ heap' = IF heap.back = "user" THEN NoCall
               ELSE [heap EXCEPT !.pc = "malloc", !.prevp = p, !.p = ptr'[p]]
    /\ UNCHANGED <<brk, live, core>>

\* A step of a call that has begun.
UmallocStep == malloc_loop \/ morecore \/ sbrk \/ free_loop \/ free_join

UmallocNext ==
    \/ \E n \in Sizes : malloc(n)
    \/ \E b \in live : free(b)
    \/ UmallocStep

-----------------------------------------------------------------------------

\* The blocks of the ring: what one turn of it from base meets.
Ring == LET turn[k \in 0..Units+1] == IF k = 0 THEN {base}
                                      ELSE turn[k-1] \cup {ptr[a] : a \in turn[k-1]}
        IN turn[Units + 1]

\* Blocks are where malloc() and free() say (umalloc.c): outside a call, every
\* unit that morecore() got is in exactly one block, free or the program's; the
\* ring is in the order of the addresses and free blocks that touch were joined.
HeapExact ==
    heap.pc = "user" /\ freep # -1 =>
        LET blocks == {<<a, size[a]>> : a \in Ring \ {base}} \cup live
            In(b) == b[1]..(b[1]+b[2]-1) IN
        /\ freep \in Ring /\ size[base] = 0
        /\ UNION {In(b) : b \in blocks} = core
        /\ \A b, c \in blocks : b # c => In(b) \cap In(c) = {}
        /\ \A b \in live : size[b[1]] = b[2] /\ b[1] \notin Ring
        /\ Cardinality({a \in Ring : ptr[a] <= a}) = 1
        /\ \A a \in Ring : size[a] > 0 => a + size[a] \notin Ring
=============================================================================
