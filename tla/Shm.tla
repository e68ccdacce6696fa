--------------------------------- MODULE Shm ---------------------------------
(***************************************************************************)
(* Shared memory segments (kernel/shm.c) on top of user memory.  A segment *)
(* is a page that shm_create() takes from the allocator and shm_get() maps *)
(* into the calling process.  Each operation is one critical section of    *)
(* shm.lock.                                                               *)
(***************************************************************************)
EXTENDS Vm

CONSTANTS SHM_MAX,  \* slots of the table
          Key,      \* keys a program uses (-1, the mark of an empty slot, is not one)
          MaxRef    \* bound on shm.refcnt, for model checking

VARIABLE shm   \* shm.pages, shm.keys and shm.refcnt

shmvars == <<vars, shm>>

Slot == 0..SHM_MAX-1
Empty == [page |-> None, key |-> None, refcnt |-> 0]

ShmInit == Init /\ shm = [s \in Slot |-> Empty]

Found(key) == {s \in Slot : shm[s].key = key /\ shm[s].page # None}
First(S) == CHOOSE s \in S : \A r \in S : s <= r

\* shm_create(): an existing key, a full table or an empty free list change
\* nothing; otherwise the first empty slot gets a cleared page.
shm_create(p, key) ==
    LET empty == {s \in Slot : shm[s].key = None} IN
    /\ th[p].pc = "user" /\ Found(key) = {} /\ empty # {}
    /\ \E g \in freelist :
        /\ freelist' = freelist \ {g}
        /\ refcount' = [refcount EXCEPT ![g] = 1]
        /\ mem' = [mem EXCEPT ![g] = Zero]
        /\ shm' = [shm EXCEPT ![First(empty)] =
                     [page |-> g, key |-> key, refcnt |-> 1]]
    /\ UNCHANGED <<pt, pagetable, sz, th, panic>>

\* shm_get(): map the page at the end of the process, never at address 0.
\* mappages() panics on a valid PTE; its failure for want of a page-table
\* node changes nothing.
shm_get(p, key) ==
    LET s == First(Found(key))
        va == IF sz[p] = 0 THEN 1 ELSE sz[p] IN
    /\ th[p].pc = "user" /\ Found(key) # {}
    /\ va < NVA /\ shm[s].refcnt < MaxRef
    /\ \/ /\ Pte(p, va) # None
          /\ panic' = "mappages: remap"
          /\ UNCHANGED <<pt, sz, shm>>
       \/ /\ Pte(p, va) = None
          /\ pt' = [pt EXCEPT ![pagetable[p]][va] =
                      [pa |-> shm[s].page, flags |-> {"W", "U"}]]
          /\ sz' = [sz EXCEPT ![p] = va + 1]
          /\ shm' = [shm EXCEPT ![s].refcnt = @ + 1]
          /\ UNCHANGED panic
    /\ UNCHANGED <<freelist, refcount, mem, pagetable, th>>

\* shm_close(): the last close gives the page to kfree() and empties the slot;
\* the mappings of the page stay.
shm_close(p, key) ==
    LET s == First(Found(key))
        g == shm[s].page IN
    /\ th[p].pc = "user" /\ Found(key) # {}
    /\ \/ /\ shm[s].refcnt > 1
          /\ shm' = [shm EXCEPT ![s].refcnt = @ - 1]
          /\ UNCHANGED <<freelist, refcount, mem, panic>>
       \/ /\ shm[s].refcnt = 1 /\ refcount[g] = 0
          /\ panic' = "kfree: freeing page with non-positive refcount"
          /\ UNCHANGED <<freelist, refcount, mem, shm>>
       \/ /\ shm[s].refcnt = 1 /\ refcount[g] > 0
          /\ refcount' = [refcount EXCEPT ![g] = @ - 1]
          /\ freelist' = IF refcount[g] = 1 THEN freelist \cup {g} ELSE freelist
          /\ mem' = IF refcount[g] = 1 THEN [mem EXCEPT ![g] = Junk] ELSE mem
          /\ shm' = [shm EXCEPT ![s] = Empty]
          /\ UNCHANGED panic
    /\ UNCHANGED <<pt, pagetable, sz, th>>

ShmNext ==
    \/ Next /\ UNCHANGED shm
    \/ panic = "none" /\ \E p \in Proc, key \in Key :
         shm_create(p, key) \/ shm_get(p, key) \/ shm_close(p, key)

ShmSpec == ShmInit /\ [][ShmNext]_shmvars

-----------------------------------------------------------------------------
(* What the code's assertions and the README say, and the code does not do.  *)

\* kalloc.c: "ref_dec: decrementing non-positive refcount" is an error that
\* does not happen, whichever processes map a segment and exit.
SegmentNoPanic == panic = "none"
=============================================================================
