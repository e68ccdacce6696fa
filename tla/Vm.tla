--------------------------------- MODULE Vm ---------------------------------
(***************************************************************************)
(* User memory with copy-on-write fork: the page allocator and its         *)
(* reference counts (kernel/kalloc.c), the user page tables                *)
(* (kernel/vm.c), and the operations of kernel/proc.c, kernel/exec.c and   *)
(* kernel/trap.c that build, share, copy and tear them down.               *)
(*                                                                         *)
(* Every process runs on a CPU of its own; th[p] is the state of p's       *)
(* kernel thread.  One step is one critical section of kmem.lock or        *)
(* ref.lock, or a piece of code that touches nothing shared.  Sizes and    *)
(* addresses count pages.  A page table is an element of PT: the pages     *)
(* that hold its nodes and the trapframe are not elements of Page, so a    *)
(* failed allocation of a node is a choice that an empty free list allows. *)
(***************************************************************************)
EXTENDS Naturals, FiniteSets

CONSTANTS Proc,   \* the slots of proc[NPROC]
          PT,     \* page tables
          Page,   \* physical pages that hold user memory
          NVA,    \* pages of user address space (MAXVA / PGSIZE)
          Val,    \* what a user may store in a page
          Zero,   \* a page cleared by memset(mem, 0, PGSIZE)
          Junk,   \* the fill of kalloc() and kfree()
          Image,  \* the flags of each page of a program that exec loads
          ImageSize, \* its pages: text and data, the guard, the stack
          None    \* a null pointer, an invalid PTE

Flags == SUBSET {"W", "U", "X"}
PTE == [pa : Page, flags : Flags]

ASSUME VmAssumption ==
    /\ NVA \in Nat /\ ImageSize \in 1..NVA
    /\ Image \in [0..ImageSize-1 -> Flags]
    /\ Zero \in Val /\ Junk \notin Val
    /\ None \notin Proc \cup PT \cup Page \cup Val \cup {Junk} \cup PTE
    /\ IsFiniteSet(PT) /\ IsFiniteSet(Proc)

VARIABLES freelist,   \* kmem.freelist
          refcount,   \* ref.refcount
          mem,        \* contents of the physical pages
          pt,         \* the leaf PTEs of each page table
          pagetable,  \* p->pagetable
          sz,         \* p->sz, in pages
          th,         \* the kernel thread of each process
          panic       \* the message of the panic that stopped the kernel

vars == <<freelist, refcount, mem, pt, pagetable, sz, th, panic>>

VA == 0..NVA-1
Contents == Val \cup {Junk}
NoMap == [va \in VA |-> None]

PC == {"unused", "embryo", "zombie", "user", "access", "vmfault",
       "ref_get", "set_w", "cow_alloc", "cow_ref", "cow_copy", "cow_dec",
       "cow_push", "cow_map", "uvmcopy", "ref_inc", "uvmalloc",
       "alloc_ref", "alloc_map", "kfree_dec", "kfree_push", "uvmunmap",
       "unmap_dec", "unmap_push", "unmap_clear", "freewalk"}
Op == {"none", "load", "store", "fork", "fork_bad", "grow", "grow_bad",
       "shrink", "exec", "exec_bad", "exec_commit", "reap"}

Panics == {"none", "ref_dec: decrementing non-positive refcount",
           "kfree: freeing page with non-positive refcount",
           "mappages: remap", "freewalk: leaf"}

\* op and the fields after it are the locals of the system call or trap in
\* progress: tbl the page table it works on, [i, hi) the pages still to do
\* of a loop that began at lo, new a page taken by kalloc(), child np.
Thread == [pc : PC, op : Op, tbl : PT \cup {None}, i : 0..NVA, lo : 0..NVA,
           hi : 0..NVA, new : Page \cup {None}, child : Proc \cup {None}]
At(l) == [pc |-> l, op |-> "none", tbl |-> None, i |-> 0, lo |-> 0,
          hi |-> 0, new |-> None, child |-> None]

Pte(p, va) == pt[pagetable[p]][va]
Cur(p) == pt[th[p].tbl][th[p].i]   \* *pte of the loop or fault of thread p
InUse == {pagetable[p] : p \in Proc} \cup {th[p].tbl : p \in Proc}

\* The state at the first return to user space after userinit() and forkret():
\* one process runs a freshly loaded image; every other page is free.
Init == \E p \in Proc, t \in PT, f \in [0..ImageSize-1 -> Page] :
    /\ \A i, j \in 0..ImageSize-1 : i # j => f[i] # f[j]
    /\ freelist = Page \ {f[i] : i \in 0..ImageSize-1}
    /\ refcount = [g \in Page |-> IF g \in freelist THEN 0 ELSE 1]
    /\ mem = [g \in Page |-> IF g \in freelist THEN Junk ELSE Zero]
    /\ pt = [u \in PT |-> [va \in VA |->
               IF u = t /\ va < ImageSize
               THEN [pa |-> f[va], flags |-> Image[va]] ELSE None]]
    /\ pagetable = [q \in Proc |-> IF q = p THEN t ELSE None]
    /\ sz = [q \in Proc |-> IF q = p THEN ImageSize ELSE 0]
    /\ th = [q \in Proc |-> At(IF q = p THEN "user" ELSE "unused")]
    /\ panic = "none"

-----------------------------------------------------------------------------
(* kalloc.c *)

\* kalloc(), first half: pop a page under kmem.lock and fill it with junk.
\* The caller guards against an empty list.
kalloc(p, next) == \E g \in freelist :
    /\ freelist' = freelist \ {g}
    /\ mem' = [mem EXCEPT ![g] = Junk]
    /\ th' = [th EXCEPT ![p].pc = next, ![p].new = g]

\* kalloc(), second half: the reference count is set under ref.lock.
kalloc_ref(p, here, next) ==
    /\ th[p].pc = here
    /\ refcount' = [refcount EXCEPT ![th[p].new] = 1]
    /\ th' = [th EXCEPT ![p].pc = next]
    /\ UNCHANGED <<freelist, mem, pt, pagetable, sz, panic>>

\* Mutant: the page is freed while one reference is left.
ref_dec_early(p, here, g, push, next) ==
    /\ th[p].pc = here /\ refcount[g] > 0
    /\ refcount' = [refcount EXCEPT ![g] = @ - 1]
    /\ th' = [th EXCEPT ![p].pc = IF refcount[g] <= 2 THEN push ELSE next]
    /\ UNCHANGED <<freelist, mem, pt, pagetable, sz, panic>>

\* ref_dec(), and kfree(), which decrements the same count: under ref.lock.
ref_dec(p, here, g, push, next) ==
    /\ th[p].pc = here
    /\ \/ /\ refcount[g] = 0
          /\ panic' = "ref_dec: decrementing non-positive refcount"
          /\ UNCHANGED <<refcount, th>>
       \/ /\ refcount[g] > 0
          /\ refcount' = [refcount EXCEPT ![g] = @ - 1]
          /\ th' = [th EXCEPT ![p].pc = IF refcount[g] = 1 THEN push ELSE next]
          /\ UNCHANGED panic
    /\ UNCHANGED <<freelist, mem, pt, pagetable, sz>>

\* The tail of ref_dec() and kfree(): junk fill, push under kmem.lock.
free_page(p, here, g, next) ==
    /\ th[p].pc = here
    /\ mem' = [mem EXCEPT ![g] = Junk]
    /\ freelist' = freelist \cup {g}
    /\ th' = [th EXCEPT ![p].pc = next]
    /\ UNCHANGED <<refcount, pt, pagetable, sz, panic>>

-----------------------------------------------------------------------------
(* User accesses, page faults (usertrap, vmfault) and copyout. *)

\* The user program executes a load or a store.
Access(p, va, op) ==
    /\ th[p].pc = "user"
    /\ th' = [th EXCEPT ![p].pc = "access", ![p].op = op,
                        ![p].tbl = pagetable[p], ![p].i = va]
    /\ UNCHANGED <<freelist, refcount, mem, pt, pagetable, sz, panic>>

\* What the MMU lets thread p's pending access do.
Permitted(p) == /\ Cur(p) # None
                /\ "U" \in Cur(p).flags
                /\ th[p].op = "store" => "W" \in Cur(p).flags

\* The MMU permits the access: the instruction completes.
Complete(p, v) ==
    /\ th[p].pc = "access" /\ Permitted(p)
    /\ mem' = IF th[p].op = "store" THEN [mem EXCEPT ![Cur(p).pa] = v] ELSE mem
    /\ th' = [th EXCEPT ![p] = At("user")]
    /\ UNCHANGED <<freelist, refcount, pt, pagetable, sz, panic>>

\* The MMU refuses it: usertrap() calls vmfault() with scause 13 or 15.
usertrap(p) ==
    /\ th[p].pc = "access" /\ ~Permitted(p)
    /\ th' = [th EXCEPT ![p].pc = "vmfault"]
    /\ UNCHANGED <<freelist, refcount, mem, pt, pagetable, sz, panic>>

\* vmfault(): an invalid PTE kills the process, a load or a writable PTE
\* returns pa and the instruction is retried, a store goes on to ref_get().
vmfault(p) ==
    /\ th[p].pc = "vmfault"
    /\ \/ /\ Cur(p) = None
          /\ th' = [th EXCEPT ![p] = At("zombie")]
       \/ /\ Cur(p) # None
          /\ th[p].op = "load" \/ "W" \in Cur(p).flags
          /\ th' = [th EXCEPT ![p].pc = "access"]
       \/ /\ Cur(p) # None
          /\ th[p].op = "store" /\ "W" \notin Cur(p).flags
          /\ th' = [th EXCEPT ![p].pc = "ref_get"]
    /\ UNCHANGED <<freelist, refcount, mem, pt, pagetable, sz, panic>>

\* vmfault(): ref_get(pa) > 1 decides between a copy and a plain PTE_W.
ref_get(p) ==
    /\ th[p].pc = "ref_get"
    /\ th' = [th EXCEPT ![p].pc =
                IF refcount[Cur(p).pa] > 1 THEN "cow_alloc" ELSE "set_w"]
    /\ UNCHANGED <<freelist, refcount, mem, pt, pagetable, sz, panic>>

\* Mutant: PTE_W is not set.
set_w_lost(p) ==
    /\ th[p].pc = "set_w"
    /\ th' = [th EXCEPT ![p].pc = "access"]
    /\ UNCHANGED <<freelist, refcount, mem, pt, pagetable, sz, panic>>

\* vmfault(): *pte |= PTE_W.
set_w(p) ==
    /\ th[p].pc = "set_w"
    /\ pt' = [pt EXCEPT ![th[p].tbl][th[p].i].flags = @ \cup {"W"}]
    /\ th' = [th EXCEPT ![p].pc = "access"]
    /\ UNCHANGED <<freelist, refcount, mem, pagetable, sz, panic>>

\* vmfault(): kalloc() for the private copy; usertrap() kills p on failure.
cow_alloc(p) ==
    /\ th[p].pc = "cow_alloc"
    /\ \/ /\ freelist = {}
          /\ th' = [th EXCEPT ![p] = At("zombie")]
          /\ UNCHANGED <<freelist, mem>>
       \/ kalloc(p, "cow_ref")
    /\ UNCHANGED <<refcount, pt, pagetable, sz, panic>>

\* Mutant: the memmove() is left out.
cow_copy_lost(p) ==
    /\ th[p].pc = "cow_copy"
    /\ th' = [th EXCEPT ![p].pc = "cow_dec"]
    /\ UNCHANGED <<freelist, refcount, mem, pt, pagetable, sz, panic>>

\* vmfault(): memmove(mem, pa, PGSIZE).
cow_copy(p) ==
    /\ th[p].pc = "cow_copy"
    /\ mem' = [mem EXCEPT ![th[p].new] = mem[Cur(p).pa]]
    /\ th' = [th EXCEPT ![p].pc = "cow_dec"]
    /\ UNCHANGED <<freelist, refcount, pt, pagetable, sz, panic>>

\* vmfault(): *pte = PA2PTE(mem) | PTE_FLAGS(*pte) | PTE_W.
cow_map(p) ==
    /\ th[p].pc = "cow_map"
    /\ pt' = [pt EXCEPT ![th[p].tbl][th[p].i] =
                [pa |-> th[p].new, flags |-> @.flags \cup {"W"}]]
    /\ th' = [th EXCEPT ![p].pc = "access", ![p].new = None]
    /\ UNCHANGED <<freelist, refcount, mem, pagetable, sz, panic>>

\* copyout() of one page on behalf of p's system call: walkaddr(), or
\* vmfault(.., 0) for a page without PTE_U, finds pa; PTE_W is required.
copyout(p, va, v) ==
    /\ th[p].pc = "user"
    /\ Pte(p, va) # None /\ "W" \in Pte(p, va).flags
    /\ mem' = [mem EXCEPT ![Pte(p, va).pa] = v]
    /\ UNCHANGED <<freelist, refcount, pt, pagetable, sz, th, panic>>

-----------------------------------------------------------------------------
(* kfork() and uvmcopy(). *)

\* kfork(): allocproc() finds an UNUSED slot and an empty page table.
kfork(p, c, t) ==
    /\ th[p].pc = "user" /\ th[c].pc = "unused" /\ t \notin InUse
    /\ pagetable' = [pagetable EXCEPT ![c] = t]
    /\ th' = [th EXCEPT ![c] = At("embryo"),
                        ![p].pc = "uvmcopy", ![p].op = "fork",
                        ![p].tbl = t, ![p].child = c]
    /\ UNCHANGED <<freelist, refcount, mem, pt, sz, panic>>

\* uvmcopy(): no PTE or an invalid one is skipped.
uvmcopy_skip(p) ==
    /\ th[p].pc = "uvmcopy" /\ th[p].i < sz[p] /\ Pte(p, th[p].i) = None
    /\ th' = [th EXCEPT ![p].i = @ + 1]
    /\ UNCHANGED <<freelist, refcount, mem, pt, pagetable, sz, panic>>

\* uvmcopy(): map the page read-only into the child, clear PTE_W in the
\* parent.  mappages() panics on a valid PTE.
uvmcopy_map(p) ==
    /\ th[p].pc = "uvmcopy" /\ th[p].i < sz[p] /\ Pte(p, th[p].i) # None
    /\ \/ /\ Cur(p) # None
          /\ panic' = "mappages: remap"
          /\ UNCHANGED <<pt, th>>
       \/ /\ Cur(p) = None
          /\ LET ro == [Pte(p, th[p].i) EXCEPT !.flags = @ \ {"W"}]
             IN  pt' = [pt EXCEPT ![th[p].tbl][th[p].i] = ro,
                                  ![pagetable[p]][th[p].i] = ro]
          /\ th' = [th EXCEPT ![p].pc = "ref_inc"]
          /\ UNCHANGED panic
    /\ UNCHANGED <<freelist, refcount, mem, pagetable, sz>>

\* uvmcopy(): mappages() found no memory for a node of the child's table;
\* uvmunmap(new, 0, i/PGSIZE, 1), and kfork() calls freeproc().
uvmcopy_bad(p) ==
    /\ th[p].pc = "uvmcopy" /\ th[p].i < sz[p] /\ Pte(p, th[p].i) # None
    /\ freelist = {}
    /\ th' = [th EXCEPT ![p].pc = "uvmunmap", ![p].op = "fork_bad",
                        ![p].i = 0, ![p].hi = th[p].i]
    /\ UNCHANGED <<freelist, refcount, mem, pt, pagetable, sz, panic>>

\* Mutant: the child's reference is not counted.
ref_inc_lost(p) ==
    /\ th[p].pc = "ref_inc"
    /\ th' = [th EXCEPT ![p].pc = "uvmcopy", ![p].i = @ + 1]
    /\ UNCHANGED <<freelist, refcount, mem, pt, pagetable, sz, panic>>

\* ref_inc(pa), and on to the next page.
ref_inc(p) ==
    /\ th[p].pc = "ref_inc"
    /\ refcount' = [refcount EXCEPT ![Cur(p).pa] = @ + 1]
    /\ th' = [th EXCEPT ![p].pc = "uvmcopy", ![p].i = @ + 1]
    /\ UNCHANGED <<freelist, mem, pt, pagetable, sz, panic>>

\* kfork(): np->sz = p->sz and the child becomes RUNNABLE.
kfork_done(p) ==
    /\ th[p].pc = "uvmcopy" /\ th[p].i >= sz[p]
    /\ sz' = [sz EXCEPT ![th[p].child] = sz[p]]
    /\ th' = [th EXCEPT ![th[p].child] = At("user"), ![p] = At("user")]
    /\ UNCHANGED <<freelist, refcount, mem, pt, pagetable, panic>>

-----------------------------------------------------------------------------
(* uvmalloc(), for sbrk and exec. *)

\* sys_sbrk(SBRK_EAGER) with n > 0: growproc() calls uvmalloc().
growproc(p, n) ==
    /\ th[p].pc = "user" /\ n > 0 /\ sz[p] + n <= NVA
    /\ th' = [th EXCEPT ![p].pc = "uvmalloc", ![p].op = "grow",
                        ![p].tbl = pagetable[p], ![p].i = sz[p],
                        ![p].lo = sz[p], ![p].hi = sz[p] + n]
    /\ UNCHANGED <<freelist, refcount, mem, pt, pagetable, sz, panic>>

\* sys_sbrk(SBRK_LAZY) with n > 0: only the size grows.
sbrk_lazy(p, n) ==
    /\ th[p].pc = "user" /\ n > 0 /\ sz[p] + n <= NVA
    /\ sz' = [sz EXCEPT ![p] = @ + n]
    /\ UNCHANGED <<freelist, refcount, mem, pt, pagetable, th, panic>>

\* kexec(): proc_pagetable() for the new image, then uvmalloc() of its pages.
kexec(p, t) ==
    /\ th[p].pc = "user" /\ t \notin InUse
    /\ th' = [th EXCEPT ![p].pc = "uvmalloc", ![p].op = "exec",
                        ![p].tbl = t, ![p].hi = ImageSize]
    /\ UNCHANGED <<freelist, refcount, mem, pt, pagetable, sz, panic>>

\* uvmdealloc() of what the failed call has mapped: [lo, i).
Undo(p, next) ==
    th' = [th EXCEPT ![p].pc = next,
                     ![p].op = IF @ = "exec" THEN "exec_bad" ELSE "grow_bad",
                     ![p].i = th[p].lo, ![p].hi = th[p].i]

\* uvmalloc(): kalloc() of the next page, or the failure path.
uvmalloc(p) ==
    /\ th[p].pc = "uvmalloc" /\ th[p].i < th[p].hi
    /\ \/ freelist = {} /\ Undo(p, "uvmunmap") /\ UNCHANGED <<freelist, mem>>
       \/ kalloc(p, "alloc_ref")
    /\ UNCHANGED <<refcount, pt, pagetable, sz, panic>>

\* uvmalloc(): memset and mappages().  exec's guard page is mapped like the
\* stack and loses PTE_U by uvmclear() before the table is installed.
uvmalloc_map(p) ==
    /\ th[p].pc = "alloc_map"
    /\ \/ /\ Cur(p) # None
          /\ panic' = "mappages: remap"
          /\ UNCHANGED <<pt, th>>
       \/ /\ Cur(p) = None
          /\ pt' = [pt EXCEPT ![th[p].tbl][th[p].i] =
                     [pa |-> th[p].new,
                      flags |-> IF th[p].op = "exec" THEN Image[th[p].i]
                                                     ELSE {"W", "U"}]]
          /\ th' = [th EXCEPT ![p].pc = "uvmalloc", ![p].i = @ + 1,
                              ![p].new = None]
          /\ UNCHANGED panic
    /\ mem' = [mem EXCEPT ![th[p].new] = Zero]
    /\ UNCHANGED <<freelist, refcount, pagetable, sz>>

\* uvmalloc(): mappages() found no memory for a node: kfree(mem) and undo.
uvmalloc_bad(p) ==
    /\ th[p].pc = "alloc_map" /\ freelist = {}
    /\ Undo(p, "kfree_dec")
    /\ UNCHANGED <<freelist, refcount, mem, pt, pagetable, sz, panic>>

\* growproc(): p->sz = sz.
growproc_done(p) ==
    /\ th[p].pc = "uvmalloc" /\ th[p].op = "grow" /\ th[p].i >= th[p].hi
    /\ sz' = [sz EXCEPT ![p] = th[p].hi]
    /\ th' = [th EXCEPT ![p] = At("user")]
    /\ UNCHANGED <<freelist, refcount, mem, pt, pagetable, panic>>

\* kexec(): a malformed file or an argument that does not fit: goto bad.
kexec_bad(p) ==
    /\ th[p].pc = "uvmalloc" /\ th[p].op = "exec"
    /\ Undo(p, "uvmunmap")
    /\ UNCHANGED <<freelist, refcount, mem, pt, pagetable, sz, panic>>

\* kexec(): commit to the user image, then proc_freepagetable(old, oldsz).
kexec_commit(p) ==
    /\ th[p].pc = "uvmalloc" /\ th[p].op = "exec" /\ th[p].i >= th[p].hi
    /\ pagetable' = [pagetable EXCEPT ![p] = th[p].tbl]
    /\ sz' = [sz EXCEPT ![p] = ImageSize]
    /\ th' = [th EXCEPT ![p].pc = "uvmunmap", ![p].op = "exec_commit",
                        ![p].tbl = pagetable[p],
                        ![p].i = 0, ![p].lo = 0, ![p].hi = sz[p]]
    /\ UNCHANGED <<freelist, refcount, mem, pt, panic>>

-----------------------------------------------------------------------------
(* uvmunmap(), for sbrk, exit and the failure paths. *)

\* sys_sbrk() with n < 0: growproc() calls uvmdealloc().
growproc_shrink(p, n) ==
    /\ th[p].pc = "user" /\ n > 0 /\ n <= sz[p]
    /\ th' = [th EXCEPT ![p].pc = "uvmunmap", ![p].op = "shrink",
                        ![p].tbl = pagetable[p], ![p].i = sz[p] - n,
                        ![p].lo = sz[p] - n, ![p].hi = sz[p]]
    /\ UNCHANGED <<freelist, refcount, mem, pt, pagetable, sz, panic>>

\* kexit(): the memory stays until the parent waits.
kexit(p) ==
    /\ th[p].pc = "user"
    /\ th' = [th EXCEPT ![p] = At("zombie")]
    /\ UNCHANGED <<freelist, refcount, mem, pt, pagetable, sz, panic>>

\* kwait(): freeproc() of a zombie, run by whoever reaps it (that the reaper
\* is its parent is Proc's concern) in the steps of thread p.
freeproc(p) ==
    /\ th[p].pc = "zombie"
    /\ th' = [th EXCEPT ![p].pc = "uvmunmap", ![p].op = "reap",
                        ![p].tbl = pagetable[p], ![p].hi = sz[p]]
    /\ UNCHANGED <<freelist, refcount, mem, pt, pagetable, sz, panic>>

\* uvmunmap(): an invalid PTE is skipped, a valid one goes to ref_dec().
uvmunmap(p) ==
    /\ th[p].pc = "uvmunmap" /\ th[p].i < th[p].hi
    /\ th' = IF Cur(p) = None THEN [th EXCEPT ![p].i = @ + 1]
                              ELSE [th EXCEPT ![p].pc = "unmap_dec"]
    /\ UNCHANGED <<freelist, refcount, mem, pt, pagetable, sz, panic>>

\* uvmunmap(): *pte = 0.
unmap_clear(p) ==
    /\ th[p].pc = "unmap_clear"
    /\ pt' = [pt EXCEPT ![th[p].tbl][th[p].i] = None]
    /\ th' = [th EXCEPT ![p].pc = "uvmunmap", ![p].i = @ + 1]
    /\ UNCHANGED <<freelist, refcount, mem, pagetable, sz, panic>>

\* uvmunmap() returns: sbrk sets p->sz, the rest goes on to freewalk().
uvmunmap_done(p) ==
    /\ th[p].pc = "uvmunmap" /\ th[p].i >= th[p].hi
    /\ th' = IF th[p].op \in {"shrink", "grow_bad"}
             THEN [th EXCEPT ![p] = At("user")]
             ELSE [th EXCEPT ![p].pc = "freewalk"]
    /\ sz' = IF th[p].op = "shrink" THEN [sz EXCEPT ![p] = th[p].lo] ELSE sz
    /\ UNCHANGED <<freelist, refcount, mem, pt, pagetable, panic>>

\* freewalk() panics on a leaf; then the process slot is released.
freewalk(p) ==
    /\ th[p].pc = "freewalk"
    /\ LET gone == CASE th[p].op = "reap" -> {p}
                     [] th[p].op = "fork_bad" -> {th[p].child}
                     [] OTHER -> {}
       IN \/ /\ pt[th[p].tbl] # NoMap
             /\ panic' = "freewalk: leaf"
             /\ UNCHANGED <<pagetable, sz, th>>
          \/ /\ pt[th[p].tbl] = NoMap
             /\ pagetable' = [q \in Proc |-> IF q \in gone THEN None ELSE pagetable[q]]
             /\ sz' = [q \in Proc |-> IF q \in gone THEN 0 ELSE sz[q]]
             /\ th' = [q \in Proc |-> IF q \in gone THEN At("unused")
                                      ELSE IF q = p THEN At("user") ELSE th[q]]
             /\ UNCHANGED panic
    /\ UNCHANGED <<freelist, refcount, mem, pt>>

-----------------------------------------------------------------------------

Fault(p) ==
    \/ usertrap(p) \/ vmfault(p) \/ ref_get(p) \/ set_w(p)
    \/ cow_alloc(p) \/ kalloc_ref(p, "cow_ref", "cow_copy") \/ cow_copy(p)
    \/ ref_dec(p, "cow_dec", Cur(p).pa, "cow_push", "cow_map")
    \/ free_page(p, "cow_push", Cur(p).pa, "cow_map") \/ cow_map(p)

Fork(p) ==
    \/ uvmcopy_skip(p) \/ uvmcopy_map(p) \/ uvmcopy_bad(p)
    \/ ref_inc(p) \/ kfork_done(p)

Alloc(p) ==
    \/ uvmalloc(p) \/ kalloc_ref(p, "alloc_ref", "alloc_map")
    \/ uvmalloc_map(p) \/ uvmalloc_bad(p)
    \/ ref_dec(p, "kfree_dec", th[p].new, "kfree_push", "uvmunmap")
    \/ free_page(p, "kfree_push", th[p].new, "uvmunmap")
    \/ growproc_done(p) \/ kexec_bad(p) \/ kexec_commit(p)

Unmap(p) ==
    \/ uvmunmap(p) \/ unmap_clear(p) \/ uvmunmap_done(p) \/ freewalk(p)
    \/ ref_dec(p, "unmap_dec", Cur(p).pa, "unmap_push", "unmap_clear")
    \/ free_page(p, "unmap_push", Cur(p).pa, "unmap_clear")

\* The steps that the kernel (or the MMU, Complete) takes on its own.
Kernel(p) ==
    \/ \E v \in Val : Complete(p, v)
    \/ Fault(p) \/ Fork(p) \/ Alloc(p) \/ Unmap(p)

\* The steps that a user program, or the parent that reaps, decides on.
User(p) ==
    \/ \E va \in VA, op \in {"load", "store"} : Access(p, va, op)
    \/ \E va \in VA, v \in Val : copyout(p, va, v)
    \/ \E c \in Proc, t \in PT : kfork(p, c, t)
    \/ \E n \in 1..NVA : growproc(p, n) \/ sbrk_lazy(p, n) \/ growproc_shrink(p, n)
    \/ \E t \in PT : kexec(p, t)
    \/ kexit(p) \/ freeproc(p)

Next == panic = "none" /\ \E p \in Proc : User(p) \/ Kernel(p)

Spec == Init /\ [][Next]_vars
-----------------------------------------------------------------------------
(* Safety. *)

\* Every variable holds a value of its C type.
TypeOK ==
    /\ freelist \subseteq Page
    /\ refcount \in [Page -> Nat]
    /\ mem \in [Page -> Contents]
    /\ pt \in [PT -> [VA -> PTE \cup {None}]]
    /\ pagetable \in [Proc -> PT \cup {None}]
    /\ sz \in [Proc -> 0..NVA]
    /\ th \in [Proc -> Thread]
    /\ panic \in Panics

\* The PTEs that are not in the count: uvmcopy() has mapped the page and not
\* yet called ref_inc(), or ref_dec() has returned and the PTE still stands.
Uncounted(t, va) == \E p \in Proc :
    /\ th[p].tbl = t /\ th[p].i = va
    /\ th[p].pc \in {"ref_inc", "cow_push", "cow_map", "unmap_push", "unmap_clear"}

\* The PTEs that hold a reference to page g.
Mappers(g) == {m \in PT \X VA : /\ pt[m[1]][m[2]] # None
                                /\ pt[m[1]][m[2]].pa = g
                                /\ ~Uncounted(m[1], m[2])}

\* The threads that hold the reference kalloc() gave them to page g.
Owners(g) == {p \in Proc :
    /\ th[p].new = g
    /\ th[p].pc \in {"cow_copy", "cow_dec", "cow_push", "cow_map",
                     "alloc_map", "kfree_dec"}}

\* Thread p has page g in its hands with no reference counted: it was popped
\* from the free list, or is about to be pushed.
InTransit(p, g) ==
    \/ th[p].pc \in {"cow_ref", "alloc_ref", "kfree_push"} /\ th[p].new = g
    \/ th[p].pc \in {"cow_push", "unmap_push"} /\ Cur(p).pa = g

\* ref.refcount[g] is the number of PTEs and kernel threads that refer to g,
\* whatever forks, faults, exits, execs and sbrks are half done on other CPUs
\* (ref_inc, ref_dec, kalloc against uvmcopy, vmfault, uvmunmap).
RefcountExact == \A g \in Page :
    refcount[g] = Cardinality(Mappers(g)) + Cardinality(Owners(g))

\* A page without references is on the free list or in the hands of exactly
\* one thread, never both: kfree() and ref_dec() never free a page twice or
\* lose it, and a page in use is never handed out by kalloc().
FreeExact == \A g \in Page :
    /\ refcount[g] = 0 <=> g \in freelist \/ \E p \in Proc : InTransit(p, g)
    /\ g \in freelist => \A p \in Proc : ~InTransit(p, g)
    /\ \A p, q \in Proc : InTransit(p, g) /\ InTransit(q, g) => p = q

-----------------------------------------------------------------------------
(* Copy-on-write implements private memory. *)

Running(p) == /\ th[p].pc \notin {"unused", "embryo", "zombie"}
              /\ th[p].op # "reap"

\* What process p reads at va.  In vmfault() the private copy stands for the
\* page once ref_dec() has given up the shared one; in uvmunmap() a page is
\* gone once its reference is.
View(p, va) ==
    IF va >= sz[p] \/ Pte(p, va) = None THEN None
    ELSE IF th[p].pc \in {"cow_push", "cow_map"} /\ th[p].i = va THEN mem[th[p].new]
    ELSE IF Uncounted(pagetable[p], va) THEN None
    ELSE mem[Pte(p, va).pa]

Private == INSTANCE PrivateMemory WITH
    space <- [p \in Proc |-> IF Running(p) THEN [va \in VA |-> View(p, va)] ELSE None]

\* Sharing pages is invisible: kfork() behaves as if it copied all memory at
\* once, and no process ever sees another one's stores, the allocator's junk
\* or a page in the middle of a copy.  And none of the kernel's own assertions fails
\* on the way: ref_dec() of a count of 0, mappages() over a valid PTE, freewalk()
\* over a leaf.
PrivateMemorySpec == Private!Spec /\ [](panic = "none")
-----------------------------------------------------------------------------
(* Liveness.  The timer interrupt and the scheduler keep every runnable      *)
(* thread moving, and no step of this module waits for another one.          *)

FairSpec == Spec /\ \A p \in Proc : WF_vars(Kernel(p))

\* An access to a page mapped for user mode is not faulted on forever:
\* vmfault() leaves a PTE that lets the retried instruction through, or
\* usertrap() kills the process.
AccessCompletes == \A p \in Proc :
    (th[p].pc = "access" /\ Cur(p) # None /\ "U" \in Cur(p).flags)
        ~> th[p].pc \in {"user", "zombie"}

-----------------------------------------------------------------------------
(* What comments and tests say, and the code does not do. *)

\* sysproc.c (sys_sbrk): if the process uses lazily allocated memory,
\* vmfault() allocates it; so a fault below p->sz kills only without memory.
LazyPagesAllocated ==
    [][\A p \in Proc : /\ th[p].pc = "vmfault" /\ th'[p].pc = "zombie"
                       /\ th[p].i < sz[p]
                       => freelist = {}]_vars

\* vm.c (copyout): the PTE_W test is there for read-only text; other memory
\* of a running process takes what a system call writes to it.
CopyoutRefusesTextOnly == \A p \in Proc, va \in VA :
    th[p].pc = "user" /\ Pte(p, va) # None /\ "W" \notin Pte(p, va).flags
        => "X" \in Pte(p, va).flags
=============================================================================
