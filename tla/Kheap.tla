------------------------------- MODULE Kheap --------------------------------
(***************************************************************************)
(* The kernel heap of kheap.c: one list of blocks, each a header followed   *)
(* by its memory, split by kmalloc and merged again by kfree, grown by      *)
(* whole pages that the physical memory manager hands out and vmm_map maps. *)
(*                                                                         *)
(* An address is an offset from HEAP_START in units of 8 bytes.  kmalloc    *)
(* and kfree take no lock: every task in them moves on its own, one loop    *)
(* iteration or one call at a time, and an interrupt (clean_up in           *)
(* scheduler_tick) frees memory between any two steps of the others.  The   *)
(* growth of the heap is one step all the same, although it takes no lock   *)
(* either: what is claimed of it is claimed for one task at a time.  The    *)
(* tables that vmm_map needs on the way are those of PageTables.            *)
(***************************************************************************)
EXTENDS Integers, FiniteSets

CONSTANTS
  PAGE_SIZE,      \* of a page,
  HDR,            \* of a block_header_t,
  ALIGN,          \* and the granule of kheap_alloc, all in units
  NULL,
  Frames,         \* the physical pages init_pmm found, by number
  Pages,          \* bound: the heap's virtual pages
  Tasks,          \* the threads that use the heap
  Irq,            \* those of them that are the timer's interrupt
  Sizes,          \* bound: the sizes asked for
  KernelProcess,  \* the size of a process_t
  MaxCalls        \* bound: calls of kmalloc and kfree

ASSUME UnitsAssumption ==
  /\ PAGE_SIZE \in Nat /\ HDR \in Nat \ {0} /\ ALIGN \in Nat \ {0}
  /\ Sizes \subseteq Nat \ {0} /\ KernelProcess \in Nat \ {0}
  /\ HDR + KernelProcess + ALIGN + HDR < PAGE_SIZE
ASSUME FramesAssumption ==
  0 \in Frames /\ Frames \subseteq Nat /\ IsFiniteSet(Frames) /\ NULL \notin Nat
ASSUME PagesAssumption == Pages \in Nat \ {0}
ASSUME TasksAssumption == Irq \subseteq Tasks
ASSUME MaxCallsAssumption == MaxCalls \in Nat

VARIABLES
  hdr,           \* the block_header_t at each address
  heap_current,  \* where the heap grows
  bitmap,        \* the frames in use (pmm_bitmap)
  vmap,          \* the frame each page of the heap is mapped to
  live,          \* the allocations handed out and not freed, apart from
  lost,          \* the ones whose page was mapped over
  pc, ptr, req,  \* each task's place, "current" and rounded size
  calls,
  garbage        \* the first header is memory that nobody has written

vars == <<hdr, heap_current, bitmap, vmap, live, lost, pc, ptr, req, calls, garbage>>

Addrs == 0 .. Pages * PAGE_SIZE - 1

-----------------------------------------------------------------------------
(* Faulty variants of definitions below, named by what is wrong with them.  *)

size_with_header(b, n)   == b.size - n
any_free_block(b, n)     == b.free
never_merges(b)          == FALSE
heap_end_kept(n)         == heap_current
frame_not_marked(taken)  == bitmap

-----------------------------------------------------------------------------
Blank == [size |-> 0, free |-> FALSE, next |-> NULL]

Rounded(n) == ((n + ALIGN - 1) \div ALIGN) * ALIGN

\* The size of the block split_block cuts off block b behind n units.
Remainder(b, n) == b.size - n - HDR

\* split_block of the block at a.
split_block(h, a, n) ==
  LET b == h[a] IN
  IF b.size \leq n + HDR THEN h
  ELSE [h EXCEPT ![a + HDR + n] = [size |-> Remainder(b, n), free |-> TRUE, next |-> b.next],
                 ![a] = [b EXCEPT !.size = n, !.next = a + HDR + n]]

\* init_kheap, and the kernel process that init_processes allocates before
\* anything else and that nobody frees.
KernelAlloc == [addr |-> 0, size |-> Rounded(KernelProcess), by |-> NULL]

Init ==
  /\ LET first == [size |-> PAGE_SIZE - HDR, free |-> TRUE, next |-> NULL]
         split == split_block([a \in Addrs |-> IF a = 0 THEN first ELSE Blank], 0, KernelAlloc.size)
     IN hdr = [split EXCEPT ![0].free = FALSE]
  /\ heap_current = 0
  /\ bitmap = {0}
  /\ vmap = [p \in 0 .. Pages - 1 |-> IF p = 0 THEN 0 ELSE NULL]
  /\ live = {KernelAlloc} /\ lost = {}
  /\ pc = [t \in Tasks |-> "idle"]
  /\ ptr = [t \in Tasks |-> NULL]
  /\ req = [t \in Tasks |-> 0]
  /\ calls = 0 /\ garbage = FALSE

\* Task t is at l; the others stand still while an interrupt runs.
At(t, l) == pc[t] = l /\ ~garbage /\ \A i \in Irq \ {t} : pc[i] = "idle"

Goto(t, l) == pc' = [pc EXCEPT ![t] = l]

-----------------------------------------------------------------------------
kmalloc(t, n) ==
  /\ At(t, "idle") /\ t \notin Irq /\ calls < MaxCalls
  /\ calls' = calls + 1
  /\ req' = [req EXCEPT ![t] = Rounded(n)]
  /\ ptr' = [ptr EXCEPT ![t] = 0]
  /\ Goto(t, "scan")
  /\ UNCHANGED <<hdr, heap_current, bitmap, vmap, live, lost, garbage>>

Fits(b, n) == b.free /\ b.size >= n

\* One iteration of kheap_alloc's loop.
Scan(t) ==
  LET b == hdr[ptr[t]] IN
  /\ At(t, "scan")
  /\ CASE Fits(b, req[t])  -> Goto(t, "split") /\ UNCHANGED ptr
       [] ~Fits(b, req[t]) /\ b.next = NULL  -> Goto(t, "grow") /\ UNCHANGED ptr
       [] OTHER -> ptr' = [ptr EXCEPT ![t] = b.next] /\ UNCHANGED pc
  /\ UNCHANGED <<hdr, heap_current, bitmap, vmap, live, lost, req, calls, garbage>>

Split(t) ==
  /\ At(t, "split")
  /\ hdr' = split_block(hdr, ptr[t], req[t])
  /\ Goto(t, "mark")
  /\ UNCHANGED <<heap_current, bitmap, vmap, live, lost, ptr, req, calls, garbage>>

Alloc(t, a) == [addr |-> a, size |-> req[t], by |-> t]

Mark(t) ==
  /\ At(t, "mark")
  /\ hdr' = [hdr EXCEPT ![ptr[t]].free = FALSE]
  /\ live' = live \cup {Alloc(t, ptr[t])}
  /\ Goto(t, "idle")
  /\ UNCHANGED <<heap_current, bitmap, vmap, lost, ptr, req, calls, garbage>>

\* The pages that hold n units and a header.
PagesFor(n) == (n + HDR + PAGE_SIZE - 1) \div PAGE_SIZE

\* pmm_alloc_page, called k times: the k lowest clear bits.
Lowest(k) ==
  { f \in Frames \ bitmap : Cardinality({ g \in Frames \ bitmap : g < f }) < k }

Marked(taken) == bitmap \cup taken

\* vmm_map of consecutive pages from page p on to the frames taken.
Mapped(p, taken) ==
  [q \in DOMAIN vmap |->
     IF \E f \in taken : Cardinality({ g \in taken : g < f }) = q - p
     THEN CHOOSE f \in taken : Cardinality({ g \in taken : g < f }) = q - p
     ELSE vmap[q]]

Grown(n) == heap_current + PagesFor(n) * PAGE_SIZE

\* request_more_memory, and the link to the last block.  init_kheap leaves
\* heap_current at the page it has mapped, so the first growth maps a new
\* frame over the headers and the allocations of that page.  When memory runs
\* out half way the pages stay mapped and heap_current where it was.
Grow(t) ==
  LET base  == heap_current
      taken == Lowest(PagesFor(req[t]))
      over  == base = 0 /\ taken # {}
      left  == IF over THEN {} ELSE live
      kept  == [a \in Addrs |-> IF over /\ a < PAGE_SIZE THEN Blank ELSE hdr[a]]
      block == [size |-> PagesFor(req[t]) * PAGE_SIZE - HDR, free |-> FALSE, next |-> NULL]
  IN /\ At(t, "grow")
     /\ Grown(req[t]) \leq Pages * PAGE_SIZE
     /\ bitmap' = Marked(taken)
     /\ vmap' = Mapped(base \div PAGE_SIZE, taken)
     /\ lost' = IF over THEN live ELSE lost
     /\ Goto(t, "idle")
     /\ IF Cardinality(taken) < PagesFor(req[t])
        THEN hdr' = kept /\ live' = left /\ garbage' = over /\ UNCHANGED heap_current
        ELSE /\ hdr' = [[kept EXCEPT ![base] = block] EXCEPT ![ptr[t]].next = base]
             /\ heap_current' = Grown(req[t])
             /\ live' = left \cup {Alloc(t, base)}
             /\ UNCHANGED garbage
     /\ UNCHANGED <<ptr, req, calls>>

\* kfree of an allocation.  Those of the first page that a growth maps over
\* are the kernel's process and its first threads, which are never freed.
kfree(t, a) ==
  /\ At(t, "idle") /\ calls < MaxCalls
  /\ a \in live \ {KernelAlloc}
  /\ calls' = calls + 1
  /\ live' = live \ {a}
  /\ hdr' = [hdr EXCEPT ![a.addr].free = TRUE]
  /\ ptr' = [ptr EXCEPT ![t] = 0]
  /\ Goto(t, "merge")
  /\ UNCHANGED <<heap_current, bitmap, vmap, lost, req, garbage>>

\* Whether kheap_free merges a block with the next one, and the result.
Mergeable(b) == b.free /\ b.next # NULL /\ hdr[b.next].free

Merged(a) ==
  LET n == hdr[hdr[a].next]
  IN [hdr EXCEPT ![a].size = @ + HDR + n.size, ![a].next = n.next]

\* One iteration of kheap_free's loop.
Merge(t) ==
  LET b == hdr[ptr[t]] IN
  /\ At(t, "merge")
  /\ IF Mergeable(b) THEN hdr' = Merged(ptr[t]) /\ UNCHANGED <<ptr, pc>>
     ELSE /\ ptr' = [ptr EXCEPT ![t] = b.next]
          /\ IF b.next = NULL THEN Goto(t, "idle") ELSE UNCHANGED pc
          /\ UNCHANGED hdr
  /\ UNCHANGED <<heap_current, bitmap, vmap, live, lost, req, calls, garbage>>

Step(t) == Scan(t) \/ Split(t) \/ Mark(t) \/ Grow(t) \/ Merge(t)

Next ==
  \E t \in Tasks :
    \/ Step(t)
    \/ \E n \in Sizes : kmalloc(t, n)
    \/ \E a \in live : kfree(t, a)

Spec == Init /\ [][Next]_vars

\* A task inside kmalloc or kfree keeps executing.
FairSpec == Spec /\ \A t \in Tasks : WF_vars(Step(t))

-----------------------------------------------------------------------------
\* The blocks from address a on, as long as the list goes up.
Chain[a \in Addrs] ==
  LET n == hdr[a].next IN
  {a} \cup IF n = NULL THEN {} ELSE IF n \leq a THEN {} ELSE Chain[n]

Blocks == IF garbage THEN {} ELSE Chain[0]

HeapEnd == IF heap_current = 0 THEN PAGE_SIZE ELSE heap_current

Idle == ~garbage /\ \A t \in Tasks : pc[t] = "idle"

\* The blocks tile the heap: each one in the list ends where the next begins
\* and the last where the heap ends.  kheap_free relies on it when it merges
\* neighbours of the list as if they were neighbours in memory.
BlocksTile ==
  \A a \in Blocks :
    LET end == a + HDR + hdr[a].size
    IN IF hdr[a].next = NULL THEN end = HeapEnd ELSE end = hdr[a].next

\* Between calls the blocks in use are exactly the allocations that have not
\* been freed, each at least as large as what was asked for.
AllocatedExact ==
  Idle =>
    /\ { a \in Blocks : ~hdr[a].free } = { l.addr : l \in live }
    /\ \A l \in live : hdr[l.addr].size >= l.size

\* Between calls no two neighbours are free: kheap_free leaves no memory in
\* pieces that together would satisfy a request.
Coalesced ==
  Idle => \A a \in Blocks :
            hdr[a].free /\ hdr[a].next # NULL => ~hdr[hdr[a].next].free

\* Every page of the heap has a frame of its own, marked as used.
FramesDistinct ==
  /\ \A p \in DOMAIN vmap : p * PAGE_SIZE < HeapEnd => vmap[p] \in bitmap
  /\ \A p, q \in DOMAIN vmap : vmap[p] # NULL /\ vmap[p] = vmap[q] => p = q

\* Every call of kmalloc and kfree comes to an end.
CallsReturn == \A t \in Tasks : pc[t] # "idle" ~> (pc[t] = "idle" \/ garbage)

\* kheap.h declares kmalloc __attribute__((malloc)): the memory it returns
\* overlaps no other allocation.
NoAlias ==
  \A x, y \in live \cup lost :
    x # y => x.addr + HDR + x.size \leq y.addr \/ y.addr + HDR + y.size \leq x.addr
=============================================================================
