-------------------------------- MODULE Slab --------------------------------
(***************************************************************************)
(* The slab allocator of slab.c on top of the page frames of pmm.c: caches  *)
(* of objects of one size, each with a list of partly used and one of full  *)
(* slabs.  A slab is a page whose header is followed by its objects; free   *)
(* objects are linked through their first word.                             *)
(*                                                                         *)
(* A call is one step: the module says what happens when calls follow one   *)
(* another.  slab.c takes no lock, and vnode_alloc and vnode_free call it    *)
(* without one; what becomes of two calls that interleave is not modelled.  *)
(* Addresses are numbers of pages, modulo the AddressPages of the machine.  *)
(***************************************************************************)
EXTENDS Integers, Sequences, FiniteSets, SequencesExt, Null

CONSTANTS
  Caches,        \* the caches the kernel creates,
  ObjectSize,    \* the size each asks for,
  PAGE_SIZE,     \* the size of a page
  HDR,           \* and of a slab_t, in bytes
  ALIGN,         \* sizeof(void *)
  AddressPages,  \* 2^52, the pages of the address space
  Hhdm,          \* g_hhdm_offset, where physical memory is mapped
  MemoryMap,     \* g_memmap, a list of [usable, base, length] in pages
  MaxHeap        \* bound: objects that kmalloc provides instead

VARIABLES
  cache,     \* each cache's [exists, partial, full], lists of slabs
  slab,      \* the slab_t in each page that has the magic number, or NULL
  mapped,    \* the pages that slab_init mapped and nobody has unmapped
  bitmap,    \* the frames in use
  live,      \* the objects handed out: <<page, index>>, or <<NULL, n>> from kmalloc
  owner      \* the cache of each of them

slabVars == <<cache, slab, mapped, bitmap, live, owner>>

-----------------------------------------------------------------------------
(* Faulty variants of definitions below, named by what is wrong with them.  *)

left_in_full(c, p)     == cache
one_object_more(c)     == (PAGE_SIZE - HDR) \div ObjectSize[c] + 1

-----------------------------------------------------------------------------
\* memmap_find_biggest_region: the first of the largest usable regions.
Largest ==
  { i \in DOMAIN MemoryMap : /\ MemoryMap[i].usable
                             /\ \A j \in DOMAIN MemoryMap :
                                  MemoryMap[j].usable => MemoryMap[j].length \leq MemoryMap[i].length }

memmap_find_biggest_region == MemoryMap[Min(Largest)]

\* init_pmm manages that region and no other.
managed_base == memmap_find_biggest_region.base
total_pages == memmap_find_biggest_region.length

\* The frames by number, and their pages.
Frames == 0 .. total_pages - 1
Region == managed_base .. managed_base + total_pages - 1

\* The first frames hold the bitmap itself, a bit for each frame.
used_pages == ((total_pages + 7) \div 8 + PAGE_SIZE - 1) \div PAGE_SIZE

align_up(v, a) == ((v + a - 1) \div a) * a

\* slab_cache_create and slab_init: the room behind the header, in objects.
FirstObject == align_up(align_up(HDR, ALIGN), ALIGN)

objects_per_slab(c) == (PAGE_SIZE - FirstObject) \div align_up(ObjectSize[c], ALIGN)

Address(p, c, i) == FirstObject + i * align_up(ObjectSize[c], ALIGN)

NoCache == [exists |-> FALSE, partial |-> <<>>, full |-> <<>>]

\* A slab_cache_t with these lists.
Cache(partial, full) == [exists |-> TRUE, partial |-> partial, full |-> full]

\* init_pmm: all frames but those of the bitmap are free.
SlabInit ==
  /\ cache = [c \in Caches |-> NoCache]
  /\ slab = [p \in Region |-> NULL]
  /\ mapped = {} /\ live = {}
  /\ bitmap = { f \in Frames : f < used_pages }
  /\ owner = [o \in {} |-> NULL]

-----------------------------------------------------------------------------
(* pmm.c                                                                    *)

\* pmm_alloc_page takes the lowest clear bit.
Clear == Frames \ bitmap

pmm_alloc_page == managed_base + Min(Clear)

virtual_to_physical(a) == (a - Hhdm) % AddressPages

\* pmm_free_page: an address outside of the region is ignored.
pmm_free_page(b, a) == IF a < managed_base THEN b ELSE b \ {a - managed_base}

\* What the theorems assume of the constants: some memory is usable (init_pmm
\* halts otherwise), sizes are positive, and physical memory is smaller than the
\* offset it is mapped at, so that virtual_to_physical of a page mapped at its
\* physical address is no page of the region.
ASSUME SlabAssumption ==
  /\ NULL \notin Nat
  /\ PAGE_SIZE \in Nat \ {0} /\ HDR \in Nat /\ ALIGN \in Nat \ {0}
  /\ ObjectSize \in [Caches -> Nat \ {0}]
  /\ AddressPages \in Nat \ {0} /\ Hhdm \in Nat /\ MaxHeap \in Nat
  /\ MemoryMap \in Seq([usable : BOOLEAN, base : Nat, length : Nat])
  /\ \E i \in DOMAIN MemoryMap : MemoryMap[i].usable
  /\ \A p \in Region : virtual_to_physical(p) \notin Region

-----------------------------------------------------------------------------
(* slab.c                                                                   *)

slab_cache_create(c) ==
  /\ ~cache[c].exists /\ objects_per_slab(c) > 0
  /\ cache' = [cache EXCEPT ![c] = Cache(<<>>, <<>>)]
  /\ UNCHANGED <<slab, mapped, bitmap, live, owner>>

\* slab_init of the page p: the last object is the head of the free list.
slab_init(c, p) ==
  [cache |-> c, total_objects |-> objects_per_slab(c), free_count |-> objects_per_slab(c),
   free_list |-> Reverse([i \in 1 .. objects_per_slab(c) |-> i - 1])]

\* slab_pop_object and slab_push_object.
slab_pop_object(s) == [s EXCEPT !.free_list = Tail(@), !.free_count = @ - 1]

slab_push_object(s, i) == [s EXCEPT !.free_list = <<i>> \o @, !.free_count = @ + 1]

\* The list l without slab s: the walk with a pointer to the link stops at it.
Unlink(l, s) == RemoveFirst(l, s)

\* The head of the free list of slab s in page p goes to the caller; a slab whose
\* last object was taken moves from the partial to the full list.
Take(c, p, s, partial) ==
  LET o == <<p, Head(s.free_list)>> IN
  /\ slab' = [slab EXCEPT ![p] = slab_pop_object(s)]
  /\ cache' = [cache EXCEPT ![c] =
       IF s.free_count = 1 THEN Cache(Unlink(partial, p), <<p>> \o @.full) ELSE Cache(partial, @.full)]
  /\ live' = live \cup {o}
  /\ owner' = [x \in live' |-> IF x = o THEN c ELSE owner[x]]

\* slab_alloc from the first partial slab, ...
AllocPartial(c) ==
  /\ cache[c].exists /\ cache[c].partial # <<>>
  /\ Take(c, Head(cache[c].partial), slab[Head(cache[c].partial)], cache[c].partial)
  /\ UNCHANGED <<mapped, bitmap>>

\* ... from a new slab (the list of empty ones never has any), ...
AllocNew(c) ==
  /\ cache[c].exists /\ cache[c].partial = <<>> /\ Clear # {}
  /\ Take(c, pmm_alloc_page, slab_init(c, pmm_alloc_page), <<pmm_alloc_page>>)
  /\ mapped' = mapped \cup {pmm_alloc_page}
  /\ bitmap' = bitmap \cup {Min(Clear)}

\* ... or, without a page, from kmalloc.
AllocHeap(c) ==
  LET free == { n \in 1 .. MaxHeap : <<NULL, n>> \notin live } IN
  /\ cache[c].exists /\ cache[c].partial = <<>> /\ Clear = {} /\ free # {}
  /\ live' = live \cup {<<NULL, Min(free)>>}
  /\ owner' = [x \in live' |-> IF x \in live THEN owner[x] ELSE c]
  /\ UNCHANGED <<cache, slab, mapped, bitmap>>

slab_alloc(c) == AllocPartial(c) \/ AllocNew(c) \/ AllocHeap(c)

Forget(o) == /\ live' = live \ {o}
             /\ owner' = [x \in live' |-> owner[x]]

\* vmm_unmap and pmm_free_page of a slab's page.  The page is mapped at its
\* physical address, and virtual_to_physical subtracts the offset of the other
\* mapping: what pmm_free_page gets is no frame of its region.
Unmap(ps) ==
  /\ mapped' = mapped \ ps
  /\ slab' = [p \in DOMAIN slab |-> IF p \in ps THEN NULL ELSE slab[p]]
  /\ bitmap' = { f \in bitmap : \A p \in ps : f \in pmm_free_page(bitmap, virtual_to_physical(p)) }

\* An object of kmalloc: there is no magic number at the start of its page.
FreeHeap(o) ==
  /\ o[1] = NULL
  /\ Forget(o)
  /\ UNCHANGED <<cache, slab, mapped, bitmap>>

BackToPartial(c, p) == [cache EXCEPT ![c] = Cache(<<p>> \o @.partial, Unlink(@.full, p))]

\* A slab that was full is back among the partial ones and stays, even if all
\* its objects are free now.
FreeToFull(o) ==
  LET p == o[1] IN
  /\ p # NULL /\ slab[p].free_count = 0
  /\ slab' = [slab EXCEPT ![p] = slab_push_object(@, o[2])]
  /\ cache' = BackToPartial(owner[o], p)
  /\ Forget(o)
  /\ UNCHANGED <<mapped, bitmap>>

AllFree(p) == slab[p].free_count + 1 = slab[p].total_objects

FreeToPartial(o) ==
  LET p == o[1] IN
  /\ p # NULL /\ slab[p].free_count > 0 /\ ~AllFree(p)
  /\ slab' = [slab EXCEPT ![p] = slab_push_object(@, o[2])]
  /\ Forget(o)
  /\ UNCHANGED <<cache, mapped, bitmap>>

\* The last object of a slab returns: the slab is released.
FreeLast(o) ==
  LET p == o[1]  c == owner[o] IN
  /\ p # NULL /\ slab[p].free_count > 0 /\ AllFree(p)
  /\ cache' = [cache EXCEPT ![c] = Cache(Unlink(@.partial, p), @.full)]
  /\ Unmap({p})
  /\ Forget(o)

slab_free(o) == FreeHeap(o) \/ FreeToFull(o) \/ FreeToPartial(o) \/ FreeLast(o)

\* slab_destroy of a cache without objects: its partial slabs are released.
slab_destroy(c) ==
  /\ cache[c].exists /\ \A o \in live : owner[o] # c
  /\ Unmap(ToSet(cache[c].partial))
  /\ cache' = [cache EXCEPT ![c] = NoCache]
  /\ UNCHANGED <<live, owner>>

SlabNext ==
  \/ \E c \in Caches : slab_cache_create(c) \/ slab_alloc(c) \/ slab_destroy(c)
  \/ \E o \in live : slab_free(o)

SlabSpec == SlabInit /\ [][SlabNext]_slabVars

-----------------------------------------------------------------------------
\* Whatever the order of allocations and frees, each slab is in exactly one list
\* of its cache, once, and in the full one if and only if it has no free object;
\* the lists name mapped slabs only, and no mapped slab is in none of them.
SlabsListed ==
  \A c \in Caches :
    /\ \A p \in mapped : slab[p].cache = c =>
         Cardinality({ i \in DOMAIN cache[c].partial : cache[c].partial[i] = p })
         + Cardinality({ i \in DOMAIN cache[c].full : cache[c].full[i] = p }) = 1
    /\ \A p \in ToSet(cache[c].partial) : p \in mapped /\ slab[p].cache = c /\ slab[p].free_count > 0
    /\ \A p \in ToSet(cache[c].full) : p \in mapped /\ slab[p].cache = c /\ slab[p].free_count = 0

\* Every object of a slab is either handed out, once, or on the free list, once,
\* and lies inside the page; nobody has an object of a page that was released,
\* and a mapped page is usable memory whose frame is never handed out again and
\* holds no part of the bitmap.
ObjectsConserved ==
  /\ \A p \in mapped :
       LET s == slab[p]  out == { o \in live : o[1] = p } IN
       /\ s.free_count = Len(s.free_list)
       /\ ToSet(s.free_list) \cap { o[2] : o \in out } = {}
       /\ Cardinality(ToSet(s.free_list)) + Cardinality(out) = s.total_objects
       /\ s.free_count = Cardinality(ToSet(s.free_list))
       /\ \A o \in out : owner[o] = s.cache /\ Address(p, s.cache, o[2] + 1) \leq PAGE_SIZE
       /\ p - managed_base \in bitmap /\ p - managed_base >= used_pages
       /\ \E e \in ToSet(MemoryMap) : e.usable /\ p \in e.base .. e.base + e.length - 1
  /\ \A o \in live : o[1] # NULL => o[1] \in mapped

-----------------------------------------------------------------------------
(* The inductive invariant behind the theorems of KmemProofs.               *)

\* The list l has each member of S once and nothing else.
Once(l, S) == l \in Seq(S) /\ ToSet(l) = S /\ \A i, j \in DOMAIN l : l[i] = l[j] => i = j

\* The objects of a slab of cache c, and those of page p handed out.
Numbers(c) == 0 .. objects_per_slab(c) - 1

HandedOut(objects, p) == { o[2] : o \in { x \in objects : x[1] = p } }

\* The slabs of cache c with a free object, and those without.
Partial(c) == { p \in mapped : slab[p].cache = c /\ slab[p].free_count > 0 }
Full(c) == { p \in mapped : slab[p].cache = c /\ slab[p].free_count = 0 }

PagesSound ==
  /\ mapped \subseteq Region /\ slab = [p \in Region |-> slab[p]]
  /\ bitmap \subseteq Frames /\ \A f \in Frames : f < used_pages => f \in bitmap
  /\ \A p \in mapped : p - managed_base \in bitmap /\ p - managed_base >= used_pages

\* A slab s of which the objects out are handed out: the others are on its list.
Header(s, out) ==
  /\ s = [cache |-> s.cache, total_objects |-> objects_per_slab(s.cache),
          free_count |-> Len(s.free_list), free_list |-> s.free_list]
  /\ s.cache \in Caches /\ objects_per_slab(s.cache) > 0
  /\ out \subseteq Numbers(s.cache)
  /\ Once(s.free_list, Numbers(s.cache) \ out)

SlabsSound == \A p \in mapped : Header(slab[p], HandedOut(live, p))

LiveSound ==
  /\ owner = [o \in live |-> owner[o]]
  /\ \A o \in live : /\ o = <<o[1], o[2]>> /\ owner[o] \in Caches
                     /\ o[1] # NULL => o[1] \in mapped /\ owner[o] = slab[o[1]].cache

ListsSound ==
  /\ cache = [c \in Caches |-> cache[c]]
  /\ \A c \in Caches :
       /\ Once(cache[c].partial, Partial(c)) /\ Once(cache[c].full, Full(c))
       /\ \/ cache[c] = NoCache
          \/ cache[c] = Cache(cache[c].partial, cache[c].full) /\ objects_per_slab(c) > 0

SlabInv == PagesSound /\ SlabsSound /\ LiveSound /\ ListsSound
=============================================================================
