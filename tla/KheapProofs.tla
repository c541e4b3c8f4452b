---------------------------- MODULE KheapProofs -----------------------------
(***************************************************************************)
(* Proofs about the kernel heap: the frames of its pages, with any number   *)
(* of tasks inside kmalloc and kfree, and the list of its blocks as long as *)
(* one task at a time is inside them.                                       *)
(***************************************************************************)
EXTENDS Kheap, FiniteSetTheorems, FunctionTheorems, NaturalsInduction,
        WellFoundedInduction, TLAPS

-----------------------------------------------------------------------------
(* Arithmetic and numbers.                                                  *)

\* The least of some numbers, which replaces an induction over addresses.
LEMMA LeastExists ==
  ASSUME NEW S \in SUBSET Nat, S # {}
  PROVE  \E x \in S : \A y \in S : x \leq y
<1>1. PICK f \in S : \A g \in S : ~(<<g, f>> \in OpToRel(<, Nat))
  BY WFMin, NatLessThanWellFounded
<1>2. ASSUME NEW g \in S PROVE f \leq g
  <2>1. ~(<<g, f>> \in { x \in Nat \X Nat : x[1] < x[2] })
    BY <1>1 DEF OpToRel
  <2>2. f \in Nat /\ g \in Nat
    OBVIOUS
  <2> QED
    BY <2>1, <2>2
<1> QED
  BY <1>2

\* The greatest of some numbers below a bound.
LEMMA GreatestExists ==
  ASSUME NEW n \in Nat, NEW S \in SUBSET (0 .. n), S # {}
  PROVE  \E x \in S : \A y \in S : y \leq x
<1> DEFINE T == { n - x : x \in S }
<1>1. T \in SUBSET Nat /\ T # {}
  <2>1. \A x \in S : n - x \in Nat
    OBVIOUS
  <2> QED
    BY <2>1
<1>2. PICK z \in T : \A y \in T : z \leq y
  BY <1>1, LeastExists
<1>3. PICK x \in S : z = n - x
  OBVIOUS
<1>4. \A y \in S : n - x \leq n - y
  BY <1>2, <1>3
<1> QED
  BY <1>3, <1>4

\* Multiplication by a page size keeps the order.
LEMMA TimesLess ==
  ASSUME NEW a \in Int, NEW b \in Int, NEW c \in Nat \ {0}
  PROVE  a * c < b * c <=> a < b
<1>1. a < b => a * c < b * c
  <2> SUFFICES ASSUME a < b PROVE a * c < b * c
    OBVIOUS
  <2>1. b * c = a * c + (b - a) * c
    OBVIOUS
  <2>2. (b - a) * c > 0
    OBVIOUS
  <2> QED
    BY <2>1, <2>2
<1>2. b \leq a => b * c \leq a * c
  <2> SUFFICES ASSUME b \leq a PROVE b * c \leq a * c
    OBVIOUS
  <2>1. a * c = b * c + (a - b) * c
    OBVIOUS
  <2>2. (a - b) * c >= 0
    OBVIOUS
  <2> QED
    BY <2>1, <2>2
<1>3. a * c \in Int /\ b * c \in Int
  OBVIOUS
<1> QED
  BY <1>1, <1>2, <1>3

\* Division rounds down.
LEMMA DivBounds ==
  ASSUME NEW a \in Nat, NEW c \in Nat \ {0}
  PROVE  /\ a \div c \in Nat
         /\ (a \div c) * c \leq a
         /\ a < (a \div c) * c + c
<1> DEFINE q == a \div c
<1>1. q \in Int /\ a % c \in 0 .. (c - 1) /\ a = c * q + (a % c)
  BY SMT
<1> HIDE DEF q
<1>2. q * c = c * q /\ q * c \in Int /\ c * q \in Int
  BY <1>1
<1>3. q * c \leq a /\ a < q * c + c
  BY <1>1, <1>2
<1>4. q >= 0
  <2> SUFFICES ASSUME q + 1 \leq 0 PROVE FALSE
    BY <1>1
  <2>1. (q + 1) * c = q * c + c
    BY <1>1
  <2>2. (q + 1) * c \leq 0
    BY <1>1
  <2> QED
    BY <1>2, <1>3, <2>1, <2>2
<1> QED
  BY <1>1, <1>3, <1>4 DEF q

\* A multiple divides exactly.
LEMMA TimesDiv ==
  ASSUME NEW m \in Nat, NEW c \in Nat \ {0}
  PROVE  (m * c) \div c = m
<1> DEFINE q == (m * c) \div c
<1>1. m * c \in Nat
  OBVIOUS
<1>2. q \in Nat /\ q * c \leq m * c /\ m * c < q * c + c
  BY <1>1, DivBounds
<1> HIDE DEF q
<1>3. q * c + c = (q + 1) * c
  BY <1>2
<1>4. m < q + 1
  BY <1>2, <1>3, TimesLess
<1>5. ~(m < q)
  <2> SUFFICES ASSUME m < q PROVE FALSE
    OBVIOUS
  <2>1. m * c < q * c
    BY <1>2, TimesLess
  <2>2. q * c \in Int /\ m * c \in Int
    BY <1>2
  <2> QED
    BY <1>2, <2>1, <2>2
<1> QED
  BY <1>2, <1>4, <1>5 DEF q

\* kheap_alloc rounds up, by less than a granule.
LEMMA RoundedBounds ==
  ASSUME NEW n \in Nat
  PROVE  Rounded(n) \in Nat /\ n \leq Rounded(n) /\ Rounded(n) < n + ALIGN
<1> DEFINE q == (n + ALIGN - 1) \div ALIGN
<1>1. ALIGN \in Nat \ {0} /\ n + ALIGN - 1 \in Nat
  BY UnitsAssumption
<1>2. q \in Nat /\ q * ALIGN \leq n + ALIGN - 1 /\ n + ALIGN - 1 < q * ALIGN + ALIGN
  BY <1>1, DivBounds
<1>3. Rounded(n) = q * ALIGN
  BY DEF Rounded
<1> HIDE DEF q
<1>4. q * ALIGN \in Nat
  BY <1>1, <1>2
<1> QED
  BY <1>1, <1>2, <1>3, <1>4

\* A page is larger than two headers.
LEMMA PageSize ==
  PAGE_SIZE \in Nat \ {0} /\ HDR \in Nat \ {0} /\ Pages \in Nat \ {0}
BY UnitsAssumption, PagesAssumption

\* The pages that request_more_memory asks for hold the block and its header.
LEMMA PagesForBounds ==
  ASSUME NEW n \in Nat
  PROVE  /\ PagesFor(n) \in Nat \ {0}
         /\ n + HDR \leq PagesFor(n) * PAGE_SIZE
         /\ PagesFor(n) * PAGE_SIZE \in Nat \ {0}
<1>1. n + HDR + PAGE_SIZE - 1 \in Nat
  BY PageSize
<1>2. /\ PagesFor(n) \in Nat
      /\ n + HDR + PAGE_SIZE - 1 < PagesFor(n) * PAGE_SIZE + PAGE_SIZE
  BY <1>1, DivBounds, PageSize DEF PagesFor
<1>3. PagesFor(n) * PAGE_SIZE \in Nat
  BY <1>2, PageSize
<1>4. n + HDR \leq PagesFor(n) * PAGE_SIZE
  BY <1>2, <1>3, PageSize
<1>5. PagesFor(n) # 0
  <2> SUFFICES ASSUME PagesFor(n) = 0 PROVE FALSE
    OBVIOUS
  <2>1. PagesFor(n) * PAGE_SIZE = 0
    BY PageSize
  <2> QED
    BY <1>4, <2>1, PageSize
<1>6. PagesFor(n) * PAGE_SIZE > 0
  BY <1>4, <1>3, PageSize
<1> QED
  BY <1>2, <1>3, <1>4, <1>5, <1>6

-----------------------------------------------------------------------------
(* The frames of the heap.                                                  *)

\* How many of T are below f: the order in which pmm_alloc_page hands them out.
Rank(f, T) == Cardinality({ g \in T : g < f })

\* A smaller frame is handed out earlier.
LEMMA RankLess ==
  ASSUME NEW T \in SUBSET Nat, IsFiniteSet(T), NEW f \in T, NEW g \in T, f < g
  PROVE  Rank(f, T) < Rank(g, T)
<1> DEFINE F == { h \in T : h < f }
           G == { h \in T : h < g }
<1>1. IsFiniteSet(G)
  BY FS_Subset
<1>2. F \in SUBSET G /\ f \in G /\ f \notin F
  <2>1. f \in Nat /\ g \in Nat /\ \A h \in T : h \in Nat
    OBVIOUS
  <2>2. \A h \in T : h < f => h < g
    BY <2>1
  <2>3. F \subseteq G
    BY <2>2
  <2>4. f \in G /\ f \notin F
    BY <2>1
  <2> QED
    BY <2>3, <2>4
<1>3. IsFiniteSet(F) /\ Cardinality(F) \leq Cardinality(G) /\ Cardinality(F) # Cardinality(G)
  BY <1>1, <1>2, FS_Subset
<1>4. Cardinality(F) \in Nat /\ Cardinality(G) \in Nat
  BY <1>1, <1>3, FS_CardinalityType
<1> QED
  BY <1>3, <1>4 DEF Rank

\* The ranks of the frames of T are below their number.
LEMMA RankBounds ==
  ASSUME NEW T \in SUBSET Nat, IsFiniteSet(T), NEW f \in T
  PROVE  Rank(f, T) \in 0 .. Cardinality(T) - 1
<1> DEFINE F == { h \in T : h < f }
<1>1. F \in SUBSET T /\ f \notin F
  OBVIOUS
<1>2. IsFiniteSet(F) /\ Cardinality(F) \leq Cardinality(T) /\ Cardinality(F) # Cardinality(T)
  BY <1>1, FS_Subset
<1>3. Cardinality(F) \in Nat /\ Cardinality(T) \in Nat
  BY <1>2, FS_CardinalityType
<1> QED
  BY <1>2, <1>3 DEF Rank

\* No two frames have the same rank.
LEMMA RankInjective ==
  ASSUME NEW T \in SUBSET Nat, IsFiniteSet(T), NEW f \in T, NEW g \in T,
         Rank(f, T) = Rank(g, T)
  PROVE  f = g
<1>1. Rank(f, T) \in Int /\ Rank(g, T) \in Int
  BY RankBounds
<1>2. ~(f < g) /\ ~(g < f)
  BY <1>1, RankLess
<1> QED
  BY <1>2

\* Every number below the number of frames is the rank of one.
LEMMA RankOnto ==
  ASSUME NEW T \in SUBSET Nat, IsFiniteSet(T), NEW j \in Nat, j < Cardinality(T)
  PROVE  \E f \in T : Rank(f, T) = j
<1> DEFINE n == Cardinality(T)
           R == [f \in T |-> Rank(f, T)]
<1>1. n \in Nat
  BY FS_CardinalityType
<1>2. IsFiniteSet(0 .. n - 1) /\ Cardinality(0 .. n - 1) = n
  <2>1. 0 \in Int /\ n - 1 \in Int
    BY <1>1
  <2>2. /\ IsFiniteSet(0 .. (n - 1))
        /\ Cardinality(0 .. (n - 1)) = IF 0 > n - 1 THEN 0 ELSE (n - 1) - 0 + 1
    BY ONLY <2>1, FS_Interval
  <2> QED
    BY <1>1, <2>2
<1>3. R \in Injection(T, 0 .. n - 1)
  <2>1. R \in [T -> 0 .. n - 1]
    BY RankBounds
  <2>2. \A f, g \in T : R[f] = R[g] => f = g
    BY RankInjective
  <2> QED
    BY <2>1, <2>2 DEF Injection, IsInjective
<1>4. R \in Surjection(T, 0 .. n - 1)
  BY <1>2, <1>3, FS_Injection
<1>5. j \in 0 .. n - 1
  BY <1>1
<1> HIDE DEF n
<1> QED
  BY <1>4, <1>5 DEF Surjection

\* The frames taken are free ones.
LEMMA LowestType ==
  ASSUME NEW k
  PROVE  /\ Lowest(k) \subseteq Frames \ bitmap
         /\ Lowest(k) \in SUBSET Nat /\ IsFiniteSet(Lowest(k))
<1>1. Lowest(k) \subseteq Frames \ bitmap
  BY DEF Lowest
<1>2. Lowest(k) \in SUBSET Frames /\ IsFiniteSet(Frames) /\ Frames \subseteq Nat
  BY <1>1, FramesAssumption
<1> QED
  BY <1>1, <1>2, FS_Subset

\* The page of the frame of rank j behind page m is mapped to it; every other
\* page keeps its frame.
LEMMA MappedAt ==
  ASSUME NEW m \in Nat, NEW T \in SUBSET Nat, IsFiniteSet(T), NEW q \in DOMAIN vmap, q \in Nat
  PROVE  \/ Mapped(m, T)[q] \in T /\ Rank(Mapped(m, T)[q], T) = q - m
         \/ /\ Mapped(m, T)[q] = vmap[q]
            /\ ~\E f \in T : Rank(f, T) = q - m
BY DEF Mapped, Rank

\* What the frames of the heap rest on: every frame that a page is mapped to is
\* marked and mapped once, and the heap ends at the end of a page.
FrameInv ==
  /\ bitmap \subseteq Frames
  /\ vmap \in [0 .. Pages - 1 -> bitmap \cup {NULL}]
  /\ \E m \in Nat : heap_current = m * PAGE_SIZE
  /\ req \in [Tasks -> Nat]
  /\ FramesDistinct

\* init_kheap maps one page.
LEMMA FrameInvInit == Init => FrameInv
<1> SUFFICES ASSUME Init PROVE FrameInv
  OBVIOUS
<1>1. bitmap \subseteq Frames /\ NULL \notin Nat
  BY FramesAssumption DEF Init
<1>2. vmap \in [0 .. Pages - 1 -> bitmap \cup {NULL}]
  BY DEF Init
<1>3. 0 \in Nat /\ heap_current = 0 * PAGE_SIZE
  BY PageSize DEF Init
<1>4. req \in [Tasks -> Nat]
  BY DEF Init
<1>5. FramesDistinct
  <2>1. ASSUME NEW p \in 0 .. Pages - 1, p * PAGE_SIZE < HeapEnd PROVE vmap[p] \in bitmap
    <3>1. p \in Int /\ 1 \in Int /\ p * PAGE_SIZE < 1 * PAGE_SIZE
      BY <2>1, PageSize DEF Init, HeapEnd
    <3>2. p < 1
      BY ONLY <3>1, TimesLess, PageSize
    <3> QED
      BY <3>2 DEF Init
  <2>2. DOMAIN vmap = 0 .. Pages - 1
    BY <1>2
  <2>3. ASSUME NEW p \in 0 .. Pages - 1, NEW q \in 0 .. Pages - 1, vmap[p] # NULL, vmap[p] = vmap[q]
        PROVE p = q
    BY <2>3, <1>1 DEF Init
  <2> QED
    BY <2>1, <2>2, <2>3 DEF FramesDistinct
<1> QED
  BY <1>1, <1>2, <1>3, <1>4, <1>5 DEF FrameInv

\* Growing the heap, even half way, keeps the frames apart.
LEMMA FrameInvGrow ==
  ASSUME FrameInv, NEW t \in Tasks, Grow(t)
  PROVE  FrameInv'
<1> DEFINE k == PagesFor(req[t])
           T == Lowest(k)
<1>1. PICK m \in Nat : heap_current = m * PAGE_SIZE
  BY DEF FrameInv
<1>2. k \in Nat \ {0}
  BY PagesForBounds DEF FrameInv
<1>3. /\ T \subseteq Frames /\ T \cap bitmap = {} /\ T \in SUBSET Nat /\ IsFiniteSet(T)
      /\ NULL \notin T
  BY LowestType, FramesAssumption
<1>4. heap_current \div PAGE_SIZE = m
  BY <1>1, TimesDiv, PageSize
<1>5. /\ bitmap' = bitmap \cup T /\ vmap' = Mapped(m, T) /\ req' = req
      /\ \/ Cardinality(T) < k /\ heap_current' = heap_current
         \/ ~(Cardinality(T) < k) /\ heap_current' = heap_current + k * PAGE_SIZE
  BY <1>4 DEF Grow, Marked, Grown
<1>6. DOMAIN vmap = 0 .. Pages - 1 /\ \A q \in DOMAIN vmap : q \in Nat
  BY DEF FrameInv
<1> HIDE DEF T
<1>7. ASSUME NEW q \in 0 .. Pages - 1
      PROVE  \/ vmap'[q] \in T /\ Rank(vmap'[q], T) = q - m
             \/ vmap'[q] = vmap[q] /\ ~\E f \in T : Rank(f, T) = q - m
  <2>1. q \in DOMAIN vmap /\ q \in Nat
    BY <1>6
  <2> QED
    BY <1>3, <1>5, <2>1, MappedAt
<1>8. vmap' \in [0 .. Pages - 1 -> bitmap' \cup {NULL}]
  <2>1. vmap' = [q \in 0 .. Pages - 1 |-> vmap'[q]]
    BY <1>5, <1>6 DEF Mapped
  <2>2. \A q \in 0 .. Pages - 1 : vmap[q] \in bitmap \cup {NULL}
    BY DEF FrameInv
  <2>3. \A q \in 0 .. Pages - 1 : vmap'[q] \in bitmap' \cup {NULL}
    BY <1>5, <1>7, <2>2
  <2> QED
    BY <2>1, <2>3
<1>9. \E i \in Nat : heap_current' = i * PAGE_SIZE
  <2>1. m + k \in Nat /\ (m + k) * PAGE_SIZE = m * PAGE_SIZE + k * PAGE_SIZE
    BY <1>2, PageSize
  <2> QED
    BY <1>1, <1>5, <2>1
<1>10. FramesDistinct'
  <2>0. DOMAIN vmap' = 0 .. Pages - 1
    BY <1>8
  <2>1. ASSUME NEW p \in 0 .. Pages - 1, p * PAGE_SIZE < HeapEnd' PROVE vmap'[p] \in bitmap'
    <3>1. CASE p * PAGE_SIZE < HeapEnd
      <4>1. vmap[p] \in bitmap
        BY <1>6, <3>1 DEF FrameInv, FramesDistinct
      <4> QED
        BY <1>5, <1>7, <4>1
    <3>2. CASE ~(p * PAGE_SIZE < HeapEnd)
      <4>1. ~(Cardinality(T) < k) /\ heap_current' = heap_current + k * PAGE_SIZE
        BY <1>5, <2>1, <3>2 DEF HeapEnd
      <4>2. k * PAGE_SIZE \in Nat \ {0} /\ m * PAGE_SIZE \in Nat
        <5>1. req[t] \in Nat
          BY DEF FrameInv
        <5>2. k * PAGE_SIZE \in Nat \ {0}
          BY <5>1, PagesForBounds
        <5>3. m * PAGE_SIZE \in Nat
          BY PageSize
        <5> QED
          BY <5>2, <5>3
      <4>3. HeapEnd' = m * PAGE_SIZE + k * PAGE_SIZE /\ HeapEnd >= m * PAGE_SIZE
        BY <1>1, <4>1, <4>2, PageSize DEF HeapEnd
      <4>4. p \in Int /\ m + k \in Int /\ m \in Int /\ p * PAGE_SIZE < (m + k) * PAGE_SIZE
        BY <1>2, <2>1, <4>3, PageSize
      <4>5. p < m + k
        BY ONLY <4>4, TimesLess, PageSize
      <4>6. ~(p < m)
        <5> SUFFICES ASSUME p < m PROVE FALSE
          OBVIOUS
        <5>1. p * PAGE_SIZE < m * PAGE_SIZE
          BY ONLY <4>4, p < m, TimesLess, PageSize
        <5>2. p * PAGE_SIZE \in Int /\ m * PAGE_SIZE \in Int /\ HeapEnd \in Int
          BY <4>2, <4>4, <1>1, PageSize DEF HeapEnd
        <5> QED
          BY <3>2, <4>3, <5>1, <5>2
      <4>7. p - m \in Nat /\ p - m < k
        BY <4>4, <4>5, <4>6, <1>2
      <4>8. Cardinality(T) \in Nat
        BY <1>3, FS_CardinalityType
      <4>9. p - m < Cardinality(T)
        BY <1>2, <4>1, <4>7, <4>8
      <4>10. \E f \in T : Rank(f, T) = p - m
        BY <1>3, <4>7, <4>9, RankOnto
      <4> QED
        BY <1>5, <1>7, <4>10
    <3> QED
      BY <3>1, <3>2
  <2>2. ASSUME NEW p \in 0 .. Pages - 1, NEW q \in 0 .. Pages - 1,
               vmap'[p] # NULL, vmap'[p] = vmap'[q]
        PROVE  p = q
    <3>1. \A i \in 0 .. Pages - 1 : vmap[i] \in bitmap \cup {NULL}
      BY DEF FrameInv
    <3>2. vmap[p] # NULL /\ vmap[p] = vmap[q] => p = q
      BY <1>6 DEF FrameInv, FramesDistinct
    <3>3. CASE vmap'[p] \in T
      <4>1. Rank(vmap'[p], T) = p - m
        BY <1>3, <1>7, <3>1, <3>3
      <4>2. Rank(vmap'[q], T) = q - m
        BY <1>3, <1>7, <2>2, <3>1, <3>3
      <4> QED
        BY <2>2, <4>1, <4>2
    <3>4. CASE vmap'[p] \notin T
      BY <1>7, <2>2, <3>2, <3>4
    <3> QED
      BY <3>3, <3>4
  <2> QED
    BY <2>0, <2>1, <2>2 DEF FramesDistinct
<1>11. bitmap' \subseteq Frames /\ req' \in [Tasks -> Nat]
  BY <1>3, <1>5 DEF FrameInv
<1> QED
  BY <1>8, <1>9, <1>10, <1>11 DEF FrameInv

\* Every step keeps the frames apart.
LEMMA FrameInvNext == FrameInv /\ [Next]_vars => FrameInv'
<1> SUFFICES ASSUME FrameInv, [Next]_vars PROVE FrameInv'
  OBVIOUS
<1>1. CASE UNCHANGED <<bitmap, vmap, heap_current, req>>
  BY <1>1 DEF FrameInv, FramesDistinct, HeapEnd
<1>2. ASSUME NEW t \in Tasks, Grow(t) PROVE FrameInv'
  BY <1>2, FrameInvGrow
<1>3. ASSUME NEW t \in Tasks, NEW n \in Sizes, kmalloc(t, n) PROVE FrameInv'
  <2>1. n \in Nat
    BY UnitsAssumption
  <2>2. Rounded(n) \in Nat
    BY <2>1, RoundedBounds
  <2>3. req' \in [Tasks -> Nat]
    BY <1>3, <2>2 DEF kmalloc, FrameInv
  <2>4. UNCHANGED <<bitmap, vmap, heap_current>>
    BY <1>3 DEF kmalloc
  <2> QED
    BY <2>3, <2>4 DEF FrameInv, FramesDistinct, HeapEnd
<1>4. CASE UNCHANGED vars
  BY <1>1, <1>4 DEF vars
<1>5. ASSUME NEW t \in Tasks, Scan(t) \/ Split(t) \/ Mark(t) \/ Merge(t) PROVE FrameInv'
  BY <1>1, <1>5 DEF Scan, Split, Mark, Merge
<1>6. ASSUME NEW t \in Tasks, NEW a \in live, kfree(t, a) PROVE FrameInv'
  BY <1>1, <1>6 DEF kfree
<1> QED
  BY <1>2, <1>3, <1>4, <1>5, <1>6 DEF Next, Step

\* One task at a time is inside kmalloc and kfree: the callers run one after
\* the other, or hold a lock.
Serial == \A t, u \in Tasks : pc[t] # "idle" /\ pc[u] # "idle" => t = u

\* As long as one task at a time is inside kmalloc and kfree, every page of the
\* heap has a frame of its own that is marked as used, also after a growth of the
\* heap that ran out of memory half way.  (request_more_memory and pmm_alloc_page
\* take no lock, and Grow is the one step they are for nobody but their caller.)
THEOREM FramesAreDistinct == Spec /\ []Serial => []FramesDistinct
<1>1. FrameInv => FramesDistinct
  BY DEF FrameInv
<1> QED
  BY <1>1, FrameInvInit, FrameInvNext, PTL DEF Spec

-----------------------------------------------------------------------------
(* The list of blocks.                                                      *)

Places == {"idle", "scan", "split", "mark", "grow", "merge"}

Header == [size : Nat, free : BOOLEAN, next : Addrs \cup {NULL}]

HeapType ==
  /\ hdr \in [Addrs -> Header]
  /\ pc \in [Tasks -> Places]
  /\ ptr \in [Tasks -> Addrs \cup {NULL}]
  /\ HeapEnd \in Nat /\ HeapEnd \leq Pages * PAGE_SIZE

\* Where the block at a ends.
End(a) == a + HDR + hdr[a].size

\* B is the list of blocks: each ends where the next one begins, the last one
\* at the end of the heap, and no two overlap.
Tiling(B) ==
  /\ B \subseteq Addrs /\ 0 \in B
  /\ \A a \in B : hdr[a].next \in B \cup {NULL}
  /\ \A a \in B : End(a) = IF hdr[a].next = NULL THEN HeapEnd ELSE hdr[a].next
  /\ \A a \in B : End(a) \leq HeapEnd
  /\ \A a, b \in B : a < b => End(a) \leq b

\* The blocks in use are the allocations.
Exact(B) ==
  /\ \A a \in B : ~hdr[a].free <=> \E l \in live : l.addr = a
  /\ \A l \in live : l.addr \in B /\ l.size \in Nat /\ hdr[l.addr].size >= l.size
  /\ \A k, l \in live : k.addr = l.addr => k = l

\* Until the heap grows, the kernel's process is the first block and not the last.
FirstPage == heap_current = 0 => KernelAlloc \in live /\ hdr[0].next # NULL

\* Where task t is in the list.
Placed(B, t) ==
  pc[t] # "idle" =>
    /\ ptr[t] \in B
    /\ pc[t] \in {"split", "mark"} => Fits(hdr[ptr[t]], req[t])
    /\ pc[t] = "grow" => hdr[ptr[t]].next = NULL

\* A free block is followed by one in use, except where kmalloc has just split
\* it and behind the place that kfree has come to.
Settled(a) == hdr[a].free /\ hdr[a].next # NULL => ~hdr[hdr[a].next].free

Working(t, a) ==
  \/ pc[t] = "merge" /\ ptr[t] \leq a
  \/ pc[t] = "mark" /\ ptr[t] = a

Joined(B) == \A a \in B : Settled(a) \/ \E t \in Tasks : Working(t, a)

HeapInv(B) ==
  /\ Tiling(B) /\ Exact(B) /\ FirstPage
  /\ \A t \in Tasks : Placed(B, t)
  /\ Joined(B)

\* The inductive invariant: the list exists as long as the kernel runs.
ListInv == HeapType /\ (~garbage => \E B \in SUBSET Addrs : HeapInv(B))

\* Nobody but t is inside kmalloc and kfree.
Alone(t) == \A u \in Tasks \ {t} : pc[u] = "idle"

\* The invariant from the point of view of the task that moves.
HeapInvFor(B, t) ==
  /\ Tiling(B) /\ Exact(B) /\ FirstPage
  /\ Placed(B, t)
  /\ \A a \in B : Settled(a) \/ Working(t, a)

\* A task inside a call is alone there.
LEMMA AloneNow ==
  ASSUME NEW t \in Tasks, Serial, pc[t] # "idle"
  PROVE  Alone(t)
BY DEF Alone, Serial

\* A task that begins a call finds nobody there.
LEMMA AloneStart ==
  ASSUME NEW t \in Tasks, NEW l \in Places \ {"idle"}, HeapType, Serial', Goto(t, l)
  PROVE  Alone(t)
<1> SUFFICES ASSUME NEW u \in Tasks \ {t} PROVE pc[u] = "idle"
  BY DEF Alone
<1>1. pc'[t] = l /\ pc'[u] = pc[u]
  BY DEF HeapType, Goto
<1> QED
  BY <1>1 DEF Serial, Places

\* If only t moves, the invariant is about the place of t alone,
LEMMA ForTask ==
  ASSUME NEW t \in Tasks, NEW B, Alone(t), HeapInv(B)
  PROVE  HeapInvFor(B, t)
<1>1. \A u \in Tasks, a \in B : Working(u, a) => u = t
  BY DEF Alone, Working
<1> QED
  BY <1>1 DEF HeapInv, HeapInvFor, Joined

\* and what holds for t alone afterwards holds for all.
LEMMA ForAll ==
  ASSUME NEW t \in Tasks, NEW B, Alone(t)', HeapInvFor(B, t)'
  PROVE  HeapInv(B)'
<1>1. \A u \in Tasks : Placed(B, u)'
  BY DEF HeapInvFor, Alone, Placed
<1>2. Joined(B)'
  BY DEF HeapInvFor, Joined
<1> QED
  BY <1>1, <1>2 DEF HeapInv, HeapInvFor

\* The other tasks stay where they are.
LEMMA StillAlone ==
  ASSUME NEW t \in Tasks, HeapType, Alone(t), \A u \in Tasks \ {t} : pc'[u] = pc[u]
  PROVE  Alone(t)'
BY DEF Alone

\* The fields of a header.
LEMMA HeaderOf ==
  ASSUME HeapType, NEW a \in Addrs
  PROVE  /\ hdr[a] \in Header /\ hdr[a].size \in Nat /\ hdr[a].free \in BOOLEAN
         /\ hdr[a].next \in Addrs \cup {NULL} /\ End(a) \in Nat /\ a \in Nat
<1>1. hdr[a] \in Header
  BY DEF HeapType
<1>2. hdr[a].size \in Nat /\ hdr[a].free \in BOOLEAN /\ hdr[a].next \in Addrs \cup {NULL}
  BY <1>1 DEF Header
<1>3. a \in Nat
  BY DEF Addrs
<1> QED
  BY <1>1, <1>2, <1>3, PageSize DEF End

\* The addresses of the heap.
LEMMA AddrFacts ==
  /\ Addrs \subseteq Nat /\ NULL \notin Addrs /\ 0 \in Addrs
  /\ Pages * PAGE_SIZE \in Nat /\ PAGE_SIZE \leq Pages * PAGE_SIZE
  /\ \A a \in Nat : a < Pages * PAGE_SIZE <=> a \in Addrs
<1>1. Pages * PAGE_SIZE \in Nat
  BY PageSize
<1>2. PAGE_SIZE \leq Pages * PAGE_SIZE
  <2>1. Pages * PAGE_SIZE = PAGE_SIZE + (Pages - 1) * PAGE_SIZE
    BY PageSize
  <2>2. (Pages - 1) * PAGE_SIZE \in Nat
    BY PageSize
  <2> QED
    BY <2>1, <2>2, PageSize
<1>3. \A a \in Nat : a < Pages * PAGE_SIZE <=> a \in Addrs
  BY <1>1 DEF Addrs
<1>4. Addrs \subseteq Nat
  BY DEF Addrs
<1>5. 0 < Pages * PAGE_SIZE
  BY <1>1, <1>2, PageSize
<1> QED
  BY <1>1, <1>2, <1>3, <1>4, <1>5, FramesAssumption

\* init_kheap and the first allocation leave two blocks.
LEMMA HeapInit == Init => ListInv
<1> SUFFICES ASSUME Init PROVE ListInv
  OBVIOUS
<1> DEFINE n == Rounded(KernelProcess)
           c == HDR + n
           s == PAGE_SIZE - HDR - n - HDR
           B == {0, c}
<1>1. n \in Nat /\ HDR + n + HDR < PAGE_SIZE
  BY RoundedBounds, UnitsAssumption
<1> HIDE DEF n
<1>2. c \in Nat \ {0} /\ c < PAGE_SIZE /\ c \in Addrs /\ s \in Nat /\ c + HDR + s = PAGE_SIZE /\ 0 + HDR + n = c
  BY <1>1, PageSize, AddrFacts
<1>3. KernelAlloc.size = n /\ KernelAlloc.addr = 0
  BY DEF KernelAlloc, n
<1>4. /\ hdr[0].size = n /\ ~hdr[0].free /\ hdr[0].next = c
      /\ hdr[c].size = s /\ hdr[c].free /\ hdr[c].next = NULL
      /\ hdr \in [Addrs -> Header]
  <2> DEFINE first == [size |-> PAGE_SIZE - HDR, free |-> TRUE, next |-> NULL]
             h0 == [a \in Addrs |-> IF a = 0 THEN first ELSE Blank]
             new == [size |-> s, free |-> TRUE, next |-> NULL]
             old == [[first EXCEPT !.size = n] EXCEPT !.next = c]
             h1 == [[h0 EXCEPT ![c] = new] EXCEPT ![0] = old]
  <2>1. h0[0] = first
    BY AddrFacts
  <2>2. split_block(h0, 0, n) = [h0 EXCEPT ![c] = [size |-> Remainder(first, n), free |-> TRUE, next |-> first.next],
                                           ![0] = [first EXCEPT !.size = n, !.next = c]]
    <3>1. ~(first.size \leq n + HDR)
      BY <1>1, PageSize
    <3>2. 0 + HDR + n = c
      BY <1>2
    <3> HIDE DEF h0, c, first
    <3> QED
      BY <2>1, <3>1, <3>2 DEF split_block
  <2>3. Remainder(first, n) = s /\ first.next = NULL
    BY DEF Remainder
  <2>4. split_block(h0, 0, n) = h1
    <3> HIDE DEF h0, c, s, first
    <3> QED
      BY <2>2, <2>3
  <2>5. hdr = [h1 EXCEPT ![0].free = FALSE]
    BY <1>3, <2>4 DEF Init
  <2>6. first \in Header /\ first.free /\ new \in Header /\ new.size = s /\ new.free /\ new.next = NULL
    BY <1>1, <1>2, PageSize, AddrFacts DEF Header
  <2> HIDE DEF first, new
  <2>7. old \in Header /\ old.size = n /\ old.next = c /\ old.free
    <3> DEFINE cut == [first EXCEPT !.size = n]
    <3>1. cut \in Header /\ cut.size = n /\ cut.free
      BY <1>1, <2>6 DEF Header
    <3> HIDE DEF cut
    <3>2. [cut EXCEPT !.next = c] \in Header /\ [cut EXCEPT !.next = c].size = n
          /\ [cut EXCEPT !.next = c].next = c /\ [cut EXCEPT !.next = c].free
      BY <1>2, <3>1 DEF Header
    <3> QED
      BY <3>2 DEF cut
  <2> HIDE DEF old
  <2>8. h1 \in [Addrs -> Header] /\ h1[0] = old /\ h1[c] = new
    <3>1. Blank \in Header
      BY DEF Header, Blank
    <3>2. h0 \in [Addrs -> Header]
      BY <2>6, <3>1
    <3> HIDE DEF c
    <3> QED
      BY <1>2, <2>6, <2>7, <3>2, AddrFacts
  <2> HIDE DEF h1, c, s
  <2> DEFINE used == [old EXCEPT !.free = FALSE]
  <2>9. hdr = [h1 EXCEPT ![0] = used]
    BY <2>5, <2>8
  <2>10. used \in Header /\ used.size = n /\ used.next = c /\ ~used.free
    BY <2>7 DEF Header
  <2> HIDE DEF used
  <2>11. hdr[0] = used /\ hdr[c] = new /\ hdr \in [Addrs -> Header]
    BY <1>2, <2>8, <2>9, <2>10, AddrFacts
  <2> QED
    BY <2>6, <2>10, <2>11
<1> HIDE DEF c, s
<1>5. HeapEnd = PAGE_SIZE /\ heap_current = 0 /\ live = {KernelAlloc}
  BY DEF Init, HeapEnd
<1>6. HeapType
  BY <1>4, <1>5, PageSize, AddrFacts DEF HeapType, Init, Places
<1>7. End(0) = c /\ End(c) = PAGE_SIZE
  BY <1>2, <1>4 DEF End
<1>8. Tiling(B)
  <2>1. hdr[0].next = c /\ hdr[c].next = NULL /\ c # NULL
    BY <1>2, <1>4, AddrFacts
  <2>2. B \subseteq Addrs /\ 0 \in B
    BY <1>2, AddrFacts
  <2>3. c \leq PAGE_SIZE
    BY <1>2, PageSize
  <2> QED
    BY <1>2, <1>5, <1>7, <2>1, <2>2, <2>3, PageSize DEF Tiling
<1>9. Exact(B)
  BY <1>1, <1>2, <1>3, <1>4, <1>5 DEF Exact
<1>10. FirstPage
  BY <1>2, <1>4, <1>5, AddrFacts DEF FirstPage
<1>11. \A t \in Tasks : Placed(B, t)
  BY DEF Init, Placed
<1>12. Joined(B)
  BY <1>4 DEF Joined, Settled
<1>13. B \in SUBSET Addrs /\ HeapInv(B)
  BY <1>2, <1>8, <1>9, <1>10, <1>11, <1>12, AddrFacts DEF HeapInv
<1> QED
  BY <1>6, <1>13 DEF ListInv

\* What a step of task t on the list assumes.
Ready(B, t) ==
  HeapType /\ FrameInv /\ B \in SUBSET Addrs /\ HeapInvFor(B, t)

\* kmalloc starts at the first block.
LEMMA StartMalloc ==
  ASSUME NEW t \in Tasks, NEW n \in Sizes, NEW B, Ready(B, t), kmalloc(t, n)
  PROVE  HeapType' /\ HeapInvFor(B, t)'
<1>1. /\ UNCHANGED <<hdr, heap_current, live>> /\ HeapEnd' = HeapEnd
      /\ pc[t] = "idle" /\ pc'[t] = "scan" /\ ptr'[t] = 0
      /\ pc' \in [Tasks -> Places] /\ ptr' \in [Tasks -> Addrs \cup {NULL}]
  BY AddrFacts DEF kmalloc, At, Goto, Ready, HeapType, HeapEnd, Places
<1>2. HeapType'
  BY <1>1 DEF HeapType, Ready
<1>3. Tiling(B)' /\ Exact(B)' /\ FirstPage'
  BY <1>1 DEF Ready, HeapInvFor, Tiling, Exact, FirstPage, End
<1>4. Placed(B, t)'
  BY <1>1 DEF Placed, Ready, HeapInvFor, Tiling
<1>5. \A a \in B : Settled(a)'
  BY <1>1 DEF Ready, HeapInvFor, Settled, Working
<1> QED
  BY <1>2, <1>3, <1>4, <1>5 DEF HeapInvFor

\* The loop of kheap_alloc reads only.
LEMMA ScanStep ==
  ASSUME NEW t \in Tasks, NEW B, Ready(B, t), Scan(t)
  PROVE  HeapType' /\ HeapInvFor(B, t)'
<1> DEFINE b == hdr[ptr[t]]
<1>1. /\ UNCHANGED <<hdr, heap_current, live, req>> /\ HeapEnd' = HeapEnd /\ pc[t] = "scan"
  BY DEF Scan, At, HeapEnd
<1>2. ptr[t] \in B /\ ptr[t] \in Addrs /\ b.next \in B \cup {NULL}
  BY <1>1 DEF Ready, HeapInvFor, Placed, Tiling
<1>3. /\ pc' \in [Tasks -> Places] /\ ptr' \in [Tasks -> Addrs \cup {NULL}]
      /\ \/ pc'[t] = "split" /\ ptr'[t] = ptr[t] /\ Fits(b, req[t])
         \/ pc'[t] = "grow" /\ ptr'[t] = ptr[t] /\ b.next = NULL
         \/ pc'[t] = "scan" /\ ptr'[t] \in B
  <2>0. pc \in [Tasks -> Places] /\ ptr \in [Tasks -> Addrs \cup {NULL}]
    BY DEF Ready, HeapType
  <2>1. CASE Fits(b, req[t])
    BY <2>0, <2>1 DEF Scan, Goto, Places
  <2>2. CASE ~Fits(b, req[t]) /\ b.next = NULL
    BY <2>0, <2>2 DEF Scan, Goto, Places
  <2>3. CASE ~Fits(b, req[t]) /\ b.next # NULL
    <3>1. ptr' = [ptr EXCEPT ![t] = b.next] /\ pc' = pc
      BY <2>3 DEF Scan
    <3>2. b.next \in B /\ b.next \in Addrs
      BY <1>2, <2>3 DEF Ready
    <3> QED
      BY <1>1, <2>0, <3>1, <3>2
  <2> QED
    BY <2>1, <2>2, <2>3
<1>4. HeapType'
  BY <1>1, <1>3 DEF HeapType, Ready
<1>5. Tiling(B)' /\ Exact(B)' /\ FirstPage'
  BY <1>1 DEF Ready, HeapInvFor, Tiling, Exact, FirstPage, End
<1>6. Placed(B, t)'
  BY <1>1, <1>2, <1>3 DEF Placed
<1>7. \A a \in B : Settled(a)'
  BY <1>1 DEF Ready, HeapInvFor, Settled, Working
<1> QED
  BY <1>4, <1>5, <1>6, <1>7 DEF HeapInvFor

\* What a write to is_free does to the headers.
LEMMA SetFree ==
  ASSUME HeapType, NEW a \in Addrs, NEW v \in BOOLEAN, hdr' = [hdr EXCEPT ![a].free = v]
  PROVE  /\ hdr' \in [Addrs -> Header]
         /\ \A x \in Addrs : /\ hdr'[x].next = hdr[x].next /\ hdr'[x].size = hdr[x].size
                             /\ hdr'[x].free = IF x = a THEN v ELSE hdr[x].free
<1> DEFINE new == [hdr[a] EXCEPT !.free = v]
<1>1. hdr \in [Addrs -> Header] /\ hdr[a] \in Header
  BY DEF HeapType
<1>2. new \in Header /\ new.next = hdr[a].next /\ new.size = hdr[a].size /\ new.free = v
  BY <1>1 DEF Header
<1>3. hdr' = [hdr EXCEPT ![a] = new]
  OBVIOUS
<1> HIDE DEF new
<1>4. hdr' \in [Addrs -> Header] /\ hdr'[a] = new /\ \A x \in Addrs \ {a} : hdr'[x] = hdr[x]
  BY <1>1, <1>2, <1>3
<1>5. ASSUME NEW x \in Addrs
      PROVE  /\ hdr'[x].next = hdr[x].next /\ hdr'[x].size = hdr[x].size
             /\ hdr'[x].free = IF x = a THEN v ELSE hdr[x].free
  <2>1. CASE x = a
    BY <1>2, <1>4, <2>1
  <2>2. CASE x # a
    BY <1>4, <2>2
  <2> QED
    BY <2>1, <2>2
<1> QED
  BY <1>4, <1>5

\* Marking the block adds the allocation.
LEMMA MarkStep ==
  ASSUME NEW t \in Tasks, NEW B, Ready(B, t), Mark(t)
  PROVE  HeapType' /\ HeapInvFor(B, t)'
<1> DEFINE a == ptr[t]
<1>1. /\ UNCHANGED <<heap_current, ptr, req>> /\ HeapEnd' = HeapEnd /\ pc[t] = "mark"
      /\ hdr' = [hdr EXCEPT ![a].free = FALSE]
      /\ live' = live \cup {Alloc(t, a)}
      /\ pc' = [pc EXCEPT ![t] = "idle"]
  BY DEF Mark, At, HeapEnd, Goto
<1>2. a \in B /\ a \in Addrs /\ hdr[a].free /\ hdr[a].size >= req[t]
  BY <1>1 DEF Ready, HeapInvFor, Placed, Fits
<1>4. /\ hdr' \in [Addrs -> Header]
      /\ \A x \in Addrs : /\ hdr'[x].next = hdr[x].next /\ hdr'[x].size = hdr[x].size
                          /\ hdr'[x].free = IF x = a THEN FALSE ELSE hdr[x].free
  <2>1. HeapType
    BY DEF Ready
  <2> HIDE DEF a
  <2> QED
    BY <1>1, <1>2, <2>1, SetFree
<1>5. pc' \in [Tasks -> Places] /\ pc'[t] = "idle"
  BY <1>1 DEF Ready, HeapType, Places
<1>6. HeapType'
  BY <1>1, <1>4, <1>5 DEF HeapType, Ready
<1>7. B \subseteq Addrs /\ \A x \in B : x \in Addrs
  BY DEF Ready
<1>8. \A x \in Addrs : End(x)' = End(x)
  BY <1>4 DEF End
<1>9. Tiling(B)'
  BY <1>1, <1>4, <1>7, <1>8 DEF Ready, HeapInvFor, Tiling
<1>10. Exact(B)'
  <2> DEFINE new == Alloc(t, a)
  <2>1. new.addr = a /\ new.size = req[t] /\ req[t] \in Nat
    BY DEF Alloc, Ready, FrameInv
  <2>2. \A l \in live : l.addr # a
    BY <1>2 DEF Ready, HeapInvFor, Exact
  <2> HIDE DEF new
  <2>3. \A x \in B : ~hdr'[x].free <=> \E l \in live' : l.addr = x
    BY <1>1, <1>4, <1>7, <2>1 DEF Ready, HeapInvFor, Exact, new
  <2>4. \A l \in live' : l.addr \in B /\ l.size \in Nat /\ hdr'[l.addr].size >= l.size
    BY <1>1, <1>2, <1>4, <1>7, <2>1 DEF Ready, HeapInvFor, Exact, new
  <2>5. \A k, l \in live' : k.addr = l.addr => k = l
    BY <1>1, <2>1, <2>2 DEF Ready, HeapInvFor, Exact, new
  <2> QED
    BY <2>3, <2>4, <2>5 DEF Exact
<1>11. FirstPage'
  BY <1>1, <1>4, AddrFacts DEF Ready, HeapInvFor, FirstPage
<1>12. Placed(B, t)'
  BY <1>5 DEF Placed
<1>13. ASSUME NEW x \in B PROVE Settled(x)'
  <2>1. hdr[x].next \in B \cup {NULL} /\ x \in Addrs
    BY <1>7 DEF Ready, HeapInvFor, Tiling
  <2>2. CASE x = a
    BY <1>4, <2>1, <2>2 DEF Settled
  <2>3. CASE x # a
    <3>1. Settled(x)
      BY <1>1, <2>3 DEF Ready, HeapInvFor, Working
    <3> QED
      BY <1>4, <1>7, <2>1, <3>1 DEF Settled
  <2> QED
    BY <2>2, <2>3
<1> QED
  BY <1>6, <1>9, <1>10, <1>11, <1>12, <1>13 DEF HeapInvFor

\* kheap_free takes the allocation away and starts at the first block.
LEMMA StartFree ==
  ASSUME NEW t \in Tasks, NEW l \in live, NEW B, Ready(B, t), kfree(t, l)
  PROVE  HeapType' /\ HeapInvFor(B, t)'
<1> DEFINE a == l.addr
<1>1. /\ UNCHANGED <<heap_current, req>> /\ HeapEnd' = HeapEnd /\ pc[t] = "idle"
      /\ hdr' = [hdr EXCEPT ![a].free = TRUE]
      /\ live' = live \ {l} /\ l # KernelAlloc
      /\ pc' = [pc EXCEPT ![t] = "merge"] /\ ptr' = [ptr EXCEPT ![t] = 0]
  BY DEF kfree, At, HeapEnd, Goto
<1>2. a \in B /\ a \in Addrs
  BY DEF Ready, HeapInvFor, Exact
<1>4. /\ hdr' \in [Addrs -> Header]
      /\ \A x \in Addrs : /\ hdr'[x].next = hdr[x].next /\ hdr'[x].size = hdr[x].size
                          /\ hdr'[x].free = IF x = a THEN TRUE ELSE hdr[x].free
  <2>1. HeapType
    BY DEF Ready
  <2> HIDE DEF a
  <2> QED
    BY <1>1, <1>2, <2>1, SetFree
<1>5. /\ pc' \in [Tasks -> Places] /\ pc'[t] = "merge"
      /\ ptr' \in [Tasks -> Addrs \cup {NULL}] /\ ptr'[t] = 0
  BY <1>1, AddrFacts DEF Ready, HeapType, Places
<1>6. HeapType'
  BY <1>1, <1>4, <1>5 DEF HeapType, Ready
<1>7. B \subseteq Addrs /\ \A x \in B : x \in Addrs
  BY DEF Ready
<1>8. \A x \in Addrs : End(x)' = End(x)
  BY <1>4 DEF End
<1>9. Tiling(B)'
  BY <1>1, <1>4, <1>7, <1>8 DEF Ready, HeapInvFor, Tiling
<1>10. Exact(B)'
  <2>1. \A k \in live : k.addr = a => k = l
    BY DEF Ready, HeapInvFor, Exact
  <2>2. \A k \in live' : k \in live /\ k.addr # a
    BY <1>1, <2>1
  <2>3. \A x \in B : ~hdr'[x].free <=> \E k \in live' : k.addr = x
    BY <1>1, <1>4, <1>7, <2>2 DEF Ready, HeapInvFor, Exact
  <2>4. \A k \in live' : k.addr \in B /\ k.size \in Nat /\ hdr'[k.addr].size >= k.size
    BY <1>1, <1>4, <1>7 DEF Ready, HeapInvFor, Exact
  <2>5. \A k, m \in live' : k.addr = m.addr => k = m
    BY <2>2 DEF Ready, HeapInvFor, Exact
  <2> QED
    BY <2>3, <2>4, <2>5 DEF Exact
<1>11. FirstPage'
  BY <1>1, <1>4, AddrFacts DEF Ready, HeapInvFor, FirstPage
<1>12. Placed(B, t)'
  BY <1>5 DEF Placed, Ready, HeapInvFor, Tiling
<1>13. \A x \in B : Working(t, x)'
  BY <1>5, <1>7, AddrFacts DEF Working
<1> QED
  BY <1>6, <1>9, <1>10, <1>11, <1>12, <1>13 DEF HeapInvFor

\* split_block puts a block between the one it cuts and the next one.
LEMMA SplitStep ==
  ASSUME NEW t \in Tasks, NEW B, Ready(B, t), Split(t)
  PROVE  HeapType' /\ \E C \in SUBSET Addrs : HeapInvFor(C, t)'
<1>0. PICK a \in Addrs, n \in Nat : a = ptr[t] /\ n = req[t] /\ a \in B
  BY DEF Ready, HeapInvFor, Placed, FrameInv, Split, At
<1> DEFINE c == a + HDR + n
<1>1. /\ UNCHANGED <<heap_current, ptr, req, live>> /\ HeapEnd' = HeapEnd /\ pc[t] = "split"
      /\ hdr' = split_block(hdr, a, n)
      /\ pc' = [pc EXCEPT ![t] = "mark"]
  BY <1>0 DEF Split, At, HeapEnd, Goto
<1>2. a \in B /\ a \in Addrs /\ hdr[a].free /\ hdr[a].size >= n /\ n \in Nat
  BY <1>0, <1>1 DEF Ready, HeapInvFor, Placed, Fits
<1>3. HeapType /\ FrameInv /\ B \in SUBSET Addrs /\ B \subseteq Addrs /\ HeapInvFor(B, t)
  BY DEF Ready
<1>4. pc' \in [Tasks -> Places] /\ pc'[t] = "mark" /\ ptr'[t] = a
  BY <1>0, <1>1, <1>3 DEF HeapType, Places
<1>5. \A x \in B : Settled(x)
  BY <1>1 DEF Ready, HeapInvFor, Working
<1>6. Tiling(B) /\ Exact(B) /\ FirstPage
  BY <1>3 DEF HeapInvFor
<1>7. CASE hdr[a].size \leq n + HDR
  <2>1. hdr' = hdr
    BY <1>1, <1>7 DEF split_block
  <2>2. HeapType'
    BY <1>1, <1>3, <1>4, <2>1 DEF HeapType
  <2>3. Tiling(B)' /\ Exact(B)' /\ FirstPage'
    BY <1>1, <1>6, <2>1 DEF Tiling, Exact, FirstPage, End
  <2>4. Placed(B, t)'
    BY <1>0, <1>1, <1>2, <1>4, <2>1 DEF Placed, Fits
  <2>5. \A x \in B : Settled(x)'
    BY <1>5, <2>1 DEF Settled
  <2> QED
    BY <1>3, <2>2, <2>3, <2>4, <2>5 DEF HeapInvFor
<1>8. CASE ~(hdr[a].size \leq n + HDR)
  <2> DEFINE C == B \cup {c}
  <2>1. /\ hdr[a] \in Header /\ hdr[a].size \in Nat /\ hdr[a].next \in Addrs \cup {NULL}
        /\ End(a) \in Nat /\ a \in Nat /\ HeapEnd \in Nat /\ HeapEnd \leq Pages * PAGE_SIZE
    BY <1>2, <1>3, HeaderOf DEF HeapType
  <2>2. End(a) = a + HDR + hdr[a].size /\ End(a) \leq HeapEnd
    BY <1>2, <1>6 DEF End, Tiling
  <2>0. PICK s \in Nat : s = hdr[a].size - n - HDR
    BY <1>2, <1>8, <2>1, PageSize
  <2>3. c \in Nat /\ a < c /\ c + HDR + s = End(a) /\ c < End(a)
    BY <1>2, <2>0, <1>8, <2>1, <2>2, PageSize
  <2>4. c \in Addrs
    BY <2>1, <2>2, <2>3, AddrFacts
  <2>5. c \notin B
    BY <1>2, <1>6, <2>1, <2>3 DEF Tiling
  <2> HIDE DEF c
  <2>6. /\ hdr' \in [Addrs -> Header]
        /\ hdr'[a].size = n /\ hdr'[a].free /\ hdr'[a].next = c
        /\ hdr'[c].size = s /\ hdr'[c].free /\ hdr'[c].next = hdr[a].next
        /\ \A x \in Addrs \ {a, c} : hdr'[x] = hdr[x]
    <3> DEFINE new == [size |-> s, free |-> TRUE, next |-> hdr[a].next]
               old == [[hdr[a] EXCEPT !.size = n] EXCEPT !.next = c]
    <3>1. hdr' = [[hdr EXCEPT ![c] = new] EXCEPT ![a] = old]
      BY <1>1, <1>8, <2>0 DEF split_block, Remainder, c
    <3>2. new \in Header /\ new.size = s /\ new.free /\ new.next = hdr[a].next
      BY <2>1, <2>3 DEF Header
    <3>3. old \in Header /\ old.size = n /\ old.free /\ old.next = c
      <4> DEFINE cut == [hdr[a] EXCEPT !.size = n]
      <4>1. cut \in Header /\ cut.size = n /\ cut.free
        BY <1>2, <2>1 DEF Header
      <4> HIDE DEF cut
      <4>2. /\ [cut EXCEPT !.next = c] \in Header /\ [cut EXCEPT !.next = c].size = n
            /\ [cut EXCEPT !.next = c].free /\ [cut EXCEPT !.next = c].next = c
        BY <2>4, <4>1 DEF Header
      <4> QED
        BY <4>2 DEF cut
    <3> HIDE DEF new, old
    <3>4. hdr \in [Addrs -> Header] /\ a # c
      BY <1>3, <2>1, <2>3 DEF HeapType
    <3>5. hdr' \in [Addrs -> Header] /\ hdr'[a] = old /\ hdr'[c] = new
          /\ \A x \in Addrs \ {a, c} : hdr'[x] = hdr[x]
      BY <1>2, <2>4, <3>1, <3>2, <3>3, <3>4
    <3> QED
      BY <3>2, <3>3, <3>5
  <2>7. HeapType'
    BY <1>1, <1>3, <1>4, <2>6 DEF HeapType
  <2>8. /\ \A x \in B \ {a} : x \in Addrs /\ x # c /\ hdr'[x] = hdr[x] /\ End(x)' = End(x)
        /\ End(a)' = c /\ End(c)' = End(a)
    <3>1. \A x \in B \ {a} : x \in Addrs /\ x # c /\ hdr'[x] = hdr[x]
      BY <1>3, <2>5, <2>6
    <3>2. a + HDR + n = c
      BY DEF c
    <3> QED
      BY <2>3, <2>6, <3>1, <3>2 DEF End
  <2>9. C \subseteq Addrs /\ 0 \in C /\ a # c /\ a \in C /\ c \in C
    BY <1>2, <1>3, <1>6, <2>4, <2>5 DEF Tiling
  <2>10. \A x \in B : x \in Nat /\ End(x) \in Nat /\ hdr[x].next \in B \cup {NULL}
    BY <1>3, <1>6, HeaderOf DEF Tiling
  <2>11. Tiling(C)'
    <3>1. \A x \in C : hdr'[x].next \in C \cup {NULL}
      BY <1>2, <2>6, <2>8, <2>10
    <3>2. ASSUME NEW x \in C PROVE End(x)' = IF hdr'[x].next = NULL THEN HeapEnd ELSE hdr'[x].next
      <4>1. CASE x = a
        BY <2>4, <2>6, <2>8, <4>1, AddrFacts
      <4>2. CASE x = c
        BY <1>2, <1>6, <2>6, <2>8, <4>2 DEF Tiling
      <4>3. CASE x \in B \ {a}
        BY <1>6, <2>8, <4>3 DEF Tiling
      <4> QED
        BY <4>1, <4>2, <4>3
    <3>3. ASSUME NEW x \in C PROVE End(x)' \leq HeapEnd
      <4>1. CASE x = a
        BY <2>1, <2>2, <2>3, <2>8, <4>1
      <4>2. CASE x = c
        BY <2>2, <2>8, <4>2
      <4>3. CASE x \in B \ {a}
        BY <1>6, <2>8, <4>3 DEF Tiling
      <4> QED
        BY <4>1, <4>2, <4>3
    <3>4. ASSUME NEW x \in C, NEW y \in C, x < y PROVE End(x)' \leq y
      <4>0. \A u, v \in B : u < v => End(u) \leq v
        BY <1>6 DEF Tiling
      <4>1. CASE x = a /\ y # c
        <5>1. End(a) \leq y /\ y \in Nat
          BY <1>2, <2>10, <3>4, <4>0, <4>1
        <5> QED
          BY <2>1, <2>3, <2>8, <4>1, <5>1
      <4>2. CASE x = a /\ y = c
        BY <2>3, <2>8, <4>2
      <4>3. CASE x = c
        <5>1. y \in B /\ y \in Nat /\ a < y
          BY <2>1, <2>3, <2>10, <3>4, <4>3
        <5> QED
          BY <1>2, <2>8, <4>0, <4>3, <5>1
      <4>4. CASE x \in B \ {a} /\ y \in B
        BY <2>8, <3>4, <4>0, <4>4
      <4>5. CASE x \in B \ {a} /\ y = c
        <5>1. x \in Nat /\ End(x) \in Nat
          BY <2>10, <4>5
        <5>2. ~(a < x)
          BY <1>2, <2>1, <2>3, <3>4, <4>0, <4>5, <5>1
        <5>3. x < a
          BY <2>1, <4>5, <5>1, <5>2
        <5>4. End(x) \leq a
          BY <1>2, <4>0, <4>5, <5>3
        <5> QED
          BY <2>1, <2>3, <2>8, <4>5, <5>1, <5>4
      <4> QED
        BY <4>1, <4>2, <4>3, <4>4, <4>5
    <3> QED
      BY <1>1, <2>9, <3>1, <3>2, <3>3, <3>4 DEF Tiling
  <2>12. Exact(C)'
    <3>1. \A k \in live : k.addr \in B /\ k.addr # a /\ k.size \in Nat /\ hdr[k.addr].size >= k.size
      BY <1>2, <1>6 DEF Exact
    <3>2. \A x \in C : ~hdr'[x].free <=> \E k \in live : k.addr = x
      <4>1. ASSUME NEW x \in B \ {a} PROVE ~hdr'[x].free <=> \E k \in live : k.addr = x
        BY <1>6, <2>8, <4>1 DEF Exact
      <4>2. hdr'[a].free /\ ~\E k \in live : k.addr = a
        BY <2>6, <3>1
      <4>3. hdr'[c].free /\ ~\E k \in live : k.addr = c
        BY <2>5, <2>6, <3>1
      <4> QED
        BY <4>1, <4>2, <4>3
    <3>3. \A k \in live : k.addr \in C /\ k.size \in Nat /\ hdr'[k.addr].size >= k.size
      BY <2>8, <3>1
    <3>4. \A k, l \in live : k.addr = l.addr => k = l
      BY <1>6 DEF Exact
    <3> QED
      BY <1>1, <3>2, <3>3, <3>4 DEF Exact
  <2>13. FirstPage'
    <3>1. hdr[0].next # NULL => hdr'[0].next # NULL
      <4>1. CASE a = 0
        BY <2>4, <2>6, <4>1, AddrFacts
      <4>2. CASE a # 0
        BY <1>6, <2>8, <4>2 DEF Tiling
      <4> QED
        BY <4>1, <4>2
    <3> QED
      BY <1>1, <1>6, <3>1 DEF FirstPage
  <2>14. Placed(C, t)'
    BY <1>0, <1>1, <1>2, <1>4, <2>6, <2>9 DEF Placed, Fits
  <2>15. ASSUME NEW x \in C PROVE Settled(x)' \/ Working(t, x)'
    <3>0. \A y \in B : hdr'[y].free <=> hdr[y].free
      BY <1>2, <2>6, <2>8
    <3>1. CASE x = a
      BY <1>4, <3>1 DEF Working
    <3>2. CASE x = c
      <4>1. Settled(a) /\ hdr[a].next \in B \cup {NULL}
        BY <1>2, <1>5, <2>10
      <4> QED
        BY <1>2, <2>6, <3>0, <3>2, <4>1 DEF Settled
    <3>3. CASE x \in B \ {a}
      <4>1. Settled(x) /\ hdr[x].next \in B \cup {NULL}
        BY <1>5, <2>10, <3>3
      <4> QED
        BY <2>8, <3>0, <3>3, <4>1 DEF Settled
    <3> QED
      BY <3>1, <3>2, <3>3
  <2>16. C \in SUBSET Addrs /\ HeapInvFor(C, t)'
    BY <2>9, <2>11, <2>12, <2>13, <2>14, <2>15 DEF HeapInvFor
  <2> QED
    BY <2>7, <2>16
<1> QED
  BY <1>7, <1>8

\* The loop of kheap_free takes a block out of the list or goes on.
LEMMA MergeStep ==
  ASSUME NEW t \in Tasks, NEW B, Ready(B, t), Merge(t)
  PROVE  HeapType' /\ \E C \in SUBSET Addrs : HeapInvFor(C, t)'
<1>1. /\ UNCHANGED <<heap_current, req, live>> /\ HeapEnd' = HeapEnd /\ pc[t] = "merge"
  BY DEF Merge, At, HeapEnd
<1>2. PICK a \in Addrs : a = ptr[t] /\ a \in B
  BY <1>1 DEF Ready, HeapInvFor, Placed
<1>3. /\ HeapType /\ B \in SUBSET Addrs /\ B \subseteq Addrs
      /\ Tiling(B) /\ Exact(B) /\ FirstPage
      /\ \A x \in B : Settled(x) \/ a \leq x
  BY <1>1, <1>2 DEF Ready, HeapInvFor, Working
<1>4. /\ \A x \in B : /\ x \in Nat /\ End(x) \in Nat /\ x < End(x) /\ End(x) \leq HeapEnd
                      /\ hdr[x].next \in B \cup {NULL}
      /\ \A x, y \in B : x < y => End(x) \leq y
      /\ HeapEnd \in Nat
  <2>1. \A x \in B : x \in Nat /\ End(x) \in Nat /\ End(x) = x + HDR + hdr[x].size /\ hdr[x].size \in Nat
    BY <1>3, HeaderOf DEF End
  <2>2. \A x \in B : x < End(x)
    BY <2>1, PageSize
  <2> QED
    BY <1>3, <2>1, <2>2 DEF Tiling, HeapType
<1>5. CASE Mergeable(hdr[a])
  <2>0. hdr[a].next \in B /\ hdr[a].free /\ hdr[hdr[a].next].free
    BY <1>2, <1>4, <1>5 DEF Mergeable
  <2>1. PICK m \in B : m = hdr[a].next /\ hdr[m].free /\ m \in Addrs
    BY <1>3, <2>0
  <2>2. PICK z \in Nat, e \in Addrs \cup {NULL} : z = hdr[m].size /\ e = hdr[m].next
    BY <1>3, <2>1, HeaderOf
  <2>3. hdr[a] \in Header /\ hdr[a].size \in Nat /\ m # NULL /\ End(a) = m /\ a < m
    BY <1>2, <1>3, <1>4, <2>1, HeaderOf, AddrFacts DEF Tiling
  <2> DEFINE C == B \ {m}
  <2>4. /\ hdr' \in [Addrs -> Header]
        /\ hdr'[a].size = hdr[a].size + HDR + z /\ hdr'[a].free /\ hdr'[a].next = e
        /\ \A x \in Addrs \ {a} : hdr'[x] = hdr[x]
        /\ ptr' = ptr /\ pc' = pc
    <3> DEFINE wide == [hdr[a] EXCEPT !.size = hdr[a].size + HDR + z]
               new == [wide EXCEPT !.next = e]
    <3>1. hdr' = Merged(a) /\ ptr' = ptr /\ pc' = pc
      BY <1>2, <1>5 DEF Merge
    <3>2. hdr \in [Addrs -> Header]
      BY <1>3 DEF HeapType
    <3>3. wide \in Header /\ wide.size = hdr[a].size + HDR + z /\ wide.free
      <4>1. hdr[a].size + HDR + z \in Nat
        BY <2>2, <2>3, PageSize
      <4> QED
        BY <2>0, <2>3, <4>1 DEF Header
    <3>4. Merged(a) = [[hdr EXCEPT ![a] = wide] EXCEPT ![a] = [wide EXCEPT !.next = e]]
      <4>1. Merged(a) = [hdr EXCEPT ![a].size = @ + HDR + z, ![a].next = e]
        BY <2>1, <2>2 DEF Merged
      <4>2. [hdr EXCEPT ![a] = wide][a] = wide
        BY <1>2, <3>2
      <4> QED
        BY <4>1, <4>2
    <3> HIDE DEF wide
    <3>5. new \in Header /\ new.size = hdr[a].size + HDR + z /\ new.free /\ new.next = e
      BY <2>2, <3>3 DEF Header
    <3> HIDE DEF new
    <3>6. hdr' = [[hdr EXCEPT ![a] = wide] EXCEPT ![a] = new]
      BY <3>1, <3>4 DEF new
    <3>7. hdr' \in [Addrs -> Header] /\ hdr'[a] = new /\ \A x \in Addrs \ {a} : hdr'[x] = hdr[x]
      BY <1>2, <3>2, <3>3, <3>5, <3>6
    <3> QED
      BY <3>1, <3>5, <3>7
  <2>5. HeapType'
    BY <1>1, <1>3, <2>4 DEF HeapType
  <2>6. /\ \A x \in C \ {a} : x \in Addrs /\ hdr'[x] = hdr[x] /\ End(x)' = End(x) /\ hdr[x].next # m
        /\ End(a)' = End(m)
    <3>1. \A x \in C \ {a} : x \in Addrs /\ hdr'[x] = hdr[x] /\ End(x)' = End(x)
      BY <1>3, <2>4 DEF End
    <3>2. ASSUME NEW x \in C \ {a} PROVE hdr[x].next # m
      <4> SUFFICES ASSUME hdr[x].next = m PROVE FALSE
        OBVIOUS
      <4>1. End(x) = m /\ x \in B /\ x \in Nat /\ a \in Nat
        BY <1>2, <1>3, <1>4, <2>3 DEF Tiling
      <4>2. x < a \/ a < x
        BY <4>1
      <4>3. End(x) \leq a \/ End(a) \leq x
        BY <1>2, <1>4, <4>1, <4>2
      <4> QED
        BY <1>4, <2>3, <4>1, <4>3
    <3>3. End(a)' = End(m)
      <4>1. m = a + HDR + hdr[a].size
        BY <2>3 DEF End
      <4>2. End(m) = m + HDR + z
        BY <2>2 DEF End
      <4>3. End(a)' = a + HDR + (hdr[a].size + HDR + z)
        BY <2>4 DEF End
      <4> QED
        BY <1>2, <1>4, <2>2, <2>3, <4>1, <4>2, <4>3, PageSize
    <3> QED
      BY <3>1, <3>2, <3>3
  <2>7. C \subseteq Addrs /\ 0 \in C /\ a \in C
    <3>1. m # 0 /\ m # a
      BY <1>2, <1>4, <2>3
    <3> QED
      BY <1>2, <1>3, <3>1 DEF Tiling
  <2>8. Tiling(C)'
    <3>0. m < End(m) /\ e \in B \cup {NULL} /\ e # m /\ End(m) \leq HeapEnd
          /\ End(m) = IF e = NULL THEN HeapEnd ELSE e
      <4>1. m < End(m) /\ e \in B \cup {NULL} /\ End(m) \leq HeapEnd /\ m \in Nat
        BY <1>4, <2>2
      <4>2. End(m) = IF e = NULL THEN HeapEnd ELSE e
        BY <1>3, <2>2 DEF Tiling
      <4> QED
        BY <2>3, <4>1, <4>2
    <3>1. \A x \in C : hdr'[x].next \in C \cup {NULL}
      BY <1>4, <2>4, <2>6, <3>0
    <3>2. \A x \in C : End(x)' = IF hdr'[x].next = NULL THEN HeapEnd ELSE hdr'[x].next
      BY <1>3, <2>4, <2>6, <3>0 DEF Tiling
    <3>3. \A x \in C : End(x)' \leq HeapEnd
      BY <1>4, <2>6, <3>0
    <3>4. ASSUME NEW x \in C, NEW y \in C, x < y PROVE End(x)' \leq y
      <4>1. CASE x # a
        BY <1>4, <2>6, <3>4, <4>1
      <4>2. CASE x = a
        <5>1. m \leq y /\ m # y /\ y \in Nat /\ m \in Nat
          BY <1>4, <2>3, <3>4, <4>2
        <5>2. m < y
          BY <5>1
        <5> QED
          BY <1>4, <2>6, <4>2, <5>2
      <4> QED
        BY <4>1, <4>2
    <3> QED
      BY <1>1, <2>7, <3>1, <3>2, <3>3, <3>4 DEF Tiling
  <2>9. Exact(C)'
    <3>1. \A k \in live : k.addr \in B /\ k.addr # a /\ k.addr # m /\ k.size \in Nat /\ hdr[k.addr].size >= k.size
      BY <1>2, <1>3, <2>0, <2>1 DEF Exact
    <3>2. \A x \in C : ~hdr'[x].free <=> \E k \in live : k.addr = x
      <4>1. ASSUME NEW x \in C \ {a} PROVE ~hdr'[x].free <=> \E k \in live : k.addr = x
        BY <1>3, <2>6, <4>1 DEF Exact
      <4> QED
        BY <2>4, <3>1, <4>1
    <3>3. \A k \in live : k.addr \in C /\ k.size \in Nat /\ hdr'[k.addr].size >= k.size
      BY <2>6, <3>1
    <3>4. \A k, l \in live : k.addr = l.addr => k = l
      BY <1>3 DEF Exact
    <3> QED
      BY <1>1, <3>2, <3>3, <3>4 DEF Exact
  <2>10. FirstPage'
    <3> SUFFICES ASSUME heap_current = 0 PROVE KernelAlloc \in live /\ hdr'[0].next # NULL
      BY <1>1 DEF FirstPage
    <3>1. KernelAlloc \in live /\ hdr[0].next # NULL
      BY <1>3 DEF FirstPage
    <3>2. KernelAlloc.addr = 0
      BY DEF KernelAlloc
    <3>3. a # 0
      BY <1>2, <1>3, <2>0, <3>1, <3>2 DEF Exact
    <3> QED
      BY <2>4, <3>1, <3>3, AddrFacts
  <2>11. Placed(C, t)'
    BY <1>1, <1>2, <2>4, <2>7 DEF Placed
  <2>12. ASSUME NEW x \in C PROVE Settled(x)' \/ Working(t, x)'
    <3>1. CASE a \leq x
      BY <1>1, <1>2, <2>4, <3>1 DEF Working
    <3>2. CASE ~(a \leq x)
      <4>1. x # a /\ Settled(x) /\ hdr[x].next \in C \cup {NULL}
        BY <1>2, <1>3, <1>4, <2>6, <3>2
      <4>2. \A y \in C : hdr'[y].free <=> hdr[y].free
        BY <2>0, <2>4, <2>6
      <4> QED
        BY <2>6, <4>1, <4>2 DEF Settled
    <3> QED
      BY <3>1, <3>2
  <2>13. C \in SUBSET Addrs /\ HeapInvFor(C, t)'
    BY <2>7, <2>8, <2>9, <2>10, <2>11, <2>12 DEF HeapInvFor
  <2> QED
    BY <2>5, <2>13
<1>6. CASE ~Mergeable(hdr[a])
  <2>1. /\ hdr' = hdr /\ ptr' = [ptr EXCEPT ![t] = hdr[a].next]
        /\ hdr[a].next = NULL => pc' = [pc EXCEPT ![t] = "idle"]
        /\ hdr[a].next # NULL => pc' = pc
    BY <1>2, <1>6 DEF Merge, Goto
  <2>2. hdr[a].next \in B \cup {NULL}
    BY <1>2, <1>4
  <2>3. /\ ptr' \in [Tasks -> Addrs \cup {NULL}] /\ ptr'[t] = hdr[a].next
        /\ pc' \in [Tasks -> Places]
        /\ pc'[t] = IF hdr[a].next = NULL THEN "idle" ELSE "merge"
    BY <1>1, <1>3, <2>1, <2>2 DEF HeapType, Places
  <2>4. HeapType'
    BY <1>1, <1>3, <2>1, <2>3 DEF HeapType
  <2>5. Tiling(B)' /\ Exact(B)' /\ FirstPage'
    BY <1>1, <1>3, <2>1 DEF Tiling, Exact, FirstPage, End
  <2>6. Placed(B, t)'
    BY <2>2, <2>3 DEF Placed
  <2>7. Settled(a)
    BY <1>6 DEF Settled, Mergeable
  <2>8. ASSUME NEW x \in B PROVE Settled(x)' \/ Working(t, x)'
    <3>1. CASE Settled(x)
      BY <2>1, <3>1 DEF Settled
    <3>2. CASE ~Settled(x)
      <4>1. a < x /\ End(a) \leq x
        BY <1>2, <1>3, <1>4, <2>7, <3>2
      <4>2. hdr[a].next # NULL /\ hdr[a].next \leq x
        <5>1. End(a) = IF hdr[a].next = NULL THEN HeapEnd ELSE hdr[a].next
          BY <1>2, <1>3 DEF Tiling
        <5>2. ~(HeapEnd \leq x)
          BY <1>4
        <5> QED
          BY <4>1, <5>1, <5>2
      <4> QED
        BY <2>3, <4>2 DEF Working
    <3> QED
      BY <3>1, <3>2
  <2> QED
    BY <1>3, <2>4, <2>5, <2>6, <2>8 DEF HeapInvFor
<1> QED
  BY <1>5, <1>6

\* A growth appends a block, fails, or replaces the first page with all its
\* blocks by one new block.
LEMMA GrowStep ==
  ASSUME NEW t \in Tasks, NEW B, Ready(B, t), Grow(t)
  PROVE  HeapType' /\ (~garbage' => \E C \in SUBSET Addrs : HeapInvFor(C, t)')
<1>1. PICK a \in Addrs, n \in Nat : a = ptr[t] /\ a \in B /\ n = req[t] /\ hdr[a].next = NULL
  BY DEF Ready, HeapInvFor, Placed, FrameInv, Grow, At
<1>2. PICK k \in Nat \ {0} : k = PagesFor(n) /\ n + HDR \leq k * PAGE_SIZE /\ k * PAGE_SIZE \in Nat \ {0}
  BY PagesForBounds
<1>3. PICK base \in Nat : base = heap_current
  <2>1. PICK m \in Nat : heap_current = m * PAGE_SIZE
    BY DEF Ready, FrameInv
  <2> QED
    BY <2>1, PageSize
<1>4. PICK T : T = Lowest(k)
  OBVIOUS
<1> DEFINE over == base = 0 /\ T # {}
           left == IF over THEN {} ELSE live
           kept == [x \in Addrs |-> IF over /\ x < PAGE_SIZE THEN Blank ELSE hdr[x]]
           block == [size |-> k * PAGE_SIZE - HDR, free |-> FALSE, next |-> NULL]
<1>5. /\ pc' = [pc EXCEPT ![t] = "idle"] /\ ptr' = ptr /\ req' = req
      /\ base + k * PAGE_SIZE \leq Pages * PAGE_SIZE
      /\ \/ /\ Cardinality(T) < k /\ hdr' = kept /\ live' = left /\ garbage' = over
            /\ heap_current' = heap_current
         \/ /\ ~(Cardinality(T) < k)
            /\ hdr' = [[kept EXCEPT ![base] = block] EXCEPT ![a].next = base]
            /\ heap_current' = base + k * PAGE_SIZE
            /\ live' = left \cup {Alloc(t, base)}
            /\ garbage' = garbage
  <2>1. k = PagesFor(req[t]) /\ T = Lowest(PagesFor(req[t]))
    BY <1>1, <1>2, <1>4
  <2> QED
    BY <1>1, <1>3, <2>1 DEF Grow, Goto, Grown
<1>6. /\ HeapType /\ B \in SUBSET Addrs /\ B \subseteq Addrs
      /\ Tiling(B) /\ Exact(B) /\ FirstPage
      /\ \A x \in B : Settled(x)
  BY DEF Ready, HeapInvFor, Working, Grow, At
<1>7. pc' \in [Tasks -> Places] /\ pc'[t] = "idle" /\ ptr' \in [Tasks -> Addrs \cup {NULL}]
  BY <1>5, <1>6 DEF HeapType, Places
<1>8. kept \in [Addrs -> Header] /\ hdr \in [Addrs -> Header] /\ block \in Header
      /\ HeapEnd \in Nat /\ HeapEnd \leq Pages * PAGE_SIZE
  <2>1. k * PAGE_SIZE - HDR \in Nat
    BY <1>2, PageSize
  <2>2. Blank \in Header /\ block \in Header
    BY <2>1 DEF Blank, Header
  <2> QED
    BY <1>6, <2>2 DEF HeapType
<1>9. \A C : Placed(C, t)'
  BY <1>7 DEF Placed
<1>10. CASE Cardinality(T) < k
  <2>1. hdr' = kept /\ live' = left /\ garbage' = over /\ heap_current' = heap_current /\ HeapEnd' = HeapEnd
    BY <1>5, <1>10 DEF HeapEnd
  <2>2. HeapType'
    BY <1>7, <1>8, <2>1 DEF HeapType
  <2>3. CASE ~over
    <3>1. hdr' = hdr /\ live' = live
      <4>1. kept = [x \in Addrs |-> hdr[x]]
        BY <2>3
      <4> HIDE DEF over, kept
      <4>2. kept = hdr
        BY <1>8, <4>1
      <4> QED
        BY <2>1, <2>3, <4>2
    <3>2. Tiling(B)' /\ Exact(B)' /\ FirstPage' /\ \A x \in B : Settled(x)'
      BY <1>6, <2>1, <3>1 DEF Tiling, Exact, FirstPage, End, Settled
    <3> QED
      BY <1>6, <1>9, <2>2, <3>2 DEF HeapInvFor
  <2> QED
    BY <2>1, <2>2, <2>3
<1>11. CASE ~(Cardinality(T) < k)
  <2>1. /\ hdr' = [[kept EXCEPT ![base] = block] EXCEPT ![a].next = base]
        /\ heap_current' = base + k * PAGE_SIZE
        /\ live' = left \cup {Alloc(t, base)}
    BY <1>5, <1>11
  <2>2. base \in Addrs
    BY <1>2, <1>3, <1>5, AddrFacts
  <2>3. HeapEnd' = base + k * PAGE_SIZE /\ HeapEnd' \in Nat
    BY <1>2, <1>3, <2>1 DEF HeapEnd
  <2>4. block.size = k * PAGE_SIZE - HDR /\ ~block.free /\ block.next = NULL
    OBVIOUS
  <2> DEFINE new == Alloc(t, base)
  <2>5. new.addr = base /\ new.size = n
    BY <1>1 DEF Alloc
  <2> HIDE DEF block, kept, new
  <2>6. PICK g : g = [kept EXCEPT ![base] = block]
    OBVIOUS
  <2>7. g \in [Addrs -> Header] /\ g[base] = block /\ \A x \in Addrs \ {base} : g[x] = kept[x]
    BY <1>8, <2>2, <2>6
  <2>8. /\ hdr' \in [Addrs -> Header]
        /\ hdr'[a].next = base /\ hdr'[a].size = g[a].size /\ hdr'[a].free = g[a].free
        /\ \A x \in Addrs \ {a} : hdr'[x] = g[x]
    <3> DEFINE link == [g[a] EXCEPT !.next = base]
    <3>1. link \in Header /\ link.next = base /\ link.size = g[a].size /\ link.free = g[a].free
      BY <2>2, <2>7 DEF Header
    <3>2. hdr' = [g EXCEPT ![a] = link]
      BY <2>1, <2>6
    <3> HIDE DEF link
    <3>3. hdr' \in [Addrs -> Header] /\ hdr'[a] = link /\ \A x \in Addrs \ {a} : hdr'[x] = g[x]
      BY <1>1, <2>7, <3>1, <3>2
    <3> QED
      BY <3>1, <3>3
  <2>9. HeapType'
    BY <1>5, <1>7, <2>3, <2>8 DEF HeapType
  <2>10. T # {}
    <3> SUFFICES ASSUME T = {} PROVE FALSE
      OBVIOUS
    <3>1. Cardinality(T) = 0
      BY FS_EmptySet
    <3> QED
      BY <1>2, <1>11, <3>1
  <2>11. CASE base = 0
    <3>1. live' = {new} /\ a # base
      <4>1. hdr[0].next # NULL
        BY <1>3, <1>6, <2>11 DEF FirstPage
      <4> QED
        BY <1>1, <2>1, <2>10, <2>11, <4>1 DEF new
    <3>2. hdr'[0].size = k * PAGE_SIZE - HDR /\ ~hdr'[0].free /\ hdr'[0].next = NULL
      BY <2>2, <2>4, <2>7, <2>8, <2>11, <3>1
    <3>3. End(0)' = HeapEnd'
      BY <1>2, <2>3, <2>11, <3>2, PageSize DEF End
    <3>4. Tiling({0})'
      BY <2>3, <3>2, <3>3, AddrFacts DEF Tiling
    <3>5. Exact({0})'
      <4>1. k * PAGE_SIZE - HDR >= n
        BY <1>2, PageSize
      <4>2. \A x \in {0} : ~hdr'[x].free <=> \E l \in live' : l.addr = x
        BY <2>5, <2>11, <3>1, <3>2
      <4>3. \A l \in live' : l.addr \in {0} /\ l.size \in Nat /\ hdr'[l.addr].size >= l.size
        BY <2>5, <2>11, <3>1, <3>2, <4>1
      <4>4. \A x, y \in live' : x.addr = y.addr => x = y
        BY <3>1
      <4> QED
        BY <4>2, <4>3, <4>4 DEF Exact
    <3>6. heap_current' # 0
      BY <1>2, <2>1, <2>11
    <3>7. \A x \in {0} : Settled(x)'
      BY <3>2 DEF Settled
    <3>8. HeapInvFor({0}, t)'
      BY <1>9, <3>4, <3>5, <3>6, <3>7 DEF HeapInvFor, FirstPage
    <3> QED
      BY <2>9, <3>8, AddrFacts
  <2>12. CASE base # 0
    <3> DEFINE C == B \cup {base}
    <3>1. kept = hdr /\ live' = live \cup {new}
      <4>1. kept = [x \in Addrs |-> hdr[x]]
        BY <2>12 DEF kept
      <4> QED
        BY <1>8, <2>1, <2>12, <4>1 DEF new
    <3>2. HeapEnd = base
      BY <1>3, <2>12 DEF HeapEnd
    <3>3. \A x \in B : /\ x \in Addrs /\ x \in Nat /\ End(x) \in Nat /\ x < base /\ End(x) \leq base
                       /\ hdr[x].size \in Nat /\ hdr[x].next \in B \cup {NULL}
      <4>1. \A x \in B : x \in Addrs /\ x \in Nat /\ End(x) \in Nat /\ hdr[x].size \in Nat
                         /\ End(x) = x + HDR + hdr[x].size
        BY <1>6, HeaderOf DEF End
      <4>2. \A x \in B : End(x) \leq base /\ hdr[x].next \in B \cup {NULL}
        BY <1>6, <3>2 DEF Tiling
      <4>3. \A x \in B : x < base
        BY <1>3, <4>1, <4>2, PageSize
      <4> QED
        BY <4>1, <4>2, <4>3
    <3>4. base \notin B /\ a # base
      BY <1>1, <1>3, <3>3
    <3>5. /\ hdr'[base] = block /\ hdr'[a].next = base /\ hdr'[a].size = hdr[a].size /\ hdr'[a].free = hdr[a].free
          /\ \A x \in B \ {a} : hdr'[x] = hdr[x]
      BY <1>1, <2>2, <2>7, <2>8, <3>1, <3>3, <3>4
    <3>6. /\ \A x \in B : End(x)' = End(x) /\ (hdr'[x].free <=> hdr[x].free) /\ hdr'[x].size = hdr[x].size
          /\ End(base)' = HeapEnd' /\ End(a) = base
      <4>1. End(base)' = HeapEnd'
        <5>1. End(base)' = base + HDR + (k * PAGE_SIZE - HDR)
          BY <2>4, <3>5 DEF End
        <5> QED
          BY <1>2, <1>3, <2>3, <5>1, PageSize
      <4>2. End(a) = base
        BY <1>1, <1>6, <3>2 DEF Tiling
      <4>3. \A x \in B : (hdr'[x].free <=> hdr[x].free) /\ hdr'[x].size = hdr[x].size
        BY <3>5
      <4> QED
        BY <4>1, <4>2, <4>3 DEF End
    <3>7. C \subseteq Addrs /\ 0 \in C /\ C \in SUBSET Addrs
      BY <1>6, <2>2 DEF Tiling
    <3>8. base < HeapEnd' /\ NULL # base
      BY <1>2, <1>3, <2>2, <2>3, AddrFacts
    <3>9. Tiling(C)'
      <4>1. \A x \in C : hdr'[x].next \in C \cup {NULL}
        BY <2>4, <3>3, <3>5
      <4>2. ASSUME NEW x \in C PROVE End(x)' = IF hdr'[x].next = NULL THEN HeapEnd' ELSE hdr'[x].next
        <5>1. CASE x = base
          BY <2>4, <3>5, <3>6, <5>1
        <5>2. CASE x = a
          BY <1>1, <3>5, <3>6, <3>8, <5>2
        <5>3. CASE x \in B \ {a}
          <6>1. hdr[x].next # NULL
            <7> SUFFICES ASSUME hdr[x].next = NULL PROVE FALSE
              OBVIOUS
            <7>1. End(x) = base /\ x \in Nat /\ a \in Nat /\ x # a
              BY <1>1, <1>6, <3>2, <3>3, <5>3 DEF Tiling
            <7>2. x < a \/ a < x
              BY <7>1
            <7>3. End(x) \leq a \/ End(a) \leq x
              BY <1>1, <1>6, <5>3, <7>2 DEF Tiling
            <7> QED
              BY <1>1, <1>3, <3>3, <3>6, <5>3, <7>1, <7>3
          <6>2. End(x) = hdr[x].next
            BY <1>6, <5>3, <6>1 DEF Tiling
          <6> QED
            BY <3>5, <3>6, <5>3, <6>1, <6>2
        <5> QED
          BY <5>1, <5>2, <5>3
      <4>3. \A x \in C : End(x)' \leq HeapEnd'
        BY <1>3, <2>3, <3>3, <3>6, <3>8
      <4>4. ASSUME NEW x \in C, NEW y \in C, x < y PROVE End(x)' \leq y
        <5>1. x # base
          BY <1>3, <3>3, <4>4
        <5>2. CASE y = base
          BY <3>3, <3>6, <5>1, <5>2
        <5>3. CASE y \in B
          BY <1>6, <3>6, <4>4, <5>1, <5>3 DEF Tiling
        <5> QED
          BY <5>2, <5>3
      <4> QED
        BY <3>7, <4>1, <4>2, <4>3, <4>4 DEF Tiling
    <3>10. Exact(C)'
      <4>0. k * PAGE_SIZE - HDR >= n
        BY <1>2, PageSize
      <4>1. \A l \in live : l.addr \in B /\ l.size \in Nat /\ hdr[l.addr].size >= l.size /\ l.addr # base
        BY <1>6, <3>4 DEF Exact
      <4>2. \A x \in C : ~hdr'[x].free <=> \E l \in live' : l.addr = x
        <5>1. ~hdr'[base].free /\ \E l \in live' : l.addr = base
          BY <2>4, <2>5, <3>1, <3>5
        <5>2. ASSUME NEW x \in B PROVE ~hdr'[x].free <=> \E l \in live' : l.addr = x
          <6>1. ~hdr[x].free <=> \E l \in live : l.addr = x
            BY <1>6 DEF Exact
          <6>2. new.addr # x
            BY <2>5, <3>4
          <6> QED
            BY <3>1, <3>6, <6>1, <6>2
        <5> QED
          BY <5>1, <5>2
      <4>3. ASSUME NEW l \in live' PROVE l.addr \in C /\ l.size \in Nat /\ hdr'[l.addr].size >= l.size
        <5>1. CASE l = new
          BY <2>4, <2>5, <3>5, <4>0, <5>1
        <5>2. CASE l \in live
          BY <3>6, <4>1, <5>2
        <5> QED
          BY <3>1, <5>1, <5>2
      <4>4. \A x, y \in live' : x.addr = y.addr => x = y
        <5>1. \A x, y \in live : x.addr = y.addr => x = y
          BY <1>6 DEF Exact
        <5> QED
          BY <2>5, <3>1, <4>1, <5>1
      <4> QED
        BY <4>2, <4>3, <4>4 DEF Exact
    <3>11. heap_current' # 0
      BY <1>2, <1>3, <2>1
    <3>12. ASSUME NEW x \in C PROVE Settled(x)'
      <4>1. CASE x = base
        BY <2>4, <3>5, <4>1 DEF Settled
      <4>2. CASE x = a
        BY <2>4, <3>5, <4>2 DEF Settled
      <4>3. CASE x \in B \ {a}
        <5>1. Settled(x) /\ hdr[x].next \in B \cup {NULL}
          BY <1>6, <3>3, <4>3
        <5> QED
          BY <3>5, <3>6, <4>3, <5>1 DEF Settled
      <4> QED
        BY <4>1, <4>2, <4>3
    <3>13. HeapInvFor(C, t)'
      BY <1>9, <3>9, <3>10, <3>11, <3>12 DEF HeapInvFor, FirstPage
    <3> QED
      BY <2>9, <3>7, <3>13
  <2> QED
    BY <2>11, <2>12
<1> QED
  BY <1>10, <1>11

\* Every step keeps the list, as long as one task at a time takes steps.
LEMMA ListNext ==
  ASSUME FrameInv, ListInv, Serial, Serial', [Next]_vars
  PROVE  ListInv'
<1>1. ASSUME NEW t \in Tasks, ~garbage, Alone(t), \A u \in Tasks \ {t} : pc'[u] = pc[u],
             \A B \in SUBSET Addrs :
               Ready(B, t) => HeapType' /\ (~garbage' => \E C \in SUBSET Addrs : HeapInvFor(C, t)')
      PROVE  ListInv'
  <2>1. PICK B \in SUBSET Addrs : HeapInv(B)
    BY <1>1 DEF ListInv
  <2>2. HeapInvFor(B, t) /\ HeapType
    BY <1>1, <2>1, ForTask DEF ListInv
  <2>3. HeapType' /\ (~garbage' => \E C \in SUBSET Addrs : HeapInvFor(C, t)')
    BY <1>1, <2>2 DEF Ready
  <2>4. Alone(t)'
    BY <1>1, <2>2, StillAlone
  <2>5. ASSUME ~garbage' PROVE \E C \in SUBSET Addrs : HeapInv(C)'
    <3>1. PICK C \in SUBSET Addrs : HeapInvFor(C, t)'
      BY <2>3, <2>5
    <3>2. HeapInv(C)'
      BY <2>4, <3>1, ForAll
    <3> QED
      BY <3>2
  <2> QED
    BY <2>3, <2>5 DEF ListInv
<1>2. ASSUME NEW t \in Tasks, NEW l, Goto(t, l) PROVE \A u \in Tasks \ {t} : pc'[u] = pc[u]
  BY <1>2 DEF Goto, ListInv, HeapType
<1>3. ASSUME NEW t \in Tasks, Step(t) PROVE ListInv'
  <2>1. ~garbage /\ pc[t] # "idle"
    BY <1>3 DEF Step, Scan, Split, Mark, Grow, Merge, At
  <2>2. Alone(t)
    BY <2>1, AloneNow
  <2>3. (\E l : Goto(t, l)) \/ pc' = pc
    BY <1>3 DEF Step, Scan, Split, Mark, Grow, Merge
  <2>4. \A u \in Tasks \ {t} : pc'[u] = pc[u]
    BY <1>2, <2>3
  <2>5. ASSUME NEW B \in SUBSET Addrs, Ready(B, t)
        PROVE  HeapType' /\ (~garbage' => \E C \in SUBSET Addrs : HeapInvFor(C, t)')
    BY <1>3, <2>5, ScanStep, SplitStep, MarkStep, GrowStep, MergeStep DEF Step
  <2> QED
    BY <1>1, <2>1, <2>2, <2>4, <2>5
<1>4. ASSUME NEW t \in Tasks, NEW n \in Sizes, kmalloc(t, n) PROVE ListInv'
  <2>1. ~garbage /\ Goto(t, "scan") /\ "scan" \in Places \ {"idle"} /\ HeapType
    BY <1>4 DEF kmalloc, At, ListInv, Places
  <2>2. Alone(t)
    BY <2>1, AloneStart
  <2>3. \A u \in Tasks \ {t} : pc'[u] = pc[u]
    BY <1>2, <2>1
  <2>4. ASSUME NEW B \in SUBSET Addrs, Ready(B, t)
        PROVE  HeapType' /\ HeapInvFor(B, t)'
    BY <1>4, <2>4, StartMalloc
  <2> QED
    BY <1>1, <2>1, <2>2, <2>3, <2>4
<1>5. ASSUME NEW t \in Tasks, NEW l \in live, kfree(t, l) PROVE ListInv'
  <2>1. ~garbage /\ Goto(t, "merge") /\ "merge" \in Places \ {"idle"} /\ HeapType
    BY <1>5 DEF kfree, At, ListInv, Places
  <2>2. Alone(t)
    BY <2>1, AloneStart
  <2>3. \A u \in Tasks \ {t} : pc'[u] = pc[u]
    BY <1>2, <2>1
  <2>4. ASSUME NEW B \in SUBSET Addrs, Ready(B, t)
        PROVE  HeapType' /\ HeapInvFor(B, t)'
    BY <1>5, <2>4, StartFree
  <2> QED
    BY <1>1, <2>1, <2>2, <2>3, <2>4
<1>6. CASE UNCHANGED vars
  BY <1>6 DEF vars, ListInv, HeapType, HeapInv, Tiling, Exact, FirstPage, Placed, Joined,
              Settled, Working, End, HeapEnd
<1> QED
  BY <1>3, <1>4, <1>5, <1>6 DEF Next

\* The inductive invariant holds.
LEMMA ListAlways == Spec /\ []Serial => []ListInv
BY FrameInvInit, FrameInvNext, HeapInit, ListNext, PTL DEF Spec

\* The recursive function that follows the list exists: the least closed sets
\* satisfy its equation, for headers outside the list as well.
LEMMA ChainEquation ==
  ASSUME HeapType
  PROVE  Chain = [a \in Addrs |->
                   {a} \cup IF hdr[a].next = NULL THEN {}
                            ELSE IF hdr[a].next \leq a THEN {} ELSE Chain[hdr[a].next]]
<1> DEFINE Up(a) == hdr[a].next # NULL /\ ~(hdr[a].next \leq a)
           Closed(S) == \A a \in S : Up(a) => hdr[a].next \in S
           Least(a) == { x \in Addrs : \A S \in SUBSET Addrs : a \in S /\ Closed(S) => x \in S }
           Eq(f) == f = [a \in Addrs |->
                          {a} \cup IF hdr[a].next = NULL THEN {}
                                   ELSE IF hdr[a].next \leq a THEN {} ELSE f[hdr[a].next]]
           W == [a \in Addrs |-> Least(a)]
<1>1. \A a \in Addrs : hdr[a].next \in Addrs \cup {NULL}
  BY HeaderOf
<1>2. \A a \in Addrs : Least(a) \in SUBSET Addrs /\ a \in Least(a) /\ Closed(Least(a))
  BY <1>1
<1>3. \A a \in Addrs, S \in SUBSET Addrs : a \in S /\ Closed(S) => Least(a) \subseteq S
  OBVIOUS
<1> HIDE DEF Least
<1>4. ASSUME NEW a \in Addrs PROVE Least(a) = {a} \cup IF Up(a) THEN Least(hdr[a].next) ELSE {}
  <2>1. CASE ~Up(a)
    <3>1. Closed({a}) /\ {a} \in SUBSET Addrs
      BY <2>1
    <3>2. Least(a) \subseteq {a}
      BY <1>3, <3>1
    <3> QED
      BY <1>2, <2>1, <3>2
  <2>2. CASE Up(a)
    <3>1. PICK n \in Addrs : n = hdr[a].next
      BY <1>1, <2>2
    <3>2. Closed({a} \cup Least(n)) /\ {a} \cup Least(n) \in SUBSET Addrs
      BY <1>2, <2>2, <3>1
    <3>3. Least(a) \subseteq {a} \cup Least(n)
      BY <1>3, <3>2
    <3>4. n \in Least(a)
      BY <1>2, <2>2, <3>1
    <3>5. Least(n) \subseteq Least(a)
      BY <1>2, <1>3, <3>4
    <3> QED
      BY <1>2, <2>2, <3>1, <3>3, <3>5
  <2> QED
    BY <2>1, <2>2
<1>5. Eq(W)
  <2>1. ASSUME NEW a \in Addrs
        PROVE  W[a] = {a} \cup IF hdr[a].next = NULL THEN {}
                               ELSE IF hdr[a].next \leq a THEN {} ELSE W[hdr[a].next]
    <3>1. CASE Up(a)
      BY <1>1, <1>4, <3>1
    <3>2. CASE ~Up(a)
      BY <1>4, <3>2
    <3> QED
      BY <3>1, <3>2
  <2> HIDE DEF W
  <2>2. W = [a \in Addrs |-> W[a]]
    BY DEF W
  <2> QED
    BY <2>1, <2>2
<1>6. Chain = CHOOSE f : Eq(f)
  BY DEF Chain
<1> HIDE DEF Eq
<1>7. Eq(Chain)
  BY <1>5, <1>6
<1> QED
  BY <1>7 DEF Eq

\* It reaches exactly the blocks: no block leads out of the list, as the
\* greatest that did would lead to a greater one; and every block is reached,
\* as the least that is not comes after one that is.
LEMMA ChainIsList ==
  ASSUME HeapType, NEW B \in SUBSET Addrs, Tiling(B)
  PROVE  Chain[0] = B
<1>1. \A a \in B : /\ a \in Addrs /\ a \in Nat /\ End(a) \in Nat /\ a < End(a) /\ End(a) \leq HeapEnd
                   /\ hdr[a].next \in B \cup {NULL}
                   /\ End(a) = IF hdr[a].next = NULL THEN HeapEnd ELSE hdr[a].next
  <2>1. \A a \in B : a \in Addrs /\ a \in Nat /\ End(a) \in Nat /\ hdr[a].size \in Nat
                     /\ End(a) = a + HDR + hdr[a].size
    BY HeaderOf DEF End
  <2>2. \A a \in B : a < End(a)
    BY <2>1, PageSize
  <2> QED
    BY <2>1, <2>2 DEF Tiling
<1>2. HeapEnd \in Nat /\ NULL \notin Addrs /\ 0 \in B
  BY AddrFacts DEF HeapType, Tiling
<1>3. ASSUME NEW a \in B
      PROVE  /\ hdr[a].next = NULL => Chain[a] = {a}
             /\ hdr[a].next # NULL => /\ hdr[a].next \in B /\ a < hdr[a].next
                                      /\ Chain[a] = {a} \cup Chain[hdr[a].next]
  <2>1. Chain[a] = {a} \cup IF hdr[a].next = NULL THEN {}
                            ELSE IF hdr[a].next \leq a THEN {} ELSE Chain[hdr[a].next]
    BY ChainEquation, <1>1
  <2>2. hdr[a].next # NULL => hdr[a].next \in B /\ a < hdr[a].next /\ ~(hdr[a].next \leq a)
    BY <1>1
  <2> QED
    BY <2>1, <2>2
<1>4. \A a \in B : Chain[a] \subseteq B
  <2> DEFINE S == { a \in B : ~(Chain[a] \subseteq B) }
  <2> SUFFICES ASSUME S # {} PROVE FALSE
    OBVIOUS
  <2>1. S \in SUBSET (0 .. HeapEnd)
    BY <1>1, <1>2
  <2>2. PICK a \in S : \A y \in S : y \leq a
    BY <1>2, <2>1, GreatestExists
  <2>3. a \in B /\ ~(Chain[a] \subseteq B)
    OBVIOUS
  <2>4. hdr[a].next # NULL /\ hdr[a].next \in B /\ a < hdr[a].next /\ Chain[a] = {a} \cup Chain[hdr[a].next]
    BY <1>3, <2>3
  <2>5. hdr[a].next \in S
    BY <2>3, <2>4
  <2> QED
    BY <1>1, <2>2, <2>3, <2>4, <2>5
<1>5. \A a \in B : Chain[a] \subseteq Chain[0]
  <2> DEFINE S == { a \in B : ~(Chain[a] \subseteq Chain[0]) }
  <2> SUFFICES ASSUME S # {} PROVE FALSE
    OBVIOUS
  <2>1. S \in SUBSET Nat
    BY <1>1
  <2>2. PICK b \in S : \A y \in S : b \leq y
    BY <2>1, LeastExists
  <2>3. b \in B /\ ~(Chain[b] \subseteq Chain[0]) /\ b \in Nat /\ b # 0
    BY <1>1
  <2> DEFINE L == { a \in B : a < b }
  <2>4. L \in SUBSET (0 .. b) /\ 0 \in L
    <3>1. \A a \in B : a \in Nat
      BY <1>1
    <3>2. \A a \in L : a \in 0 .. b
      BY <2>3, <3>1
    <3>3. 0 \in L
      BY <1>2, <2>3
    <3> QED
      BY <3>2, <3>3
  <2>5. PICK p \in L : \A y \in L : y \leq p
    BY <2>3, <2>4, GreatestExists
  <2>6. p \in B /\ p < b /\ End(p) \leq b
    BY <2>3 DEF Tiling
  <2>7. hdr[p].next # NULL /\ hdr[p].next = End(p)
    BY <1>1, <1>2, <2>3, <2>6
  <2>8. hdr[p].next = b
    <3>1. hdr[p].next \in B /\ p < hdr[p].next /\ hdr[p].next \in Nat /\ p \in Nat
      BY <1>1, <1>3, <2>6, <2>7
    <3>2. ~(hdr[p].next < b)
      BY <2>5, <3>1
    <3> QED
      BY <2>3, <2>6, <2>7, <3>1, <3>2
  <2>9. Chain[b] \subseteq Chain[p]
    BY <1>3, <2>6, <2>7, <2>8
  <2>10. p \notin S
    BY <1>1, <2>2, <2>3, <2>6
  <2> QED
    BY <2>3, <2>6, <2>9, <2>10
<1>6. \A a \in B : a \in Chain[a]
  BY <1>3
<1> QED
  BY <1>2, <1>4, <1>5, <1>6

\* What the invariant says between calls.
LEMMA ListProperties ==
  ASSUME ListInv
  PROVE  BlocksTile /\ AllocatedExact /\ Coalesced
<1>1. CASE garbage
  BY <1>1 DEF BlocksTile, AllocatedExact, Coalesced, Blocks, Idle
<1>2. CASE ~garbage
  <2>1. PICK B \in SUBSET Addrs : HeapInv(B)
    BY <1>2 DEF ListInv
  <2>2. Blocks = B
    BY <1>2, <2>1, ChainIsList DEF Blocks, ListInv, HeapInv
  <2>3. BlocksTile
    BY <2>1, <2>2 DEF BlocksTile, HeapInv, Tiling, End
  <2>4. AllocatedExact
    <3>1. { a \in B : ~hdr[a].free } = { l.addr : l \in live }
      BY <2>1 DEF HeapInv, Exact
    <3> QED
      BY <2>1, <2>2, <3>1 DEF AllocatedExact, HeapInv, Exact
  <2>5. Coalesced
    <3> SUFFICES ASSUME Idle, NEW a \in B PROVE Settled(a)
      BY <2>2 DEF Coalesced, Settled
    <3>1. \A t \in Tasks : ~Working(t, a)
      BY DEF Idle, Working
    <3> QED
      BY <2>1, <3>1 DEF HeapInv, Joined
  <2> QED
    BY <2>3, <2>4, <2>5
<1> QED
  BY <1>1, <1>2

\* As long as one task at a time is inside kmalloc and kfree, the blocks of the
\* list tile the heap, in the middle of every split, merge and growth too, so
\* that kheap_free never merges blocks that are not neighbours in memory.
THEOREM BlocksAlwaysTile == Spec /\ []Serial => []BlocksTile
BY ListAlways, ListProperties, PTL

\* Then the blocks in use are, between calls, exactly the allocations that were
\* not freed, each at least as large as what was asked for.
THEOREM AllocationsExact == Spec /\ []Serial => []AllocatedExact
BY ListAlways, ListProperties, PTL

\* Then no two neighbours are free between calls: one walk of kheap_free from
\* the first block is enough, whatever the order of the calls.
THEOREM FreeBlocksCoalesced == Spec /\ []Serial => []Coalesced
BY ListAlways, ListProperties, PTL

\* The memory of two allocations that are not freed does not overlap.
LiveDisjoint ==
  \A x, y \in live :
    x # y => x.addr + HDR + x.size \leq y.addr \/ y.addr + HDR + y.size \leq x.addr

\* Then no two allocations overlap of those that were not mapped over: the
\* growth over the first page is the only way in which kmalloc, called by one
\* task at a time, breaks what __attribute__((malloc)) promises.
THEOREM LiveNeverOverlaps == Spec /\ []Serial => []LiveDisjoint
<1>1. ASSUME ListInv PROVE ~garbage => LiveDisjoint
  <2> SUFFICES ASSUME ~garbage, NEW x \in live, NEW y \in live, x # y
               PROVE  x.addr + HDR + x.size \leq y.addr \/ y.addr + HDR + y.size \leq x.addr
    BY DEF LiveDisjoint
  <2>1. PICK B \in SUBSET Addrs : HeapInv(B)
    BY <1>1 DEF ListInv
  <2>2. /\ x.addr \in B /\ y.addr \in B /\ x.addr # y.addr /\ x.size \in Nat /\ y.size \in Nat
        /\ hdr[x.addr].size >= x.size /\ hdr[y.addr].size >= y.size
    BY <2>1 DEF HeapInv, Exact
  <2>3. PICK a \in B, b \in B : a = x.addr /\ b = y.addr
    BY <2>2
  <2>4. /\ a \in Nat /\ b \in Nat /\ hdr[a].size \in Nat /\ hdr[b].size \in Nat
        /\ End(a) = a + HDR + hdr[a].size /\ End(b) = b + HDR + hdr[b].size
    BY <1>1, HeaderOf DEF ListInv, End
  <2>5. End(a) \leq b \/ End(b) \leq a
    <3>1. a < b \/ b < a
      BY <2>2, <2>3, <2>4
    <3> QED
      BY <2>1, <3>1 DEF HeapInv, Tiling
  <2>6. hdr[a].size >= x.size /\ hdr[b].size >= y.size
    BY <2>2, <2>3
  <2> QED
    BY <2>2, <2>3, <2>4, <2>5, <2>6, PageSize
<1>2. Init => (garbage => LiveDisjoint)
  BY DEF Init
<1>3. (garbage => LiveDisjoint) /\ [Next]_vars => (garbage => LiveDisjoint)'
  <2> SUFFICES ASSUME garbage => LiveDisjoint, [Next]_vars, garbage' PROVE LiveDisjoint'
    OBVIOUS
  <2>1. CASE UNCHANGED vars
    BY <2>1 DEF vars, LiveDisjoint
  <2>2. CASE Next
    <3>1. ~garbage
      BY <2>2 DEF Next, Step, Scan, Split, Mark, Grow, Merge, kmalloc, kfree, At
    <3>2. PICK t \in Tasks : Grow(t)
      BY <2>2, <3>1 DEF Next, Step, Scan, Split, Mark, Merge, kmalloc, kfree
    <3>3. live' = {}
      BY <3>1, <3>2 DEF Grow
    <3> QED
      BY <3>3 DEF LiveDisjoint
  <2> QED
    BY <2>1, <2>2
<1> QED
  BY <1>1, <1>2, <1>3, ListAlways, PTL DEF Spec
=============================================================================
