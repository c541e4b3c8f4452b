----------------------------- MODULE KmemProofs -----------------------------
(***************************************************************************)
(* The slab allocator and the hash table of klibc/kmem: the lists of slabs  *)
(* and the free lists inside them stay exact, whatever the order of         *)
(* allocations and frees, and a table stands for a function, whatever keys  *)
(* collide.                                                                 *)
(***************************************************************************)
EXTENDS Slab, Hashtable, SequenceTheorems, FiniteSetTheorems, NaturalsInduction, WellFoundedInduction, TLAPS

-----------------------------------------------------------------------------
(* Lists without repetition.                                                *)

\* What the head and the rest of such a list are.
LEMMA OnceHead ==
  ASSUME NEW S, NEW l, Once(l, S), l # <<>>
  PROVE  Head(l) \in S /\ Once(Tail(l), S \ {Head(l)}) /\ Len(Tail(l)) = Len(l) - 1
<1>1. /\ l \in Seq(S) /\ Len(l) \in Nat /\ DOMAIN l = 1 .. Len(l) /\ Len(l) # 0
      /\ \A i \in 1 .. Len(l) : l[i] \in S
  BY LenProperties, EmptySeq DEF Once
<1>2. /\ Head(l) = l[1] /\ Tail(l) \in Seq(S) /\ Len(Tail(l)) = Len(l) - 1
      /\ \A i \in 1 .. Len(Tail(l)) : Tail(l)[i] = l[i + 1]
  BY <1>1, HeadTailProperties
<1>3. DOMAIN Tail(l) = 1 .. Len(Tail(l))
  BY <1>2, LenProperties
<1> DEFINE n == Len(l)
           t == Tail(l)
<1>4. /\ n \in Nat /\ n # 0 /\ DOMAIN l = 1 .. n /\ DOMAIN t = 1 .. n - 1 /\ t \in Seq(S) /\ Len(t) = n - 1
      /\ \A i \in 1 .. n - 1 : t[i] = l[i + 1] /\ i + 1 \in 1 .. n
      /\ \A i \in 2 .. n : i - 1 \in 1 .. n - 1 /\ t[i - 1] = l[i]
  BY <1>1, <1>2, <1>3
<1>5. \A i, j \in 1 .. n : l[i] = l[j] => i = j
  BY <1>1 DEF Once
<1>6. S = { l[i] : i \in 1 .. n }
  BY <1>1 DEF Once, ToSet
<1> HIDE DEF n, t
<1>7. 1 \in 1 .. n
  BY <1>4
<1>8. \A i, j \in 1 .. n - 1 : t[i] = t[j] => i = j
  <2> TAKE i, j \in 1 .. n - 1
  <2>1. t[i] = l[i + 1] /\ t[j] = l[j + 1] /\ i + 1 \in 1 .. n /\ j + 1 \in 1 .. n
    BY <1>4
  <2>2. l[i + 1] = l[j + 1] => i + 1 = j + 1
    BY <1>5, <2>1
  <2> QED
    BY <1>4, <2>1, <2>2
<1>9. ToSet(t) = S \ {l[1]}
  <2>1. ASSUME NEW x \in ToSet(t) PROVE x \in S \ {l[1]}
    <3>1. PICK i \in 1 .. n - 1 : x = t[i]
      BY <1>4 DEF ToSet
    <3>2. x = l[i + 1] /\ i + 1 \in 1 .. n /\ i + 1 # 1
      BY <1>4, <3>1
    <3>3. l[i + 1] # l[1]
      BY <1>5, <1>7, <3>2
    <3> QED
      BY <1>6, <3>2, <3>3
  <2>2. ASSUME NEW x \in S \ {l[1]} PROVE x \in ToSet(t)
    <3>1. PICK i \in 1 .. n : x = l[i]
      BY <1>6
    <3>2. i \in 2 .. n
      BY <1>4, <3>1
    <3>3. i - 1 \in DOMAIN t /\ t[i - 1] = x
      BY <1>4, <3>1, <3>2
    <3> QED
      BY <3>3 DEF ToSet
  <2> QED
    BY <2>1, <2>2
<1>10. t \in Seq(S \ {l[1]})
  <2>1. \A i \in 1 .. n - 1 : t[i] \in S \ {l[1]}
    BY <1>4, <1>9 DEF ToSet
  <2> QED
    BY <1>4, <2>1, IsASeq, LenProperties, ElementOfSeq
<1> QED
  BY <1>1, <1>2, <1>4, <1>7, <1>8, <1>9, <1>10 DEF Once, n, t

\* A new first element.
LEMMA OnceCons ==
  ASSUME NEW S, NEW l, Once(l, S), NEW x, x \notin S
  PROVE  Once(<<x>> \o l, S \cup {x}) /\ Len(<<x>> \o l) = Len(l) + 1
<1> DEFINE T == S \cup {x}
           n == Len(l)
           r == <<x>> \o l
<1>1. l \in Seq(S) /\ n \in Nat /\ DOMAIN l = 1 .. n /\ l \in Seq(T)
  BY LenProperties, SeqMonotonic DEF Once
<1>2. <<x>> \in Seq(T) /\ Len(<<x>>) = 1 /\ <<x>>[1] = x
  OBVIOUS
<1>3. /\ r \in Seq(T) /\ Len(r) = n + 1
      /\ \A i \in 1 .. n + 1 : r[i] = IF i \leq 1 THEN <<x>>[i] ELSE l[i - 1]
  BY <1>1, <1>2, ConcatProperties
<1>4. DOMAIN r = 1 .. n + 1
  BY <1>3, LenProperties
<1>5. /\ r[1] = x /\ 1 \in 1 .. n + 1
      /\ \A i \in 1 .. n + 1 : i # 1 => r[i] = l[i - 1] /\ i - 1 \in 1 .. n
      /\ \A i \in 1 .. n : r[i + 1] = l[i] /\ i + 1 \in 1 .. n + 1
  BY <1>1, <1>2, <1>3
<1>6. S = { l[i] : i \in 1 .. n } /\ \A i, j \in 1 .. n : l[i] = l[j] => i = j
  BY <1>1 DEF Once, ToSet
<1> HIDE DEF n, r
<1>7. ToSet(r) = T
  <2>1. ASSUME NEW y \in T PROVE y \in ToSet(r)
    <3>1. CASE y = x
      BY <1>4, <1>5, <3>1 DEF ToSet
    <3>2. CASE y \in S
      <4>1. PICK i \in 1 .. n : y = l[i]
        BY <1>6, <3>2
      <4> QED
        BY <1>4, <1>5, <4>1 DEF ToSet
    <3> QED
      BY <3>1, <3>2
  <2>2. ASSUME NEW y \in ToSet(r) PROVE y \in T
    <3>1. PICK i \in 1 .. n + 1 : y = r[i]
      BY <1>4 DEF ToSet
    <3> QED
      BY <1>5, <1>6, <3>1
  <2> QED
    BY <2>1, <2>2
<1>8. ASSUME NEW i \in 1 .. n + 1, NEW j \in 1 .. n + 1, r[i] = r[j]
      PROVE  i = j
  <2>1. CASE i = 1 /\ j = 1
    BY <2>1
  <2>2. CASE i = 1 /\ j # 1
    <3>1. r[i] = x /\ r[j] \in S
      BY <1>5, <1>6, <2>2
    <3> QED
      BY <1>8, <3>1
  <2>3. CASE i # 1 /\ j = 1
    <3>1. r[j] = x /\ r[i] \in S
      BY <1>5, <1>6, <2>3
    <3> QED
      BY <1>8, <3>1
  <2>4. CASE i # 1 /\ j # 1
    <3>1. l[i - 1] = l[j - 1] /\ i - 1 \in 1 .. n /\ j - 1 \in 1 .. n
      BY <1>5, <1>8, <2>4
    <3>2. i - 1 = j - 1
      BY <1>6, <3>1
    <3> QED
      BY <1>1, <3>2
  <2> QED
    BY <2>1, <2>2, <2>3, <2>4
<1> QED
  BY <1>3, <1>4, <1>7, <1>8 DEF Once, r

\* A list is empty if and only if it has no member.
LEMMA OnceEmpty ==
  /\ Once(<<>>, {})
  /\ \A S, l : Once(l, S) => (l = <<>> <=> S = {}) /\ Len(l) \in Nat /\ (Len(l) = 0 <=> S = {})
<1>1. Once(<<>>, {})
  BY EmptySeq DEF Once, ToSet
<1>2. ASSUME NEW S, NEW l, Once(l, S)
      PROVE  (l = <<>> <=> S = {}) /\ Len(l) \in Nat /\ (Len(l) = 0 <=> S = {})
  <2>1. l \in Seq(S) /\ Len(l) \in Nat /\ DOMAIN l = 1 .. Len(l) /\ S = { l[i] : i \in 1 .. Len(l) }
    BY <1>2, LenProperties DEF Once, ToSet
  <2>2. l = <<>> <=> Len(l) = 0
    BY <2>1, EmptySeq
  <2>3. Len(l) = 0 <=> S = {}
    <3>1. Len(l) = 0 => 1 .. Len(l) = {}
      OBVIOUS
    <3>2. Len(l) # 0 => 1 \in 1 .. Len(l)
      BY <2>1
    <3> QED
      BY <2>1, <3>1, <3>2
  <2> QED
    BY <2>1, <2>2, <2>3
<1> QED
  BY <1>1, <1>2

\* A list is as long as the set of its members is large.
LEMMA OnceLength ==
  ASSUME NEW S, NEW l, Once(l, S)
  PROVE  IsFiniteSet(S) /\ Cardinality(S) = Len(l)
<1>1. l \in Seq(S) /\ Len(l) \in Nat /\ DOMAIN l = 1 .. Len(l) /\ l \in [1 .. Len(l) -> S]
  BY LenProperties DEF Once
<1>2. \A x \in S : \E i \in 1 .. Len(l) : l[i] = x
  BY <1>1 DEF Once, ToSet
<1>3. \A i, j \in 1 .. Len(l) : l[i] = l[j] => i = j
  BY <1>1 DEF Once
<1>4. l \in Bijection(1 .. Len(l), S)
  BY <1>1, <1>2, <1>3 DEF Bijection, Injection, Surjection, IsInjective
<1>5. ExistsBijection(1 .. Len(l), S)
  BY <1>4 DEF ExistsBijection
<1>6. IsFiniteSet(1 .. Len(l)) /\ Cardinality(1 .. Len(l)) = Len(l)
  BY <1>1, FS_Interval
<1> QED
  BY <1>5, <1>6, FS_Bijection

\* Unlink takes a slab out of its list, and leaves a list without it alone.
LEMMA OnceUnlink ==
  ASSUME NEW S, NEW l, Once(l, S), NEW x
  PROVE  Once(Unlink(l, x), S \ {x})
<1> DEFINE n == Len(l)
<1>1. /\ l \in Seq(S) /\ n \in Nat /\ DOMAIN l = 1 .. n
      /\ S = { l[i] : i \in 1 .. n } /\ \A i, j \in 1 .. n : l[i] = l[j] => i = j
  BY LenProperties DEF Once, ToSet
<1>2. CASE x \notin S
  <2>1. ~\E i \in 1 .. Len(l) : l[i] = x
    BY <1>1, <1>2
  <2>2. Unlink(l, x) = l /\ S \ {x} = S
    BY <1>2, <2>1 DEF Unlink, RemoveFirst
  <2> QED
    BY <2>2
<1>3. CASE x \in S
  <2>1. PICK k \in 1 .. n : l[k] = x
    BY <1>1, <1>3
  <2>2. SelectInSeq(l, LAMBDA v : v = x) = k
    <3>1. { i \in 1 .. Len(l) : l[i] = x } = {k}
      BY <1>1, <2>1
    <3>2. Min({k}) = k
      BY <1>1 DEF Min
    <3> QED
      BY <3>1, <3>2 DEF SelectInSeq
  <2>3. Unlink(l, x) = RemoveAt(l, k)
    BY <2>1, <2>2 DEF Unlink, RemoveFirst
  <2> DEFINE a == SubSeq(l, 1, k - 1)
             b == SubSeq(l, k + 1, n)
             r == a \o b
  <2>4. /\ k \in Int /\ \A i \in 1 .. k - 1 : l[i] \in S
        /\ \A i \in k + 1 .. n : l[i] \in S
    <3>1. \A i \in 1 .. n : l[i] \in S
      BY <1>1
    <3> QED
      BY <1>1, <3>1
  <2>5. /\ a \in Seq(S) /\ Len(a) = k - 1 /\ \A i \in 1 .. k - 1 : a[i] = l[i]
    <3>1. /\ a \in Seq(S) /\ Len(a) = IF 1 \leq k - 1 THEN (k - 1) - 1 + 1 ELSE 0
          /\ \A i \in 1 .. (k - 1) - 1 + 1 : a[i] = l[1 + i - 1]
      BY <2>4, SubSeqProperties
    <3> QED
      BY <1>1, <3>1
  <2>6. /\ b \in Seq(S) /\ Len(b) = n - k /\ \A i \in 1 .. n - k : b[i] = l[k + i]
    <3>1. /\ b \in Seq(S) /\ Len(b) = IF k + 1 \leq n THEN n - (k + 1) + 1 ELSE 0
          /\ \A i \in 1 .. n - (k + 1) + 1 : b[i] = l[(k + 1) + i - 1]
      BY <1>1, <2>4, SubSeqProperties
    <3> HIDE DEF n, b
    <3>2. /\ k \in Int /\ n \in Int /\ k \leq n /\ n - (k + 1) + 1 = n - k
          /\ \A i \in Int : (k + 1) + i - 1 = k + i
      BY <1>1
    <3>3. \A i \in 1 .. n - k : b[i] = l[k + i]
      BY <3>1, <3>2
    <3>4. Len(b) = n - k
      BY <3>1, <3>2
    <3> QED
      BY <3>1, <3>3, <3>4
  <2>7. /\ r \in Seq(S) /\ Len(r) = n - 1 /\ DOMAIN r = 1 .. n - 1
        /\ \A i \in 1 .. n - 1 : r[i] = IF i < k THEN l[i] ELSE l[i + 1]
    <3>1. /\ r \in Seq(S) /\ Len(r) = (k - 1) + (n - k)
          /\ \A i \in 1 .. (k - 1) + (n - k) : r[i] = IF i \leq k - 1 THEN a[i] ELSE b[i - (k - 1)]
      <4>1. a \in Seq(S) /\ b \in Seq(S) /\ Len(a) = k - 1 /\ Len(b) = n - k
        BY <2>5, <2>6
      <4>2. /\ r \in Seq(S) /\ Len(r) = Len(a) + Len(b)
            /\ \A i \in 1 .. Len(a) + Len(b) : r[i] = IF i \leq Len(a) THEN a[i] ELSE b[i - Len(a)]
        <5> HIDE DEF a, b
        <5> QED
          BY <4>1, ConcatProperties
      <4> HIDE DEF a, b, r
      <4> QED
        BY <4>1, <4>2
    <3> HIDE DEF n, a, b, r
    <3>0. k \in Int /\ n \in Int /\ 1 \leq k /\ k \leq n /\ (k - 1) + (n - k) = n - 1
      BY <1>1
    <3>2. Len(r) = n - 1
      BY <3>0, <3>1
    <3>3. DOMAIN r = 1 .. n - 1
      BY <3>1, <3>2, LenProperties
    <3>4. ASSUME NEW i \in 1 .. n - 1
          PROVE  r[i] = IF i < k THEN l[i] ELSE l[i + 1]
      <4>1. r[i] = IF i \leq k - 1 THEN a[i] ELSE b[i - (k - 1)]
        BY <3>0, <3>1
      <4>2. CASE i < k
        <5>1. i \in 1 .. k - 1 /\ i \leq k - 1
          BY <3>0, <4>2
        <5> QED
          BY <2>5, <4>1, <4>2, <5>1
      <4>3. CASE ~(i < k)
        <5>1. i - (k - 1) \in 1 .. n - k /\ k + (i - (k - 1)) = i + 1
          BY <3>0, <4>3
        <5>2. b[i - (k - 1)] = l[i + 1]
          BY <2>6, <5>1
        <5> QED
          BY <3>0, <4>1, <4>3, <5>2
      <4> QED
        BY <4>2, <4>3
    <3> QED
      BY <3>1, <3>2, <3>3, <3>4
  <2>8. Unlink(l, x) = r
    BY <2>3 DEF RemoveAt
  <2> HIDE DEF n, a, b, r
  <2>9. ASSUME NEW i \in 1 .. n - 1
        PROVE  \E h \in 1 .. n : h # k /\ r[i] = l[h] /\ h = IF i < k THEN i ELSE i + 1
    BY <1>1, <2>7
  <2>10. ASSUME NEW h \in 1 .. n, h # k
         PROVE  \E i \in 1 .. n - 1 : r[i] = l[h]
    <3>1. CASE h < k
      BY <1>1, <2>7, <3>1
    <3>2. CASE ~(h < k)
      <4>1. h - 1 \in 1 .. n - 1 /\ ~(h - 1 < k) /\ (h - 1) + 1 = h
        BY <1>1, <2>10, <3>2
      <4> QED
        BY <2>7, <4>1
    <3> QED
      BY <3>1, <3>2
  <2>11. ToSet(r) = S \ {x}
    <3>1. ASSUME NEW y \in ToSet(r) PROVE y \in S \ {x}
      <4>1. PICK i \in 1 .. n - 1 : y = r[i]
        BY <2>7 DEF ToSet
      <4>2. PICK h \in 1 .. n : h # k /\ r[i] = l[h]
        BY <2>9
      <4> QED
        BY <1>1, <2>1, <4>1, <4>2
    <3>2. ASSUME NEW y \in S \ {x} PROVE y \in ToSet(r)
      <4>1. PICK h \in 1 .. n : y = l[h] /\ h # k
        BY <1>1, <2>1
      <4>2. PICK i \in 1 .. n - 1 : r[i] = l[h]
        BY <2>10, <4>1
      <4> QED
        BY <2>7, <4>1, <4>2 DEF ToSet
    <3> QED
      BY <3>1, <3>2
  <2>12. ASSUME NEW i \in 1 .. n - 1, NEW j \in 1 .. n - 1, r[i] = r[j]
         PROVE  i = j
    <3>1. PICK g \in 1 .. n : r[i] = l[g] /\ g = IF i < k THEN i ELSE i + 1
      BY <2>9
    <3>2. PICK h \in 1 .. n : r[j] = l[h] /\ h = IF j < k THEN j ELSE j + 1
      BY <2>9
    <3>3. g = h
      BY <1>1, <2>12, <3>1, <3>2
    <3> QED
      BY <1>1, <3>1, <3>2, <3>3
  <2>13. r \in Seq(S \ {x})
    <3>1. \A i \in 1 .. n - 1 : r[i] \in S \ {x}
      BY <2>7, <2>11 DEF ToSet
    <3> QED
      BY <2>7, <3>1, LenProperties, ElementOfSeq, IsASeq
  <2> QED
    BY <2>7, <2>8, <2>11, <2>12, <2>13 DEF Once
<1> QED
  BY <1>2, <1>3

\* slab_init links the objects in reverse order.
LEMMA OnceReversed ==
  ASSUME NEW n \in Nat
  PROVE  Once(Reverse([i \in 1 .. n |-> i - 1]), 0 .. n - 1) /\ Len(Reverse([i \in 1 .. n |-> i - 1])) = n
<1> DEFINE s == [i \in 1 .. n |-> i - 1]
           r == [i \in 1 .. n |-> n - i]
           S == 0 .. n - 1
<1>1. s \in Seq(Int) /\ Len(s) = n
  BY IsASeq
<1>2. Reverse(s) = r
  <2>1. Reverse(s) = [i \in 1 .. n |-> s[(n - i) + 1]]
    BY <1>1 DEF Reverse
  <2>2. \A i \in 1 .. n : s[(n - i) + 1] = n - i
    OBVIOUS
  <2> QED
    BY <2>1, <2>2
<1>3. \A i \in 1 .. n : r[i] \in S
  OBVIOUS
<1>4. r \in Seq(S) /\ Len(r) = n
  BY <1>3, IsASeq
<1>5. ToSet(r) = S
  <2>1. ASSUME NEW x \in S PROVE n - x \in 1 .. n /\ r[n - x] = x
    OBVIOUS
  <2> QED
    BY <1>3, <2>1 DEF ToSet
<1>6. \A i, j \in 1 .. n : r[i] = r[j] => i = j
  OBVIOUS
<1> QED
  BY <1>2, <1>4, <1>5, <1>6 DEF Once

-----------------------------------------------------------------------------
(* Memory and sizes.                                                        *)

\* Min finds the least of some numbers.
LEMMA Lowest ==
  ASSUME NEW S \in SUBSET Nat, S # {}
  PROVE  Min(S) \in S /\ \A y \in S : Min(S) \leq y
<1>1. PICK f \in S : \A g \in S : ~(<<g, f>> \in OpToRel(<, Nat))
  BY WFMin, NatLessThanWellFounded
<1>2. ASSUME NEW g \in S PROVE f \leq g
  <2>1. ~(<<g, f>> \in { x \in Nat \X Nat : x[1] < x[2] })
    BY <1>1 DEF OpToRel
  <2>2. f \in Nat /\ g \in Nat
    OBVIOUS
  <2> QED
    BY <2>1, <2>2
<1> QED
  BY <1>2 DEF Min

\* memmap_find_biggest_region finds a region if any is usable: the largest of
\* the last k ones, for the least k, is the largest of all.
LEMMA RegionFound ==
  /\ managed_base \in Nat /\ total_pages \in Nat
  /\ \E e \in ToSet(MemoryMap) : e.usable /\ e.base = managed_base /\ e.length = total_pages
<1> DEFINE n == Len(MemoryMap)
<1>1. /\ n \in Nat /\ DOMAIN MemoryMap = 1 .. n
      /\ \A i \in 1 .. n : MemoryMap[i] \in [usable : BOOLEAN, base : Nat, length : Nat]
  BY SlabAssumption, LenProperties, ElementOfSeq
<1> HIDE DEF n
<1> DEFINE U(i) == MemoryMap[i].usable
           length(i) == MemoryMap[i].length
           Beats(i, k) == \A j \in 1 .. n : k < j /\ U(j) => length(j) \leq length(i)
           K == { k \in 0 .. n : \E i \in 1 .. n : U(i) /\ Beats(i, k) }
<1>2. \A i \in 1 .. n : length(i) \in Nat
  BY <1>1
<1>3. n \in K
  <2>1. PICK i \in 1 .. n : U(i)
    BY <1>1, SlabAssumption
  <2>2. Beats(i, n)
    BY <1>1
  <2> QED
    BY <1>1, <2>1, <2>2
<1>4. PICK k \in K : \A h \in K : k \leq h
  <2>1. K \subseteq 0 .. n
    OBVIOUS
  <2> HIDE DEF K
  <2>2. K \in SUBSET Nat /\ K # {}
    BY <1>1, <1>3, <2>1
  <2> QED
    BY <2>2, Lowest
<1>5. PICK i \in 1 .. n : U(i) /\ Beats(i, k)
  OBVIOUS
<1>6. k = 0
  <2>1. SUFFICES ASSUME k # 0 PROVE FALSE
    OBVIOUS
  <2>2. k \in 1 .. n /\ k - 1 \in 0 .. n /\ k - 1 < k
    BY <1>1, <2>1
  <2>3. \A j \in 1 .. n : k - 1 < j => j = k \/ k < j
    BY <1>1, <2>2
  <2>4. CASE U(k) /\ ~(length(k) \leq length(i))
    <3>1. Beats(k, k - 1)
      <4> SUFFICES ASSUME NEW j \in 1 .. n, k - 1 < j, U(j) PROVE length(j) \leq length(k)
        OBVIOUS
      <4>1. length(j) \in Nat /\ length(k) \in Nat /\ length(i) \in Nat
        BY <1>2, <2>2
      <4>2. j = k \/ length(j) \leq length(i)
        BY <1>5, <2>3
      <4> HIDE DEF length
      <4> QED
        BY <2>4, <4>1, <4>2
    <3>2. k - 1 \in K
      BY <2>2, <2>4, <3>1
    <3> QED
      BY <1>4, <2>2, <3>2
  <2>5. CASE ~(U(k) /\ ~(length(k) \leq length(i)))
    <3>1. Beats(i, k - 1)
      BY <1>5, <2>3, <2>5
    <3>2. k - 1 \in K
      BY <1>5, <2>2, <3>1
    <3> QED
      BY <1>4, <2>2, <3>2
  <2> QED
    BY <2>4, <2>5
<1>7. i \in Largest
  <2>1. \A j \in 1 .. n : U(j) => length(j) \leq length(i)
    <3> TAKE j \in 1 .. n
    <3>1. 0 < j
      BY <1>1
    <3> QED
      BY <1>5, <1>6, <3>1
  <2> QED
    BY <1>1, <1>5, <2>1 DEF Largest
<1>8. Largest \subseteq 1 .. n /\ \A h \in Largest : U(h)
  BY <1>1 DEF Largest
<1>9. Min(Largest) \in Largest
  <2>1. Largest \in SUBSET Nat /\ Largest # {}
    BY <1>1, <1>7, <1>8
  <2> QED
    BY <2>1, Lowest
<1>10. PICK h \in 1 .. n : h = Min(Largest) /\ U(h)
  BY <1>8, <1>9
<1>11. memmap_find_biggest_region = MemoryMap[h] /\ MemoryMap[h] \in ToSet(MemoryMap)
  BY <1>1, <1>10 DEF memmap_find_biggest_region, ToSet
<1> QED
  BY <1>1, <1>10, <1>11 DEF managed_base, total_pages

\* The frames, and the frame of each page of the region.
LEMMA RegionFrames ==
  /\ Frames \subseteq Nat /\ Region \subseteq Nat /\ used_pages \in Nat
  /\ \A f \in Frames : managed_base + f \in Region /\ (managed_base + f) - managed_base = f
  /\ \A p \in Region : p - managed_base \in Frames /\ p # NULL
<1>1. managed_base \in Nat /\ total_pages \in Nat /\ NULL \notin Nat /\ PAGE_SIZE \in Nat \ {0}
  BY RegionFound, SlabAssumption
<1>2. used_pages \in Nat
  <2>1. (total_pages + 7) \div 8 \in Nat
    BY <1>1
  <2>2. PICK b \in Nat : b = (total_pages + 7) \div 8
    BY <2>1
  <2>3. (b + PAGE_SIZE - 1) \div PAGE_SIZE \in Nat
    BY <1>1
  <2> QED
    BY <2>2, <2>3 DEF used_pages
<1> QED
  BY <1>1, <1>2 DEF Frames, Region

\* The bitmap does not change when the page of a slab is released: it was mapped
\* at its physical address.
LEMMA ReleaseKeepsBits ==
  ASSUME bitmap \subseteq Frames, NEW ps \in SUBSET Region
  PROVE  { f \in bitmap : \A p \in ps : f \in pmm_free_page(bitmap, virtual_to_physical(p)) } = bitmap
<1> SUFFICES ASSUME NEW f \in bitmap, NEW p \in ps
             PROVE  f \in pmm_free_page(bitmap, virtual_to_physical(p))
  OBVIOUS
<1>1. /\ managed_base \in Nat /\ total_pages \in Nat /\ p \in Nat /\ Hhdm \in Nat /\ AddressPages \in Nat \ {0}
      /\ virtual_to_physical(p) \notin Region /\ f \in Frames
  BY RegionFound, RegionFrames, SlabAssumption
<1>2. PICK a \in Nat : a = virtual_to_physical(p)
  <2>1. (p - Hhdm) % AddressPages \in 0 .. AddressPages - 1
    BY <1>1
  <2> QED
    BY <2>1 DEF virtual_to_physical
<1>3. a < managed_base \/ a - managed_base # f
  BY <1>1, <1>2 DEF Region, Frames
<1> QED
  BY <1>2, <1>3 DEF pmm_free_page

\* Sizes are whole numbers, and the objects of a slab lie in its page.
LEMMA ObjectsFit ==
  ASSUME NEW c \in Caches
  PROVE  /\ objects_per_slab(c) \in Int
         /\ \A p : \A i \in Numbers(c) : Address(p, c, i + 1) \leq PAGE_SIZE
<1>1. PAGE_SIZE \in Nat \ {0} /\ HDR \in Nat /\ ALIGN \in Nat \ {0} /\ ObjectSize[c] \in Nat \ {0}
  BY SlabAssumption
<1>2. \A v \in Nat : align_up(v, ALIGN) \in Nat
  <2> TAKE v \in Nat
  <2>1. PICK q \in Nat : q = (v + ALIGN - 1) \div ALIGN
    BY <1>1
  <2>2. q * ALIGN \in Nat
    BY <1>1
  <2> QED
    BY <2>1, <2>2 DEF align_up
<1>3. PICK first \in Nat : first = FirstObject
  BY <1>1, <1>2 DEF FirstObject
<1>4. PICK size \in Nat : size = align_up(ObjectSize[c], ALIGN) /\ size > 0
  <2>1. PICK v \in Nat : v = ObjectSize[c] /\ v > 0
    BY <1>1
  <2>2. PICK a \in Nat : a = ALIGN /\ a > 0
    BY <1>1
  <2>3. PICK q \in Nat : q = (v + a - 1) \div a /\ q > 0
    BY <2>1, <2>2
  <2>4. q * a \in Nat /\ q * a > 0
    BY <2>2, <2>3
  <2> QED
    BY <2>1, <2>2, <2>3, <2>4 DEF align_up
<1>5. PICK room \in Int : room = PAGE_SIZE - first
  BY <1>1
<1>6. PICK count \in Int : count = room \div size /\ count * size \leq room
  <2>1. room \div size \in Int /\ (room \div size) * size \leq room
    BY <1>4
  <2> QED
    BY <2>1
<1>7. objects_per_slab(c) = count
  BY <1>3, <1>4, <1>5, <1>6 DEF objects_per_slab
<1>8. ASSUME NEW p, NEW i \in Numbers(c) PROVE Address(p, c, i + 1) \leq PAGE_SIZE
  <2>1. i \in Int /\ i + 1 \in Int /\ i + 1 \leq count
    BY <1>7 DEF Numbers
  <2>2. PICK k \in Int : k = i + 1 /\ k \leq count
    BY <2>1
  <2>3. k * size \leq count * size
    BY <1>4, <2>2
  <2>4. PICK x \in Int : x = k * size /\ x \leq room
    <3>1. k * size \in Int /\ count * size \in Int
      BY <1>4
    <3> QED
      BY <1>6, <2>3, <3>1
  <2>5. Address(p, c, i + 1) = first + x
    BY <1>3, <1>4, <2>2, <2>4 DEF Address
  <2> QED
    BY <1>1, <1>5, <2>4, <2>5
<1> QED
  BY <1>7, <1>8

-----------------------------------------------------------------------------
(* Objects and slabs.                                                       *)

\* The objects of a page that are handed out, as pairs and as numbers.
LEMMA HandedOutPairs ==
  ASSUME NEW objects, \A o \in objects : o = <<o[1], o[2]>>
  PROVE  \A p, i : i \in HandedOut(objects, p) <=> <<p, i>> \in objects
<1> TAKE p, i
<1>1. ASSUME i \in HandedOut(objects, p) PROVE <<p, i>> \in objects
  <2>1. PICK o \in objects : o[1] = p /\ o[2] = i
    BY <1>1 DEF HandedOut
  <2> QED
    BY <2>1
<1>2. ASSUME <<p, i>> \in objects PROVE i \in HandedOut(objects, p)
  <2>1. <<p, i>>[1] = p /\ <<p, i>>[2] = i
    OBVIOUS
  <2>2. <<p, i>> \in { x \in objects : x[1] = p }
    BY <1>2, <2>1
  <2> QED
    BY <2>1, <2>2 DEF HandedOut
<1> QED
  BY <1>1, <1>2

\* One object more.
Added(objects, more, p, i) ==
  more = objects \cup {<<p, i>>} /\ \A o \in objects : o = <<o[1], o[2]>>

\* Handing out an object changes what its page has handed out, and no other page.
LEMMA HandedOutMore ==
  ASSUME NEW objects, NEW more, NEW p, NEW i,
         Added(objects, more, p, i)
  PROVE  /\ HandedOut(more, p) = HandedOut(objects, p) \cup {i}
         /\ \A q : q # p => HandedOut(more, q) = HandedOut(objects, q)
<1>1. \A q, j : j \in HandedOut(objects, q) <=> <<q, j>> \in objects
  BY HandedOutPairs DEF Added
<1>2. \A q, j : j \in HandedOut(more, q) <=> <<q, j>> \in objects \/ (q = p /\ j = i)
  <2>1. \A o \in more : o = <<o[1], o[2]>>
    BY DEF Added
  <2>2. \A q, j : j \in HandedOut(more, q) <=> <<q, j>> \in more
    BY <2>1, HandedOutPairs
  <2>3. \A q, j : <<q, j>> = <<p, i>> <=> q = p /\ j = i
    OBVIOUS
  <2> QED
    BY <2>2, <2>3 DEF Added
<1>3. \A j : j \in HandedOut(more, p) <=> j \in HandedOut(objects, p) \cup {i}
  BY <1>1, <1>2
<1>4. HandedOut(more, p) = HandedOut(objects, p) \cup {i}
  BY <1>3
<1>5. ASSUME NEW q, q # p PROVE HandedOut(more, q) = HandedOut(objects, q)
  <2>1. \A j : j \in HandedOut(more, q) <=> j \in HandedOut(objects, q)
    BY <1>1, <1>2, <1>5
  <2> QED
    BY <2>1
<1> QED
  BY <1>4, <1>5

\* One object less.
Removed(objects, less, p, i) ==
  less = objects \ {<<p, i>>} /\ \A o \in objects : o = <<o[1], o[2]>>

\* Neither does taking one back.
LEMMA HandedOutLess ==
  ASSUME NEW objects, NEW less, NEW p, NEW i,
         Removed(objects, less, p, i)
  PROVE  /\ HandedOut(less, p) = HandedOut(objects, p) \ {i}
         /\ \A q : q # p => HandedOut(less, q) = HandedOut(objects, q)
<1>1. \A q, j : j \in HandedOut(objects, q) <=> <<q, j>> \in objects
  BY HandedOutPairs DEF Removed
<1>2. \A q, j : j \in HandedOut(less, q) <=> <<q, j>> \in objects /\ ~(q = p /\ j = i)
  <2>1. \A o \in less : o = <<o[1], o[2]>>
    BY DEF Removed
  <2>2. \A q, j : j \in HandedOut(less, q) <=> <<q, j>> \in less
    BY <2>1, HandedOutPairs
  <2>3. \A q, j : <<q, j>> = <<p, i>> <=> q = p /\ j = i
    OBVIOUS
  <2> QED
    BY <2>2, <2>3 DEF Removed
<1>3. \A j : j \in HandedOut(less, p) <=> j \in HandedOut(objects, p) \ {i}
  BY <1>1, <1>2
<1>4. HandedOut(less, p) = HandedOut(objects, p) \ {i}
  BY <1>3
<1>5. ASSUME NEW q, q # p PROVE HandedOut(less, q) = HandedOut(objects, q)
  <2>1. \A j : j \in HandedOut(less, q) <=> j \in HandedOut(objects, q)
    BY <1>1, <1>2, <1>5
  <2> QED
    BY <2>1
<1> QED
  BY <1>4, <1>5

\* What the header of a slab says.
LEMMA HeaderCount ==
  ASSUME NEW s, NEW out, Header(s, out)
  PROVE  /\ s.free_count = Len(s.free_list) /\ s.free_count \in Nat
         /\ s.cache \in Caches /\ s.total_objects = objects_per_slab(s.cache)
         /\ s.total_objects \in Nat /\ s.total_objects > 0
         /\ IsFiniteSet(out) /\ s.free_count + Cardinality(out) = s.total_objects
         /\ s.free_list = <<>> <=> s.free_count = 0
<1> DEFINE c == s.cache
           n == objects_per_slab(c)
<1>1. /\ s.free_count = Len(s.free_list) /\ c \in Caches /\ s.total_objects = n
      /\ n > 0 /\ out \subseteq Numbers(c) /\ Once(s.free_list, Numbers(c) \ out)
  BY DEF Header
<1>2. n \in Int
  BY <1>1, ObjectsFit
<1> HIDE DEF n
<1>3. n \in Nat /\ n > 0
  BY <1>1, <1>2
<1>4. Numbers(c) = 0 .. n - 1
  BY DEF Numbers, n
<1>5. IsFiniteSet(Numbers(c)) /\ Cardinality(Numbers(c)) = n
  <2>1. IsFiniteSet(0 .. n - 1) /\ Cardinality(0 .. n - 1) = IF 0 > n - 1 THEN 0 ELSE (n - 1) - 0 + 1
    BY <1>3, FS_Interval
  <2> QED
    BY <1>3, <1>4, <2>1
<1>6. IsFiniteSet(out) /\ Cardinality(out) \in Nat
  BY <1>1, <1>5, FS_Subset, FS_CardinalityType
<1>7. Cardinality(Numbers(c) \ out) = Len(s.free_list) /\ Len(s.free_list) \in Nat
  BY <1>1, OnceLength, OnceEmpty
<1>8. Cardinality(Numbers(c) \ out) = Cardinality(Numbers(c)) - Cardinality(out)
  <2>1. Cardinality(Numbers(c) \ out) = Cardinality(Numbers(c)) - Cardinality(Numbers(c) \cap out)
    BY <1>5, FS_Difference
  <2>2. Numbers(c) \cap out = out
    BY <1>1
  <2> QED
    BY <2>1, <2>2
<1>9. Len(s.free_list) + Cardinality(out) = n
  BY <1>3, <1>5, <1>6, <1>7, <1>8
<1>10. s.free_list = <<>> <=> Len(s.free_list) = 0
  BY <1>1, OnceEmpty
<1> QED
  BY <1>1, <1>3, <1>6, <1>7, <1>9, <1>10 DEF n

\* An update of the free list and its count.
LEMMA ListUpdate ==
  ASSUME NEW s, NEW d, NEW n, NEW k, NEW l, NEW x, NEW y,
         s = [cache |-> d, total_objects |-> n, free_count |-> k, free_list |-> l]
  PROVE  [s EXCEPT !.free_list = x, !.free_count = y]
           = [cache |-> d, total_objects |-> n, free_count |-> y, free_list |-> x]
<1>1. PICK t : t = [s EXCEPT !.free_list = x]
  OBVIOUS
<1>2. t = [cache |-> d, total_objects |-> n, free_count |-> k, free_list |-> x]
  BY <1>1
<1>3. [t EXCEPT !.free_count = y] = [cache |-> d, total_objects |-> n, free_count |-> y, free_list |-> x]
  BY <1>2
<1>4. [s EXCEPT !.free_list = x, !.free_count = y] = [t EXCEPT !.free_count = y]
  BY <1>1
<1> QED
  BY <1>3, <1>4

\* slab_pop_object hands out the head of the free list.
LEMMA PopHeader ==
  ASSUME NEW s, NEW out, Header(s, out), s.free_count # 0
  PROVE  LET i == Head(s.free_list)  t == slab_pop_object(s) IN
         /\ i \notin out /\ Header(t, out \cup {i})
         /\ t.cache = s.cache /\ t.free_count = s.free_count - 1
<1> DEFINE i == Head(s.free_list)
           c == s.cache
           rest == Tail(s.free_list)
<1>1. /\ s = [cache |-> c, total_objects |-> objects_per_slab(c),
              free_count |-> Len(s.free_list), free_list |-> s.free_list]
      /\ c \in Caches /\ objects_per_slab(c) > 0
      /\ out \subseteq Numbers(c) /\ Once(s.free_list, Numbers(c) \ out)
  BY DEF Header
<1>2. s.free_list # <<>> /\ s.free_count = Len(s.free_list)
  BY HeaderCount
<1>3. i \in Numbers(c) \ out /\ Once(rest, (Numbers(c) \ out) \ {i}) /\ Len(rest) = Len(s.free_list) - 1
  BY <1>1, <1>2, OnceHead
<1>4. (Numbers(c) \ out) \ {i} = Numbers(c) \ (out \cup {i}) /\ out \cup {i} \subseteq Numbers(c)
  BY <1>1, <1>3
<1>5. slab_pop_object(s) = [cache |-> c, total_objects |-> objects_per_slab(c),
                            free_count |-> Len(rest), free_list |-> rest]
  <2>1. PICK d, n, k, l : /\ d = c /\ n = objects_per_slab(c) /\ k = Len(s.free_list) /\ l = s.free_list
                          /\ s = [cache |-> d, total_objects |-> n, free_count |-> k, free_list |-> l]
    BY <1>1
  <2>3. s = [cache |-> d, total_objects |-> n, free_count |-> k, free_list |-> l]
    BY <2>1
  <2>2. slab_pop_object(s) = [cache |-> d, total_objects |-> n, free_count |-> k - 1, free_list |-> Tail(l)]
    <3>1. s.free_list = l /\ s.free_count = k
      BY ONLY <2>3
    <3>2. slab_pop_object(s) = [s EXCEPT !.free_list = Tail(l), !.free_count = k - 1]
      BY ONLY <3>1 DEF slab_pop_object
    <3> QED
      BY <2>3, <3>2, ListUpdate
  <2> QED
    BY <1>3, <2>1, <2>2
<1> HIDE DEF i, c, rest
<1>6. PICK t : /\ t = slab_pop_object(s) /\ t.cache = c /\ t.total_objects = objects_per_slab(c)
               /\ t.free_count = Len(rest) /\ t.free_list = rest
               /\ t = [cache |-> c, total_objects |-> objects_per_slab(c),
                       free_count |-> Len(rest), free_list |-> rest]
  BY <1>5
<1>7. Header(t, out \cup {i})
  BY <1>1, <1>3, <1>4, <1>6 DEF Header
<1> QED
  BY <1>2, <1>3, <1>6, <1>7 DEF i, c

\* slab_push_object takes an object back.
LEMMA PushHeader ==
  ASSUME NEW s, NEW out, Header(s, out), NEW i \in out
  PROVE  LET t == slab_push_object(s, i) IN
         /\ Header(t, out \ {i}) /\ t.cache = s.cache /\ t.free_count = s.free_count + 1
<1> DEFINE c == s.cache
           more == <<i>> \o s.free_list
<1>1. /\ s = [cache |-> c, total_objects |-> objects_per_slab(c),
              free_count |-> Len(s.free_list), free_list |-> s.free_list]
      /\ c \in Caches /\ objects_per_slab(c) > 0
      /\ out \subseteq Numbers(c) /\ Once(s.free_list, Numbers(c) \ out)
  BY DEF Header
<1>2. s.free_count = Len(s.free_list)
  BY HeaderCount
<1>3. Once(more, (Numbers(c) \ out) \cup {i}) /\ Len(more) = Len(s.free_list) + 1
  BY <1>1, OnceCons
<1>4. (Numbers(c) \ out) \cup {i} = Numbers(c) \ (out \ {i}) /\ out \ {i} \subseteq Numbers(c)
  BY <1>1
<1>5. slab_push_object(s, i) = [cache |-> c, total_objects |-> objects_per_slab(c),
                                free_count |-> Len(more), free_list |-> more]
  <2>1. PICK d, n, k, l : /\ d = c /\ n = objects_per_slab(c) /\ k = Len(s.free_list) /\ l = s.free_list
                          /\ s = [cache |-> d, total_objects |-> n, free_count |-> k, free_list |-> l]
    BY <1>1
  <2>3. s = [cache |-> d, total_objects |-> n, free_count |-> k, free_list |-> l]
    BY <2>1
  <2>2. slab_push_object(s, i)
          = [cache |-> d, total_objects |-> n, free_count |-> k + 1, free_list |-> <<i>> \o l]
    <3>1. s.free_list = l /\ s.free_count = k
      BY ONLY <2>3
    <3>2. slab_push_object(s, i) = [s EXCEPT !.free_list = <<i>> \o l, !.free_count = k + 1]
      BY ONLY <3>1 DEF slab_push_object
    <3> QED
      BY <2>3, <3>2, ListUpdate
  <2> QED
    BY <1>3, <2>1, <2>2
<1> HIDE DEF c, more
<1>6. PICK t : /\ t = slab_push_object(s, i) /\ t.cache = c /\ t.total_objects = objects_per_slab(c)
               /\ t.free_count = Len(more) /\ t.free_list = more
               /\ t = [cache |-> c, total_objects |-> objects_per_slab(c),
                       free_count |-> Len(more), free_list |-> more]
  BY <1>5
<1>7. Header(t, out \ {i})
  BY <1>1, <1>3, <1>4, <1>6 DEF Header
<1> QED
  BY <1>2, <1>3, <1>6, <1>7 DEF c

\* slab_init: all objects of the new slab are on its free list.
LEMMA NewHeader ==
  ASSUME NEW c \in Caches, objects_per_slab(c) > 0, NEW p
  PROVE  Header(slab_init(c, p), {}) /\ slab_init(c, p).cache = c /\ slab_init(c, p).free_count # 0
<1>1. PICK n \in Nat : n = objects_per_slab(c) /\ n > 0
  BY ObjectsFit
<1>2. PICK l : l = Reverse([i \in 1 .. n |-> i - 1])
  OBVIOUS
<1>3. Once(l, 0 .. n - 1) /\ Len(l) = n
  BY <1>2, OnceReversed
<1>4. slab_init(c, p) = [cache |-> c, total_objects |-> n, free_count |-> n, free_list |-> l]
  BY <1>1, <1>2 DEF slab_init
<1>5. Numbers(c) \ {} = 0 .. n - 1
  BY <1>1 DEF Numbers
<1> QED
  BY <1>1, <1>3, <1>4, <1>5 DEF Header

-----------------------------------------------------------------------------
(* Parts of the steps that several actions share.                           *)

\* The lists of a cache.
LEMMA CacheFields == \A x, y : Cache(x, y).exists = TRUE /\ Cache(x, y).partial = x /\ Cache(x, y).full = y
BY DEF Cache

\* The slabs of each cache after the header of page p has become t.
NewPage(p, t, c) ==
  /\ p \in Region /\ slab' = [slab EXCEPT ![p] = t] /\ mapped' = mapped \cup {p}
  /\ t.cache = c /\ t.free_count \in Nat /\ (p \in mapped => slab[p].cache = c)

\* Page p alone moves, between the sets of its own cache c.
LEMMA PageChanged ==
  ASSUME PagesSound, NEW p, NEW t, NEW c, NewPage(p, t, c)
  PROVE  /\ \A d : d # c => Partial(d)' = Partial(d) /\ Full(d)' = Full(d)
         /\ Partial(c)' = IF t.free_count = 0 THEN Partial(c) \ {p} ELSE Partial(c) \cup {p}
         /\ Full(c)' = IF t.free_count = 0 THEN Full(c) \cup {p} ELSE Full(c) \ {p}
         /\ slab'[p] = t /\ \A q \in Region : q # p => slab'[q] = slab[q]
         /\ slab' = [q \in Region |-> slab'[q]]
<1> USE DEF NewPage
<1>1. /\ slab = [q \in Region |-> slab[q]] /\ mapped \subseteq Region
  BY DEF PagesSound
<1>2. /\ slab'[p] = t /\ \A q \in Region : q # p => slab'[q] = slab[q]
      /\ slab' = [q \in Region |-> slab'[q]]
  BY <1>1
<1>3. \A d : Partial(d)' = { q \in mapped \cup {p} : slab'[q].cache = d /\ slab'[q].free_count > 0 }
  BY DEF Partial
<1>4. \A d : Full(d)' = { q \in mapped \cup {p} : slab'[q].cache = d /\ slab'[q].free_count = 0 }
  BY DEF Full
<1>5. ASSUME NEW d, d # c PROVE Partial(d)' = Partial(d) /\ Full(d)' = Full(d)
  <2>1. \A q : q \in { r \in mapped \cup {p} : slab'[r].cache = d /\ slab'[r].free_count > 0 } <=> q \in Partial(d)
    BY <1>1, <1>2, <1>5 DEF Partial
  <2>2. \A q : q \in { r \in mapped \cup {p} : slab'[r].cache = d /\ slab'[r].free_count = 0 } <=> q \in Full(d)
    BY <1>1, <1>2, <1>5 DEF Full
  <2> QED
    BY <1>3, <1>4, <2>1, <2>2
<1>6. t.free_count > 0 <=> t.free_count # 0
  OBVIOUS
<1>7. Partial(c)' = IF t.free_count = 0 THEN Partial(c) \ {p} ELSE Partial(c) \cup {p}
  <2>1. \A q : q \in { r \in mapped \cup {p} : slab'[r].cache = c /\ slab'[r].free_count > 0 }
               <=> q \in IF t.free_count = 0 THEN Partial(c) \ {p} ELSE Partial(c) \cup {p}
    BY <1>1, <1>2, <1>6 DEF Partial
  <2> QED
    BY <1>3, <2>1
<1>8. Full(c)' = IF t.free_count = 0 THEN Full(c) \cup {p} ELSE Full(c) \ {p}
  <2>1. \A q : q \in { r \in mapped \cup {p} : slab'[r].cache = c /\ slab'[r].free_count = 0 }
               <=> q \in IF t.free_count = 0 THEN Full(c) \cup {p} ELSE Full(c) \ {p}
    BY <1>1, <1>2 DEF Full
  <2> QED
    BY <1>4, <2>1
<1> QED
  BY <1>2, <1>5, <1>7, <1>8

\* New lists for cache c.
NewLists(c, r) ==
  /\ c \in Caches /\ cache' = [cache EXCEPT ![c] = r]
  /\ Once(r.partial, Partial(c)') /\ Once(r.full, Full(c)')
  /\ r = NoCache \/ (r = Cache(r.partial, r.full) /\ objects_per_slab(c) > 0)
  /\ \A d \in Caches : d # c => Partial(d)' = Partial(d) /\ Full(d)' = Full(d)

\* New lists of one cache that are exact leave the lists of all caches exact.
LEMMA ListsChanged ==
  ASSUME ListsSound, NEW c, NEW r, NewLists(c, r)
  PROVE  ListsSound'
<1> DEFINE Sound(d, k, P, F) == /\ Once(k.partial, P) /\ Once(k.full, F)
                                /\ k = NoCache \/ (k = Cache(k.partial, k.full) /\ objects_per_slab(d) > 0)
<1>1. cache = [d \in Caches |-> cache[d]] /\ \A d \in Caches : Sound(d, cache[d], Partial(d), Full(d))
  BY DEF ListsSound
<1>2. cache' = [d \in Caches |-> cache'[d]] /\ cache'[c] = r /\ \A d \in Caches : d # c => cache'[d] = cache[d]
  BY <1>1 DEF NewLists
<1>3. Sound(c, r, Partial(c)', Full(c)')
  BY DEF NewLists
<1>4. \A d \in Caches : d # c => Partial(d)' = Partial(d) /\ Full(d)' = Full(d)
  BY DEF NewLists
<1>5. \A d \in Caches : Sound(d, cache'[d], Partial(d)', Full(d)')
  <2> TAKE d \in Caches
  <2>1. CASE d = c
    BY <1>2, <1>3, <2>1
  <2>2. CASE d # c
    <3>1. Sound(d, cache[d], Partial(d), Full(d)) /\ cache'[d] = cache[d] /\ Partial(d)' = Partial(d) /\ Full(d)' = Full(d)
      BY <1>1, <1>2, <1>4, <2>2
    <3> QED
      BY <3>1
  <2> QED
    BY <2>1, <2>2
<1> QED
  BY <1>2, <1>5 DEF ListsSound, NoCache, Cache

\* One object of page p handed out or taken back: the other pages do not change.
LEMMA SlabsChanged ==
  ASSUME PagesSound, SlabsSound, LiveSound, NEW p \in Region, NEW t, NEW i,
         slab' = [slab EXCEPT ![p] = t], mapped' = mapped \cup {p},
         live' = live \cup {<<p, i>>} \/ live' = live \ {<<p, i>>},
         Header(t, HandedOut(live', p))
  PROVE  SlabsSound'
<1>1. slab = [q \in Region |-> slab[q]] /\ mapped \subseteq Region
  BY DEF PagesSound
<1>2. slab'[p] = t /\ \A q \in mapped : q # p => slab'[q] = slab[q]
  BY <1>1
<1>3. \A o \in live : o = <<o[1], o[2]>>
  BY DEF LiveSound
<1>4. \A q : q # p => HandedOut(live', q) = HandedOut(live, q)
  <2>2. CASE live' = live \cup {<<p, i>>}
    <3>1. Added(live, live', p, i)
      BY <1>3, <2>2 DEF Added
    <3> QED
      BY <3>1, HandedOutMore
  <2>3. CASE live' = live \ {<<p, i>>}
    <3>1. Removed(live, live', p, i)
      BY <1>3, <2>3 DEF Removed
    <3> QED
      BY <3>1, HandedOutLess
  <2> QED
    BY <2>2, <2>3
<1>5. ASSUME NEW q \in mapped' PROVE Header(slab'[q], HandedOut(live', q))
  <2>1. CASE q = p
    BY <1>2, <2>1
  <2>2. CASE q # p
    <3>1. q \in mapped
      BY <2>2
    <3>2. Header(slab[q], HandedOut(live, q))
      BY <3>1 DEF SlabsSound
    <3>3. slab'[q] = slab[q] /\ HandedOut(live', q) = HandedOut(live, q)
      BY <1>2, <1>4, <2>2, <3>1
    <3> QED
      BY <3>2, <3>3
  <2> QED
    BY <2>1, <2>2
<1> QED
  BY <1>5 DEF SlabsSound, Header

-----------------------------------------------------------------------------
(* The steps.                                                               *)

\* The first state.
LEMMA SlabStart == SlabInit => SlabInv
<1> SUFFICES ASSUME SlabInit PROVE SlabInv
  OBVIOUS
<1>1. PagesSound
  BY RegionFrames DEF SlabInit, PagesSound
<1>2. SlabsSound
  BY DEF SlabInit, SlabsSound
<1>3. LiveSound
  BY DEF SlabInit, LiveSound
<1>4. ListsSound
  <2>1. cache = [c \in Caches |-> NoCache] /\ mapped = {}
    BY DEF SlabInit
  <2>2. \A c : Partial(c) = {} /\ Full(c) = {}
    BY <2>1 DEF Partial, Full
  <2>3. NoCache.partial = <<>> /\ NoCache.full = <<>>
    BY DEF NoCache
  <2> QED
    BY <2>1, <2>2, <2>3, OnceEmpty DEF ListsSound
<1> QED
  BY <1>1, <1>2, <1>3, <1>4 DEF SlabInv

\* A cache is created with empty lists.
LEMMA CreateStep ==
  ASSUME SlabInv, NEW c \in Caches, slab_cache_create(c)
  PROVE  SlabInv'
<1>1. UNCHANGED <<slab, mapped, bitmap, live, owner>>
  BY DEF slab_cache_create
<1>2. PagesSound' /\ SlabsSound' /\ LiveSound'
  BY <1>1 DEF SlabInv, PagesSound, SlabsSound, LiveSound, Header
<1>3. \A d : Partial(d)' = Partial(d) /\ Full(d)' = Full(d)
  BY <1>1 DEF Partial, Full
<1>4. /\ Once(cache[c].partial, Partial(c)) /\ Once(cache[c].full, Full(c)) /\ ListsSound
      /\ cache[c] = NoCache
  BY DEF SlabInv, ListsSound, slab_cache_create, Cache
<1>5. PICK r : r = Cache(<<>>, <<>>) /\ r.partial = <<>> /\ r.full = <<>>
  BY CacheFields
<1>6. Once(r.partial, Partial(c)') /\ Once(r.full, Full(c)')
  BY <1>3, <1>4, <1>5 DEF NoCache
<1>7. NewLists(c, r)
  BY <1>3, <1>5, <1>6 DEF slab_cache_create, NewLists
<1> QED
  BY <1>2, <1>4, <1>7, ListsChanged DEF SlabInv

\* An object of a slab of cache c with room goes to the caller.
LEMMA TakeStep ==
  ASSUME SlabInv, NEW c \in Caches, cache[c].exists, NEW p \in Region, NEW s, NEW partial,
         Take(c, p, s, partial), mapped' = mapped \cup {p}, PagesSound',
         Header(s, HandedOut(live, p)), s.cache = c, s.free_count # 0,
         p \in mapped => s = slab[p],
         Once(partial, Partial(c) \cup {p})
  PROVE  SlabInv'
<1> DEFINE i == Head(s.free_list)
           t == slab_pop_object(s)
           o == <<p, i>>
<1>1. PagesSound /\ SlabsSound /\ LiveSound /\ ListsSound
  BY DEF SlabInv
<1>2. /\ i \notin HandedOut(live, p) /\ Header(t, HandedOut(live, p) \cup {i})
      /\ t.cache = c /\ t.free_count = s.free_count - 1
  BY PopHeader
<1>3. /\ slab' = [slab EXCEPT ![p] = t] /\ live' = live \cup {o}
      /\ owner' = [x \in live' |-> IF x = o THEN c ELSE owner[x]]
      /\ cache' = [cache EXCEPT ![c] =
           IF s.free_count = 1 THEN Cache(Unlink(partial, p), <<p>> \o cache[c].full)
           ELSE Cache(partial, cache[c].full)]
  BY DEF Take
<1>4. s.free_count \in Nat /\ t.free_count \in Nat
  BY <1>2, HeaderCount
<1> HIDE DEF i, t
<1>5. p \in mapped => slab[p].cache = t.cache
  BY <1>2
<1>6. /\ \A d : d # c => Partial(d)' = Partial(d) /\ Full(d)' = Full(d)
      /\ Partial(c)' = IF t.free_count = 0 THEN Partial(c) \ {p} ELSE Partial(c) \cup {p}
      /\ Full(c)' = IF t.free_count = 0 THEN Full(c) \cup {p} ELSE Full(c) \ {p}
      /\ slab'[p] = t /\ \A q \in Region : q # p => slab'[q] = slab[q]
  <2>1. NewPage(p, t, c)
    BY <1>2, <1>3, <1>4, <1>5 DEF NewPage
  <2> QED
    BY <1>1, <2>1, PageChanged
<1>7. p \notin Full(c)
  BY DEF Full
<1>8. SlabsSound'
  <2>1. HandedOut(live', p) = HandedOut(live, p) \cup {i}
    <3>1. \A x \in live : x = <<x[1], x[2]>>
      BY <1>1 DEF LiveSound
    <3>2. Added(live, live', p, i)
      BY <1>3, <3>1 DEF Added
    <3> QED
      BY <3>2, HandedOutMore
  <2>2. Header(t, HandedOut(live', p))
    BY <1>2, <2>1
  <2>3. live' = live \cup {<<p, i>>}
    BY <1>3
  <2> QED
    BY <1>1, <1>3, <2>2, <2>3, SlabsChanged
<1>9. LiveSound'
  <2>1. o[1] = p /\ o[2] = i /\ p # NULL /\ o = <<o[1], o[2]>>
    BY RegionFrames
  <2>2. owner' = [x \in live' |-> owner'[x]] /\ owner'[o] = c
        /\ \A x \in live : x # o => owner'[x] = owner[x]
    BY <1>3
  <2>3. o \notin live
    <3>1. \A x \in live : x = <<x[1], x[2]>>
      BY <1>1 DEF LiveSound
    <3> QED
      BY <1>2, <3>1, HandedOutPairs
  <2>4. ASSUME NEW x \in live'
        PROVE  /\ x = <<x[1], x[2]>> /\ owner'[x] \in Caches
               /\ x[1] # NULL => x[1] \in mapped' /\ owner'[x] = slab'[x[1]].cache
    <3>1. CASE x = o
      BY <1>2, <1>6, <2>1, <2>2, <3>1
    <3>2. CASE x # o
      <4>1. x \in live /\ owner'[x] = owner[x]
        BY <1>3, <2>2, <3>2
      <4>2. /\ x = <<x[1], x[2]>> /\ owner[x] \in Caches
            /\ x[1] # NULL => x[1] \in mapped /\ owner[x] = slab[x[1]].cache
        BY <1>1, <4>1 DEF LiveSound
      <4>3. x[1] \in mapped => slab'[x[1]].cache = slab[x[1]].cache
        <5>1. mapped \subseteq Region
          BY <1>1 DEF PagesSound
        <5> QED
          BY <1>5, <1>6, <5>1
      <4> QED
        BY <4>1, <4>2, <4>3
    <3> QED
      BY <3>1, <3>2
  <2> QED
    BY <2>2, <2>4 DEF LiveSound
<1>10. ListsSound'
  <2>1. Once(cache[c].full, Full(c)) /\ objects_per_slab(c) > 0
    BY <1>1 DEF ListsSound, NoCache
  <2>2. CASE s.free_count = 1
    <3>1. t.free_count = 0
      BY <1>2, <2>2
    <3>2. PICK x, y : x = Unlink(partial, p) /\ y = <<p>> \o cache[c].full
      OBVIOUS
    <3>3. PICK r : r = Cache(x, y) /\ r.partial = x /\ r.full = y
      BY CacheFields
    <3>4. Once(x, Partial(c)')
      <4>1. Once(x, (Partial(c) \cup {p}) \ {p})
        BY <3>2, OnceUnlink
      <4>2. (Partial(c) \cup {p}) \ {p} = Partial(c)'
        BY <1>6, <3>1
      <4> QED
        BY <4>1, <4>2
    <3>5. Once(y, Full(c)')
      <4>1. Once(y, Full(c) \cup {p})
        BY <1>7, <2>1, <3>2, OnceCons
      <4> QED
        BY <1>6, <3>1, <4>1
    <3>6. cache' = [cache EXCEPT ![c] = r]
      BY <1>3, <2>2, <3>2, <3>3
    <3>7. NewLists(c, r)
      BY <1>6, <2>1, <3>3, <3>4, <3>5, <3>6 DEF NewLists
    <3> QED
      BY <1>1, <3>7, ListsChanged
  <2>3. CASE s.free_count # 1
    <3>1. t.free_count # 0
      BY <1>2, <1>4, <2>3
    <3>2. PICK r : r = Cache(partial, cache[c].full) /\ r.partial = partial /\ r.full = cache[c].full
      BY CacheFields
    <3>3. Full(c)' = Full(c) /\ Partial(c)' = Partial(c) \cup {p}
      BY <1>6, <1>7, <3>1
    <3>4. Once(r.partial, Partial(c)') /\ Once(r.full, Full(c)')
      BY <2>1, <3>2, <3>3
    <3>5. cache' = [cache EXCEPT ![c] = r]
      BY <1>3, <2>3, <3>2
    <3>6. NewLists(c, r)
      BY <1>6, <2>1, <3>2, <3>4, <3>5 DEF NewLists
    <3> QED
      BY <1>1, <3>6, ListsChanged
  <2> QED
    BY <2>2, <2>3
<1> QED
  BY <1>8, <1>9, <1>10 DEF SlabInv

\* slab_alloc from the first slab of the list.
LEMMA AllocPartialStep ==
  ASSUME SlabInv, NEW c \in Caches, AllocPartial(c)
  PROVE  SlabInv'
<1> DEFINE p == Head(cache[c].partial)
           s == slab[p]
<1>1. /\ cache[c].exists /\ cache[c].partial # <<>> /\ Take(c, p, s, cache[c].partial)
      /\ UNCHANGED <<mapped, bitmap>>
  BY DEF AllocPartial
<1>2. PagesSound /\ SlabsSound /\ ListsSound /\ Once(cache[c].partial, Partial(c))
  BY DEF SlabInv, ListsSound
<1>3. p \in Partial(c)
  BY <1>1, <1>2, OnceHead
<1>4. p \in mapped /\ s.cache = c /\ p \in Region /\ Header(s, HandedOut(live, p)) /\ s.free_count # 0
  <2>1. p \in mapped /\ s.cache = c /\ s.free_count > 0
    BY <1>3 DEF Partial
  <2>2. Header(s, HandedOut(live, p)) /\ p \in Region
    BY <1>2, <2>1 DEF SlabsSound, PagesSound
  <2> QED
    BY <2>1, <2>2, HeaderCount
<1>5. PagesSound'
  <2>1. slab' = [slab EXCEPT ![p] = slab_pop_object(s)]
    BY <1>1 DEF Take
  <2> HIDE DEF p, s
  <2>2. slab' = [q \in Region |-> slab'[q]]
    BY <1>2, <2>1 DEF PagesSound
  <2> QED
    BY <1>1, <1>2, <2>2 DEF PagesSound
<1>6. Partial(c) \cup {p} = Partial(c) /\ mapped' = mapped \cup {p}
  BY <1>1, <1>3, <1>4
<1>7. Once(cache[c].partial, Partial(c) \cup {p})
  BY <1>2, <1>6
<1>8. p \in mapped => s = slab[p]
  OBVIOUS
<1> HIDE DEF p, s
<1> QED
  BY <1>1, <1>4, <1>5, <1>6, <1>7, <1>8, TakeStep

\* slab_alloc from a new slab, in a frame that pmm_alloc_page has.
LEMMA AllocNewStep ==
  ASSUME SlabInv, NEW c \in Caches, AllocNew(c)
  PROVE  SlabInv'
<1> DEFINE f == Min(Clear)
<1>1. PICK p : p = pmm_alloc_page
  OBVIOUS
<1>2. PICK s : s = slab_init(c, p)
  OBVIOUS
<1>3. /\ cache[c].exists /\ cache[c].partial = <<>> /\ Clear # {} /\ Take(c, p, s, <<p>>)
      /\ mapped' = mapped \cup {p} /\ bitmap' = bitmap \cup {f}
  BY <1>1, <1>2 DEF AllocNew
<1>4. PagesSound /\ SlabsSound /\ LiveSound /\ ListsSound
  BY DEF SlabInv
<1>5. f \in Frames \ bitmap
  <2>1. Clear \in SUBSET Nat /\ Clear # {} /\ Clear = Frames \ bitmap
    BY <1>3, RegionFrames DEF Clear
  <2> QED
    BY <2>1, Lowest
<1> HIDE DEF f
<1>6. p \in Region /\ p - managed_base = f /\ p # NULL
  BY <1>1, <1>5, RegionFrames DEF pmm_alloc_page, f
<1>7. p \notin mapped
  BY <1>4, <1>5, <1>6 DEF PagesSound
<1>8. PagesSound'
  <2>1. slab' = [slab EXCEPT ![p] = slab_pop_object(s)]
    BY <1>3 DEF Take
  <2>2. slab' = [q \in Region |-> slab'[q]]
    BY <1>4, <2>1 DEF PagesSound
  <2>3. f \in Nat /\ used_pages \in Nat /\ f >= used_pages
    BY <1>4, <1>5, RegionFrames DEF PagesSound
  <2> QED
    BY <1>3, <1>4, <1>5, <1>6, <2>2, <2>3 DEF PagesSound
<1>9. HandedOut(live, p) = {}
  <2>1. \A o \in live : o[1] # p
    BY <1>4, <1>6, <1>7 DEF LiveSound
  <2> QED
    BY <2>1 DEF HandedOut
<1>10. /\ Once(<<>>, Partial(c)) /\ objects_per_slab(c) > 0
  BY <1>3, <1>4 DEF ListsSound, NoCache
<1>11. Header(s, HandedOut(live, p)) /\ s.cache = c /\ s.free_count # 0
  BY <1>2, <1>9, <1>10, NewHeader
<1>12. Once(<<p>>, Partial(c) \cup {p})
  <2>1. Partial(c) = {}
    BY <1>10, OnceEmpty
  <2>2. Once(<<>>, {}) /\ p \notin {}
    BY OnceEmpty
  <2>3. Once(<<p>> \o <<>>, {} \cup {p})
    BY <2>2, OnceCons
  <2>4. <<p>> \o <<>> = <<p>>
    BY ConcatEmptySeq
  <2> QED
    BY <2>1, <2>3, <2>4
<1>13. p \in mapped => s = slab[p]
  BY <1>7
<1> QED
  BY <1>3, <1>6, <1>8, <1>11, <1>12, <1>13, TakeStep

\* slab_alloc from kmalloc, and its slab_free: the slabs do not change.
LEMMA HeapStep ==
  ASSUME SlabInv, (\E c \in Caches : AllocHeap(c)) \/ (\E o \in live : FreeHeap(o))
  PROVE  SlabInv'
<1>1. PagesSound /\ SlabsSound /\ LiveSound /\ ListsSound
  BY DEF SlabInv
<1>2. UNCHANGED <<cache, slab, mapped, bitmap>>
  BY DEF AllocHeap, FreeHeap
<1>3. PagesSound' /\ ListsSound'
  BY <1>1, <1>2 DEF PagesSound, ListsSound, Partial, Full
<1>4. \A o \in live : o = <<o[1], o[2]>>
  BY <1>1 DEF LiveSound
<1>5. PICK i : Added(live, live', NULL, i) \/ Removed(live, live', NULL, i)
  <2>1. CASE \E c \in Caches : AllocHeap(c)
    <3>1. \E i : live' = live \cup {<<NULL, i>>}
      BY <2>1 DEF AllocHeap
    <3> QED
      BY <1>4, <3>1 DEF Added
  <2>2. CASE \E o \in live : FreeHeap(o)
    <3>1. PICK o \in live : o[1] = NULL /\ live' = live \ {o}
      BY <2>2 DEF FreeHeap, Forget
    <3>2. o = <<NULL, o[2]>>
      BY <1>4, <3>1
    <3> QED
      BY <1>4, <3>1, <3>2 DEF Removed
  <2> QED
    BY <2>1, <2>2
<1>6. \A q : q # NULL => HandedOut(live', q) = HandedOut(live, q)
  BY <1>5, HandedOutMore, HandedOutLess
<1>7. SlabsSound'
  <2>1. \A q \in mapped : q # NULL
    BY <1>1, RegionFrames DEF PagesSound
  <2>2. \A q \in mapped : Header(slab[q], HandedOut(live', q))
    BY <1>1, <1>6, <2>1 DEF SlabsSound
  <2> QED
    BY <1>2, <2>2 DEF SlabsSound, Header
<1>8. LiveSound'
  <2>1. CASE \E c \in Caches : AllocHeap(c)
    <3>1. PICK c, n : /\ c \in Caches /\ live' = live \cup {<<NULL, n>>}
                      /\ owner' = [x \in live' |-> IF x \in live THEN owner[x] ELSE c]
      BY <2>1 DEF AllocHeap
    <3>2. <<NULL, n>>[1] = NULL /\ <<NULL, n>>[2] = n
      OBVIOUS
    <3> QED
      BY <1>1, <1>2, <3>1, <3>2 DEF LiveSound
  <2>2. CASE \E o \in live : FreeHeap(o)
    <3>1. PICK o \in live : live' = live \ {o} /\ owner' = [x \in live' |-> owner[x]]
      BY <2>2 DEF FreeHeap, Forget
    <3> QED
      BY <1>1, <1>2, <3>1 DEF LiveSound
  <2> QED
    BY <2>1, <2>2
<1> QED
  BY <1>3, <1>7, <1>8 DEF SlabInv

\* An object goes back to its slab, which stays.
Returned(o, p, c) ==
  /\ o \in live /\ p = o[1] /\ p # NULL /\ c = owner[o]
  /\ slab' = [slab EXCEPT ![p] = slab_push_object(slab[p], o[2])]
  /\ Forget(o) /\ UNCHANGED <<mapped, bitmap>>

\* What slab_push_object changes, whatever the lists do.
LEMMA ReturnStep ==
  ASSUME SlabInv, NEW o, NEW p, NEW c, Returned(o, p, c)
  PROVE  /\ PagesSound' /\ SlabsSound' /\ LiveSound'
         /\ c \in Caches /\ p \in mapped /\ slab[p].cache = c /\ slab[p].free_count \in Nat
         /\ \A d : d # c => Partial(d)' = Partial(d) /\ Full(d)' = Full(d)
         /\ Partial(c)' = Partial(c) \cup {p} /\ Full(c)' = Full(c) \ {p}
<1>1. PagesSound /\ SlabsSound /\ LiveSound /\ ListsSound
  BY DEF SlabInv
<1>2. PICK i, t : i = o[2] /\ t = slab_push_object(slab[p], i)
  OBVIOUS
<1>3. /\ o \in live /\ p # NULL /\ c = owner[o] /\ o[1] = p
      /\ slab' = [slab EXCEPT ![p] = t] /\ live' = live \ {o} /\ owner' = [x \in live' |-> owner[x]]
      /\ UNCHANGED <<mapped, bitmap>>
  BY <1>2 DEF Returned, Forget
<1>4. /\ o = <<p, i>> /\ p \in mapped /\ slab[p].cache = c /\ c \in Caches /\ p \in Region
      /\ Header(slab[p], HandedOut(live, p)) /\ \A x \in live : x = <<x[1], x[2]>>
  <2>1. /\ o = <<o[1], o[2]>> /\ p \in mapped /\ slab[p].cache = c /\ c \in Caches
        /\ \A x \in live : x = <<x[1], x[2]>>
    BY <1>1, <1>3 DEF LiveSound
  <2> QED
    BY <1>1, <1>2, <1>3, <2>1 DEF SlabsSound, PagesSound
<1>5. i \in HandedOut(live, p)
  BY <1>3, <1>4, HandedOutPairs
<1>6. Header(t, HandedOut(live, p) \ {i}) /\ t.cache = c /\ t.free_count = slab[p].free_count + 1
  BY <1>2, <1>4, <1>5, PushHeader
<1>7. slab[p].free_count \in Nat /\ t.free_count \in Nat /\ t.free_count # 0
  <2>1. slab[p].free_count \in Nat
    BY <1>4, HeaderCount
  <2> QED
    BY <1>6, <2>1
<1>8. mapped' = mapped \cup {p}
  BY <1>3, <1>4
<1>9. NewPage(p, t, c)
  BY <1>3, <1>4, <1>6, <1>7, <1>8 DEF NewPage
<1>10. /\ \A d : d # c => Partial(d)' = Partial(d) /\ Full(d)' = Full(d)
       /\ Partial(c)' = IF t.free_count = 0 THEN Partial(c) \ {p} ELSE Partial(c) \cup {p}
       /\ Full(c)' = IF t.free_count = 0 THEN Full(c) \cup {p} ELSE Full(c) \ {p}
       /\ slab'[p] = t /\ \A q \in Region : q # p => slab'[q] = slab[q]
       /\ slab' = [q \in Region |-> slab'[q]]
  BY <1>1, <1>9, PageChanged
<1>11. Partial(c)' = Partial(c) \cup {p} /\ Full(c)' = Full(c) \ {p}
  BY <1>7, <1>10
<1>12. PagesSound'
  BY <1>1, <1>3, <1>10 DEF PagesSound
<1>13. SlabsSound'
  <2>1. live' = live \ {<<p, i>>}
    BY <1>3, <1>4
  <2>2. Removed(live, live', p, i)
    BY <1>4, <2>1 DEF Removed
  <2>3. HandedOut(live', p) = HandedOut(live, p) \ {i}
    BY <2>2, HandedOutLess
  <2>4. Header(t, HandedOut(live', p))
    BY <1>6, <2>3
  <2> QED
    BY <1>1, <1>3, <1>4, <1>8, <2>1, <2>4, SlabsChanged
<1>14. LiveSound'
  <2>1. \A q \in mapped : slab'[q].cache = slab[q].cache
    BY <1>1, <1>4, <1>6, <1>10 DEF PagesSound
  <2> QED
    BY <1>1, <1>3, <2>1 DEF LiveSound
<1> QED
  BY <1>4, <1>7, <1>10, <1>11, <1>12, <1>13, <1>14

\* slab_free of an object of a full slab, which moves to the other list.
LEMMA FreeToFullStep ==
  ASSUME SlabInv, NEW o \in live, FreeToFull(o)
  PROVE  SlabInv'
<1>1. PICK p, c : Returned(o, p, c) /\ slab[p].free_count = 0 /\ cache' = BackToPartial(c, p)
  BY DEF FreeToFull, Returned
<1>2. /\ PagesSound' /\ SlabsSound' /\ LiveSound'
      /\ c \in Caches /\ p \in mapped /\ slab[p].cache = c
      /\ \A d : d # c => Partial(d)' = Partial(d) /\ Full(d)' = Full(d)
      /\ Partial(c)' = Partial(c) \cup {p} /\ Full(c)' = Full(c) \ {p}
  BY <1>1, ReturnStep
<1>3. p \in Full(c) /\ p \notin Partial(c)
  BY <1>1, <1>2 DEF Partial, Full
<1>4. /\ ListsSound /\ Once(cache[c].partial, Partial(c)) /\ Once(cache[c].full, Full(c))
      /\ objects_per_slab(c) > 0
  <2>1. /\ ListsSound /\ Once(cache[c].partial, Partial(c)) /\ Once(cache[c].full, Full(c))
        /\ cache[c] = NoCache \/ objects_per_slab(c) > 0
    BY <1>2 DEF SlabInv, ListsSound
  <2>2. cache[c] # NoCache
    <3>1. cache[c].full # <<>>
      BY <1>3, <2>1, OnceEmpty
    <3> QED
      BY <3>1 DEF NoCache
  <2> QED
    BY <2>1, <2>2
<1>5. PICK x, y : x = <<p>> \o cache[c].partial /\ y = Unlink(cache[c].full, p)
  OBVIOUS
<1>6. PICK r : r = Cache(x, y) /\ r.partial = x /\ r.full = y
  BY CacheFields
<1>7. Once(x, Partial(c)')
  BY <1>2, <1>3, <1>4, <1>5, OnceCons
<1>8. Once(y, Full(c)')
  BY <1>2, <1>4, <1>5, OnceUnlink
<1>9. cache' = [cache EXCEPT ![c] = r]
  BY <1>1, <1>5, <1>6 DEF BackToPartial
<1>10. NewLists(c, r)
  BY <1>2, <1>4, <1>6, <1>7, <1>8, <1>9 DEF NewLists
<1> QED
  BY <1>2, <1>4, <1>10, ListsChanged DEF SlabInv

\* slab_free of an object whose slab keeps its place.
LEMMA FreeToPartialStep ==
  ASSUME SlabInv, NEW o \in live, FreeToPartial(o)
  PROVE  SlabInv'
<1>1. PICK p, c : Returned(o, p, c) /\ slab[p].free_count > 0 /\ UNCHANGED cache
  BY DEF FreeToPartial, Returned
<1>2. /\ PagesSound' /\ SlabsSound' /\ LiveSound'
      /\ c \in Caches /\ p \in mapped /\ slab[p].cache = c /\ slab[p].free_count \in Nat
      /\ \A d : d # c => Partial(d)' = Partial(d) /\ Full(d)' = Full(d)
      /\ Partial(c)' = Partial(c) \cup {p} /\ Full(c)' = Full(c) \ {p}
  BY <1>1, ReturnStep
<1>3. p \in Partial(c) /\ p \notin Full(c)
  BY <1>1, <1>2 DEF Partial, Full
<1>4. \A d : Partial(d)' = Partial(d) /\ Full(d)' = Full(d)
  <2>1. Partial(c)' = Partial(c) /\ Full(c)' = Full(c)
    BY <1>2, <1>3
  <2> QED
    BY <1>2, <2>1
<1>5. ListsSound'
  <2>1. ListsSound
    BY DEF SlabInv
  <2> QED
    BY <1>1, <1>4, <2>1 DEF ListsSound, NoCache, Cache
<1> QED
  BY <1>2, <1>5 DEF SlabInv

\* The pages ps are released.
LEMMA ReleaseStep ==
  ASSUME PagesSound, NEW ps, ps \subseteq mapped, Unmap(ps)
  PROVE  /\ PagesSound' /\ mapped' = mapped \ ps
         /\ \A q \in mapped' : slab'[q] = slab[q]
         /\ \A d : Partial(d)' = Partial(d) \ ps /\ Full(d)' = Full(d) \ ps
<1>1. /\ slab = [q \in Region |-> slab[q]] /\ mapped \subseteq Region /\ bitmap \subseteq Frames
  BY DEF PagesSound
<1>2. /\ mapped' = mapped \ ps /\ slab' = [q \in DOMAIN slab |-> IF q \in ps THEN NULL ELSE slab[q]]
      /\ bitmap' = { f \in bitmap : \A p \in ps : f \in pmm_free_page(bitmap, virtual_to_physical(p)) }
  BY DEF Unmap
<1>3. bitmap' = bitmap
  <2>1. ps \in SUBSET Region
    BY <1>1
  <2>2. { f \in bitmap : \A p \in ps : f \in pmm_free_page(bitmap, virtual_to_physical(p)) } = bitmap
    BY <1>1, <2>1, ReleaseKeepsBits
  <2> QED
    BY <1>2, <2>2
<1>4. slab' = [q \in Region |-> slab'[q]] /\ \A q \in mapped' : slab'[q] = slab[q]
  <2>1. DOMAIN slab = Region
    BY <1>1
  <2> QED
    BY <1>1, <1>2, <2>1
<1>5. PagesSound'
  BY <1>2, <1>3, <1>4 DEF PagesSound
<1>6. ASSUME NEW d PROVE Partial(d)' = Partial(d) \ ps /\ Full(d)' = Full(d) \ ps
  <2>1. \A q : q \in { x \in mapped \ ps : slab'[x].cache = d /\ slab'[x].free_count > 0 } <=> q \in Partial(d) \ ps
    BY <1>2, <1>4 DEF Partial
  <2>2. \A q : q \in { x \in mapped \ ps : slab'[x].cache = d /\ slab'[x].free_count = 0 } <=> q \in Full(d) \ ps
    BY <1>2, <1>4 DEF Full
  <2>3. /\ Partial(d)' = { x \in mapped \ ps : slab'[x].cache = d /\ slab'[x].free_count > 0 }
        /\ Full(d)' = { x \in mapped \ ps : slab'[x].cache = d /\ slab'[x].free_count = 0 }
    BY <1>2 DEF Partial, Full
  <2>4. Partial(d)' = Partial(d) \ ps
    BY <2>1, <2>3
  <2>5. Full(d)' = Full(d) \ ps
    BY <2>2, <2>3
  <2> QED
    BY <2>4, <2>5
<1> QED
  BY <1>2, <1>4, <1>5, <1>6
\* slab_free of the last object of a slab, which leaves its list and is released.
LEMMA FreeLastStep ==
  ASSUME SlabInv, NEW o \in live, FreeLast(o)
  PROVE  SlabInv'
<1>1. PICK p, c : /\ p = o[1] /\ c = owner[o] /\ p # NULL /\ slab[p].free_count > 0 /\ AllFree(p)
                  /\ cache' = [cache EXCEPT ![c] = Cache(Unlink(cache[c].partial, p), cache[c].full)]
                  /\ Unmap({p}) /\ live' = live \ {o} /\ owner' = [x \in live' |-> owner[x]]
  BY DEF FreeLast, Forget
<1>2. PagesSound /\ SlabsSound /\ LiveSound /\ ListsSound
  BY DEF SlabInv
<1>3. /\ o = <<p, o[2]>> /\ p \in mapped /\ slab[p].cache = c /\ c \in Caches
      /\ \A x \in live : x = <<x[1], x[2]>>
  BY <1>1, <1>2 DEF LiveSound
<1>4. Header(slab[p], HandedOut(live, p))
  BY <1>2, <1>3 DEF SlabsSound
<1>5. \A x \in live : x[1] = p => x = o
  <2>1. /\ IsFiniteSet(HandedOut(live, p)) /\ slab[p].free_count \in Nat
        /\ slab[p].free_count + Cardinality(HandedOut(live, p)) = slab[p].total_objects
    BY <1>4, HeaderCount
  <2>2. Cardinality(HandedOut(live, p)) = 1
    <3>1. Cardinality(HandedOut(live, p)) \in Nat
      BY <2>1, FS_CardinalityType
    <3>2. slab[p].free_count + 1 = slab[p].total_objects
      BY <1>1 DEF AllFree
    <3> QED
      BY <2>1, <3>1, <3>2
  <2>3. PICK i : HandedOut(live, p) = {i}
    BY <2>1, <2>2, FS_Singleton
  <2>4. ASSUME NEW x \in live, x[1] = p PROVE x[2] = i
    <3>1. x = <<p, x[2]>> /\ x \in live
      BY <1>3, <2>4
    <3>2. x[2] \in HandedOut(live, p)
      BY <1>3, <3>1, HandedOutPairs
    <3> QED
      BY <2>3, <3>2
  <2>5. o[2] = i
    BY <1>1, <2>4
  <2> QED
    BY <1>3, <2>4, <2>5
<1>6. /\ PagesSound' /\ mapped' = mapped \ {p}
      /\ \A q \in mapped' : slab'[q] = slab[q]
      /\ \A d : Partial(d)' = Partial(d) \ {p} /\ Full(d)' = Full(d) \ {p}
  <2>1. {p} \subseteq mapped
    BY <1>3
  <2> QED
    BY <1>1, <1>2, <2>1, ReleaseStep
<1>7. SlabsSound'
  <2>1. Removed(live, live', p, o[2])
    BY <1>1, <1>3 DEF Removed
  <2>2. \A q : q # p => HandedOut(live', q) = HandedOut(live, q)
    BY <2>1, HandedOutLess
  <2>3. \A q \in mapped' : Header(slab'[q], HandedOut(live', q))
    BY <1>2, <1>6, <2>2 DEF SlabsSound
  <2> QED
    BY <2>3 DEF SlabsSound, Header
<1>8. LiveSound'
  <2>1. owner' = [x \in live' |-> owner'[x]] /\ \A x \in live' : owner'[x] = owner[x] /\ x \in live /\ x # o
    BY <1>1
  <2>2. ASSUME NEW x \in live'
        PROVE  /\ x = <<x[1], x[2]>> /\ owner'[x] \in Caches
               /\ x[1] # NULL => x[1] \in mapped' /\ owner'[x] = slab'[x[1]].cache
    <3>1. x \in live /\ owner'[x] = owner[x] /\ x[1] # p
      BY <1>5, <2>1
    <3>2. /\ x = <<x[1], x[2]>> /\ owner[x] \in Caches
          /\ x[1] # NULL => x[1] \in mapped /\ owner[x] = slab[x[1]].cache
      BY <1>2, <3>1 DEF LiveSound
    <3> QED
      BY <1>6, <3>1, <3>2
  <2> QED
    BY <2>1, <2>2 DEF LiveSound
<1>9. ListsSound'
  <2>1. /\ Once(cache[c].partial, Partial(c)) /\ Once(cache[c].full, Full(c))
        /\ cache[c] = NoCache \/ objects_per_slab(c) > 0
    BY <1>2, <1>3 DEF ListsSound
  <2>2. p \in Partial(c) /\ p \notin Full(c)
    BY <1>1, <1>3, <1>4, HeaderCount DEF Partial, Full
  <2>3. objects_per_slab(c) > 0
    <3>1. cache[c].partial # <<>>
      BY <2>1, <2>2, OnceEmpty
    <3> QED
      BY <2>1, <3>1 DEF NoCache
  <2>4. PICK x, y : x = Unlink(cache[c].partial, p) /\ y = cache[c].full
    OBVIOUS
  <2>5. PICK r : r = Cache(x, y) /\ r.partial = x /\ r.full = y
    BY CacheFields
  <2>6. Once(x, Partial(c)')
    BY <1>6, <2>1, <2>2, <2>4, OnceUnlink
  <2>7. Once(y, Full(c)')
    <3>1. Full(c)' = Full(c)
      BY <1>6, <2>2
    <3> QED
      BY <2>1, <2>4, <3>1
  <2>8. \A d \in Caches : d # c => Partial(d)' = Partial(d) /\ Full(d)' = Full(d)
    <3>1. \A d : d # c => p \notin Partial(d) /\ p \notin Full(d)
      BY <1>3 DEF Partial, Full
    <3> QED
      BY <1>6, <3>1
  <2>9. cache' = [cache EXCEPT ![c] = r]
    BY <1>1, <2>4, <2>5
  <2>10. NewLists(c, r)
    BY <1>3, <2>3, <2>5, <2>6, <2>7, <2>8, <2>9 DEF NewLists
  <2> QED
    BY <1>2, <2>10, ListsChanged
<1> QED
  BY <1>6, <1>7, <1>8, <1>9 DEF SlabInv

\* slab_destroy of a cache that nobody has an object of: none of its slabs is full.
LEMMA DestroyStep ==
  ASSUME SlabInv, NEW c \in Caches, slab_destroy(c)
  PROVE  SlabInv'
<1>1. /\ \A o \in live : owner[o] # c
      /\ Unmap(ToSet(cache[c].partial)) /\ UNCHANGED <<live, owner>>
      /\ cache' = [cache EXCEPT ![c] = NoCache]
  BY DEF slab_destroy
<1>2. PagesSound /\ SlabsSound /\ LiveSound /\ ListsSound
  BY DEF SlabInv
<1>3. Once(cache[c].partial, Partial(c)) /\ Once(cache[c].full, Full(c))
  BY <1>2 DEF ListsSound
<1>4. PICK ps : ps = Partial(c) /\ Unmap(ps) /\ ps \subseteq mapped
  BY <1>1, <1>3 DEF Once, Partial
<1>5. Full(c) = {}
  <2>1. SUFFICES ASSUME NEW p \in Full(c) PROVE FALSE
    OBVIOUS
  <2>2. p \in mapped /\ slab[p].cache = c /\ slab[p].free_count = 0
    BY <2>1 DEF Full
  <2>3. Header(slab[p], HandedOut(live, p)) /\ p # NULL
    BY <1>2, <2>2, RegionFrames DEF SlabsSound, PagesSound
  <2>4. HandedOut(live, p) = {}
    BY <1>1, <1>2, <2>2, <2>3 DEF HandedOut, LiveSound
  <2>5. /\ slab[p].free_count + Cardinality(HandedOut(live, p)) = slab[p].total_objects
        /\ slab[p].total_objects > 0
    BY <2>3, HeaderCount
  <2>6. Cardinality({}) = 0
    BY FS_EmptySet
  <2> QED
    BY <2>2, <2>4, <2>5, <2>6
<1>6. /\ PagesSound' /\ mapped' = mapped \ ps
      /\ \A q \in mapped' : slab'[q] = slab[q]
      /\ \A d : Partial(d)' = Partial(d) \ ps /\ Full(d)' = Full(d) \ ps
  BY <1>2, <1>4, ReleaseStep
<1>7. SlabsSound'
  <2>1. \A q \in mapped' : Header(slab'[q], HandedOut(live', q))
    BY <1>1, <1>2, <1>6 DEF SlabsSound
  <2> QED
    BY <2>1 DEF SlabsSound, Header
<1>8. LiveSound'
  <2>1. ASSUME NEW x \in live
        PROVE  /\ x = <<x[1], x[2]>> /\ owner[x] \in Caches
               /\ x[1] # NULL => x[1] \in mapped' /\ owner[x] = slab'[x[1]].cache
    <3>1. /\ x = <<x[1], x[2]>> /\ owner[x] \in Caches
          /\ x[1] # NULL => x[1] \in mapped /\ owner[x] = slab[x[1]].cache
      BY <1>2 DEF LiveSound
    <3>2. x[1] # NULL => x[1] \notin ps
      BY <1>1, <1>4, <3>1 DEF Partial
    <3> QED
      BY <1>6, <3>1, <3>2
  <2> QED
    BY <1>1, <1>2, <2>1 DEF LiveSound
<1>9. ListsSound'
  <2>1. NoCache.partial = <<>> /\ NoCache.full = <<>>
    BY DEF NoCache
  <2>2. Partial(c)' = {} /\ Full(c)' = {}
    BY <1>4, <1>5, <1>6
  <2>3. Once(NoCache.partial, Partial(c)') /\ Once(NoCache.full, Full(c)')
    BY <2>1, <2>2, OnceEmpty
  <2>4. \A d \in Caches : d # c => Partial(d)' = Partial(d) /\ Full(d)' = Full(d)
    <3>1. ASSUME NEW d, d # c PROVE \A q \in ps : q \notin Partial(d) /\ q \notin Full(d)
      BY <1>4, <3>1 DEF Partial, Full
    <3>2. ASSUME NEW d, d # c PROVE Partial(d) \ ps = Partial(d) /\ Full(d) \ ps = Full(d)
      BY <3>1, <3>2
    <3> QED
      BY <1>6, <3>2
  <2>5. NewLists(c, NoCache)
    BY <1>1, <2>3, <2>4 DEF NewLists
  <2> QED
    BY <1>2, <2>5, ListsChanged
<1> QED
  BY <1>6, <1>7, <1>8, <1>9 DEF SlabInv

\* Every step keeps the invariant.
LEMMA SlabStep == SlabInv /\ [SlabNext]_slabVars => SlabInv'
<1> SUFFICES ASSUME SlabInv, [SlabNext]_slabVars PROVE SlabInv'
  OBVIOUS
<1>1. CASE UNCHANGED slabVars
  BY <1>1 DEF slabVars, SlabInv, PagesSound, SlabsSound, Header, LiveSound, ListsSound, Partial, Full
<1>2. ASSUME NEW c \in Caches, slab_cache_create(c) PROVE SlabInv'
  BY <1>2, CreateStep
<1>3. ASSUME NEW c \in Caches, slab_alloc(c) PROVE SlabInv'
  BY <1>3, AllocPartialStep, AllocNewStep, HeapStep DEF slab_alloc
<1>4. ASSUME NEW c \in Caches, slab_destroy(c) PROVE SlabInv'
  BY <1>4, DestroyStep
<1>5. ASSUME NEW o \in live, slab_free(o) PROVE SlabInv'
  BY <1>5, HeapStep, FreeToFullStep, FreeToPartialStep, FreeLastStep DEF slab_free
<1> QED
  BY <1>1, <1>2, <1>3, <1>4, <1>5 DEF SlabNext

\* The invariant holds in every state.
LEMMA SlabInvariant == SlabSpec => []SlabInv
BY SlabStart, SlabStep, PTL DEF SlabSpec

-----------------------------------------------------------------------------
(* What the invariant says.                                                 *)

\* A member of a list is in it at one place, anything else at none.
LEMMA OncePlaces ==
  ASSUME NEW S, NEW l, Once(l, S), NEW x
  PROVE  Cardinality({ i \in DOMAIN l : l[i] = x }) = IF x \in S THEN 1 ELSE 0
<1>1. S = { l[i] : i \in DOMAIN l } /\ \A i, j \in DOMAIN l : l[i] = l[j] => i = j
  BY DEF Once, ToSet
<1>2. CASE x \in S
  <2>1. PICK i \in DOMAIN l : l[i] = x
    BY <1>1, <1>2
  <2>2. { j \in DOMAIN l : l[j] = x } = {i}
    BY <1>1, <2>1
  <2> QED
    BY <1>2, <2>2, FS_Singleton
<1>3. CASE x \notin S
  <2>1. { j \in DOMAIN l : l[j] = x } = {}
    BY <1>1, <1>3
  <2> QED
    BY <1>3, <2>1, FS_EmptySet
<1> QED
  BY <1>2, <1>3

\* The lists of slabs are exact in every state of the invariant.
LEMMA ListsExact == SlabInv => SlabsListed
<1> SUFFICES ASSUME SlabInv, NEW c \in Caches
             PROVE  /\ \A p \in mapped : slab[p].cache = c =>
                         Cardinality({ i \in DOMAIN cache[c].partial : cache[c].partial[i] = p })
                         + Cardinality({ i \in DOMAIN cache[c].full : cache[c].full[i] = p }) = 1
                    /\ \A p \in ToSet(cache[c].partial) : p \in mapped /\ slab[p].cache = c /\ slab[p].free_count > 0
                    /\ \A p \in ToSet(cache[c].full) : p \in mapped /\ slab[p].cache = c /\ slab[p].free_count = 0
  BY DEF SlabsListed
<1>1. Once(cache[c].partial, Partial(c)) /\ Once(cache[c].full, Full(c))
  BY DEF SlabInv, ListsSound
<1>2. ToSet(cache[c].partial) = Partial(c) /\ ToSet(cache[c].full) = Full(c)
  BY <1>1 DEF Once
<1>3. ASSUME NEW p \in mapped, slab[p].cache = c
      PROVE  Cardinality({ i \in DOMAIN cache[c].partial : cache[c].partial[i] = p })
             + Cardinality({ i \in DOMAIN cache[c].full : cache[c].full[i] = p }) = 1
  <2>1. slab[p].free_count \in Nat
    <3>1. Header(slab[p], HandedOut(live, p))
      BY DEF SlabInv, SlabsSound
    <3> QED
      BY <3>1, HeaderCount
  <2>2. (p \in Partial(c) /\ p \notin Full(c)) \/ (p \notin Partial(c) /\ p \in Full(c))
    BY <1>3, <2>1 DEF Partial, Full
  <2>3. /\ Cardinality({ i \in DOMAIN cache[c].partial : cache[c].partial[i] = p }) = IF p \in Partial(c) THEN 1 ELSE 0
        /\ Cardinality({ i \in DOMAIN cache[c].full : cache[c].full[i] = p }) = IF p \in Full(c) THEN 1 ELSE 0
    BY <1>1, OncePlaces
  <2> QED
    BY <2>2, <2>3
<1> QED
  BY <1>2, <1>3 DEF Partial, Full

\* So many objects of a page are handed out, as pairs and as numbers.
LEMMA HandedOutCount ==
  ASSUME NEW p, \A o \in live : o = <<o[1], o[2]>>, IsFiniteSet(HandedOut(live, p))
  PROVE  Cardinality({ o \in live : o[1] = p }) = Cardinality(HandedOut(live, p))
<1> DEFINE out == { o \in live : o[1] = p }
           f == [i \in HandedOut(live, p) |-> <<p, i>>]
<1>1. \A i : i \in HandedOut(live, p) <=> <<p, i>> \in live
  BY HandedOutPairs
<1>2. \A i : <<p, i>>[1] = p /\ <<p, i>>[2] = i
  OBVIOUS
<1>3. f \in [HandedOut(live, p) -> out]
  BY <1>1, <1>2
<1>4. \A i, j \in HandedOut(live, p) : f[i] = f[j] => i = j
  OBVIOUS
<1>5. \A o \in out : \E i \in HandedOut(live, p) : f[i] = o
  <2> TAKE o \in out
  <2>1. o = <<p, o[2]>> /\ o \in live
    OBVIOUS
  <2>2. o[2] \in HandedOut(live, p)
    BY <1>1, <2>1
  <2> QED
    BY <2>1, <2>2
<1> HIDE DEF out, f
<1>6. f \in Bijection(HandedOut(live, p), out)
  BY <1>3, <1>4, <1>5 DEF Bijection, Injection, Surjection, IsInjective
<1>7. ExistsBijection(HandedOut(live, p), out)
  BY <1>6 DEF ExistsBijection
<1> QED
  BY <1>7, FS_Bijection DEF out

\* No object of a slab is lost, given twice or outside of its page.
LEMMA ObjectsExact == SlabInv => ObjectsConserved
<1> SUFFICES ASSUME SlabInv PROVE ObjectsConserved
  OBVIOUS
<1>1. PagesSound /\ SlabsSound /\ LiveSound
  BY DEF SlabInv
<1>2. \A o \in live : o[1] # NULL => o[1] \in mapped
  BY <1>1 DEF LiveSound
<1>3. ASSUME NEW p \in mapped
      PROVE  LET s == slab[p]  out == { o \in live : o[1] = p } IN
             /\ s.free_count = Len(s.free_list)
             /\ ToSet(s.free_list) \cap { o[2] : o \in out } = {}
             /\ Cardinality(ToSet(s.free_list)) + Cardinality(out) = s.total_objects
             /\ s.free_count = Cardinality(ToSet(s.free_list))
             /\ \A o \in out : owner[o] = s.cache /\ Address(p, s.cache, o[2] + 1) \leq PAGE_SIZE
             /\ p - managed_base \in bitmap /\ p - managed_base >= used_pages
             /\ \E e \in ToSet(MemoryMap) : e.usable /\ p \in e.base .. e.base + e.length - 1
  <2> DEFINE s == slab[p]
             out == { o \in live : o[1] = p }
             given == HandedOut(live, p)
  <2>1. Header(s, given) /\ given = { o[2] : o \in out }
    BY <1>1 DEF SlabsSound, HandedOut
  <2>2. /\ Once(s.free_list, Numbers(s.cache) \ given) /\ given \subseteq Numbers(s.cache)
        /\ ToSet(s.free_list) = Numbers(s.cache) \ given
    BY <2>1 DEF Header, Once
  <2>3. /\ s.free_count = Len(s.free_list) /\ s.cache \in Caches /\ IsFiniteSet(given)
        /\ s.free_count + Cardinality(given) = s.total_objects
    BY <2>1, HeaderCount
  <2>4. Cardinality(ToSet(s.free_list)) = Len(s.free_list)
    BY <2>2, OnceLength
  <2>5. Cardinality(out) = Cardinality(given)
    BY <1>1, <2>3, HandedOutCount DEF LiveSound
  <2>6. ToSet(s.free_list) \cap { o[2] : o \in out } = {}
    BY <2>1, <2>2
  <2>7. \A o \in out : owner[o] = s.cache /\ Address(p, s.cache, o[2] + 1) \leq PAGE_SIZE
    <3> TAKE o \in out
    <3>1. o \in live /\ o[1] = p /\ p # NULL /\ o[2] \in given
      BY <1>1, <2>1, RegionFrames DEF PagesSound
    <3>2. owner[o] = s.cache
      BY <1>1, <3>1 DEF LiveSound
    <3>3. Address(p, s.cache, o[2] + 1) \leq PAGE_SIZE
      BY <2>2, <2>3, <3>1, ObjectsFit
    <3> QED
      BY <3>2, <3>3
  <2>8. p - managed_base \in bitmap /\ p - managed_base >= used_pages /\ p \in Region
    BY <1>1 DEF PagesSound
  <2>9. \E e \in ToSet(MemoryMap) : e.usable /\ p \in e.base .. e.base + e.length - 1
    BY <2>8, RegionFound DEF Region
  <2> QED
    BY <2>3, <2>4, <2>5, <2>6, <2>7, <2>8, <2>9
<1> QED
  BY <1>2, <1>3 DEF ObjectsConserved

\* Whatever the order of slab_alloc, slab_free and slab_destroy, and however many
\* caches and frames there are, each slab is in exactly one list of its cache,
\* once, and in the full one if and only if it has no free object.
THEOREM SlabsListedHolds == SlabSpec => []SlabsListed
BY SlabInvariant, ListsExact, PTL

\* For every size of page, header, object and memory, every object of a slab is
\* handed out once or free once and lies inside of its page, and the frame of a
\* slab in use is usable memory that pmm_alloc_page does not hand out again.
THEOREM ObjectsConservedHolds == SlabSpec => []ObjectsConserved
BY SlabInvariant, ObjectsExact, PTL

-----------------------------------------------------------------------------
(* The hash table.                                                          *)

\* The values of the table's variables.
EntryRecords ==
  [next : EntryObjects \cup {NULL}, prev : EntryObjects \cup {NULL}, hash : Nat,
   key : Keys \cup {NULL}, value : Values \cup {NULL}]

TableTypes ==
  /\ entries = NULL \/ entries \in [Buckets -> used \cup {NULL}]
  /\ entry \in [EntryObjects -> EntryRecords]
  /\ used \in SUBSET EntryObjects
  /\ content \in [Keys -> Values \cup {NULL}]
  /\ entry_count = Cardinality(used)
  /\ entries = NULL => used = {} /\ content = [k \in Keys |-> NULL]

\* The bucket entry e belongs to.
Home(e) == Bucket(entry[e].key)

\* What an entry holds, and that each key has one of its own.
EntriesSound ==
  /\ \A e \in used : /\ entry[e].key \in Keys /\ entry[e].hash = hash[entry[e].key]
                     /\ entry[e].value = content[entry[e].key]
  /\ \A d, e \in used : entry[d].key = entry[e].key => d = e
  /\ \A k \in Keys : content[k] # NULL => \E e \in used : entry[e].key = k

\* The entries of a bucket are doubly linked, ...
LinksSound ==
  /\ \A e \in used : entry[e].next # NULL =>
        entry[e].next \in used /\ entry[entry[e].next].prev = e /\ Home(entry[e].next) = Home(e)
  /\ \A e \in used : entry[e].prev # NULL => entry[e].prev \in used /\ entry[entry[e].prev].next = e
  /\ \A e \in used : entry[e].prev = NULL => entries[Home(e)] = e
  /\ \A b \in Buckets : entries[b] # NULL => entry[entries[b]].prev = NULL /\ Home(entries[b]) = b

\* ... and none is lost.
NoneLost == \A e \in used : e \in Reach(Home(e))

\* The inductive invariant of the table.
TableInv ==
  /\ TableTypes /\ EntriesSound
  /\ entries # NULL => LinksSound /\ NoneLost

\* A set that a walk from x cannot leave.
Closed(S) == \A x \in S : entry[x].next \in S \cup {NULL}

\* A key has a bucket.
LEMMA BucketType ==
  ASSUME NEW k \in Keys
  PROVE  Bucket(k) \in Buckets
<1>1. hash[k] \in Nat /\ capacity \in Nat /\ capacity > 0
  BY HashAssumption
<1>2. hash[k] % capacity \in 0 .. capacity - 1
  BY <1>1
<1> QED
  BY <1>2 DEF Bucket, Buckets

\* A set that no walk can leave holds all that one meets.
LEMMA ReachLeast ==
  ASSUME NEW b, NEW S \in SUBSET EntryObjects, entries[b] \in S \cup {NULL}, Closed(S)
  PROVE  Reach(b) \subseteq S
BY DEF Reach, Closed

\* What a walk meets is such a set.
LEMMA ReachClosed ==
  ASSUME TableTypes, entries # NULL, NEW b \in Buckets
  PROVE  Reach(b) \in SUBSET EntryObjects /\ entries[b] \in Reach(b) \cup {NULL} /\ Closed(Reach(b))
<1>1. Reach(b) \in SUBSET EntryObjects
  BY DEF Reach
<1>2. entries[b] \in EntryObjects \cup {NULL}
  BY DEF TableTypes
<1>3. entries[b] \in Reach(b) \cup {NULL}
  BY <1>2 DEF Reach
<1>4. ASSUME NEW x \in Reach(b) PROVE entry[x].next \in Reach(b) \cup {NULL}
  <2>1. entry[x].next \in EntryObjects \cup {NULL}
    BY <1>1 DEF TableTypes, EntryRecords
  <2>2. ASSUME NEW S \in SUBSET EntryObjects, entries[b] \in S \cup {NULL},
               \A y \in S : entry[y].next \in S \cup {NULL}
        PROVE  entry[x].next \in S \cup {NULL}
    BY <2>2 DEF Reach
  <2> QED
    BY <2>1, <2>2 DEF Reach
<1> QED
  BY <1>1, <1>3, <1>4 DEF Closed

\* The entries of a bucket, without a walk.
LEMMA ReachIsHome ==
  ASSUME TableInv, entries # NULL, NEW b \in Buckets
  PROVE  Reach(b) = { e \in used : Home(e) = b }
<1> DEFINE S == { e \in used : Home(e) = b }
<1>1. S \in SUBSET EntryObjects
  BY DEF TableInv, TableTypes
<1>2. entries[b] \in S \cup {NULL}
  BY DEF TableInv, TableTypes, LinksSound
<1>3. Closed(S)
  BY DEF Closed, TableInv, LinksSound
<1>4. Reach(b) \subseteq S
  BY <1>1, <1>2, <1>3, ReachLeast
<1>5. S \subseteq Reach(b)
  BY DEF TableInv, NoneLost
<1> QED
  BY <1>4, <1>5

\* The same for a walk that stops at a match.
LEMMA LookedLeast ==
  ASSUME NEW k, NEW S \in SUBSET EntryObjects, entries[Bucket(k)] \in S \cup {NULL},
         \A x \in S : Matches(x, k) \/ entry[x].next \in S \cup {NULL}
  PROVE  Looked(k) \subseteq S
BY DEF Looked

\* What get_entry looks at is such a set.
LEMMA LookedClosed ==
  ASSUME TableTypes, entries # NULL, NEW k \in Keys
  PROVE  /\ Looked(k) \in SUBSET EntryObjects /\ entries[Bucket(k)] \in Looked(k) \cup {NULL}
         /\ \A x \in Looked(k) : Matches(x, k) \/ entry[x].next \in Looked(k) \cup {NULL}
<1>1. Looked(k) \in SUBSET EntryObjects
  BY DEF Looked
<1>2. entries[Bucket(k)] \in EntryObjects \cup {NULL}
  BY BucketType DEF TableTypes
<1>3. entries[Bucket(k)] \in Looked(k) \cup {NULL}
  BY <1>2 DEF Looked
<1>4. ASSUME NEW x \in Looked(k), ~Matches(x, k) PROVE entry[x].next \in Looked(k) \cup {NULL}
  <2>1. entry[x].next \in EntryObjects \cup {NULL}
    BY <1>1 DEF TableTypes, EntryRecords
  <2>2. ASSUME NEW S \in SUBSET EntryObjects, entries[Bucket(k)] \in S \cup {NULL},
               \A y \in S : Matches(y, k) \/ entry[y].next \in S \cup {NULL}
        PROVE  entry[x].next \in S \cup {NULL}
    BY <1>4, <2>2 DEF Looked
  <2> QED
    BY <2>1, <2>2 DEF Looked
<1> QED
  BY <1>1, <1>3, <1>4

\* get_entry finds the entry of a key, and nothing if it has none.
LEMMA GetEntry ==
  ASSUME TableInv, entries # NULL, NEW k \in Keys
  PROVE  /\ get_entry(k) # NULL => get_entry(k) \in used /\ entry[get_entry(k)].key = k
         /\ \A e \in used : entry[e].key = k => get_entry(k) = e
<1> DEFINE b == Bucket(k)
           found == { e \in Looked(k) : Matches(e, k) }
<1>1. b \in Buckets /\ TableTypes
  BY BucketType DEF TableInv
<1>2. /\ Reach(b) \in SUBSET EntryObjects /\ entries[b] \in Reach(b) \cup {NULL} /\ Closed(Reach(b))
      /\ Reach(b) = { e \in used : Home(e) = b }
  BY <1>1, ReachClosed, ReachIsHome
<1>3. Looked(k) \subseteq Reach(b)
  BY <1>2, LookedLeast DEF Closed
<1>4. \A e \in found : e \in used /\ entry[e].key = k
  BY <1>2, <1>3 DEF Matches
<1>5. ASSUME NEW e \in used, entry[e].key = k PROVE found = {e}
  <2>1. Matches(e, k) /\ e \in Reach(b)
    BY <1>2, <1>5 DEF Matches, TableInv, EntriesSound, Home
  <2>2. \A x \in found : x = e
    BY <1>4, <1>5 DEF TableInv, EntriesSound
  <2>3. e \in Looked(k)
    <3> SUFFICES ASSUME e \notin Looked(k) PROVE FALSE
      OBVIOUS
    <3>1. \A x \in Looked(k) : ~Matches(x, k)
      BY <2>2
    <3>2. Closed(Looked(k)) /\ entries[b] \in Looked(k) \cup {NULL} /\ Looked(k) \in SUBSET EntryObjects
      BY <1>1, <3>1, LookedClosed DEF Closed
    <3>3. Reach(b) \subseteq Looked(k)
      BY <3>2, ReachLeast
    <3> QED
      BY <2>1, <3>3
  <2> QED
    BY <2>1, <2>2, <2>3
<1>6. get_entry(k) = IF found = {} THEN NULL ELSE CHOOSE e \in found : TRUE
  BY DEF get_entry
<1>7. get_entry(k) # NULL => get_entry(k) \in found
  BY <1>6
<1>8. ASSUME NEW e \in used, entry[e].key = k PROVE get_entry(k) = e
  <2>1. found = {e}
    BY <1>5, <1>8
  <2> HIDE DEF found
  <2>2. get_entry(k) = CHOOSE x \in {e} : TRUE
    BY <1>6, <2>1
  <2> QED
    BY <2>2
<1> QED
  BY <1>4, <1>7, <1>8

\* The table starts empty.
LEMMA TableStart == TableInit => TableInv
<1> SUFFICES ASSUME TableInit PROVE TableInv
  OBVIOUS
<1>1. NoEntry \in EntryRecords
  BY DEF NoEntry, EntryRecords
<1>2. Cardinality({}) = 0
  BY FS_EmptySet
<1>3. TableTypes
  BY <1>1, <1>2 DEF TableTypes, TableInit, NoEntries
<1>4. EntriesSound
  BY DEF EntriesSound, TableInit
<1>5. LinksSound
  BY DEF LinksSound, TableInit, NoEntries
<1>6. NoneLost
  BY DEF NoneLost, TableInit
<1> QED
  BY <1>3, <1>4, <1>5, <1>6 DEF TableInv

\* An entry is never its own successor: a walk from the head would not meet it.
LEMMA NoLoop ==
  ASSUME TableInv, entries # NULL, NEW e \in used
  PROVE  entry[e].next # e /\ entry[e].prev # e
<1> DEFINE b == Home(e)
           S == Reach(b) \ {e}
<1>1. b \in Buckets /\ e \in Reach(b) /\ e # NULL
  BY BucketType, HashAssumption DEF TableInv, TableTypes, EntriesSound, NoneLost, Home
<1>2. /\ Reach(b) \in SUBSET EntryObjects /\ entries[b] \in Reach(b) \cup {NULL} /\ Closed(Reach(b))
      /\ \A x \in Reach(b) : x \in used
  BY <1>1, ReachClosed, ReachIsHome DEF TableInv
<1>3. ASSUME entry[e].prev = e PROVE FALSE
  <2>1. \A x \in S : entry[x].next # e
    BY <1>1, <1>2, <1>3 DEF TableInv, LinksSound
  <2>2. entries[b] # e
    BY <1>1, <1>3 DEF TableInv, LinksSound
  <2>3. Closed(S) /\ entries[b] \in S \cup {NULL} /\ S \in SUBSET EntryObjects
    BY <1>2, <2>1, <2>2 DEF Closed
  <2>4. Reach(b) \subseteq S
    BY <2>3, ReachLeast
  <2> QED
    BY <1>1, <2>4
<1>4. entry[e].next = e => entry[e].prev = e
  BY <1>1 DEF TableInv, LinksSound
<1> QED
  BY <1>3, <1>4

\* Storing a new value under a key that has an entry.
LEMMA SetExistingStep ==
  ASSUME TableInv, NEW k \in Keys, NEW v \in Values, SetExisting(k, v)
  PROVE  TableInv'
<1>1. PICK e \in used : e = get_entry(k) /\ entry[e].key = k /\ entries # NULL
  BY GetEntry DEF SetExisting
<1>2. /\ entry' = [entry EXCEPT ![e].value = v] /\ content' = [content EXCEPT ![k] = v]
      /\ entries' = entries /\ used' = used /\ entry_count' = entry_count
  BY <1>1 DEF SetExisting
<1>3. e \in EntryObjects /\ entry \in [EntryObjects -> EntryRecords] /\ used \in SUBSET EntryObjects
      /\ content \in [Keys -> Values \cup {NULL}]
  BY DEF TableInv, TableTypes
<1>4. PICK r \in EntryRecords : r = entry[e]
  BY <1>3
<1>5. PICK s : s = [r EXCEPT !.value = v]
  OBVIOUS
<1>6. s \in EntryRecords /\ s.next = r.next /\ s.prev = r.prev /\ s.hash = r.hash /\ s.key = r.key /\ s.value = v
  BY <1>5 DEF EntryRecords
<1>7. entry' = [entry EXCEPT ![e] = s]
  BY <1>2, <1>3, <1>4, <1>5
<1>8. /\ entry' \in [EntryObjects -> EntryRecords]
      /\ \A x \in EntryObjects : /\ entry'[x].next = entry[x].next /\ entry'[x].prev = entry[x].prev
                                 /\ entry'[x].key = entry[x].key /\ entry'[x].hash = entry[x].hash
                                 /\ entry'[x].value = IF x = e THEN v ELSE entry[x].value
  BY <1>3, <1>4, <1>6, <1>7
<1>9. \A x \in EntryObjects : Home(x)' = Home(x)
  BY <1>8 DEF Home, Bucket
<1>10. TableTypes'
  BY <1>1, <1>2, <1>3, <1>8 DEF TableInv, TableTypes
<1>11. EntriesSound'
  <2>1. \A x \in used : x # e => entry[x].key # k
    BY <1>1 DEF TableInv, EntriesSound
  <2>2. \A x \in used : /\ entry'[x].key \in Keys /\ entry'[x].hash = hash[entry'[x].key]
                        /\ entry'[x].value = content'[entry'[x].key]
    BY <1>1, <1>2, <1>3, <1>8, <2>1 DEF TableInv, EntriesSound
  <2>3. \A d, x \in used : entry'[d].key = entry'[x].key => d = x
    BY <1>3, <1>8 DEF TableInv, EntriesSound
  <2>4. \A j \in Keys : content'[j] # NULL => \E x \in used : entry'[x].key = j
    BY <1>1, <1>2, <1>3, <1>8 DEF TableInv, EntriesSound
  <2> QED
    BY <1>2, <2>2, <2>3, <2>4 DEF EntriesSound
<1>12. LinksSound'
  BY <1>1, <1>2, <1>3, <1>8, <1>9 DEF TableInv, TableTypes, LinksSound
<1>13. \A b : Reach(b)' = Reach(b)
  BY <1>2, <1>8 DEF Reach
<1>14. NoneLost'
  BY <1>1, <1>2, <1>3, <1>9, <1>13 DEF TableInv, NoneLost
<1> QED
  BY <1>10, <1>11, <1>12, <1>14 DEF TableInv

\* A new entry at the head of its bucket.
LEMMA SetNewStep ==
  ASSUME TableInv, NEW k \in Keys, NEW v \in Values, NEW e \in EntryObjects, SetNew(k, v, e)
  PROVE  TableInv'
<1> DEFINE b == Bucket(k)
<1>1. PICK h \in used \cup {NULL} : h = entries[b]
  BY BucketType DEF TableInv, TableTypes, SetNew
<1>2. PICK r : r = [next |-> h, prev |-> NULL, hash |-> hash[k], key |-> k, value |-> v]
  OBVIOUS
<1>3. /\ entry' = LinkedBack([entry EXCEPT ![e] = r], e) /\ entries' = [entries EXCEPT ![b] = e]
      /\ used' = used \cup {e} /\ entry_count' = entry_count + 1 /\ content' = [content EXCEPT ![k] = v]
      /\ entries # NULL /\ get_entry(k) = NULL /\ e \notin used
  BY <1>1, <1>2 DEF SetNew, Counted
<1>4. /\ entry \in [EntryObjects -> EntryRecords] /\ used \in SUBSET EntryObjects
      /\ content \in [Keys -> Values \cup {NULL}] /\ entries \in [Buckets -> used \cup {NULL}]
      /\ b \in Buckets /\ NULL \notin EntryObjects /\ NULL \notin [Buckets -> EntryObjects \cup {NULL}]
  BY <1>3, BucketType, HashAssumption DEF TableInv, TableTypes, Buckets
<1>5. /\ r \in EntryRecords /\ r.next = h /\ r.prev = NULL /\ r.hash = hash[k] /\ r.key = k /\ r.value = v
  BY <1>1, <1>2, <1>4, HashAssumption DEF EntryRecords
<1>6. /\ entry' \in [EntryObjects -> EntryRecords] /\ entry'[e] = r
      /\ \A x \in EntryObjects \ {e} :
            /\ entry'[x].next = entry[x].next /\ entry'[x].key = entry[x].key
            /\ entry'[x].hash = entry[x].hash /\ entry'[x].value = entry[x].value
            /\ entry'[x].prev = IF x = h THEN e ELSE entry[x].prev
  <2>1. PICK m \in [EntryObjects -> EntryRecords] : m = [entry EXCEPT ![e] = r]
    BY <1>4, <1>5
  <2>2. m[e] = r /\ \A x \in EntryObjects \ {e} : m[x] = entry[x]
    BY <1>4, <2>1
  <2>3. CASE h = NULL
    BY <1>3, <1>4, <1>5, <2>1, <2>2, <2>3 DEF LinkedBack
  <2>4. CASE h # NULL
    <3>1. h \in EntryObjects /\ h # e
      BY <1>1, <1>3, <1>4, <2>4
    <3>2. entry' = [m EXCEPT ![h].prev = e]
      BY <1>3, <1>5, <2>1, <2>2, <2>4 DEF LinkedBack
    <3>3. PICK s \in EntryRecords : s = m[h]
      BY <3>1
    <3>4. PICK t : t = [s EXCEPT !.prev = e]
      OBVIOUS
    <3>5. t \in EntryRecords /\ t.next = s.next /\ t.prev = e /\ t.hash = s.hash /\ t.key = s.key /\ t.value = s.value
      BY <3>4 DEF EntryRecords
    <3>6. entry' = [m EXCEPT ![h] = t]
      BY <3>1, <3>2, <3>3, <3>4
    <3> QED
      BY <2>2, <3>1, <3>3, <3>5, <3>6
  <2> QED
    BY <2>3, <2>4
<1>7. \A x \in used : entry[x].key \in Keys /\ entry[x].key # k /\ x # e /\ x \in EntryObjects
  BY <1>3, <1>4, GetEntry DEF TableInv, EntriesSound
<1>17. /\ \A d, x \in used : entry[d].key = entry[x].key => d = x
       /\ \A j \in Keys : content[j] # NULL => \E x \in used : entry[x].key = j
       /\ \A x \in used : entry[x].next # NULL =>
            entry[x].next \in used /\ entry[entry[x].next].prev = x /\ Home(entry[x].next) = Home(x)
       /\ \A x \in used : entry[x].prev # NULL => entry[x].prev \in used /\ entry[entry[x].prev].next = x
       /\ \A x \in used : entry[x].prev = NULL => entries[Home(x)] = x
       /\ \A c \in Buckets : entries[c] # NULL => entry[entries[c]].prev = NULL /\ Home(entries[c]) = c
  BY <1>3 DEF TableInv, EntriesSound, LinksSound
<1>8. \A x \in used : Home(x)' = Home(x)
  BY <1>6, <1>7 DEF Home, Bucket
<1>9. Home(e)' = b
  BY <1>5, <1>6 DEF Home, Bucket
<1>10. TableTypes'
  <2>1. IsFiniteSet(used)
    BY <1>4, HashAssumption, FS_Subset
  <2>2. Cardinality(used') = Cardinality(used) + 1
    BY <1>3, <2>1, FS_AddElement
  <2>3. entries' \in [Buckets -> used' \cup {NULL}] /\ used' \in SUBSET EntryObjects
    BY <1>3, <1>4
  <2>4. entries' # NULL
    BY <1>4, <2>3
  <2> QED
    BY <1>3, <1>4, <1>6, <2>2, <2>3, <2>4 DEF TableInv, TableTypes
<1>11. EntriesSound'
  <2>1. content'[k] = v /\ \A j \in Keys \ {k} : content'[j] = content[j]
    BY <1>3, <1>4
  <2>2. ASSUME NEW x \in used'
        PROVE  /\ entry'[x].key \in Keys /\ entry'[x].hash = hash[entry'[x].key]
               /\ entry'[x].value = content'[entry'[x].key]
    <3>1. CASE x = e
      BY <1>5, <1>6, <2>1, <3>1
    <3>2. CASE x \in used
      BY <1>6, <1>7, <2>1, <3>2 DEF TableInv, EntriesSound
    <3> QED
      BY <1>3, <3>1, <3>2
  <2>3. ASSUME NEW d \in used', NEW x \in used', entry'[d].key = entry'[x].key PROVE d = x
    <3>1. \A y \in used : entry'[y].key = entry[y].key /\ entry'[y].key # k
      BY <1>6, <1>7
    <3>2. entry'[e].key = k
      BY <1>5, <1>6
    <3>3. \A y, z \in used : entry[y].key = entry[z].key => y = z
      BY <1>17
    <3>4. CASE d \in used /\ x \in used
      BY <2>3, <3>1, <3>3, <3>4
    <3>5. CASE d = e \/ x = e
      BY <1>3, <2>3, <3>1, <3>2, <3>5
    <3> QED
      BY <1>3, <3>4, <3>5
  <2>4. ASSUME NEW j \in Keys, content'[j] # NULL PROVE \E x \in used' : entry'[x].key = j
    <3>1. CASE j = k
      BY <1>3, <1>5, <1>6, <3>1
    <3>2. CASE j # k
      <4>1. PICK y \in used : entry[y].key = j
        BY <1>17, <2>1, <2>4, <3>2
      <4>2. y \in used' /\ entry'[y].key = j
        BY <1>3, <1>6, <1>7, <4>1
      <4> QED
        BY <4>2
    <3> QED
      BY <3>1, <3>2
  <2> QED
    BY <2>2, <2>3, <2>4 DEF EntriesSound
<1>12. entries'[b] = e /\ \A c \in Buckets \ {b} : entries'[c] = entries[c]
  BY <1>3, <1>4
<1>13. h # NULL => h \in used /\ Home(h) = b /\ entry[h].prev = NULL /\ \A x \in used : entry[x].next # h
  BY <1>1, <1>3, <1>4 DEF TableInv, LinksSound
<1>14. LinksSound'
  <2>1. ASSUME NEW x \in used', entry'[x].next # NULL
        PROVE  entry'[x].next \in used' /\ entry'[entry'[x].next].prev = x /\ Home(entry[x].next)' = Home(x)'
    <3>1. CASE x = e
      <4>1. entry'[x].next = h /\ h # NULL
        BY <1>5, <1>6, <2>1, <3>1
      <4>2. h \in used /\ h # e /\ h \in EntryObjects /\ Home(h) = b
        BY <1>7, <1>13, <4>1
      <4>3. entry'[h].prev = e /\ Home(h)' = b /\ h \in used'
        BY <1>3, <1>6, <1>8, <4>2
      <4> QED
        BY <1>9, <3>1, <4>1, <4>3
    <3>2. CASE x \in used
      <4>1. PICK y : y = entry[x].next
        OBVIOUS
      <4>2. entry'[x].next = y /\ y # NULL
        BY <1>6, <1>7, <2>1, <3>2, <4>1
      <4>3. y \in used /\ entry[y].prev = x /\ Home(y) = Home(x) /\ y # h
        BY <1>13, <1>17, <3>2, <4>1, <4>2
      <4>4. entry'[y].prev = x
        BY <1>6, <1>7, <4>3
      <4> QED
        BY <1>3, <1>8, <3>2, <4>2, <4>3, <4>4
    <3> QED
      BY <1>3, <3>1, <3>2
  <2>2. ASSUME NEW x \in used', entry'[x].prev # NULL
        PROVE  entry'[x].prev \in used' /\ entry'[entry'[x].prev].next = x
    <3>1. x \in used
      BY <1>3, <1>5, <1>6, <2>2
    <3>2. CASE x = h
      BY <1>3, <1>5, <1>6, <1>7, <3>1, <3>2
    <3>3. CASE x # h
      <4>1. PICK y : y = entry[x].prev
        OBVIOUS
      <4>2. entry'[x].prev = y /\ y \in used /\ entry[y].next = x
        BY <1>6, <1>7, <1>17, <2>2, <3>1, <3>3, <4>1
      <4>3. entry'[y].next = x /\ y \in used'
        BY <1>3, <1>6, <1>7, <4>2
      <4> QED
        BY <4>2, <4>3
    <3> QED
      BY <3>2, <3>3
  <2>3. ASSUME NEW x \in used', entry'[x].prev = NULL PROVE entries'[Home(x)'] = x
    <3>1. CASE x = e
      BY <1>9, <1>12, <3>1
    <3>2. CASE x \in used
      <4>1. x # h /\ entry[x].prev = NULL
        BY <1>4, <1>6, <1>7, <2>3, <3>2
      <4>2. entries[Home(x)] = x /\ Home(x) # b /\ Home(x) \in Buckets
        BY <1>1, <1>7, <1>17, <3>2, <4>1, BucketType DEF Home
      <4> QED
        BY <1>8, <1>12, <3>2, <4>2
    <3> QED
      BY <1>3, <3>1, <3>2
  <2>4. ASSUME NEW c \in Buckets, entries'[c] # NULL
        PROVE  entry'[entries'[c]].prev = NULL /\ Home(entries[c])' = c
    <3>1. CASE c = b
      BY <1>5, <1>6, <1>9, <1>12, <3>1
    <3>2. CASE c # b
      <4>1. PICK y : y = entries[c]
        OBVIOUS
      <4>5. entries'[c] = y /\ y # NULL
        BY <1>12, <2>4, <3>2, <4>1
      <4>2. entries'[c] = y /\ y \in used /\ entry[y].prev = NULL /\ Home(y) = c
        BY <1>4, <1>17, <4>1, <4>5
      <4>3. y # h
        BY <1>13, <3>2, <4>2, <4>5
      <4> QED
        BY <1>6, <1>7, <1>8, <4>2, <4>3
    <3> QED
      BY <3>1, <3>2
  <2> QED
    BY <2>1, <2>2, <2>3, <2>4 DEF LinksSound
<1>15. NoneLost'
  <2> SUFFICES ASSUME NEW x \in used', NEW S \in SUBSET EntryObjects,
                      entries'[Home(x)'] \in S \cup {NULL},
                      \A y \in S : entry'[y].next \in S \cup {NULL}
               PROVE  x \in S
    BY <1>3, <1>4 DEF NoneLost, Reach
  <2>1. CASE x = e
    BY <1>4, <1>9, <1>12, <2>1
  <2>2. CASE x \in used
    <3> DEFINE T == S \cap used
    <3>1. \A y \in T : entry[y].next \in T \cup {NULL}
      BY <1>3, <1>6, <1>7 DEF TableInv, LinksSound
    <3>2. entries[Home(x)] \in T \cup {NULL}
      <4>1. Home(x)' = Home(x) /\ Home(x) \in Buckets
        BY <1>7, <1>8, <2>2, BucketType DEF Home
      <4>2. CASE Home(x) # b
        BY <1>4, <1>12, <4>1, <4>2
      <4>3. CASE Home(x) = b
        <5>1. e \in S
          BY <1>4, <1>12, <4>1, <4>3
        <5>2. h \in S \cup {NULL}
          BY <1>5, <1>6, <5>1
        <5> QED
          BY <1>1, <4>3, <5>2
      <4> QED
        BY <4>2, <4>3
    <3>3. Reach(Home(x)) \subseteq T
      BY <3>1, <3>2, ReachLeast DEF Closed
    <3> QED
      BY <1>3, <2>2, <3>3 DEF TableInv, NoneLost
  <2> QED
    BY <1>3, <2>1, <2>2
<1> QED
  BY <1>10, <1>11, <1>14, <1>15 DEF TableInv

\* An entry leaves its bucket.
LEMMA RemoveStep ==
  ASSUME TableInv, NEW k \in Keys, hashtable_remove(k)
  PROVE  TableInv'
<1> DEFINE b == Bucket(k)
<1>1. PICK e \in used : e = get_entry(k) /\ entry[e].key = k /\ entries # NULL
  BY GetEntry DEF hashtable_remove
<1>2. /\ entry \in [EntryObjects -> EntryRecords] /\ used \in SUBSET EntryObjects /\ e \in EntryObjects
      /\ content \in [Keys -> Values \cup {NULL}] /\ entries \in [Buckets -> used \cup {NULL}]
      /\ b \in Buckets /\ NULL \notin EntryObjects /\ NULL \notin [Buckets -> EntryObjects \cup {NULL}]
  BY <1>1, BucketType, HashAssumption DEF TableInv, TableTypes, Buckets
<1>3. PICK p \in EntryObjects \cup {NULL}, n \in EntryObjects \cup {NULL} : p = entry[e].prev /\ n = entry[e].next
  BY <1>2 DEF EntryRecords
<1>4. /\ entries' = (IF p = NULL THEN [entries EXCEPT ![b] = n] ELSE entries)
      /\ entry' = [o \in EntryObjects |->
           IF o = e THEN NoEntry
           ELSE [entry[o] EXCEPT !.next = IF o = p THEN n ELSE @, !.prev = IF o = n THEN p ELSE @]]
      /\ used' = used \ {e} /\ entry_count' = entry_count + -1 /\ content' = [content EXCEPT ![k] = NULL]
  BY <1>1, <1>3 DEF hashtable_remove, Counted
<1>5. /\ \A d, x \in used : entry[d].key = entry[x].key => d = x
      /\ \A j \in Keys : content[j] # NULL => \E x \in used : entry[x].key = j
  BY DEF TableInv, EntriesSound
<1>6. /\ \A x \in used : entry[x].next # NULL =>
            entry[x].next \in used /\ entry[entry[x].next].prev = x /\ Home(entry[x].next) = Home(x)
      /\ \A x \in used : entry[x].prev # NULL => entry[x].prev \in used /\ entry[entry[x].prev].next = x
      /\ \A x \in used : entry[x].prev = NULL => entries[Home(x)] = x
      /\ \A c \in Buckets : entries[c] # NULL => entry[entries[c]].prev = NULL /\ Home(entries[c]) = c
  BY <1>1 DEF TableInv, LinksSound
<1>7. Home(e) = b /\ n # e /\ p # e
  BY <1>1, <1>3, NoLoop DEF Home
<1>8. /\ p # NULL => p \in used /\ entry[p].next = e /\ Home(p) = b
      /\ n # NULL => n \in used /\ entry[n].prev = e /\ Home(n) = b
      /\ p = NULL => entries[b] = e
  <2>1. n # NULL => n \in used /\ entry[n].prev = e /\ Home(n) = b
    BY <1>1, <1>3, <1>6, <1>7
  <2>2. p # NULL => p \in used /\ entry[p].next = e
    BY <1>1, <1>3, <1>6
  <2>3. p # NULL => Home(p) = Home(e)
    BY <1>2, <1>6, <2>2
  <2> QED
    BY <1>1, <1>3, <1>6, <1>7, <2>1, <2>2, <2>3
<1>9. ASSUME NEW x \in EntryObjects \ {e}
      PROVE  /\ entry'[x] \in EntryRecords /\ entry'[x].key = entry[x].key
             /\ entry'[x].hash = entry[x].hash /\ entry'[x].value = entry[x].value
             /\ entry'[x].next = (IF x = p THEN n ELSE entry[x].next)
             /\ entry'[x].prev = (IF x = n THEN p ELSE entry[x].prev)
  <2>1. PICK s \in EntryRecords : s = entry[x]
    BY <1>2
  <2>2. PICK t : t = [s EXCEPT !.next = IF x = p THEN n ELSE @, !.prev = IF x = n THEN p ELSE @]
    OBVIOUS
  <2>3. entry'[x] = t
    BY <1>4, <2>1, <2>2
  <2>4. /\ t \in EntryRecords /\ t.key = s.key /\ t.hash = s.hash /\ t.value = s.value
        /\ t.next = (IF x = p THEN n ELSE s.next) /\ t.prev = (IF x = n THEN p ELSE s.prev)
    BY <1>3, <2>2 DEF EntryRecords
  <2> QED
    BY <2>1, <2>3, <2>4
<1>10. entry' \in [EntryObjects -> EntryRecords]
  <2>1. entry'[e] = NoEntry /\ NoEntry \in EntryRecords
    BY <1>2, <1>4 DEF NoEntry, EntryRecords
  <2> QED
    BY <1>4, <1>9, <2>1
<1>11. \A x \in used' : x \in used /\ x # e /\ x \in EntryObjects \ {e} /\ entry[x].key \in Keys /\ entry[x].key # k
  <2> SUFFICES ASSUME NEW x \in used'
               PROVE  x \in used /\ x # e /\ x \in EntryObjects \ {e} /\ entry[x].key \in Keys /\ entry[x].key # k
    OBVIOUS
  <2>1. x \in used /\ x # e
    BY <1>4
  <2>2. entry[x].key \in Keys
    BY <2>1 DEF TableInv, EntriesSound
  <2>3. entry[x].key # k
    BY <1>1, <1>5, <2>1
  <2> QED
    BY <1>2, <2>1, <2>2, <2>3
<1>12. \A x \in used' : Home(x)' = Home(x) /\ Home(x) \in Buckets
  BY <1>9, <1>11, BucketType DEF Home, Bucket
<1>13. /\ \A c \in Buckets : c # b \/ p # NULL => entries'[c] = entries[c]
       /\ p = NULL => entries'[b] = n
  BY <1>2, <1>4
<1>14. TableTypes' /\ entries' \in [Buckets -> used' \cup {NULL}]
  <2>1. IsFiniteSet(used)
    BY <1>2, HashAssumption, FS_Subset
  <2>2. Cardinality(used') = Cardinality(used) - 1 /\ Cardinality(used) \in Nat
    BY <1>1, <1>4, <2>1, FS_RemoveElement, FS_CardinalityType
  <2>3. ASSUME NEW c \in Buckets PROVE entries'[c] \in used' \cup {NULL}
    <3>0. n \in used' \cup {NULL}
      BY <1>4, <1>7, <1>8
    <3>1. CASE p = NULL /\ c = b
      BY <1>13, <3>0, <3>1
    <3>2. CASE p # NULL \/ c # b
      <4>1. entries'[c] = entries[c] /\ entries[c] \in used \cup {NULL}
        BY <1>2, <1>13, <3>2
      <4>2. entries[c] # e
        BY <1>2, <1>3, <1>6, <1>7, <3>2
      <4>3. \A x \in used \cup {NULL} : x # e => x \in used' \cup {NULL}
        BY <1>4
      <4> QED
        BY <4>1, <4>2, <4>3
    <3> QED
      BY <3>1, <3>2
  <2>4. entries' \in [Buckets -> used' \cup {NULL}] /\ used' \in SUBSET EntryObjects
    BY <1>2, <1>4, <2>3
  <2>5. entries' # NULL
    BY <1>2, <2>4
  <2>6. entry_count' = Cardinality(used')
    BY <1>4, <2>2 DEF TableInv, TableTypes
  <2> QED
    BY <1>2, <1>4, <1>10, <2>4, <2>5, <2>6 DEF TableTypes
<1>15. EntriesSound'
  <2>1. content'[k] = NULL /\ \A j \in Keys \ {k} : content'[j] = content[j]
    BY <1>2, <1>4
  <2>2. ASSUME NEW x \in used'
        PROVE  /\ entry'[x].key \in Keys /\ entry'[x].hash = hash[entry'[x].key]
               /\ entry'[x].value = content'[entry'[x].key]
    BY <1>9, <1>11, <2>1 DEF TableInv, EntriesSound
  <2>3. ASSUME NEW d \in used', NEW x \in used', entry'[d].key = entry'[x].key PROVE d = x
    <3>1. entry'[d].key = entry[d].key /\ entry'[x].key = entry[x].key
      BY <1>9, <1>11
    <3> QED
      BY <1>5, <1>11, <2>3, <3>1
  <2>4. ASSUME NEW j \in Keys, content'[j] # NULL PROVE \E x \in used' : entry'[x].key = j
    <3>1. PICK y \in used : entry[y].key = j /\ j # k
      BY <1>5, <2>1, <2>4
    <3>2. y \in used'
      BY <1>1, <1>4, <3>1
    <3> QED
      BY <1>9, <1>11, <3>1, <3>2
  <2> QED
    BY <2>2, <2>3, <2>4 DEF EntriesSound
<1>16. ASSUME NEW x \in used, entry[x].next = e PROVE x = p
  BY <1>2, <1>3, <1>6, <1>16
<1>17. ASSUME NEW x \in used, entry[x].prev = e PROVE x = n
  BY <1>2, <1>3, <1>6, <1>17
<1>18. LinksSound'
  <2>1. ASSUME NEW x \in used', entry'[x].next # NULL
        PROVE  entry'[x].next \in used' /\ entry'[entry'[x].next].prev = x /\ Home(entry[x].next)' = Home(x)'
    <3>1. PICK y : y = entry'[x].next
      OBVIOUS
    <3>2. CASE x = p
      <4>1. y = n /\ n # NULL
        BY <1>9, <1>11, <2>1, <3>1, <3>2
      <4>2. n \in used' /\ entry'[n].prev = p /\ Home(n) = b /\ Home(p) = b
        <5>1. n \in used' /\ Home(n) = b
          BY <1>4, <1>7, <1>8, <4>1
        <5>2. p # NULL
          BY <1>2, <1>11, <3>2
        <5>3. entry'[n].prev = p
          BY <1>9, <1>11, <5>1
        <5> QED
          BY <1>8, <5>1, <5>2, <5>3
      <4> QED
        BY <1>12, <3>1, <3>2, <4>1, <4>2
    <3>3. CASE x # p
      <4>1. y = entry[x].next /\ y # NULL
        BY <1>9, <1>11, <2>1, <3>1, <3>3
      <4>2. y \in used /\ entry[y].prev = x /\ Home(y) = Home(x)
        BY <1>6, <1>11, <4>1
      <4>3. y # e
        BY <1>11, <1>16, <3>3, <4>1
      <4>4. y # n
        BY <1>8, <1>11, <4>1, <4>2
      <4>5. y \in used' /\ entry'[y].prev = x
        BY <1>4, <1>9, <1>11, <4>2, <4>3, <4>4
      <4> QED
        BY <1>12, <3>1, <4>2, <4>5
    <3> QED
      BY <3>2, <3>3
  <2>2. ASSUME NEW x \in used', entry'[x].prev # NULL
        PROVE  entry'[x].prev \in used' /\ entry'[entry'[x].prev].next = x
    <3>1. PICK y : y = entry'[x].prev
      OBVIOUS
    <3>2. CASE x = n
      <4>1. y = p /\ p # NULL
        BY <1>9, <1>11, <2>2, <3>1, <3>2
      <4>2. p \in used' /\ entry'[p].next = n
        BY <1>4, <1>7, <1>8, <1>9, <1>11, <4>1
      <4> QED
        BY <3>1, <3>2, <4>1, <4>2
    <3>3. CASE x # n
      <4>1. y = entry[x].prev /\ y # NULL
        BY <1>9, <1>11, <2>2, <3>1, <3>3
      <4>2. y \in used /\ entry[y].next = x
        BY <1>6, <1>11, <4>1
      <4>3. y # e
        BY <1>11, <1>17, <3>3, <4>1
      <4>4. y # p
        BY <1>8, <1>11, <4>1, <4>2
      <4>5. y \in used' /\ entry'[y].next = x
        BY <1>4, <1>9, <1>11, <4>2, <4>3, <4>4
      <4> QED
        BY <3>1, <4>5
    <3> QED
      BY <3>2, <3>3
  <2>3. ASSUME NEW x \in used', entry'[x].prev = NULL PROVE entries'[Home(x)'] = x
    <3>1. CASE x = n
      <4>1. p = NULL /\ n # NULL
        BY <1>2, <1>9, <1>11, <2>3, <3>1
      <4> QED
        BY <1>8, <1>12, <1>13, <3>1, <4>1
    <3>2. CASE x # n
      <4>1. entry[x].prev = NULL
        BY <1>9, <1>11, <2>3, <3>2
      <4>2. entries[Home(x)] = x /\ x # e
        BY <1>6, <1>11, <4>1
      <4>3. Home(x) # b \/ p # NULL
        BY <1>8, <4>2
      <4> QED
        BY <1>12, <1>13, <4>2, <4>3
    <3> QED
      BY <3>1, <3>2
  <2>4. ASSUME NEW c \in Buckets, entries'[c] # NULL
        PROVE  entry'[entries'[c]].prev = NULL /\ Home(entries[c])' = c
    <3>1. PICK y : y = entries'[c]
      OBVIOUS
    <3>2. y \in used' /\ y # NULL
      BY <1>14, <2>4, <3>1
    <3>3. CASE p = NULL /\ c = b
      <4>1. y = n /\ Home(n) = b
        BY <1>8, <1>13, <3>1, <3>2, <3>3
      <4>2. entry'[n].prev = NULL
        BY <1>9, <1>11, <3>2, <3>3, <4>1
      <4> QED
        BY <1>12, <3>1, <3>2, <3>3, <4>1, <4>2
    <3>4. CASE p # NULL \/ c # b
      <4>1. y = entries[c]
        BY <1>13, <3>1, <3>4
      <4>2. entry[y].prev = NULL /\ Home(y) = c
        BY <1>6, <3>2, <4>1
      <4>3. y # n
        BY <1>2, <1>8, <3>2, <4>2
      <4>4. entry'[y].prev = NULL
        BY <1>9, <1>11, <3>2, <4>2, <4>3
      <4> QED
        BY <1>12, <3>1, <3>2, <4>2, <4>4
    <3> QED
      BY <3>3, <3>4
  <2> QED
    BY <2>1, <2>2, <2>3, <2>4 DEF LinksSound
<1>19. NoneLost'
  <2> SUFFICES ASSUME NEW x \in used', NEW S \in SUBSET EntryObjects,
                      entries'[Home(x)'] \in S \cup {NULL},
                      \A y \in S : entry'[y].next \in S \cup {NULL}
               PROVE  x \in S
    BY <1>2, <1>4 DEF NoneLost, Reach
  <2>1. PICK c \in Buckets : c = Home(x) /\ entries'[c] \in S \cup {NULL}
    BY <1>12
  <2>2. x \in Reach(c) /\ x # e
    BY <1>1, <1>11, <2>1 DEF TableInv, NoneLost
  <2>3. \A y \in S \cap used : y # e => entry[y].next \in used \cup {NULL}
                                        /\ (y # p => entry[y].next \in S \cup {NULL})
                                        /\ (y = p => n \in S \cup {NULL} /\ entry[y].next = e)
    BY <1>2, <1>6, <1>8, <1>9
  <2>4. n \in used \cup {NULL} /\ entries[c] \in used \cup {NULL}
    BY <1>2, <1>8
  <2>5. CASE p \in S \/ (p = NULL /\ c = b)
    <3> DEFINE T == (S \cap used) \cup {e}
    <3>1. n \in T \cup {NULL}
      <4>1. CASE p \in S
        BY <1>2, <1>7, <1>8, <2>3, <2>4, <4>1
      <4>2. CASE p = NULL /\ c = b
        BY <1>13, <2>1, <2>4, <4>2
      <4> QED
        BY <2>5, <4>1, <4>2
    <3>2. \A y \in T : entry[y].next \in T \cup {NULL}
      BY <1>3, <2>3, <3>1
    <3>3. entries[c] \in T \cup {NULL}
      <4>1. CASE p = NULL /\ c = b
        BY <1>8, <4>1
      <4>2. CASE p # NULL \/ c # b
        BY <1>13, <2>1, <2>4, <4>2
      <4> QED
        BY <4>1, <4>2
    <3>4. T \in SUBSET EntryObjects
      BY <1>2
    <3>5. Reach(c) \subseteq T
      BY <3>2, <3>3, <3>4, ReachLeast DEF Closed
    <3> QED
      BY <2>2, <3>5
  <2>6. CASE p \notin S /\ ~(p = NULL /\ c = b)
    <3> DEFINE T == (S \cap used) \ {e}
    <3>1. \A y \in T : entry[y].next \in T \cup {NULL}
      BY <1>16, <2>3, <2>6
    <3>2. entries[c] \in T \cup {NULL}
      <4>1. entries[c] # e
        BY <1>2, <1>3, <1>6, <1>7, <2>6
      <4> QED
        BY <1>13, <2>1, <2>4, <2>6, <4>1
    <3>3. T \in SUBSET EntryObjects
      OBVIOUS
    <3>4. Reach(c) \subseteq T
      BY <3>1, <3>2, <3>3, ReachLeast DEF Closed
    <3> QED
      BY <2>2, <3>4
  <2> QED
    BY <2>5, <2>6
<1> QED
  BY <1>14, <1>15, <1>18, <1>19 DEF TableInv

\* Every entry is freed with the table.
LEMMA DestroyTableStep ==
  ASSUME TableInv, hashtable_destroy
  PROVE  TableInv'
<1>1. entries # NULL
  BY DEF hashtable_destroy
<1>2. \A e \in used : Home(e) \in Buckets /\ e \in Reach(Home(e))
  BY <1>1, BucketType DEF TableInv, EntriesSound, NoneLost, Home
<1>3. used' = {}
  BY <1>2 DEF hashtable_destroy
<1>4. /\ entry' \in [EntryObjects -> EntryRecords] /\ entries' = NULL /\ entry_count' = 0
      /\ content' = [k \in Keys |-> NULL]
  BY <1>3 DEF hashtable_destroy, NoEntry, EntryRecords
<1>5. Cardinality({}) = 0
  BY FS_EmptySet
<1>6. TableTypes'
  BY <1>3, <1>4, <1>5 DEF TableTypes
<1>7. EntriesSound'
  BY <1>3, <1>4 DEF EntriesSound
<1> QED
  BY <1>4, <1>6, <1>7 DEF TableInv

\* A new table is empty.
LEMMA InitTableStep ==
  ASSUME TableInv, hashtable_init
  PROVE  TableInv'
<1>1. /\ entries = NULL /\ used = {} /\ content = [k \in Keys |-> NULL] /\ entry \in [EntryObjects -> EntryRecords]
      /\ entries' = NoEntries /\ entry' = entry /\ used' = used /\ content' = content /\ entry_count' = 0
  BY DEF hashtable_init, TableInv, TableTypes
<1>2. Cardinality({}) = 0
  BY FS_EmptySet
<1>3. entries' \in [Buckets -> used' \cup {NULL}]
  BY <1>1 DEF NoEntries
<1>4. TableTypes'
  BY <1>1, <1>2, <1>3 DEF TableTypes
<1>5. EntriesSound'
  BY <1>1 DEF EntriesSound
<1>6. LinksSound'
  BY <1>1 DEF LinksSound, NoEntries
<1>7. NoneLost'
  BY <1>1 DEF NoneLost
<1> QED
  BY <1>4, <1>5, <1>6, <1>7 DEF TableInv

\* Every step keeps the invariant.
LEMMA TableStep == TableInv /\ [TableNext]_tableVars => TableInv'
<1> SUFFICES ASSUME TableInv, [TableNext]_tableVars PROVE TableInv'
  OBVIOUS
<1>1. ASSUME NEW k \in Keys, NEW v \in Values, SetExisting(k, v) PROVE TableInv'
  BY <1>1, SetExistingStep
<1>2. ASSUME NEW k \in Keys, NEW v \in Values, NEW e \in EntryObjects, SetNew(k, v, e) PROVE TableInv'
  BY <1>2, SetNewStep
<1>3. ASSUME NEW k \in Keys, hashtable_remove(k) PROVE TableInv'
  BY <1>3, RemoveStep
<1>4. CASE hashtable_destroy
  BY <1>4, DestroyTableStep
<1>5. CASE hashtable_init
  BY <1>5, InitTableStep
<1>6. CASE UNCHANGED tableVars
  <2>1. \A b : Reach(b)' = Reach(b)
    BY <1>6 DEF tableVars, Reach
  <2>2. \A e : Home(e)' = Home(e)
    BY <1>6 DEF tableVars, Home, Bucket
  <2>3. TableTypes' /\ EntriesSound' /\ (entries # NULL => NoneLost')
    BY <1>6, <2>1, <2>2 DEF tableVars, TableInv, TableTypes, EntriesSound, NoneLost
  <2>4. entries # NULL => LinksSound'
    BY <1>6 DEF tableVars, TableInv, LinksSound, Home, Bucket
  <2> QED
    BY <1>6, <2>3, <2>4 DEF tableVars, TableInv
<1> QED
  BY <1>1, <1>2, <1>3, <1>4, <1>5, <1>6 DEF TableNext

\* What the invariant says of lookups and of the lists.
LEMMA TableExact ==
  ASSUME TableInv
  PROVE  TableIsFunction
<1>1. ASSUME entries # NULL, NEW k \in Keys PROVE hashtable_get(k) = content[k]
  <2>1. CASE \E e \in used : entry[e].key = k
    <3>1. PICK e \in used : entry[e].key = k
      BY <2>1
    <3>2. get_entry(k) = e /\ e # NULL
      BY <1>1, <3>1, GetEntry, HashAssumption DEF TableInv, TableTypes
    <3>3. entry[e].value = content[k]
      BY <3>1 DEF TableInv, EntriesSound
    <3> QED
      BY <3>2, <3>3 DEF hashtable_get
  <2>2. CASE ~\E e \in used : entry[e].key = k
    <3>1. get_entry(k) = NULL
      BY <1>1, <2>2, GetEntry
    <3>2. content[k] = NULL
      BY <2>2 DEF TableInv, EntriesSound
    <3> QED
      BY <3>1, <3>2 DEF hashtable_get
  <2> QED
    BY <2>1, <2>2
<1>2. ASSUME entries # NULL PROVE UNION { Reach(b) : b \in Buckets } = used
  <2>1. \A b \in Buckets : Reach(b) \subseteq used
    BY <1>2, ReachIsHome
  <2>2. \A e \in used : Home(e) \in Buckets /\ e \in Reach(Home(e))
    BY <1>2, BucketType DEF TableInv, EntriesSound, NoneLost, Home
  <2> QED
    BY <2>1, <2>2
<1>3. BucketsExact
  BY <1>2 DEF BucketsExact, TableInv, TableTypes, LinksSound, NoneLost, Home
<1> QED
  BY <1>1, <1>3 DEF TableIsFunction

\* A lookup returns what was last stored under the key and not removed since,
\* for any keys, hashes and number of buckets, whatever collides, also when
\* entries run out; the buckets stay doubly linked lists of all the entries, and
\* hashtable_destroy frees them all.
THEOREM TableIsFunctionHolds == TableSpec => []TableIsFunction
BY TableStart, TableStep, TableExact, PTL DEF TableSpec
=============================================================================
