-------------------------- MODULE PageTablesProofs --------------------------
(***************************************************************************)
(* vmm_map, vmm_unmap and create_address_space keep the page tables of all  *)
(* address spaces trees that share what the boot loader had in the upper    *)
(* half, for every size of the tables, every memory and every tree of       *)
(* tables at boot, and so each page resolves to what was mapped.            *)
(***************************************************************************)
EXTENDS PageTables, NaturalsInduction, WellFoundedInduction, TLAPS

\* pmm_alloc_page has a lowest frame to give.
LEMMA LowestFrame ==
  ASSUME PageConstants, NEW S \in SUBSET TableFrames, S # {}
  PROVE  Min(S) \in S
<1>1. S \subseteq Nat
  BY DEF PageConstants
<1>2. PICK f \in S : \A g \in S : ~(<<g, f>> \in OpToRel(<, Nat))
  BY <1>1, WFMin, NatLessThanWellFounded
<1>3. ASSUME NEW g \in S PROVE f \leq g
  <2>1. ~(<<g, f>> \in { x \in Nat \X Nat : x[1] < x[2] })
    BY <1>2 DEF OpToRel
  <2>2. f \in Nat /\ g \in Nat
    BY <1>1
  <2> QED
    BY <2>1, <2>2
<1> QED
  BY <1>3 DEF Min

-----------------------------------------------------------------------------
(* Paths through tables with levels.                                        *)

\* The entries on the way from a top table to a page.
LEMMA PathLevels ==
  ASSUME PageConstants,
         NEW m, NEW tables, NEW tops, NEW level, Levels(m, tables, tops, level),
         NEW s \in tops, NEW v \in VPages
  PROVE  LET b == Entry(m, s, v[1])  c == Entry(m, b, v[2])  d == Entry(m, c, v[3])
         IN /\ s \in tables /\ level[s] = 1 /\ s # NULL
            /\ b # NULL => b \in tables /\ level[b] = 2
            /\ c # NULL => b # NULL /\ c \in tables /\ level[c] = 3
            /\ d # NULL => c # NULL /\ d \in tables /\ level[d] = 4
            /\ find(m, s, v) = d
<1> DEFINE b == Entry(m, s, v[1])
           c == Entry(m, b, v[2])
           d == Entry(m, c, v[3])
<1>1. v[1] \in Indexes /\ v[2] \in Indexes /\ v[3] \in Indexes /\ v[4] \in Indexes
  BY DEF PageConstants
<1>2. \A t \in tables, i \in Indexes :
        level[t] < 4 /\ Entry(m, t, i) # NULL => Entry(m, t, i) \in tables /\ level[Entry(m, t, i)] = level[t] + 1
  <2> TAKE t \in tables, i \in Indexes
  <2>1. t # NULL /\ level[t] \in 1 .. 4
    BY DEF PageConstants, Levels, Leveled
  <2>2. Entry(m, t, i) = m[t][i]
    BY <2>1 DEF Entry
  <2> QED
    BY <2>1, <2>2 DEF Levels, LinkedDown
<1>3. s \in tables /\ level[s] = 1 /\ s # NULL
  BY DEF Levels, Leveled, PageConstants
<1> HIDE DEF b, c, d
<1>4. b # NULL => b \in tables /\ level[b] = 2
  BY <1>1, <1>2, <1>3 DEF b
<1>5. c # NULL => b # NULL /\ c \in tables /\ level[c] = 3
  <2>1. ASSUME c # NULL PROVE b # NULL
    BY <2>1 DEF c, Entry
  <2> QED
    BY <1>1, <1>2, <1>4, <2>1 DEF c
<1>6. d # NULL => c # NULL /\ d \in tables /\ level[d] = 4
  <2>1. ASSUME d # NULL PROVE c # NULL
    BY <2>1 DEF d, Entry
  <2> QED
    BY <1>1, <1>2, <1>5, <2>1 DEF d
<1>7. find(m, s, v) = d
  BY DEF find, b, c, d
<1> QED
  BY <1>3, <1>4, <1>5, <1>6, <1>7 DEF b, c, d

\* Two pages with the same last table differ in the last index at most, and
\* either the spaces are the same or their top tables have the same entry for it.
LEMMA PathInjective ==
  ASSUME PageConstants,
         NEW m, NEW tables, NEW tops, NEW level, Levels(m, tables, tops, level),
         NEW s \in tops, NEW r \in tops, NEW u \in VPages, NEW v \in VPages,
         find(m, s, u) # NULL, find(m, s, u) = find(m, r, v), u[4] = v[4]
  PROVE  u = v /\ (s = r \/ (v[1] \in UpperHalf /\ m[s][v[1]] = m[r][v[1]]))
<1> DEFINE b == Entry(m, s, u[1])
           c == Entry(m, b, u[2])
           d == Entry(m, c, u[3])
           x == Entry(m, r, v[1])
           y == Entry(m, x, v[2])
           z == Entry(m, y, v[3])
<1>1. /\ s \in tables /\ level[s] = 1 /\ s # NULL
      /\ b # NULL => b \in tables /\ level[b] = 2
      /\ c # NULL => b # NULL /\ c \in tables /\ level[c] = 3
      /\ d # NULL => c # NULL /\ d \in tables /\ level[d] = 4
      /\ find(m, s, u) = d
  BY PathLevels
<1>2. /\ r \in tables /\ level[r] = 1 /\ r # NULL
      /\ x # NULL => x \in tables /\ level[x] = 2
      /\ y # NULL => x # NULL /\ y \in tables /\ level[y] = 3
      /\ z # NULL => y # NULL /\ z \in tables /\ level[z] = 4
      /\ find(m, r, v) = z
  BY PathLevels
<1>3. \A i \in 1 .. 4 : u[i] \in Indexes /\ v[i] \in Indexes
  BY DEF PageConstants
<1>4. \A t, w \in tables, i, j \in Indexes :
       level[t] # 4 /\ level[w] # 4 /\ Entry(m, t, i) # NULL /\ Entry(m, t, i) = Entry(m, w, j) =>
         i = j /\ (t = w \/ (level[t] = 1 /\ i \in UpperHalf))
  <2>1. \A t \in tables : t # NULL /\ (t \in tops <=> level[t] = 1)
    BY DEF Levels, Leveled, PageConstants
  <2>2. \A t \in tables, i \in Indexes : Entry(m, t, i) = m[t][i]
    BY <2>1 DEF Entry
  <2> QED
    BY <2>1, <2>2 DEF Levels, EnteredOnce
<1>5. d = z /\ d # NULL
  BY <1>1, <1>2
<1> HIDE DEF b, c, d, x, y, z
<1>6. u[3] = v[3] /\ c = y
  BY <1>1, <1>2, <1>3, <1>4, <1>5 DEF d, z
<1>7. u[2] = v[2] /\ b = x
  BY <1>1, <1>2, <1>3, <1>4, <1>5, <1>6 DEF c, y
<1>8. u[1] = v[1] /\ (s = r \/ u[1] \in UpperHalf)
  BY <1>1, <1>2, <1>3, <1>4, <1>5, <1>6, <1>7 DEF b, x
<1>9. u = v
  <2>1. u \in [1 .. 4 -> Indexes] /\ v \in [1 .. 4 -> Indexes]
    BY DEF PageConstants
  <2>2. \A i \in 1 .. 4 : u[i] = v[i]
    <3> TAKE i \in 1 .. 4
    <3>1. i = 1 \/ i = 2 \/ i = 3 \/ i = 4
      OBVIOUS
    <3> QED
      BY <1>6, <1>7, <1>8, <3>1
  <2> QED
    BY <2>1, <2>2
<1>10. m[s][u[1]] = m[r][v[1]]
  BY <1>1, <1>2, <1>7 DEF b, x, Entry
<1> QED
  BY <1>8, <1>9, <1>10

\* A page has the same last table in the spaces that share its top entry.
LEMMA PathShared ==
  ASSUME NEW m, NEW tables, NEW tops, NEW level, Levels(m, tables, tops, level), PageConstants,
         NEW s \in tops, NEW r \in tops, NEW v \in VPages, m[s][v[1]] = m[r][v[1]]
  PROVE  find(m, s, v) = find(m, r, v)
<1>1. s # NULL /\ r # NULL
  BY DEF Levels, Leveled, PageConstants
<1> QED
  BY <1>1 DEF find, Entry

-----------------------------------------------------------------------------
(* One entry changes.                                                       *)

\* The memory after walk has linked the new table f to entry i of table t, and
\* the levels then.
Linked(m, t, i, f) == [Cleared(m, f) EXCEPT ![t][i] = f]
Deeper(level, tables, t, f) == [g \in tables \cup {f} |-> IF g = f THEN level[t] + 1 ELSE level[g]]

\* walk links a new, empty table: it leads nowhere yet, so that every page
\* resolves as before.
LEMMA LinkLevels ==
  ASSUME PageConstants,
         NEW m, NEW tables, NEW tops, NEW level, Levels(m, tables, tops, level),
         NEW t \in tables, level[t] < 4, NEW i \in Indexes, m[t][i] = NULL,
         NEW f \in TableFrames \ tables
  PROVE  /\ Levels(Linked(m, t, i, f), tables \cup {f}, tops, Deeper(level, tables, t, f))
         /\ \A g \in tables, j \in Indexes : g # t \/ j # i => Entry(Linked(m, t, i, f), g, j) = Entry(m, g, j)
         /\ Entry(Linked(m, t, i, f), t, i) = f
         /\ \A s \in tops, v \in VPages : vmm_resolve(Linked(m, t, i, f), s, v) = vmm_resolve(m, s, v)
<1> USE DEF Linked, Deeper
<1> DEFINE n == Linked(m, t, i, f)
           more == tables \cup {f}
           deeper == Deeper(level, tables, t, f)
<1>1. /\ tables \subseteq TableFrames /\ tops \subseteq tables /\ m = [g \in TableFrames |-> m[g]]
      /\ level \in [tables -> 1 .. 4] /\ f \notin tables /\ t # f /\ f \in TableFrames
      /\ \A g \in tables : m[g] = [j \in Indexes |-> m[g][j]]
      /\ NULL \notin TableFrames
  BY DEF Levels, Leveled, PageConstants
<1>2. n = [g \in TableFrames |-> IF g = f THEN Zero ELSE IF g = t THEN [m[t] EXCEPT ![i] = f] ELSE m[g]]
  BY <1>1 DEF Cleared
<1>3. n = [g \in TableFrames |-> n[g]]
  BY <1>2
<1>4. \A j \in Indexes : n[f][j] = NULL
  BY <1>1, <1>2 DEF Zero
<1>5. /\ \A g \in tables \ {t} : n[g] = m[g]
      /\ n[t] = [j \in Indexes |-> IF j = i THEN f ELSE m[t][j]]
      /\ n[f] = [j \in Indexes |-> NULL]
  <2>1. [m[t] EXCEPT ![i] = f] = [j \in Indexes |-> IF j = i THEN f ELSE m[t][j]]
    BY <1>1
  <2> QED
    BY <1>1, <1>2, <2>1 DEF Zero
<1>6. \A g \in more : n[g] = [j \in Indexes |-> n[g][j]]
  <2> TAKE g \in more
  <2>1. CASE g = f
    BY <1>5, <2>1
  <2>2. CASE g = t
    BY <1>5, <2>2
  <2>3. CASE g # f /\ g # t
    <3>1. g \in tables \ {t}
      BY <2>3
    <3>2. n[g] = m[g] /\ m[g] = [j \in Indexes |-> m[g][j]]
      BY <1>1, <1>5, <3>1
    <3> QED
      BY <3>2
  <2> QED
    BY <2>1, <2>2, <2>3
<1>7. deeper \in [more -> 1 .. 4] /\ deeper[f] = level[t] + 1 /\ \A g \in tables : deeper[g] = level[g]
  BY <1>1
<1> HIDE DEF n, deeper
<1>16. \A g \in tables, j \in Indexes : n[g][j] = IF g = t /\ j = i THEN f ELSE m[g][j]
  BY <1>5
<1>8. \A g \in more : deeper[g] = 1 <=> g \in tops
  <2>1. f \notin tops /\ level[t] + 1 # 1
    BY <1>1
  <2>2. \A g \in tables : level[g] = 1 <=> g \in tops
    BY DEF Levels, Leveled
  <2> QED
    BY <1>7, <2>1, <2>2
<1>9. \A g \in more, j \in Indexes : n[g][j] # NULL =>
        IF deeper[g] = 4 THEN n[g][j] \in Targets
        ELSE n[g][j] \in more /\ deeper[n[g][j]] = deeper[g] + 1
  <2> SUFFICES ASSUME NEW g \in more, NEW j \in Indexes, n[g][j] # NULL
               PROVE  IF deeper[g] = 4 THEN n[g][j] \in Targets
                      ELSE n[g][j] \in more /\ deeper[n[g][j]] = deeper[g] + 1
    OBVIOUS
  <2>1. g \in tables
    BY <1>4
  <2>2. CASE g = t /\ j = i
    <3>1. n[g][j] = f /\ deeper[g] = level[t] /\ level[t] \in 1 .. 3
      BY <1>1, <1>16, <1>7, <2>1, <2>2
    <3> QED
      BY <1>7, <2>2, <3>1
  <2>3. CASE ~(g = t /\ j = i)
    <3>1. n[g][j] = m[g][j] /\ deeper[g] = level[g]
      BY <1>16, <1>7, <2>1, <2>3
    <3>2. IF level[g] = 4 THEN m[g][j] \in Targets
          ELSE m[g][j] \in tables /\ level[m[g][j]] = level[g] + 1
      BY <2>1, <3>1 DEF Levels, LinkedDown
    <3> QED
      BY <1>7, <3>1, <3>2
  <2> QED
    BY <2>2, <2>3
<1>10. \A g, h \in more, j, k \in Indexes :
         deeper[g] # 4 /\ deeper[h] # 4 /\ n[g][j] # NULL /\ n[g][j] = n[h][k] =>
           j = k /\ (g = h \/ (g \in tops /\ h \in tops /\ j \in UpperHalf))
  <2> SUFFICES ASSUME NEW g \in more, NEW h \in more, NEW j \in Indexes, NEW k \in Indexes,
                      deeper[g] # 4, deeper[h] # 4, n[g][j] # NULL, n[g][j] = n[h][k]
               PROVE  j = k /\ (g = h \/ (g \in tops /\ h \in tops /\ j \in UpperHalf))
    OBVIOUS
  <2>1. g \in tables /\ h \in tables /\ level[g] # 4 /\ level[h] # 4
    BY <1>4, <1>7
  <2>2. \A x \in tables, y \in Indexes : level[x] # 4 /\ m[x][y] # NULL => m[x][y] # f
    BY <1>1 DEF Levels, LinkedDown
  <2>3. CASE n[g][j] = f
    <3>1. \A x \in tables, y \in Indexes : level[x] # 4 /\ n[x][y] = f => x = t /\ y = i
      BY <1>1, <1>16, <2>2
    <3>2. g = t /\ j = i
      BY <2>1, <2>3, <3>1
    <3>3. h = t /\ k = i
      BY <2>1, <2>3, <3>1
    <3> QED
      BY <3>2, <3>3
  <2>4. CASE n[g][j] # f
    <3>1. n[g][j] = m[g][j] /\ n[h][k] = m[h][k]
      BY <1>16, <2>1, <2>4
    <3>2. m[g][j] # NULL /\ m[g][j] = m[h][k]
      BY <3>1
    <3>3. EnteredOnce(m, tables, tops, level)
      BY DEF Levels
    <3>4. \A x, y \in tables : level[x] # 4 /\ level[y] # 4 /\ m[x][j] # NULL /\ m[x][j] = m[y][k] =>
            j = k /\ (x = y \/ (x \in tops /\ y \in tops /\ j \in UpperHalf))
      BY <3>3 DEF EnteredOnce
    <3> QED
      BY <2>1, <3>2, <3>4
  <2> QED
    BY <2>3, <2>4
<1>11. \A s \in tops, j \in UpperHalf : BootPml4[j] # NULL => n[s][j] = BootPml4[j]
  <2> SUFFICES ASSUME NEW s \in tops, NEW j \in UpperHalf, BootPml4[j] # NULL
               PROVE  n[s][j] = BootPml4[j]
    OBVIOUS
  <2>1. j \in Indexes /\ s \in tables
    BY <1>1 DEF PageConstants
  <2>2. m[s][j] = BootPml4[j]
    BY DEF Levels, BootShared
  <2>3. n[s][j] = m[s][j]
    BY <1>16, <2>1, <2>2
  <2> QED
    BY <2>2, <2>3
<1>12. Levels(n, more, tops, deeper)
  BY <1>1, <1>3, <1>6, <1>7, <1>8, <1>9, <1>10, <1>11 DEF Levels, Leveled, LinkedDown, EnteredOnce, BootShared
<1>13. /\ \A g \in tables, j \in Indexes : Entry(n, g, j) = IF g = t /\ j = i THEN f ELSE Entry(m, g, j)
       /\ \A j \in Indexes : Entry(n, f, j) = NULL
       /\ \A j : Entry(n, NULL, j) = NULL /\ Entry(m, NULL, j) = NULL
       /\ Entry(m, t, i) = NULL
  BY <1>1, <1>4, <1>16 DEF Entry
<1>14. ASSUME NEW s \in tops, NEW v \in VPages
       PROVE  vmm_resolve(n, s, v) = vmm_resolve(m, s, v)
  <2> DEFINE b == Entry(m, s, v[1])
             c == Entry(m, b, v[2])
             d == Entry(m, c, v[3])
             x == Entry(n, s, v[1])
             y == Entry(n, x, v[2])
             z == Entry(n, y, v[3])
  <2>1. /\ s \in tables
        /\ b # NULL => b \in tables
        /\ c # NULL => c \in tables
        /\ d # NULL => d \in tables
    BY PathLevels
  <2>2. v[1] \in Indexes /\ v[2] \in Indexes /\ v[3] \in Indexes /\ v[4] \in Indexes
    BY DEF PageConstants
  <2>3. vmm_resolve(m, s, v) = Entry(m, d, v[4]) /\ vmm_resolve(n, s, v) = Entry(n, z, v[4])
    BY DEF vmm_resolve, find
  <2>4. x = b \/ (b = NULL /\ x = f)
    BY <1>13, <2>1, <2>2
  <2> HIDE DEF b, x
  <2>5. y = c \/ (c = NULL /\ y = f)
    BY <1>13, <2>1, <2>2, <2>4
  <2> HIDE DEF c, y
  <2>6. z = d \/ (d = NULL /\ z = f)
    BY <1>13, <2>1, <2>2, <2>5
  <2> HIDE DEF d, z
  <2>7. Entry(m, d, v[4]) = Entry(n, z, v[4])
    <3>1. d # NULL => d # t
      <4>1. d # NULL => level[d] = 4
        BY PathLevels DEF b, c, d
      <4> QED
        BY <1>1, <4>1
    <3> QED
      BY <1>13, <2>1, <2>2, <2>6, <3>1
  <2> QED
    BY <2>3, <2>7
<1> QED
  BY <1>12, <1>13, <1>14 DEF n, deeper

\* The memory after entry i of table t is set.
Written(m, t, i, p) == [m EXCEPT ![t][i] = p]

\* vmm_map and vmm_unmap write an entry of a last table: the pages that lead
\* there resolve to it, and the others as before.
LEMMA WriteLevels ==
  ASSUME PageConstants,
         NEW m, NEW tables, NEW tops, NEW level, Levels(m, tables, tops, level),
         NEW t \in tables, level[t] = 4, NEW i \in Indexes, NEW p \in Targets \cup {NULL}
  PROVE  /\ Levels(Written(m, t, i, p), tables, tops, level)
         /\ \A s \in tops, v \in VPages :
              vmm_resolve(Written(m, t, i, p), s, v) = IF find(m, s, v) = t /\ v[4] = i THEN p ELSE vmm_resolve(m, s, v)
<1> DEFINE n == Written(m, t, i, p)
<1>1. /\ tables \subseteq TableFrames /\ tops \subseteq tables /\ m = [g \in TableFrames |-> m[g]]
      /\ level \in [tables -> 1 .. 4] /\ t \in TableFrames
      /\ \A g \in tables : m[g] = [j \in Indexes |-> m[g][j]] /\ (level[g] = 1 <=> g \in tops) /\ g # NULL
  BY DEF Levels, Leveled, PageConstants
<1>2. /\ n = [g \in TableFrames |-> n[g]]
      /\ \A g \in tables \ {t} : n[g] = m[g]
      /\ n[t] = [j \in Indexes |-> IF j = i THEN p ELSE m[t][j]]
  <2>1. [m[t] EXCEPT ![i] = p] = [j \in Indexes |-> IF j = i THEN p ELSE m[t][j]]
    BY <1>1
  <2>2. n = [g \in TableFrames |-> IF g = t THEN [m[t] EXCEPT ![i] = p] ELSE m[g]]
    BY <1>1 DEF Written
  <2> HIDE DEF n
  <2> QED
    BY <1>1, <2>1, <2>2
<1> HIDE DEF n
<1>3. \A g \in tables, j \in Indexes : n[g][j] = IF g = t /\ j = i THEN p ELSE m[g][j]
  BY <1>2
<1>4. Leveled(n, tables, tops, level)
  <2>1. \A g \in tables : n[g] = [j \in Indexes |-> n[g][j]]
    <3> TAKE g \in tables
    <3>1. CASE g = t
      BY <1>2, <3>1
    <3>2. CASE g # t
      <4>1. n[g] = m[g] /\ m[g] = [j \in Indexes |-> m[g][j]]
        BY <1>1, <1>2, <3>2
      <4> QED
        BY <4>1
    <3> QED
      BY <3>1, <3>2
  <2> QED
    BY <1>1, <1>2, <2>1 DEF Leveled
<1>5. LinkedDown(n, tables, level)
  <2> SUFFICES ASSUME NEW g \in tables, NEW j \in Indexes, n[g][j] # NULL
               PROVE  IF level[g] = 4 THEN n[g][j] \in Targets
                      ELSE n[g][j] \in tables /\ level[n[g][j]] = level[g] + 1
    BY DEF LinkedDown
  <2>1. CASE g = t /\ j = i
    BY <1>3, <2>1
  <2>2. CASE ~(g = t /\ j = i)
    <3>1. n[g][j] = m[g][j]
      BY <1>3, <2>2
    <3> QED
      BY <3>1 DEF Levels, LinkedDown
  <2> QED
    BY <2>1, <2>2
<1>6. EnteredOnce(n, tables, tops, level)
  <2>1. \A g \in tables, j \in Indexes : level[g] # 4 => n[g][j] = m[g][j]
    BY <1>3
  <2>2. EnteredOnce(m, tables, tops, level)
    BY DEF Levels
  <2> SUFFICES ASSUME NEW g \in tables, NEW h \in tables, NEW j \in Indexes, NEW k \in Indexes,
                      level[g] # 4, level[h] # 4, n[g][j] # NULL, n[g][j] = n[h][k]
               PROVE  j = k /\ (g = h \/ (g \in tops /\ h \in tops /\ j \in UpperHalf))
    BY DEF EnteredOnce
  <2>3. m[g][j] # NULL /\ m[g][j] = m[h][k]
    BY <2>1
  <2>4. \A x, y \in tables : level[x] # 4 /\ level[y] # 4 /\ m[x][j] # NULL /\ m[x][j] = m[y][k] =>
            j = k /\ (x = y \/ (x \in tops /\ y \in tops /\ j \in UpperHalf))
    BY <2>2 DEF EnteredOnce
  <2> QED
    BY <2>3, <2>4
<1>7. BootShared(n, tops)
  <2>1. \A s \in tops, j \in UpperHalf : n[s][j] = m[s][j]
    <3> TAKE s \in tops, j \in UpperHalf
    <3>1. s \in tables /\ j \in Indexes
      BY <1>1 DEF PageConstants
    <3>2. level[s] = 1
      BY <1>1, <3>1
    <3>3. s # t
      BY <3>2
    <3> QED
      BY <1>3, <3>1, <3>3
  <2> QED
    BY <2>1 DEF Levels, BootShared
<1>8. ASSUME NEW s \in tops, NEW v \in VPages
      PROVE  vmm_resolve(n, s, v) = IF find(m, s, v) = t /\ v[4] = i THEN p ELSE vmm_resolve(m, s, v)
  <2> DEFINE b == Entry(m, s, v[1])
             c == Entry(m, b, v[2])
             d == Entry(m, c, v[3])
             x == Entry(n, s, v[1])
             y == Entry(n, x, v[2])
             z == Entry(n, y, v[3])
  <2>1. /\ s \in tables /\ level[s] = 1 /\ s # NULL
        /\ b # NULL => b \in tables /\ level[b] = 2
        /\ c # NULL => b # NULL /\ c \in tables /\ level[c] = 3
        /\ d # NULL => c # NULL /\ d \in tables /\ level[d] = 4
        /\ find(m, s, v) = d
    BY PathLevels
  <2>2. v[1] \in Indexes /\ v[2] \in Indexes /\ v[3] \in Indexes /\ v[4] \in Indexes
    BY DEF PageConstants
  <2>3. vmm_resolve(m, s, v) = Entry(m, d, v[4]) /\ vmm_resolve(n, s, v) = Entry(n, z, v[4])
    BY DEF vmm_resolve, find
  <2>4. /\ \A g \in tables, j \in Indexes : Entry(n, g, j) = IF g = t /\ j = i THEN p ELSE Entry(m, g, j)
        /\ \A j : Entry(n, NULL, j) = NULL /\ Entry(m, NULL, j) = NULL
    BY <1>1, <1>3 DEF Entry
  <2>5. x = b
    BY <2>1, <2>2, <2>4
  <2> HIDE DEF b, x
  <2>6. y = c
    BY <2>1, <2>2, <2>4, <2>5
  <2> HIDE DEF c, y
  <2>7. z = d
    BY <2>1, <2>2, <2>4, <2>6
  <2> HIDE DEF d, z
  <2>8. Entry(n, d, v[4]) = IF d = t /\ v[4] = i THEN p ELSE Entry(m, d, v[4])
    BY <1>1, <2>1, <2>2, <2>4
  <2> QED
    BY <2>1, <2>3, <2>7, <2>8
<1> QED
  BY <1>4, <1>5, <1>6, <1>7, <1>8 DEF n, Levels

-----------------------------------------------------------------------------
(* walk.                                                                    *)

\* What a level of walk leaves: tables with levels in which nothing resolves
\* differently, every entry that was present, and the next table, if any.
Walked(w, level, x, deeper, i, n) ==
  /\ Levels(x.mem, x.taken, spaces, deeper)
  /\ w.taken \subseteq x.taken /\ \A g \in w.taken : deeper[g] = level[g]
  /\ \A g \in w.taken, j \in Indexes : Entry(w.mem, g, j) # NULL => Entry(x.mem, g, j) = Entry(w.mem, g, j)
  /\ \A s \in spaces, v \in VPages : vmm_resolve(x.mem, s, v) = vmm_resolve(w.mem, s, v)
  /\ x.at # NULL => /\ w.at # NULL /\ x.at \in x.taken /\ deeper[x.at] = n + 1
                    /\ Entry(x.mem, w.at, i) = x.at

Descended(m, tables, at, level, i, n) ==
  \E deeper, m2, tables2, at2 :
    LET w == [mem |-> m, taken |-> tables, at |-> at]
        x == [mem |-> m2, taken |-> tables2, at |-> at2]
    IN Descend(w, i) = x /\ Walked(w, level, x, deeper, i, n)

\* One level of walk keeps the tables in order and leads one level down, whether
\* the next table exists, is made, or there is no memory for it.
LEMMA DescendLevels ==
  ASSUME PageConstants, NEW m, NEW tables, NEW at, NEW level, Levels(m, tables, spaces, level),
         NEW n \in 1 .. 3, at # NULL => at \in tables /\ level[at] = n, NEW i \in Indexes
  PROVE  Descended(m, tables, at, level, i, n)
<1> DEFINE w == [mem |-> m, taken |-> tables, at |-> at]
           free == TableFrames \ tables
           new == Min(free)
           G(m2, tables2, at2, deeper) ==
              /\ Descend(w, i) = [mem |-> m2, taken |-> tables2, at |-> at2]
              /\ Walked(w, level, [mem |-> m2, taken |-> tables2, at |-> at2], deeper, i, n)
<1> SUFFICES \E d, a, b, c : G(a, b, c, d)
  BY DEF Descended
<1>1. CASE at = NULL
  <2>1. Descend(w, i) = w
    BY <1>1 DEF Descend
  <2>2. G(m, tables, at, level)
    BY <1>1, <2>1 DEF Walked
  <2> QED
    BY <2>2
<1>2. CASE at # NULL /\ m[at][i] # NULL
  <2>1. Descend(w, i) = [mem |-> m, taken |-> tables, at |-> m[at][i]]
    BY <1>2 DEF Descend
  <2>2. level[at] = n /\ n # 4 /\ m[at][i] \in tables /\ level[m[at][i]] = n + 1
    BY <1>2 DEF Levels, LinkedDown
  <2>3. Entry(m, at, i) = m[at][i]
    BY <1>2 DEF Entry
  <2>4. G(m, tables, m[at][i], level)
    BY <1>2, <2>1, <2>2, <2>3 DEF Walked
  <2> QED
    BY <2>4
<1>3. CASE at # NULL /\ m[at][i] = NULL /\ free = {}
  <2>1. Descend(w, i) = [mem |-> m, taken |-> tables, at |-> NULL]
    BY <1>3 DEF Descend
  <2>2. G(m, tables, NULL, level)
    BY <1>3, <2>1 DEF Walked
  <2> QED
    BY <2>2
<1>4. CASE at # NULL /\ m[at][i] = NULL /\ free # {}
  <2>1. new \in TableFrames \ tables
    BY <1>4, LowestFrame
  <2> DEFINE m2 == Linked(m, at, i, new)
             deeper == Deeper(level, tables, at, new)
  <2>2. Descend(w, i) = [mem |-> m2, taken |-> tables \cup {new}, at |-> new]
    BY <1>4 DEF Descend, Linked
  <2>3. at \in tables /\ level[at] = n /\ level[at] < 4
    BY <1>4
  <2> HIDE DEF new
  <2>4. /\ Levels(m2, tables \cup {new}, spaces, deeper)
        /\ \A g \in tables, j \in Indexes : g # at \/ j # i => Entry(m2, g, j) = Entry(m, g, j)
        /\ Entry(m2, at, i) = new
        /\ \A s \in spaces, v \in VPages : vmm_resolve(m2, s, v) = vmm_resolve(m, s, v)
    BY <1>4, <2>1, <2>3, LinkLevels
  <2>5. Entry(m, at, i) = NULL
    BY <1>4 DEF Entry
  <2>6. deeper[new] = n + 1 /\ \A g \in tables : deeper[g] = level[g]
    BY <2>1, <2>3 DEF Deeper
  <2> HIDE DEF m2, deeper
  <2>7. G(m2, tables \cup {new}, new, deeper)
    BY <1>4, <2>2, <2>4, <2>5, <2>6 DEF Walked
  <2> HIDE DEF G
  <2> QED
    BY <2>7
<1> QED
  BY <1>1, <1>2, <1>3, <1>4

\* walk as a whole.
LEMMA WalkLevels ==
  ASSUME PageConstants, NEW level, Levels(mem, taken, spaces, level), current_pml4 \in spaces, NEW v \in VPages
  PROVE  \E m, tables, at, deeper :
           /\ walk(v) = [mem |-> m, taken |-> tables, at |-> at]
           /\ Levels(m, tables, spaces, deeper)
           /\ \A s \in spaces, u \in VPages : vmm_resolve(m, s, u) = vmm_resolve(mem, s, u)
           /\ at # NULL => at \in tables /\ deeper[at] = 4 /\ find(m, current_pml4, v) = at
<1> DEFINE W(m, tables, at) == [mem |-> m, taken |-> tables, at |-> at]
<1>1. v[1] \in Indexes /\ v[2] \in Indexes /\ v[3] \in Indexes /\ v[4] \in Indexes
  BY DEF PageConstants
<1>2. current_pml4 \in taken /\ level[current_pml4] = 1 /\ current_pml4 # NULL
  BY DEF Levels, Leveled, PageConstants
<1>3. PICK l2, m2, t2, a2 :
        /\ Descend(W(mem, taken, current_pml4), v[1]) = W(m2, t2, a2)
        /\ Walked(W(mem, taken, current_pml4), level, W(m2, t2, a2), l2, v[1], 1)
  <2>1. Descended(mem, taken, current_pml4, level, v[1], 1)
    BY <1>1, <1>2, DescendLevels
  <2> QED
    BY <2>1 DEF Descended
<1>4. /\ Levels(m2, t2, spaces, l2) /\ taken \subseteq t2
      /\ \A s \in spaces, u \in VPages : vmm_resolve(m2, s, u) = vmm_resolve(mem, s, u)
      /\ a2 # NULL => a2 \in t2 /\ l2[a2] = 2 /\ Entry(m2, current_pml4, v[1]) = a2
  BY <1>3 DEF Walked
<1>5. PICK l3, m3, t3, a3 :
        /\ Descend(W(m2, t2, a2), v[2]) = W(m3, t3, a3)
        /\ Walked(W(m2, t2, a2), l2, W(m3, t3, a3), l3, v[2], 2)
  <2>1. Descended(m2, t2, a2, l2, v[2], 2)
    <3>1. Levels(m2, t2, spaces, l2) /\ (a2 # NULL => a2 \in t2 /\ l2[a2] = 2) /\ 2 \in 1 .. 3 /\ v[2] \in Indexes
      BY <1>1, <1>4
    <3> QED
      BY <3>1, DescendLevels
  <2> QED
    BY <2>1 DEF Descended
<1>6. /\ Levels(m3, t3, spaces, l3) /\ t2 \subseteq t3
      /\ \A g \in t2, j \in Indexes : Entry(m2, g, j) # NULL => Entry(m3, g, j) = Entry(m2, g, j)
      /\ \A s \in spaces, u \in VPages : vmm_resolve(m3, s, u) = vmm_resolve(m2, s, u)
      /\ a3 # NULL => a2 # NULL /\ a3 \in t3 /\ l3[a3] = 3 /\ Entry(m3, a2, v[2]) = a3
  BY <1>5 DEF Walked
<1>7. PICK l4, m4, t4, a4 :
        /\ Descend(W(m3, t3, a3), v[3]) = W(m4, t4, a4)
        /\ Walked(W(m3, t3, a3), l3, W(m4, t4, a4), l4, v[3], 3)
  <2>1. Descended(m3, t3, a3, l3, v[3], 3)
    <3>1. Levels(m3, t3, spaces, l3) /\ (a3 # NULL => a3 \in t3 /\ l3[a3] = 3) /\ 3 \in 1 .. 3 /\ v[3] \in Indexes
      BY <1>1, <1>6
    <3> QED
      BY <3>1, DescendLevels
  <2> QED
    BY <2>1 DEF Descended
<1>8. /\ Levels(m4, t4, spaces, l4)
      /\ \A g \in t3, j \in Indexes : Entry(m3, g, j) # NULL => Entry(m4, g, j) = Entry(m3, g, j)
      /\ \A s \in spaces, u \in VPages : vmm_resolve(m4, s, u) = vmm_resolve(m3, s, u)
      /\ a4 # NULL => a3 # NULL /\ a4 \in t4 /\ l4[a4] = 4 /\ Entry(m4, a3, v[3]) = a4
  BY <1>7 DEF Walked
<1>9. ASSUME a4 # NULL PROVE find(m4, current_pml4, v) = a4
  <2>1. Entry(m2, current_pml4, v[1]) = a2 /\ a2 # NULL /\ current_pml4 \in t2 /\ a2 \in t3 /\ current_pml4 \in t3
    BY <1>2, <1>4, <1>6, <1>8, <1>9
  <2>2. Entry(m4, current_pml4, v[1]) = a2
    BY <1>1, <1>6, <1>8, <2>1
  <2>3. Entry(m4, a2, v[2]) = a3
    BY <1>1, <1>6, <1>8, <1>9, <2>1
  <2> QED
    BY <1>8, <1>9, <2>2, <2>3 DEF find
<1>10. walk(v) = W(m4, t4, a4)
  BY <1>3, <1>5, <1>7 DEF walk
<1>11. \A s \in spaces, u \in VPages : vmm_resolve(m4, s, u) = vmm_resolve(mem, s, u)
  BY <1>4, <1>6, <1>8
<1> HIDE DEF W
<1>12. \E m, tables, at, deeper :
         /\ walk(v) = W(m, tables, at)
         /\ Levels(m, tables, spaces, deeper)
         /\ \A s \in spaces, u \in VPages : vmm_resolve(m, s, u) = vmm_resolve(mem, s, u)
         /\ at # NULL => at \in tables /\ deeper[at] = 4 /\ find(m, current_pml4, v) = at
  BY <1>8, <1>9, <1>10, <1>11
<1> QED
  BY <1>12 DEF W

\* The entry written is the one of page v in the current space and in those that
\* share its top entry: what the caller meant.
LEMMA WriteIntended ==
  ASSUME PageConstants, NEW m, NEW tables, NEW level, Levels(m, tables, spaces, level),
         current_pml4 \in spaces, NEW v \in VPages, NEW p \in Targets \cup {NULL},
         intended = [s \in spaces |-> [u \in VPages |-> intended[s][u]]],
         \A s \in spaces, u \in VPages : vmm_resolve(m, s, u) = intended[s][u],
         NEW t, t = find(m, current_pml4, v), t # NULL,
         Intend(m, v, p)
  PROVE  /\ Levels(Written(m, t, v[4], p), tables, spaces, level)
         /\ intended' = [s \in spaces |-> [u \in VPages |-> intended'[s][u]]]
         /\ \A s \in spaces, u \in VPages : vmm_resolve(Written(m, t, v[4], p), s, u) = intended'[s][u]
<1> DEFINE n == Written(m, t, v[4], p)
<1>1. t \in tables /\ level[t] = 4 /\ v[4] \in Indexes
  <2>1. v[4] \in Indexes
    BY DEF PageConstants
  <2> QED
    BY <2>1, PathLevels
<1>2. /\ Levels(n, tables, spaces, level)
      /\ \A s \in spaces, u \in VPages :
           vmm_resolve(n, s, u) = IF find(m, s, u) = t /\ u[4] = v[4] THEN p ELSE vmm_resolve(m, s, u)
  BY <1>1, WriteLevels
<1> HIDE DEF n
<1>3. \A s \in spaces, u \in VPages :
        (find(m, s, u) = t /\ u[4] = v[4]) <=> (u = v /\ SeenFrom(m, s, v))
  <2> TAKE s \in spaces, u \in VPages
  <2>1. ASSUME find(m, s, u) = t, u[4] = v[4] PROVE u = v /\ SeenFrom(m, s, v)
    BY <2>1, PathInjective DEF SeenFrom
  <2>2. ASSUME u = v, SeenFrom(m, s, v) PROVE find(m, s, u) = t
    BY <2>2, PathShared DEF SeenFrom
  <2> QED
    BY <2>1, <2>2
<1>4. /\ intended' = [s \in spaces |-> [u \in VPages |-> intended'[s][u]]]
      /\ \A s \in spaces, u \in VPages :
           intended'[s][u] = IF u = v /\ SeenFrom(m, s, v) THEN p ELSE intended[s][u]
  <2>1. \A s \in spaces : intended[s] = [u \in VPages |-> intended[s][u]]
    OBVIOUS
  <2>2. \A s \in spaces : intended'[s] =
          [u \in VPages |-> IF u = v /\ SeenFrom(m, s, v) THEN p ELSE intended[s][u]]
    <3> TAKE s \in spaces
    <3>1. intended'[s] = [intended[s] EXCEPT ![v] = IF SeenFrom(m, s, v) THEN p ELSE @]
      BY DEF Intend
    <3> QED
      BY <2>1, <3>1
  <2>3. intended' = [s \in spaces |-> intended'[s]]
    BY DEF Intend
  <2>4. \A s \in spaces : intended'[s] = [u \in VPages |-> intended'[s][u]]
    BY <2>2
  <2>5. intended' = [s \in spaces |-> [u \in VPages |-> intended'[s][u]]]
    BY <2>3, <2>4
  <2> QED
    BY <2>2, <2>5
<1> QED
  BY <1>2, <1>3, <1>4 DEF n

-----------------------------------------------------------------------------
(* The invariant.                                                           *)

\* init_vmm takes over what the boot loader left.
LEMMA PageStart ==
  ASSUME PageConstants, PageInit
  PROVE  PageInv
<1>1. /\ mem = BootMemory /\ taken = BootFrames \cup {Pml4} /\ spaces = {Pml4} /\ current_pml4 = Pml4
      /\ intended = [s \in {Pml4} |-> [v \in VPages |-> vmm_resolve(BootMemory, Pml4, v)]]
  BY DEF PageInit
<1>2. \E level \in [taken -> 1 .. 4] : Levels(mem, taken, spaces, level)
  BY <1>1 DEF PageConstants
<1>3. /\ intended = [s \in spaces |-> [v \in VPages |-> intended[s][v]]]
      /\ \A s \in spaces, v \in VPages : vmm_resolve(mem, s, v) = intended[s][v]
  BY <1>1
<1> QED
  BY <1>1, <1>2, <1>3 DEF PageInv

\* vmm_map: walk adds tables that nothing resolves through yet, and one entry of
\* the last level is written, or the kernel halts.
LEMMA MapStep ==
  ASSUME PageConstants, PageInv, NEW v \in VPages, NEW p \in Targets, vmm_map(v, p)
  PROVE  PageInv'
<1>1. PICK level : Levels(mem, taken, spaces, level)
  BY DEF PageInv
<1>2. /\ current_pml4 \in spaces /\ intended = [s \in spaces |-> [u \in VPages |-> intended[s][u]]]
      /\ UNCHANGED <<spaces, current_pml4>> /\ ~halted
      /\ \A s \in spaces, u \in VPages : vmm_resolve(mem, s, u) = intended[s][u]
  BY DEF PageInv, vmm_map
<1>3. PICK m, tables, at, deeper :
        /\ walk(v) = [mem |-> m, taken |-> tables, at |-> at]
        /\ Levels(m, tables, spaces, deeper)
        /\ \A s \in spaces, u \in VPages : vmm_resolve(m, s, u) = vmm_resolve(mem, s, u)
        /\ at # NULL => at \in tables /\ deeper[at] = 4 /\ find(m, current_pml4, v) = at
  BY <1>1, <1>2, WalkLevels
<1>4. /\ taken' = tables /\ halted' = (at = NULL)
      /\ at = NULL => mem' = m /\ UNCHANGED intended
      /\ at # NULL => mem' = Written(m, at, v[4], p) /\ Intend(m, v, p)
  BY <1>3 DEF vmm_map, Written
<1>5. deeper \in [tables -> 1 .. 4]
  BY <1>3 DEF Levels, Leveled
<1>6. CASE at = NULL
  <2>1. Levels(mem', taken', spaces', deeper) /\ deeper \in [taken' -> 1 .. 4]
    BY <1>2, <1>3, <1>4, <1>5, <1>6
  <2>2. halted' /\ current_pml4' \in spaces' /\ intended' = [s \in spaces' |-> [u \in VPages |-> intended'[s][u]]]
    BY <1>2, <1>4, <1>6
  <2>3. (\E d \in [taken -> 1 .. 4] : Levels(mem, taken, spaces, d))'
    BY <2>1 DEF Levels, Leveled, LinkedDown, EnteredOnce, BootShared
  <2> QED
    BY <2>2, <2>3 DEF PageInv
<1>7. CASE at # NULL
  <2>1. \A s \in spaces, u \in VPages : vmm_resolve(m, s, u) = intended[s][u]
    BY <1>2, <1>3
  <2>2. /\ Levels(Written(m, at, v[4], p), tables, spaces, deeper)
        /\ intended' = [s \in spaces |-> [u \in VPages |-> intended'[s][u]]]
        /\ \A s \in spaces, u \in VPages : vmm_resolve(Written(m, at, v[4], p), s, u) = intended'[s][u]
    BY <1>2, <1>3, <1>4, <1>7, <2>1, WriteIntended
  <2>3. Levels(mem', taken', spaces', deeper) /\ deeper \in [taken' -> 1 .. 4]
    BY <1>2, <1>4, <1>5, <1>7, <2>2
  <2>4. /\ current_pml4' \in spaces' /\ intended' = [s \in spaces' |-> [u \in VPages |-> intended'[s][u]]]
        /\ \A s \in spaces', u \in VPages : vmm_resolve(mem', s, u) = intended'[s][u]
    BY <1>2, <1>4, <1>7, <2>2
  <2>5. (\E d \in [taken -> 1 .. 4] : Levels(mem, taken, spaces, d))'
    BY <2>3 DEF Levels, Leveled, LinkedDown, EnteredOnce, BootShared
  <2> QED
    BY <2>4, <2>5 DEF PageInv, vmm_resolve, find, Entry
<1> QED
  BY <1>6, <1>7

\* vmm_unmap clears one entry of the last level.
LEMMA UnmapStep ==
  ASSUME PageConstants, PageInv, NEW v \in VPages, vmm_unmap(v)
  PROVE  PageInv'
<1>1. PICK level \in [taken -> 1 .. 4] : Levels(mem, taken, spaces, level)
  BY DEF PageInv
<1> DEFINE t == find(mem, current_pml4, v)
<1>2. /\ current_pml4 \in spaces /\ intended = [s \in spaces |-> [u \in VPages |-> intended[s][u]]]
      /\ UNCHANGED <<taken, spaces, current_pml4, halted>>
      /\ \A s \in spaces, u \in VPages : vmm_resolve(mem, s, u) = intended[s][u]
      /\ mem' = Written(mem, t, v[4], NULL) /\ Intend(mem, v, NULL) /\ t # NULL
  BY DEF PageInv, vmm_unmap, Written, vmm_resolve, Entry
<1> HIDE DEF t
<1>3. t = find(mem, current_pml4, v) /\ NULL \in Targets \cup {NULL}
  BY DEF t
<1>4. /\ Levels(Written(mem, t, v[4], NULL), taken, spaces, level)
      /\ intended' = [s \in spaces |-> [u \in VPages |-> intended'[s][u]]]
      /\ \A s \in spaces, u \in VPages : vmm_resolve(Written(mem, t, v[4], NULL), s, u) = intended'[s][u]
  BY <1>1, <1>2, <1>3, WriteIntended
<1>5. Levels(mem', taken', spaces', level) /\ level \in [taken' -> 1 .. 4]
  BY <1>1, <1>2, <1>4
<1>6. /\ current_pml4' \in spaces' /\ intended' = [s \in spaces' |-> [u \in VPages |-> intended'[s][u]]]
      /\ \A s \in spaces', u \in VPages : vmm_resolve(mem', s, u) = intended'[s][u]
  BY <1>2, <1>4
<1>7. (\E d \in [taken -> 1 .. 4] : Levels(mem, taken, spaces, d))'
  BY <1>5 DEF Levels, Leveled, LinkedDown, EnteredOnce, BootShared
<1> QED
  BY <1>6, <1>7 DEF PageInv, vmm_resolve, find, Entry

\* The levels once f is a top table.
Higher(level, f) == [g \in taken \cup {f} |-> IF g = f THEN 1 ELSE level[g]]

\* A new space enters the tables of the upper half from the same entries as the
\* others.
LEMMA CreateLevels ==
  ASSUME PageConstants, NEW level, Levels(mem, taken, spaces, level), current_pml4 \in spaces,
         NEW f \in TableFrames \ taken, NEW m,
         m = KernelHalf(Cleared(mem, f), f)
  PROVE  /\ Levels(m, taken \cup {f}, spaces \cup {f}, Higher(level, f))
         /\ \A g \in taken, j \in Indexes : Entry(m, g, j) = Entry(mem, g, j)
         /\ \A j \in Indexes : Entry(m, f, j) = IF j \in UpperHalf THEN Entry(mem, current_pml4, j) ELSE NULL
<1> DEFINE more == taken \cup {f}
           tops == spaces \cup {f}
           higher == Higher(level, f)
           cur == current_pml4
<1>1. /\ taken \subseteq TableFrames /\ spaces \subseteq taken /\ mem = [g \in TableFrames |-> mem[g]]
      /\ level \in [taken -> 1 .. 4] /\ f \notin taken /\ f \in TableFrames /\ cur \in taken /\ cur # f
      /\ \A g \in taken : mem[g] = [j \in Indexes |-> mem[g][j]] /\ (level[g] = 1 <=> g \in spaces) /\ g # NULL
      /\ f # NULL /\ UpperHalf \subseteq Indexes
  BY DEF Levels, Leveled, PageConstants
<1>2. m = [g \in TableFrames |-> IF g = f THEN [j \in Indexes |-> IF j \in UpperHalf THEN mem[cur][j] ELSE NULL]
                                 ELSE mem[g]]
  <2> DEFINE c == [g \in TableFrames |-> IF g = f THEN Zero ELSE mem[g]]
  <2>1. Cleared(mem, f) = c
    BY <1>1 DEF Cleared
  <2>2. c[cur] = mem[cur] /\ c[f] = Zero
    BY <1>1
  <2>3. [j \in Indexes |-> IF j \in UpperHalf THEN c[cur][j] ELSE c[f][j]]
          = [j \in Indexes |-> IF j \in UpperHalf THEN mem[cur][j] ELSE NULL]
    BY <2>2 DEF Zero
  <2>4. m = [c EXCEPT ![f] = [j \in Indexes |-> IF j \in UpperHalf THEN c[cur][j] ELSE c[f][j]]]
    BY <2>1 DEF KernelHalf
  <2>5. m = [c EXCEPT ![f] = [j \in Indexes |-> IF j \in UpperHalf THEN mem[cur][j] ELSE NULL]]
    BY <2>3, <2>4
  <2> QED
    BY <1>1, <2>5
<1>3. /\ m = [g \in TableFrames |-> m[g]]
      /\ m[f] = [j \in Indexes |-> IF j \in UpperHalf THEN mem[cur][j] ELSE NULL]
      /\ \A g \in taken : m[g] = mem[g]
  BY <1>1, <1>2
<1>4. higher \in [more -> 1 .. 4] /\ higher[f] = 1 /\ \A g \in taken : higher[g] = level[g]
  BY <1>1 DEF Higher
<1> HIDE DEF higher
<1>5. Leveled(m, more, tops, higher)
  <2>1. \A g \in more : m[g] = [j \in Indexes |-> m[g][j]]
    <3> TAKE g \in more
    <3>1. CASE g = f
      BY <1>3, <3>1
    <3>2. CASE g \in taken
      <4>1. m[g] = mem[g] /\ mem[g] = [j \in Indexes |-> mem[g][j]]
        BY <1>1, <1>3, <3>2
      <4> QED
        BY <4>1
    <3> QED
      BY <3>1, <3>2
  <2>2. \A g \in more : higher[g] = 1 <=> g \in tops
    BY <1>1, <1>4
  <2> QED
    BY <1>1, <1>3, <1>4, <2>1, <2>2 DEF Leveled
<1>6. \A j \in Indexes : m[f][j] # NULL => j \in UpperHalf /\ m[f][j] = mem[cur][j]
  BY <1>3
<1>7. LinkedDown(m, more, higher)
  <2> SUFFICES ASSUME NEW g \in more, NEW j \in Indexes, m[g][j] # NULL
               PROVE  IF higher[g] = 4 THEN m[g][j] \in Targets
                      ELSE m[g][j] \in more /\ higher[m[g][j]] = higher[g] + 1
    BY DEF LinkedDown
  <2>1. CASE g = f
    <3>1. m[g][j] = mem[cur][j] /\ mem[cur][j] # NULL /\ level[cur] = 1
      BY <1>1, <1>6, <2>1
    <3>2. mem[cur][j] \in taken /\ level[mem[cur][j]] = 2
      BY <1>1, <3>1 DEF Levels, LinkedDown
    <3> QED
      BY <1>4, <2>1, <3>1, <3>2
  <2>2. CASE g \in taken
    <3>1. m[g][j] = mem[g][j] /\ higher[g] = level[g]
      BY <1>3, <1>4, <2>2
    <3>2. IF level[g] = 4 THEN mem[g][j] \in Targets
          ELSE mem[g][j] \in taken /\ level[mem[g][j]] = level[g] + 1
      BY <2>2, <3>1 DEF Levels, LinkedDown
    <3> QED
      BY <1>4, <3>1, <3>2
  <2> QED
    BY <2>1, <2>2
<1>8. EnteredOnce(m, more, tops, higher)
  <2>1. \A x, y \in taken, j, k \in Indexes :
          level[x] # 4 /\ level[y] # 4 /\ mem[x][j] # NULL /\ mem[x][j] = mem[y][k] =>
            j = k /\ (x = y \/ (x \in spaces /\ y \in spaces /\ j \in UpperHalf))
    BY DEF Levels, EnteredOnce
  <2> SUFFICES ASSUME NEW g \in more, NEW h \in more, NEW j \in Indexes, NEW k \in Indexes,
                      higher[g] # 4, higher[h] # 4, m[g][j] # NULL, m[g][j] = m[h][k]
               PROVE  j = k /\ (g = h \/ (g \in tops /\ h \in tops /\ j \in UpperHalf))
    BY DEF EnteredOnce
  <2> DEFINE x == IF g = f THEN cur ELSE g
             y == IF h = f THEN cur ELSE h
  <2>2. /\ x \in taken /\ level[x] # 4 /\ m[g][j] = mem[x][j]
        /\ g = f => j \in UpperHalf
    BY <1>1, <1>3, <1>4, <1>6
  <2>3. /\ y \in taken /\ level[y] # 4 /\ m[h][k] = mem[y][k]
        /\ h = f => k \in UpperHalf
    BY <1>1, <1>3, <1>4, <1>6
  <2>4. j = k /\ (x = y \/ (x \in spaces /\ y \in spaces /\ j \in UpperHalf))
    <3> HIDE DEF x, y
    <3>1. mem[x][j] # NULL /\ mem[x][j] = mem[y][k]
      BY <2>2, <2>3
    <3>2. \A a, b \in taken : level[a] # 4 /\ level[b] # 4 /\ mem[a][j] # NULL /\ mem[a][j] = mem[b][k] =>
            j = k /\ (a = b \/ (a \in spaces /\ b \in spaces /\ j \in UpperHalf))
      BY <2>1
    <3> QED
      BY <2>2, <2>3, <3>1, <3>2
  <2> QED
    BY <2>2, <2>3, <2>4
<1>9. BootShared(m, tops)
  <2> SUFFICES ASSUME NEW s \in tops, NEW j \in UpperHalf, BootPml4[j] # NULL
               PROVE  m[s][j] = BootPml4[j]
    BY DEF BootShared
  <2>1. \A r \in spaces : mem[r][j] = BootPml4[j]
    BY DEF Levels, BootShared
  <2>2. CASE s = f
    BY <1>1, <1>3, <2>1, <2>2
  <2>3. CASE s \in spaces
    BY <1>1, <1>3, <2>1, <2>3
  <2> QED
    BY <2>2, <2>3
<1>10. Levels(m, more, tops, higher)
  BY <1>5, <1>7, <1>8, <1>9 DEF Levels
<1>11. /\ \A g \in taken, j \in Indexes : Entry(m, g, j) = Entry(mem, g, j)
       /\ \A j \in Indexes : Entry(m, f, j) = IF j \in UpperHalf THEN Entry(mem, cur, j) ELSE NULL
  BY <1>1, <1>3 DEF Entry
<1> QED
  BY <1>10, <1>11 DEF higher

\* create_address_space: the new top table shares the upper half of the current one.
LEMMA CreateStep ==
  ASSUME PageConstants, PageInv, create_address_space
  PROVE  PageInv'
<1>1. PICK level : Levels(mem, taken, spaces, level)
  BY DEF PageInv
<1>2. PICK f \in TableFrames \ taken :
        /\ f = Min(Free) /\ mem' = KernelHalf(Cleared(mem, f), f) /\ taken' = taken \cup {f} /\ spaces' = spaces \cup {f}
        /\ intended' = [s \in spaces' |-> IF s # f THEN intended[s] ELSE
                           [v \in VPages |-> IF v[1] \in UpperHalf THEN intended[current_pml4][v] ELSE NULL]]
  <2>1. Min(Free) \in TableFrames \ taken
    <3>1. Free \in SUBSET TableFrames /\ Free # {} /\ Free = TableFrames \ taken
      BY DEF create_address_space, Free
    <3>2. Min(Free) \in Free
      BY <3>1, LowestFrame
    <3> QED
      BY <3>1, <3>2
  <2> QED
    BY <2>1 DEF create_address_space
<1>3. /\ current_pml4 \in spaces /\ UNCHANGED <<current_pml4, halted>>
      /\ intended = [s \in spaces |-> [u \in VPages |-> intended[s][u]]]
      /\ \A s \in spaces, u \in VPages : vmm_resolve(mem, s, u) = intended[s][u]
  BY DEF PageInv, create_address_space
<1> DEFINE higher == Higher(level, f)
<1>4. /\ Levels(mem', taken \cup {f}, spaces \cup {f}, higher)
      /\ \A g \in taken, j \in Indexes : Entry(mem', g, j) = Entry(mem, g, j)
      /\ \A j \in Indexes : Entry(mem', f, j) = IF j \in UpperHalf THEN Entry(mem, current_pml4, j) ELSE NULL
  <2>1. PICK m : m = mem' /\ m = KernelHalf(Cleared(mem, f), f)
    BY <1>2
  <2>2. current_pml4 \in spaces
    BY <1>3
  <2>3. /\ Levels(m, taken \cup {f}, spaces \cup {f}, Higher(level, f))
        /\ \A g \in taken, j \in Indexes : Entry(m, g, j) = Entry(mem, g, j)
        /\ \A j \in Indexes : Entry(m, f, j) = IF j \in UpperHalf THEN Entry(mem, current_pml4, j) ELSE NULL
    <3>1. f \in TableFrames \ taken
      OBVIOUS
    <3>2. m = KernelHalf(Cleared(mem, f), f)
      BY <2>1
    <3> QED
      BY ONLY PageConstants, <1>1, <2>2, <3>1, <3>2, CreateLevels
  <2> QED
    BY <2>1, <2>3
<1> HIDE DEF higher
<1>5. higher \in [taken' -> 1 .. 4]
  BY <1>2, <1>4 DEF Levels, Leveled
<1>6. (\E d \in [taken -> 1 .. 4] : Levels(mem, taken, spaces, d))'
  BY <1>2, <1>4, <1>5 DEF Levels, Leveled, LinkedDown, EnteredOnce, BootShared
<1>7. f \notin spaces
  BY <1>1 DEF Levels, Leveled
<1>8. intended' = [s \in spaces' |-> [u \in VPages |-> intended'[s][u]]]
  <2>1. \A s \in spaces' : intended'[s] = [u \in VPages |-> intended'[s][u]]
    <3> TAKE s \in spaces'
    <3>1. CASE s = f
      BY <1>2, <3>1
    <3>2. CASE s # f
      <4>1. s \in spaces /\ intended'[s] = intended[s]
        BY <1>2, <3>2
      <4>2. intended[s] = [u \in VPages |-> intended[s][u]]
        BY <1>3, <4>1
      <4> QED
        BY <4>1, <4>2
    <3> QED
      BY <3>1, <3>2
  <2>2. intended' = [s \in spaces' |-> intended'[s]]
    BY <1>2
  <2> QED
    BY <2>1, <2>2
<1>9. ASSUME NEW s \in spaces', NEW v \in VPages
      PROVE  vmm_resolve(mem', s, v) = intended'[s][v]
  <2> DEFINE o == IF s = f THEN current_pml4 ELSE s
             b == Entry(mem, o, v[1])
             c == Entry(mem, b, v[2])
             d == Entry(mem, c, v[3])
  <2>1. o \in spaces
    BY <1>2, <1>3
  <2> HIDE DEF o
  <2>2. /\ o \in taken /\ (b # NULL => b \in taken) /\ (c # NULL => c \in taken) /\ (d # NULL => d \in taken)
        /\ vmm_resolve(mem, o, v) = Entry(mem, d, v[4])
    BY <1>1, <2>1, PathLevels DEF vmm_resolve
  <2>3. v[1] \in Indexes /\ v[2] \in Indexes /\ v[3] \in Indexes /\ v[4] \in Indexes
    BY DEF PageConstants
  <2> HIDE DEF b, c, d
  <2>4. \A j : Entry(mem', NULL, j) = NULL /\ Entry(mem, NULL, j) = NULL
    BY DEF Entry
  <2>5. Entry(mem', b, v[2]) = c /\ Entry(mem', c, v[3]) = d /\ Entry(mem', d, v[4]) = Entry(mem, d, v[4])
    BY <1>4, <2>2, <2>3, <2>4 DEF c, d
  <2>6. CASE s # f
    <3>1. Entry(mem', s, v[1]) = b /\ o = s
      BY <1>4, <2>2, <2>3, <2>6 DEF b, o
    <3>2. vmm_resolve(mem', s, v) = vmm_resolve(mem, s, v)
      BY <2>2, <2>5, <3>1 DEF vmm_resolve, find
    <3> QED
      BY <1>2, <1>3, <2>1, <2>6, <3>1, <3>2
  <2>7. CASE s = f
    <3>1. intended'[s][v] = IF v[1] \in UpperHalf THEN intended[current_pml4][v] ELSE NULL
      BY <1>2, <2>7
    <3>2. o = current_pml4
      BY <2>7 DEF o
    <3>3. CASE v[1] \in UpperHalf
      <4>1. Entry(mem', s, v[1]) = b
        BY <1>4, <2>3, <2>7, <3>2, <3>3 DEF b
      <4>2. vmm_resolve(mem', s, v) = vmm_resolve(mem, o, v)
        BY <2>2, <2>5, <4>1 DEF vmm_resolve, find
      <4> QED
        BY <1>3, <3>1, <3>2, <3>3, <4>2
    <3>4. CASE v[1] \notin UpperHalf
      <4>1. Entry(mem', s, v[1]) = NULL
        BY <1>4, <2>3, <2>7, <3>4
      <4> QED
        BY <2>4, <3>1, <3>4, <4>1 DEF vmm_resolve, find
    <3> QED
      BY <3>3, <3>4
  <2> QED
    BY <2>6, <2>7
<1>10. current_pml4' \in spaces'
  BY <1>2, <1>3
<1> QED
  BY <1>6, <1>8, <1>9, <1>10 DEF PageInv, vmm_resolve, find, Entry

\* Another space becomes the current one, or the kernel stops.
LEMMA LoadStep ==
  ASSUME PageInv, UNCHANGED <<mem, taken, spaces, intended>>, ~halted' => ~halted, current_pml4' \in spaces
  PROVE  PageInv'
<1>1. PICK level \in [taken -> 1 .. 4] : Levels(mem, taken, spaces, level)
  BY DEF PageInv
<1>2. Levels(mem', taken', spaces', level) /\ level \in [taken' -> 1 .. 4]
  BY <1>1
<1>3. (\E d \in [taken -> 1 .. 4] : Levels(mem, taken, spaces, d))'
  BY <1>2 DEF Levels, Leveled, LinkedDown, EnteredOnce, BootShared
<1>4. /\ current_pml4' \in spaces' /\ intended' = [s \in spaces' |-> [v \in VPages |-> intended'[s][v]]]
      /\ ~halted' => \A s \in spaces', v \in VPages : vmm_resolve(mem', s, v) = intended'[s][v]
  BY DEF PageInv
<1> QED
  BY <1>3, <1>4 DEF PageInv, vmm_resolve, find, Entry

\* Every step keeps the invariant.
LEMMA PageStep ==
  ASSUME PageConstants, PageInv, [PageNext]_pageVars
  PROVE  PageInv'
<1>1. CASE UNCHANGED pageVars
  BY <1>1, LoadStep DEF pageVars, PageInv
<1>2. ASSUME NEW s \in spaces, vmm_load_cr3(s) PROVE PageInv'
  BY <1>2, LoadStep DEF vmm_load_cr3
<1>3. CASE NoAddressSpace
  BY <1>3, LoadStep DEF NoAddressSpace, PageInv
<1> QED
  BY <1>1, <1>2, <1>3, MapStep, UnmapStep, CreateStep DEF PageNext

-----------------------------------------------------------------------------
\* vmm_resolve finds in every address space exactly what vmm_map and vmm_unmap
\* made of each page, and walk never links a table from two places, however the
\* spaces are created, switched and filled, also when memory runs out half way,
\* whatever tables the boot loader left and whichever entries it left absent.
THEOREM ResolveExactHolds == PageSpec => []ResolveExact
<1> USE PageAssumption
<1>1. PageInit => PageInv
  BY PageStart
<1>2. PageInv /\ [PageNext]_pageVars => PageInv'
  BY PageStep
<1>3. PageInv => ResolveExact
  <2> SUFFICES ASSUME PageInv
               PROVE  /\ TablesFormTrees
                      /\ ~halted => \A s, r \in spaces, v \in VPages :
                           v[1] \in UpperHalf /\ BootPml4[v[1]] # NULL => intended[s][v] = intended[r][v]
    BY DEF PageInv, ResolveExact
  <2>1. PICK level : Levels(mem, taken, spaces, level)
    BY DEF PageInv
  <2>10. ASSUME ~halted, NEW s \in spaces, NEW r \in spaces, NEW v \in VPages,
                v[1] \in UpperHalf, BootPml4[v[1]] # NULL
         PROVE  intended[s][v] = intended[r][v]
    <3>1. mem[s][v[1]] = mem[r][v[1]]
      BY <2>1, <2>10 DEF Levels, BootShared
    <3>2. find(mem, s, v) = find(mem, r, v)
      BY <2>1, <3>1, PathShared
    <3>3. vmm_resolve(mem, s, v) = vmm_resolve(mem, r, v)
      BY <3>2 DEF vmm_resolve
    <3> QED
      BY <2>10, <3>3 DEF PageInv
  <2>2. \A t \in spaces : t \in taken /\ level[t] = 1
    BY <2>1 DEF Levels, Leveled
  <2>3. \A t \in taken, i \in Indexes : mem[t][i] # NULL /\ level[t] # 4 =>
          mem[t][i] \in taken /\ level[mem[t][i]] = level[t] + 1
    BY <2>1 DEF Levels, LinkedDown
  <2>4. \A t \in Entered(spaces) : t \in taken /\ level[t] = 2
    BY <2>2, <2>3 DEF Entered
  <2>5. \A t \in Entered(Entered(spaces)) : t \in taken /\ level[t] = 3
    BY <2>3, <2>4 DEF Entered
  <2>6. \A a \in Links : a[1] \in taken /\ a[2] \in Indexes /\ level[a[1]] \in 1 .. 3 /\ mem[a[1]][a[2]] # NULL
    BY <2>2, <2>4, <2>5 DEF Links
  <2>11. SUFFICES ASSUME NEW a \in Links, NEW b \in Links
               PROVE  /\ mem[a[1]][a[2]] \notin spaces
                      /\ a # b /\ mem[a[1]][a[2]] = mem[b[1]][b[2]] =>
                           a[1] \in spaces /\ b[1] \in spaces /\ a[2] = b[2] /\ a[2] \in UpperHalf
    BY <2>10 DEF TablesFormTrees
  <2>7. mem[a[1]][a[2]] \notin spaces
    <3>1. level[a[1]] + 1 # 1 /\ level[a[1]] # 4
      BY <2>6
    <3>2. level[mem[a[1]][a[2]]] = level[a[1]] + 1
      BY <2>3, <2>6, <3>1
    <3> QED
      BY <2>2, <3>1, <3>2
  <2>8. a # b => ~(a[1] = b[1] /\ a[2] = b[2])
    BY DEF Links
  <2>9. mem[a[1]][a[2]] = mem[b[1]][b[2]] =>
          a[2] = b[2] /\ (a[1] = b[1] \/ (a[1] \in spaces /\ b[1] \in spaces /\ a[2] \in UpperHalf))
    <3>1. level[a[1]] # 4 /\ level[b[1]] # 4
      BY <2>6
    <3>2. \A t, u \in taken, i, j \in Indexes :
            level[t] # 4 /\ level[u] # 4 /\ mem[t][i] # NULL /\ mem[t][i] = mem[u][j] =>
              i = j /\ (t = u \/ (t \in spaces /\ u \in spaces /\ i \in UpperHalf))
      BY <2>1 DEF Levels, EnteredOnce
    <3> QED
      BY <2>6, <3>1, <3>2
  <2> QED
    BY <2>7, <2>8, <2>9
<1> QED
  BY <1>1, <1>2, <1>3, PTL DEF PageSpec
=============================================================================
