----------------------------- MODULE PageTables -----------------------------
(***************************************************************************)
(* The four-level page tables of vmm.c.  A table is a page of memory whose  *)
(* entries name the table of the next level or, in the last, the page that  *)
(* is mapped.  A virtual page is the list of the four indexes that          *)
(* PML4_INDEX to PT_INDEX cut out of its address.                           *)
(*                                                                         *)
(* intended is what the callers asked for: a page of the lower half of the  *)
(* top table belongs to the space it was mapped in, one of the upper half   *)
(* to every space whose top table has the same entry for it, which is a     *)
(* matter of when create_address_space copied that half.                    *)
(*                                                                         *)
(* Entries that map a large page are left out: walk does not test for one   *)
(* and would take the page for a table.  The virtual pages of a model are   *)
(* those above which the boot loader has none.                              *)
(***************************************************************************)
EXTENDS Integers, FiniteSetsExt, Null

CONSTANTS
  Indexes,      \* the entries of a table
  UpperHalf,    \* those that the address spaces share, in the top table
  VPages,       \* bound: the virtual pages used,
  Targets,      \* and the physical pages they are mapped to
  TableFrames,  \* the frames that may be tables,
  Pml4,         \* the one that pmm_alloc_page gives init_vmm,
  BootPml4,     \* the upper half of the boot loader's top table,
  BootTables,   \* the tables it leads to, with what they hold,
  Garbage       \* and what a fresh frame holds

VARIABLES
  mem,           \* the entries of each table: NULL if not present
  taken,         \* the frames that are tables
  spaces,        \* the top tables, and the current one
  current_pml4,
  halted,        \* alloc_table found no memory
  intended

pageVars == <<mem, taken, spaces, current_pml4, halted, intended>>

-----------------------------------------------------------------------------
(* What memory that holds page tables looks like.                           *)

\* Each of the tables has a level, 1 if it is a top table.
Leveled(m, tables, tops, level) ==
  /\ tables \subseteq TableFrames /\ tops \subseteq tables
  /\ m = [f \in TableFrames |-> m[f]]
  /\ \A t \in tables : m[t] = [i \in Indexes |-> m[t][i]]
  /\ level \in [tables -> 1 .. 4]
  /\ \A t \in tables : level[t] = 1 <=> t \in tops

\* The entries of the first three levels lead one level down, and those of the
\* last to the pages mapped.
LinkedDown(m, tables, level) ==
  \A t \in tables, i \in Indexes : m[t][i] # NULL =>
    IF level[t] = 4 THEN m[t][i] \in Targets
    ELSE m[t][i] \in tables /\ level[m[t][i]] = level[t] + 1

\* A table is entered from one place, if not from the upper half of top tables.
EnteredOnce(m, tables, tops, level) ==
  \A t, u \in tables, i, j \in Indexes :
    level[t] # 4 /\ level[u] # 4 /\ m[t][i] # NULL /\ m[t][i] = m[u][j] =>
      i = j /\ (t = u \/ (t \in tops /\ u \in tops /\ i \in UpperHalf))

\* Every top table has the boot loader's entries of the upper half.
BootShared(m, tops) == \A s \in tops, i \in UpperHalf : BootPml4[i] # NULL => m[s][i] = BootPml4[i]

Levels(m, tables, tops, level) ==
  /\ Leveled(m, tables, tops, level) /\ LinkedDown(m, tables, level)
  /\ EnteredOnce(m, tables, tops, level) /\ BootShared(m, tops)

BootFrames == DOMAIN BootTables

\* The memory once init_vmm has copied the upper half of the boot loader's top
\* table, absent entries included.
BootMemory ==
  [f \in TableFrames |->
     CASE f = Pml4 -> [i \in Indexes |-> IF i \in UpperHalf THEN BootPml4[i] ELSE NULL]
       [] f \in BootFrames -> BootTables[f]
       [] OTHER -> Garbage]

\* What the theorems assume of the constants: what the boot loader left is a tree
\* of tables, and a frame is not 0.  A page may be mapped to a frame that is a
\* table, as init_vmm does.
PageConstants ==
  /\ TableFrames \subseteq Nat /\ NULL \notin TableFrames \cup Targets
  /\ UpperHalf \subseteq Indexes
  /\ VPages \subseteq [1 .. 4 -> Indexes]
  /\ \E level \in [BootFrames \cup {Pml4} -> 1 .. 4] :
       Levels(BootMemory, BootFrames \cup {Pml4}, {Pml4}, level)

ASSUME PageAssumption == PageConstants

-----------------------------------------------------------------------------
(* Faulty variants of definitions below, named by what is wrong with them.  *)

nothing_shared(m, f) == m

-----------------------------------------------------------------------------
Zero == [i \in Indexes |-> NULL]

Free == TableFrames \ taken

\* alloc_table clears the frame it takes.
Cleared(m, f) == [m EXCEPT ![f] = Zero]

\* The upper half of the current top table, copied to a new one.
KernelHalf(m, f) ==
  [m EXCEPT ![f] = [i \in Indexes |-> IF i \in UpperHalf THEN m[current_pml4][i] ELSE m[f][i]]]

\* One level of walk: the entry i of the table w.at leads to the next table.  If
\* it is not present a new table is linked there, or alloc_table stops the kernel
\* for want of memory, with what is linked so far.
Descend(w, i) ==
  LET next == w.mem[w.at][i]
      free == TableFrames \ w.taken
      new  == Min(free)
  IN CASE w.at = NULL -> w
       [] w.at # NULL /\ next # NULL -> [w EXCEPT !.at = next]
       [] w.at # NULL /\ next = NULL /\ free = {} -> [w EXCEPT !.at = NULL]
       [] OTHER -> [mem   |-> [Cleared(w.mem, new) EXCEPT ![w.at][i] = new],
                    taken |-> w.taken \cup {new},
                    at    |-> new]

\* walk: the memory and the frames taken once the tables on the way to page v
\* exist, and the last of them.
walk(v) ==
  Descend(Descend(Descend([mem |-> mem, taken |-> taken, at |-> current_pml4], v[1]), v[2]), v[3])

\* walk without create, in the memory m: the entry i of the table t, and the last
\* table on the way to page v in space s, or NULL.
Entry(m, t, i) == IF t = NULL THEN NULL ELSE m[t][i]

find(m, s, v) == Entry(m, Entry(m, Entry(m, s, v[1]), v[2]), v[3])

\* vmm_resolve, of the page.
vmm_resolve(m, s, v) == Entry(m, find(m, s, v), v[4])

\* Page v is mapped to p, or to nothing, through the tables of m: in the current
\* space, and if it is in the upper half in those that share its top entry.
SeenFrom(m, s, v) ==
  s = current_pml4 \/ (v[1] \in UpperHalf /\ m[s][v[1]] = m[current_pml4][v[1]])

Intend(m, v, p) ==
  intended' = [s \in spaces |-> [intended[s] EXCEPT ![v] = IF SeenFrom(m, s, v) THEN p ELSE @]]

\* init_vmm, up to the pages that it maps with vmm_map.
PageInit ==
  /\ mem = BootMemory
  /\ taken = BootFrames \cup {Pml4}
  /\ spaces = {Pml4} /\ current_pml4 = Pml4
  /\ halted = FALSE
  /\ intended = [s \in {Pml4} |-> [v \in VPages |-> vmm_resolve(BootMemory, Pml4, v)]]

vmm_map(v, p) ==
  LET w == walk(v) IN
  /\ ~halted
  /\ taken' = w.taken
  /\ halted' = (w.at = NULL)
  /\ IF w.at = NULL
     THEN mem' = w.mem /\ UNCHANGED intended
     ELSE mem' = [w.mem EXCEPT ![w.at][v[4]] = p] /\ Intend(w.mem, v, p)
  /\ UNCHANGED <<spaces, current_pml4>>

vmm_unmap(v) ==
  LET t == find(mem, current_pml4, v) IN
  /\ ~halted /\ vmm_resolve(mem, current_pml4, v) # NULL
  /\ mem' = [mem EXCEPT ![t][v[4]] = NULL]
  /\ Intend(mem, v, NULL)
  /\ UNCHANGED <<taken, spaces, current_pml4, halted>>

\* The new space gets what the upper half of the current one holds now.
create_address_space ==
  LET f == Min(Free) IN
  /\ ~halted /\ Free # {}
  /\ mem' = KernelHalf(Cleared(mem, f), f)
  /\ taken' = taken \cup {f}
  /\ spaces' = spaces \cup {f}
  /\ intended' = [s \in spaces' |-> IF s # f THEN intended[s] ELSE
                    [v \in VPages |-> IF v[1] \in UpperHalf THEN intended[current_pml4][v] ELSE NULL]]
  /\ UNCHANGED <<current_pml4, halted>>

\* create_address_space stops the kernel when there is no memory.
NoAddressSpace ==
  /\ ~halted /\ Free = {}
  /\ halted' = TRUE
  /\ UNCHANGED <<mem, taken, spaces, current_pml4, intended>>

\* vmm_load_cr3.  So far init_vmm is its only caller; it is there for the spaces
\* that process_create makes, any of which may be the next.
vmm_load_cr3(s) ==
  /\ ~halted /\ s # current_pml4
  /\ current_pml4' = s
  /\ UNCHANGED <<mem, taken, spaces, halted, intended>>

PageNext ==
  \/ \E v \in VPages : vmm_unmap(v) \/ \E p \in Targets : vmm_map(v, p)
  \/ create_address_space \/ NoAddressSpace
  \/ \E s \in spaces : vmm_load_cr3(s)

PageSpec == PageInit /\ [][PageNext]_pageVars

-----------------------------------------------------------------------------
\* The tables that the tables ts lead to, and the entries of the first three
\* levels that lead there.
Entered(ts) == { mem[t][i] : t \in ts, i \in Indexes } \ {NULL}
Links ==
  { a \in (spaces \cup Entered(spaces) \cup Entered(Entered(spaces))) \X Indexes : mem[a[1]][a[2]] # NULL }

\* No table is entered from two places, except from the same entry of two top
\* tables, and no top table from below.
TablesFormTrees ==
  \A a, b \in Links :
    /\ mem[a[1]][a[2]] \notin spaces
    /\ a # b /\ mem[a[1]][a[2]] = mem[b[1]][b[2]] =>
         a[1] \in spaces /\ b[1] \in spaces /\ a[2] = b[2] /\ a[2] \in UpperHalf

\* In every address space each page resolves to what was last mapped there: a
\* mapping never disturbs another page, the lower half of another space, or an
\* upper page of a space that was made before its top entry existed.  Below the
\* entries that the boot loader had, what the kernel maps is seen in all spaces,
\* whenever they were made.  The tables of each space form a tree.
ResolveExact ==
  /\ ~halted => \A s \in spaces, v \in VPages : vmm_resolve(mem, s, v) = intended[s][v]
  /\ ~halted => \A s, r \in spaces, v \in VPages :
       v[1] \in UpperHalf /\ BootPml4[v[1]] # NULL => intended[s][v] = intended[r][v]
  /\ TablesFormTrees

-----------------------------------------------------------------------------
(* The inductive invariant behind the theorem of PageTablesProofs.          *)

PageInv ==
  /\ \E level \in [taken -> 1 .. 4] : Levels(mem, taken, spaces, level)
  /\ current_pml4 \in spaces
  /\ intended = [s \in spaces |-> [v \in VPages |-> intended[s][v]]]
  /\ ~halted => \A s \in spaces, v \in VPages : vmm_resolve(mem, s, v) = intended[s][v]
=============================================================================
