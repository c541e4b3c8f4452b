----------------------------- MODULE Hashtable ------------------------------
(***************************************************************************)
(* The hash table of hashtable.c: an array of buckets, each a doubly linked *)
(* list of entries that come from a slab cache and own a copy of their key. *)
(* The tables of the file system are used under one spinlock each, so a     *)
(* call is one step.  An entry or a key copy may fail to be allocated.      *)
(*                                                                         *)
(* content is what the caller stored: the function the table stands for.    *)
(***************************************************************************)
EXTENDS Integers, FiniteSets, Null

CONSTANTS
  Keys,       \* the keys, each with its bytes and size
  Values,
  hash,       \* the FNV-1a hash of each key,
  capacity,   \* and the number of buckets
  EntryObjects  \* the objects of hash_entry_cache

ASSUME HashAssumption ==
  /\ hash \in [Keys -> Nat] /\ capacity \in Nat \ {0}
  /\ IsFiniteSet(EntryObjects) /\ NULL \notin EntryObjects
  /\ NULL \notin [0 .. capacity - 1 -> EntryObjects \cup {NULL}]

VARIABLES
  entries,      \* the first entry of each bucket, or NULL after hashtable_destroy
  entry,        \* the hash_entry_t in each object
  used,         \* the objects allocated from the cache
  entry_count,
  content

tableVars == <<entries, entry, used, entry_count, content>>

-----------------------------------------------------------------------------
(* Faulty variants of definitions below, named by what is wrong with them.  *)

same_hash(e, k) == entry[e].hash = hash[k]

-----------------------------------------------------------------------------
NoEntry == [next |-> NULL, prev |-> NULL, hash |-> 0, key |-> NULL, value |-> NULL]

Buckets == 0 .. capacity - 1

Bucket(k) == hash[k] % capacity

\* hashtable_init.
NoEntries == [b \in Buckets |-> NULL]

TableInit ==
  /\ entries = NoEntries
  /\ entry = [e \in EntryObjects |-> NoEntry]
  /\ used = {} /\ entry_count = 0
  /\ content = [k \in Keys |-> NULL]

\* Hash, size and bytes must agree.
Matches(e, k) == entry[e].hash = hash[k] /\ entry[e].key = k

\* The entries that a walk of the whole bucket b meets, and those that get_entry
\* looks at until one matches: the least sets closed under the walk's step.
Reach(b) ==
  { e \in EntryObjects :
      \A S \in SUBSET EntryObjects :
        /\ entries[b] \in S \cup {NULL}
        /\ \A x \in S : entry[x].next \in S \cup {NULL}
        => e \in S }

Looked(k) ==
  { e \in EntryObjects :
      \A S \in SUBSET EntryObjects :
        /\ entries[Bucket(k)] \in S \cup {NULL}
        /\ \A x \in S : Matches(x, k) \/ entry[x].next \in S \cup {NULL}
        => e \in S }

get_entry(k) ==
  LET found == { e \in Looked(k) : Matches(e, k) }
  IN IF found = {} THEN NULL ELSE CHOOSE e \in found : TRUE

hashtable_get(k) == IF get_entry(k) = NULL THEN NULL ELSE entry[get_entry(k)].value

\* The new first entry becomes the predecessor of the one it displaces.
LinkedBack(m, e) == IF m[e].next = NULL THEN m ELSE [m EXCEPT ![m[e].next].prev = e]

Counted(n) == entry_count + n

\* hashtable_set of a key that has an entry, ...
SetExisting(k, v) ==
  LET e == get_entry(k) IN
  /\ entries # NULL /\ e # NULL
  /\ entry' = [entry EXCEPT ![e].value = v]
  /\ content' = [content EXCEPT ![k] = v]
  /\ UNCHANGED <<entries, used, entry_count>>

\* ... and of a new one, in object e; without one it returns -1 and changes
\* nothing.
SetNew(k, v, e) ==
  LET b == Bucket(k)
      new == [next |-> entries[b], prev |-> NULL, hash |-> hash[k], key |-> k, value |-> v]
  IN
  /\ entries # NULL /\ get_entry(k) = NULL /\ e \notin used
  /\ entry' = LinkedBack([entry EXCEPT ![e] = new], e)
  /\ entries' = [entries EXCEPT ![b] = e]
  /\ used' = used \cup {e}
  /\ entry_count' = Counted(1)
  /\ content' = [content EXCEPT ![k] = v]

hashtable_remove(k) ==
  LET e == get_entry(k)  p == entry[e].prev  n == entry[e].next IN
  /\ entries # NULL /\ e # NULL
  /\ entries' = IF p = NULL THEN [entries EXCEPT ![Bucket(k)] = n] ELSE entries
  /\ entry' = [o \in EntryObjects |->
       IF o = e THEN NoEntry
       ELSE [entry[o] EXCEPT !.next = IF o = p THEN n ELSE @, !.prev = IF o = n THEN p ELSE @]]
  /\ used' = used \ {e}
  /\ entry_count' = Counted(-1)
  /\ content' = [content EXCEPT ![k] = NULL]

hashtable_destroy ==
  /\ entries # NULL
  /\ used' = used \ UNION { Reach(b) : b \in Buckets }
  /\ entry' = [o \in EntryObjects |-> IF o \in used' THEN entry[o] ELSE NoEntry]
  /\ entries' = NULL /\ entry_count' = 0
  /\ content' = [k \in Keys |-> NULL]

hashtable_init ==
  /\ entries = NULL
  /\ entries' = NoEntries /\ entry_count' = 0
  /\ UNCHANGED <<entry, used, content>>

TableNext ==
  \/ \E k \in Keys, v \in Values :
       SetExisting(k, v) \/ \E e \in EntryObjects : SetNew(k, v, e)
  \/ \E k \in Keys : hashtable_remove(k)
  \/ hashtable_destroy \/ hashtable_init

TableSpec == TableInit /\ [][TableNext]_tableVars

-----------------------------------------------------------------------------
\* The lists stay doubly linked, disjoint and free of lost entries through any
\* sequence of insertions at the head and removals anywhere, and hashtable_destroy
\* frees every entry; entry_count counts them.
BucketsExact ==
  /\ entry_count = Cardinality(used)
  /\ entries = NULL => used = {}
  /\ entries # NULL =>
       /\ UNION { Reach(b) : b \in Buckets } = used
       /\ \A b \in Buckets : entries[b] # NULL => entry[entries[b]].prev = NULL
       /\ \A e \in used :
            /\ entry[e].next # NULL => entry[entry[e].next].prev = e
            /\ e \in Reach(Bucket(entry[e].key))

\* hashtable_get returns what was last set and not removed since, whichever
\* keys share a bucket or even a hash, and the lists behind it are exact.
TableIsFunction ==
  /\ entries # NULL => \A k \in Keys : hashtable_get(k) = content[k]
  /\ BucketsExact
=============================================================================
