-------------------------------- MODULE Vfs ---------------------------------
(***************************************************************************)
(* The virtual file system: vnodes and their reference counts (vnode.c),    *)
(* the table of mounts (vfs.c) and the cache of names (path.c).             *)
(*                                                                         *)
(* A client is a thread inside these files.  What it has still to do is the *)
(* list todo of small steps; other clients run between any two of them,     *)
(* except while a spinlock is held (interrupts are off, there is one CPU):  *)
(* a section that does nothing else is one step, and spin names the client  *)
(* inside one that drops a reference.                                       *)
(*                                                                         *)
(* No filesystem exists yet.  The ones modelled follow the only discipline  *)
(* the code supports: to the reference vnode_alloc returns they add one for *)
(* the table, which is the one vfs_purge_vnodes drops; they mount an object *)
(* once and agree to unmount it once; and they do not give the same vnode   *)
(* two parents at a time.  Calls on a filesystem and its unmount are not    *)
(* kept apart: a client whose filesystem or root vnode has gone meanwhile   *)
(* runs into one of the faults, and the model stops there.                  *)
(***************************************************************************)
EXTENDS Integers, Sequences, SequencesExt

CONSTANTS
  NULL,
  Clients,      \* the threads that use the file system
  Vnodes,       \* the objects of vnode_cache, by number
  Filesystems,  \* the objects of vfs_cache, by address
  Nodeids,      \* the node numbers of a filesystem, its root first
  Root,
  Paths,        \* where filesystems are mounted
  RootFs,       \* the filesystem that is mounted first,
  RootPath,     \* and where
  Names,        \* what the name field of a name cache key may hold
  MaxCalls      \* bound: the number of calls

ASSUME NullAssumption ==
  NULL \notin Clients \cup Filesystems \cup Paths /\ NULL \notin Nat
ASSUME VnodesAssumption == Vnodes \subseteq Nat /\ Vnodes # {} /\ IsFiniteSet(Vnodes)
ASSUME FiniteAssumption ==
  /\ IsFiniteSet(Clients) /\ IsFiniteSet(Filesystems)
  /\ IsFiniteSet(Nodeids) /\ IsFiniteSet(Names)
ASSUME RootAssumption == RootFs \in Filesystems /\ RootPath \in Paths /\ Root \in Nodeids

VARIABLES
  vn,           \* each vnode's [alloc, count, freeing, parent]
  vnode_table,  \* the vnode of each filesystem and node number
  mount_table,  \* the filesystem of each path
  namecache,    \* the vnode of each key, a directory's address and a name field
  vfs,          \* each filesystem's [mounted, covered, path]
  held,         \* the references each client has to each vnode
  lost,         \* the references to each vnode that nobody can drop any more
  leftover,     \* filesystems with entries that no purge will remove
  todo, spin, calls, fault

tables == <<vnode_table, mount_table, namecache, vfs, leftover>>
vars == <<vn, tables, held, lost, todo, spin, calls, fault>>

-----------------------------------------------------------------------------
(* Faulty variants of definitions below, named by what is wrong with them.  *)

entry_not_referenced(w, v) == w
entries_left(f, id)     == vnode_table
mount_entry_kept(f)     == mount_table
flag_found_set(r)       == TRUE

-----------------------------------------------------------------------------
Blank == [alloc |-> FALSE, count |-> 0, freeing |-> FALSE, parent |-> NULL]

NewVfs == [mounted |-> FALSE, covered |-> NULL, path |-> NULL]

RootVnode == Min(Vnodes)

\* init_vfs and namei_init, after which the root filesystem was mounted and its
\* root vnode loaded, to which every client has a reference.
Init ==
  /\ vn = [v \in Vnodes |->
             IF v = RootVnode THEN [Blank EXCEPT !.alloc = TRUE, !.count = 1 + Cardinality(Clients)]
             ELSE Blank]
  /\ vnode_table = [k \in Filesystems \X Nodeids |-> IF k = <<RootFs, Root>> THEN RootVnode ELSE NULL]
  /\ mount_table = [p \in Paths |-> IF p = RootPath THEN RootFs ELSE NULL]
  /\ namecache = [k \in Vnodes \X Names |-> NULL]
  /\ vfs = [f \in Filesystems |->
              IF f = RootFs THEN [NewVfs EXCEPT !.mounted = TRUE, !.path = RootPath] ELSE NewVfs]
  /\ held = [c \in Clients |-> [v \in Vnodes |-> IF v = RootVnode THEN 1 ELSE 0]]
  /\ lost = [v \in Vnodes |-> 0]
  /\ leftover = {}
  /\ todo = [c \in Clients |-> <<>>]
  /\ spin = NULL /\ calls = 0 /\ fault = NULL

\* Client c may call; its call goes on with the steps of l.
Idle(c) == fault = NULL /\ spin = NULL /\ todo[c] = <<>> /\ calls < MaxCalls

Call(c, l) ==
  /\ calls' = calls + 1
  /\ todo' = [todo EXCEPT ![c] = l]

\* The step client c is at, and its replacement by the steps of l.
At(c, s) ==
  /\ fault = NULL /\ spin \in {NULL, c} /\ todo[c] # <<>>
  /\ Head(todo[c])[1] = s

Arg(c) == Head(todo[c])

Then(c, l) == todo' = [todo EXCEPT ![c] = l \o Tail(@)] /\ UNCHANGED calls

Unrefs(v) == IF v = NULL THEN <<>> ELSE << <<"unref", v>> >>

\* The steps that some client has still to do.
Pending == UNION { Range(todo[c]) : c \in Clients }

Doing(op, x) == \E s \in Pending : s[1] = op /\ s[2] = x

\* The steps of a mount or an unmount; nobody mounts or unmounts f.
FsSteps == {"mount", "purge", "collect", "drop", "release"}

Quiet(f) == \A op \in FsSteps : ~Doing(op, f)

\* f is mounted and nobody unmounts it; the memory at f is a filesystem's.
Usable(f) == vfs[f].mounted /\ ~Doing("release", f)

Exists(f) == vfs[f].mounted \/ Doing("mount", f)

\* vnode_ref: an atomic increment.
vnode_ref(w, v) == [w EXCEPT ![v].count = @ + 1]

\* The slab hands out the lowest free object, so that a freed one is soon used
\* again.
Free == { v \in Vnodes : ~vn[v].alloc }

vnode_alloc(v) == [vn EXCEPT ![v] = [Blank EXCEPT !.alloc = TRUE, !.count = 1]]

\* What a filesystem does to get a vnode: it adds the table's reference.
NewNode(v) == vnode_ref(vnode_alloc(v), v)

Gives(c, v) == held' = [held EXCEPT ![c][v] = @ + 1]

\* The use of a vnode that is not allocated.
UseOf(v) == IF vn[v].alloc THEN NULL ELSE "use after free"

Touch(v) == fault' = UseOf(v)

-----------------------------------------------------------------------------
(* Reference counts.                                                        *)

LastReference(n) == n = 1

Freeing(r) == r.freeing

\* vnode_unref up to the decrement; the kernel stops if the count was zero.
Unref(c) ==
  LET v == Arg(c)[2] IN
  /\ At(c, "unref")
  /\ vn' = [vn EXCEPT ![v].count = @ - 1]
  /\ Then(c, IF LastReference(vn[v].count) THEN << <<"last", v>> >> ELSE <<>>)
  /\ fault' = IF vn[v].alloc /\ vn[v].count = 0 THEN "count below zero" ELSE UseOf(v)
  /\ UNCHANGED <<tables, held, lost, spin>>

DropParent(v) == Unrefs(vn[v].parent)

\* The rest of vnode_unref: the first to set VFREEING calls vn_inactive, which no
\* filesystem has yet and nothing is assumed to come of, and vnode_free, which
\* drops the parent before it returns the vnode to the slab.
LastUnref(c) ==
  LET v == Arg(c)[2] IN
  /\ At(c, "last")
  /\ vn' = [vn EXCEPT ![v].freeing = TRUE]
  /\ Then(c, IF Freeing(vn[v]) THEN <<>> ELSE DropParent(v) \o << <<"slab", v>> >>)
  /\ Touch(v)
  /\ UNCHANGED <<tables, held, lost, spin>>

SlabFree(c) ==
  /\ At(c, "slab")
  /\ vn' = [vn EXCEPT ![Arg(c)[2]] = Blank]
  /\ Then(c, <<>>)
  /\ Touch(Arg(c)[2])
  /\ UNCHANGED <<tables, held, lost, spin>>

vnode_put(c, v) ==
  /\ held[c][v] > 0
  /\ Call(c, Unrefs(v))
  /\ held' = [held EXCEPT ![c][v] = @ - 1]
  /\ UNCHANGED <<vn, tables, lost, spin, fault>>

Reparented(v) == Doing("parent", v)

\* vnode_set_parent: vnode_clear_parent drops the old parent first.
vnode_set_parent(c, v, p) ==
  /\ held[c][v] > 0 /\ (p # NULL => held[c][p] > 0) /\ ~Reparented(v)
  /\ Call(c, DropParent(v) \o << <<"parent", v, p>> >>)
  /\ UNCHANGED <<vn, tables, held, lost, spin, fault>>

SetParent(c) ==
  LET v == Arg(c)[2]  p == Arg(c)[3] IN
  /\ At(c, "parent")
  /\ vn' = [IF p = NULL THEN vn ELSE vnode_ref(vn, p) EXCEPT ![v].parent = p]
  /\ Then(c, <<>>)
  /\ Touch(v)
  /\ UNCHANGED <<tables, held, lost, spin>>

-----------------------------------------------------------------------------
(* The vnode table.                                                         *)

\* The accesses to the table, each under the lock: the key is the address of the
\* filesystem and the node number.
create_vnode_key(f, id) == <<f, id>>

LookedUp(f, id) == vnode_table[create_vnode_key(f, id)]

Inserted(f, id, v) == [vnode_table EXCEPT ![create_vnode_key(f, id)] = v]

Removed(f, id) == [vnode_table EXCEPT ![create_vnode_key(f, id)] = NULL]

\* vnode_get.  A hit takes a reference and returns no vnode: vnode_cache_lookup
\* never stores through out_vp.
vnode_get(c, f, id) ==
  LET v == LookedUp(f, id) IN
  /\ vfs[f].mounted
  /\ \/ /\ v # NULL
        /\ Call(c, <<>>)
        /\ vn' = vnode_ref(vn, v)
        /\ lost' = [lost EXCEPT ![v] = @ + 1]
        /\ Touch(v)
     \/ /\ v = NULL
        /\ Call(c, << <<"vget", f, id>> >>)
        /\ UNCHANGED <<vn, lost, fault>>
  /\ UNCHANGED <<tables, held, spin>>

\* The filesystem's vfs_vget, found through vfsp: a new vnode, or an error.
Vget(c) ==
  LET f == Arg(c)[2]  id == Arg(c)[3] IN
  /\ At(c, "vget")
  /\ \/ Then(c, <<>>) /\ UNCHANGED vn
     \/ /\ Exists(f) /\ Free # {}
        /\ vn' = NewNode(Min(Free))
        /\ Then(c, << <<"recheck", f, id, Min(Free)>> >>)
  /\ fault' = IF Exists(f) THEN NULL ELSE "freed filesystem"
  /\ UNCHANGED <<tables, held, lost, spin>>

\* An entry of f that no purge will find: the one of its unmount has already
\* collected what it removes.
Late(f) == ~Usable(f) /\ ~Doing("purge", f) /\ ~Doing("collect", f)

Noted(f) == leftover' = IF Late(f) THEN leftover \cup {f} ELSE leftover

\* The second look of vnode_get, under the lock.  The loser of the race drops
\* one of its two references; hashtable_set may fail, which nobody notices.
Recheck(c) ==
  LET f == Arg(c)[2]  id == Arg(c)[3]  v == Arg(c)[4]  w == LookedUp(f, id) IN
  /\ At(c, "recheck")
  /\ \/ /\ w # NULL
        /\ vn' = vnode_ref(vn, w)
        /\ Gives(c, w)
        /\ lost' = [lost EXCEPT ![v] = @ + 1]
        /\ Then(c, Unrefs(v))
        /\ Touch(w)
        /\ UNCHANGED <<vnode_table, leftover>>
     \/ /\ w = NULL
        /\ \/ vnode_table' = Inserted(f, id, v) /\ Noted(f) /\ UNCHANGED lost
           \/ lost' = [lost EXCEPT ![v] = @ + 1] /\ UNCHANGED <<vnode_table, leftover>>
        /\ Gives(c, v)
        /\ Then(c, <<>>)
        /\ UNCHANGED <<vn, fault>>
  /\ UNCHANGED <<mount_table, namecache, vfs, spin>>

\* A filesystem makes a new node: vnode_alloc, then vnode_cache_insert.
create(c, f, id) ==
  /\ vfs[f].mounted /\ Free # {}
  /\ Call(c, << <<"insert", f, id, Min(Free)>> >>)
  /\ vn' = NewNode(Min(Free))
  /\ UNCHANGED <<tables, held, lost, spin, fault>>

vnode_cache_insert(c) ==
  LET f == Arg(c)[2]  id == Arg(c)[3]  v == Arg(c)[4] IN
  /\ At(c, "insert")
  /\ \/ /\ LookedUp(f, id) = NULL
        /\ vnode_table' = Inserted(f, id, v) /\ Noted(f)
        /\ Gives(c, v)
        /\ Then(c, <<>>)
     \/ \* -EEXIST, or no memory for the entry
        /\ Then(c, Unrefs(v) \o Unrefs(v))
        /\ UNCHANGED <<vnode_table, leftover, held>>
  /\ UNCHANGED <<vn, mount_table, namecache, vfs, lost, spin, fault>>

\* A filesystem deletes a node: vnode_cache_remove, and its own reference.
vnode_cache_remove(c, f, id) ==
  /\ vfs[f].mounted /\ LookedUp(f, id) # NULL
  /\ Call(c, Unrefs(LookedUp(f, id)))
  /\ vnode_table' = Removed(f, id)
  /\ UNCHANGED <<vn, mount_table, namecache, vfs, leftover, held, lost, spin, fault>>

Entries(f) == { id \in Nodeids : LookedUp(f, id) # NULL }

\* vfs_purge_vnodes: count the entries and allocate an array for them ...
Purge(c) ==
  LET f == Arg(c)[2] IN
  /\ At(c, "purge")
  /\ \/ /\ Entries(f) # {}
        /\ Then(c, << <<"collect", f, Cardinality(Entries(f))>> >>)
        /\ UNCHANGED leftover
     \/ /\ Then(c, <<>>)
        /\ leftover' = IF Entries(f) = {} THEN leftover ELSE leftover \cup {f}
  /\ UNCHANGED <<vn, vnode_table, mount_table, namecache, vfs, held, lost, spin, fault>>

\* ... collect their numbers, under the lock again: behind the end of the array
\* if there are more by now ...
Collect(c) ==
  LET f == Arg(c)[2] IN
  /\ At(c, "collect")
  /\ Then(c, SetToSeq({ <<"drop", f, id>> : id \in Entries(f) }))
  /\ fault' = IF Cardinality(Entries(f)) > Arg(c)[3] THEN "overflow" ELSE NULL
  /\ UNCHANGED <<vn, tables, held, lost, spin>>

\* ... and remove and drop each that is still there.
Drop(c) ==
  LET f == Arg(c)[2]  id == Arg(c)[3] IN
  /\ At(c, "drop")
  /\ vnode_table' = Removed(f, id)
  /\ Then(c, Unrefs(LookedUp(f, id)))
  /\ UNCHANGED <<vn, mount_table, namecache, vfs, leftover, held, lost, spin, fault>>

-----------------------------------------------------------------------------
(* Mounts.                                                                  *)

\* What the walks of vfs_for_each and vfs_find_mounted_on_vnode come upon.
vfs_for_each == { mount_table[p] : p \in Paths } \ {NULL}

vfs_find_mounted_on_vnode(v) == { f \in vfs_for_each : vfs[f].covered = v }

vfs_from_path(p) == mount_table[p]

\* The filesystem's vfs_root: it keeps its root in the table.  The reference is
\* the caller's next step.
RootSteps(f) == IF LookedUp(f, Root) = NULL THEN <<>> ELSE << <<"rootref", LookedUp(f, Root)>> >>

\* vfs_root_vnode up to the reference ...
vfs_root_vnode(c, f) ==
  /\ vfs[f].mounted
  /\ Call(c, RootSteps(f))
  /\ UNCHANGED <<vn, tables, held, lost, spin, fault>>

\* ... which no lock protects: the root may have lost its last one meanwhile.
RootRef(c) ==
  LET v == Arg(c)[2] IN
  /\ At(c, "rootref")
  /\ Then(c, <<>>)
  /\ \/ vn[v].count > 0 /\ vn' = vnode_ref(vn, v) /\ Gives(c, v) /\ UNCHANGED fault
     \/ vn[v].count <= 0 /\ fault' = "freed root" /\ UNCHANGED <<vn, held>>
  /\ UNCHANGED <<tables, lost, spin>>

\* vfs_mount_fs up to the filesystem's own vfs_mount.
vfs_mount_fs(c, f, v, p) ==
  /\ ~Exists(f) /\ (v # NULL => held[c][v] > 0)
  /\ Call(c, << <<"mount", f>> >>)
  /\ vfs' = [vfs EXCEPT ![f] = [mounted |-> FALSE, covered |-> v, path |-> p]]
  /\ vn' = IF v = NULL THEN vn ELSE vnode_ref(vn, v)
  /\ UNCHANGED <<vnode_table, mount_table, namecache, leftover, held, lost, spin, fault>>

\* vfs_mount returned: an error, or success.  A new entry of the mount table
\* may fail for want of memory, which nobody notices.
Mounted(c) ==
  LET f == Arg(c)[2]  p == vfs[f].path IN
  /\ At(c, "mount")
  /\ \/ Then(c, Unrefs(vfs[f].covered)) /\ UNCHANGED <<vfs, mount_table>>
     \/ /\ vfs' = [vfs EXCEPT ![f].mounted = TRUE]
        /\ \/ mount_table' = [mount_table EXCEPT ![p] = f]
           \/ mount_table[p] = NULL /\ UNCHANGED mount_table
        /\ Then(c, <<>>)
  /\ UNCHANGED <<vn, vnode_table, namecache, leftover, held, lost, spin, fault>>

Unmounted(f) == [mount_table EXCEPT ![vfs[f].path] = NULL]

\* vfs_unmount_fs: the filesystem agrees (if not, as when it is already being
\* unmounted, nothing changes), and the entry and the reference to the covered
\* vnode go under the lock.
vfs_unmount_fs(c, f) ==
  /\ Usable(f)
  /\ Call(c, Unrefs(vfs[f].covered) \o << <<"unlock">>, <<"purge", f>>, <<"release", f>> >>)
  /\ spin' = c
  /\ mount_table' = Unmounted(f)
  /\ UNCHANGED <<vn, vnode_table, namecache, vfs, leftover, held, lost, fault>>

Unlock(c) ==
  /\ At(c, "unlock")
  /\ spin' = NULL
  /\ Then(c, <<>>)
  /\ UNCHANGED <<vn, tables, held, lost, fault>>

\* slab_free of the vfs_t: the next filesystem may get the same address.
Release(c) ==
  /\ At(c, "release")
  /\ vfs' = [vfs EXCEPT ![Arg(c)[2]] = NewVfs]
  /\ Then(c, <<>>)
  /\ UNCHANGED <<vn, vnode_table, mount_table, namecache, leftover, held, lost, spin, fault>>

-----------------------------------------------------------------------------
(* The name cache.                                                          *)

\* namei_get_root_vnode: its test of the filesystem is inverted, so that it
\* reads through a null pointer when nothing is mounted at the root.
namei_get_root_vnode(c) ==
  LET f == vfs_from_path(RootPath) IN
  /\ \/ f # NULL /\ Call(c, << <<"rootof", f>> >>) /\ UNCHANGED fault
     \/ f = NULL /\ Call(c, <<>>) /\ fault' = "null pointer"
  /\ UNCHANGED <<vn, tables, held, lost, spin>>

\* What it found in the mount table may be unmounted and freed by now.
RootOf(c) ==
  LET f == Arg(c)[2] IN
  /\ At(c, "rootof")
  /\ Then(c, RootSteps(f))
  /\ fault' = IF Exists(f) THEN NULL ELSE "freed filesystem"
  /\ UNCHANGED <<vn, tables, held, lost, spin>>

\* strlcpy leaves the bytes behind the name unwritten, and all of them are part
\* of the key: a name may find another name field than it was entered with.
make_namecache_key(d, n) == <<d, n>>

namecache_lookup(c, d, n) ==
  LET v == namecache[make_namecache_key(d, n)] IN
  /\ held[c][d] > 0 /\ v # NULL
  /\ Call(c, <<>>)
  /\ vn' = vnode_ref(vn, v)
  /\ Gives(c, v)
  /\ Touch(v)
  /\ UNCHANGED <<tables, lost, spin>>

EntryRef(w, v) == vnode_ref(w, v)

\* namecache_enter takes the entry's reference before the lock.
namecache_enter(c, d, n, v) ==
  /\ held[c][d] > 0 /\ held[c][v] > 0
  /\ Call(c, << <<"enter", d, n, v>> >>)
  /\ vn' = EntryRef(vn, v)
  /\ UNCHANGED <<tables, held, lost, spin, fault>>

\* hashtable_set overwrites an entry without dropping its reference; only a
\* new entry can fail.
Enter(c) ==
  LET d == Arg(c)[2]  n == Arg(c)[3]  v == Arg(c)[4]  old == namecache[<<d, n>>] IN
  /\ At(c, "enter")
  /\ \/ /\ namecache' = [namecache EXCEPT ![<<d, n>>] = v]
        /\ lost' = IF old = NULL THEN lost ELSE [lost EXCEPT ![old] = @ + 1]
        /\ Then(c, <<>>)
     \/ old = NULL /\ Then(c, Unrefs(v)) /\ UNCHANGED <<namecache, lost>>
  /\ UNCHANGED <<vn, vnode_table, mount_table, vfs, leftover, held, spin, fault>>

\* namecache_remove_locked drops the reference, then removes the entry.
namecache_remove_locked(k) == Unrefs(namecache[k]) \o << <<"remove", k[1], k[2]>> >>

namecache_remove(c, d, n) ==
  LET k == make_namecache_key(d, n) IN
  /\ held[c][d] > 0 /\ namecache[k] # NULL
  /\ Call(c, namecache_remove_locked(k) \o << <<"unlock">> >>)
  /\ spin' = c
  /\ UNCHANGED <<vn, tables, held, lost, fault>>

\* namecache_purge_vnode removes the entries of vnode v one by one, in one locked
\* section.
EntriesOf(v) == { k \in DOMAIN namecache : namecache[k] = v }

namecache_purge_vnode(c, v) ==
  /\ held[c][v] > 0
  /\ Call(c, << <<"uncache", v>>, <<"unlock">> >>)
  /\ spin' = c
  /\ UNCHANGED <<vn, tables, held, lost, fault>>

Uncache(c) ==
  LET v == Arg(c)[2] IN
  /\ At(c, "uncache")
  /\ \/ EntriesOf(v) = {} /\ Then(c, <<>>)
     \/ \E k \in EntriesOf(v) : Then(c, namecache_remove_locked(k) \o << <<"uncache", v>> >>)
  /\ UNCHANGED <<vn, tables, held, lost, spin, fault>>

RemoveName(c) ==
  /\ At(c, "remove")
  /\ namecache' = [namecache EXCEPT ![<<Arg(c)[2], Arg(c)[3]>>] = NULL]
  /\ Then(c, <<>>)
  /\ UNCHANGED <<vn, vnode_table, mount_table, vfs, leftover, held, lost, spin, fault>>

-----------------------------------------------------------------------------
Step(c) ==
  \/ Unref(c) \/ LastUnref(c) \/ SlabFree(c) \/ SetParent(c)
  \/ Vget(c) \/ Recheck(c) \/ vnode_cache_insert(c)
  \/ Purge(c) \/ Collect(c) \/ Drop(c)
  \/ Mounted(c) \/ Unlock(c) \/ Release(c) \/ RootRef(c) \/ RootOf(c)
  \/ Enter(c) \/ Uncache(c) \/ RemoveName(c)

Operation(c) ==
  \/ \E v \in Vnodes :
       \/ vnode_put(c, v) \/ namecache_purge_vnode(c, v)
       \/ \E p \in Vnodes \cup {NULL} : vnode_set_parent(c, v, p)
  \/ \E f \in Filesystems :
       \/ \E id \in Nodeids : vnode_get(c, f, id) \/ create(c, f, id) \/ vnode_cache_remove(c, f, id)
       \/ \E v \in Vnodes \cup {NULL}, p \in Paths : vfs_mount_fs(c, f, v, p)
       \/ vfs_root_vnode(c, f) \/ vfs_unmount_fs(c, f)
  \/ namei_get_root_vnode(c)
  \/ \E d \in Vnodes, n \in Names :
       \/ namecache_lookup(c, d, n) \/ namecache_remove(c, d, n)
       \/ \E v \in Vnodes : namecache_enter(c, d, n, v)

Next == \E c \in Clients : Step(c) \/ (Idle(c) /\ Operation(c))

Spec == Init /\ [][Next]_vars

\* A thread inside a call goes on: the scheduler runs every ready thread.
FairSpec == Spec /\ \A c \in Clients : WF_vars(Step(c))

-----------------------------------------------------------------------------
\* The references to v that step s has still to drop or to pass on.
Carried(s, v) ==
  CASE s[1] = "unref" /\ s[2] = v -> 1
    [] s[1] = "enter" /\ s[4] = v -> 1
    [] s[1] \in {"recheck", "insert"} /\ s[4] = v -> 2
    [] OTHER -> 0

\* Client c's p-th step from the end.
Planned(c, p) == todo[c][Len(todo[c]) + 1 - p]

Removing(k) == \E s \in Pending : s[1] = "remove" /\ s[2] = k[1] /\ s[3] = k[2]

\* Whoever has a reference to v and will drop it one day: clients, their steps,
\* the tables, the vnodes below v and the filesystem mounted on it.
HeldRefs(v) == UNION { {c} \X (1 .. held[c][v]) : c \in Clients }

StepRefs(v) ==
  UNION { UNION { {<<c, p>>} \X (1 .. Carried(Planned(c, p), v)) : p \in DOMAIN todo[c] } : c \in Clients }

TableRefs(v) == { k \in Filesystems \X Nodeids : vnode_table[k] = v }

NameRefs(v) == { k \in Vnodes \X Names : namecache[k] = v /\ ~Removing(k) }

ParentRefs(v) == { u \in Vnodes : vn[u].parent = v /\ ~vn[u].freeing /\ ~Reparented(u) }

MountRefs(v) == { f \in Filesystems : vfs[f].covered = v /\ (Usable(f) \/ Doing("mount", f)) }

Owners(v) ==
  Cardinality(HeldRefs(v)) + Cardinality(StepRefs(v)) + Cardinality(TableRefs(v))
  + Cardinality(NameRefs(v)) + Cardinality(ParentRefs(v)) + Cardinality(MountRefs(v))

\* The faults a client runs into that uses a filesystem while another unmounts
\* it, or when none is mounted at the root: nothing in vfs.c, vnode.c and path.c
\* prevents them.
UnmountFaults == {"null pointer", "freed filesystem", "freed root", "overflow"}

\* v_count is the number of references that someone owns, plus the ones that
\* vnode_get and namecache_enter are known to leak; so nothing points to a vnode
\* that went back to the slab, no count falls below zero, and nobody touches a
\* freed vnode, but for the late reference to the root of a filesystem that was
\* unmounted meanwhile.  (The code takes no reference for the table, vnode_unref
\* frees what it still lists, and unref, flag and free are separate steps.)
RefsAccounted ==
  /\ fault \in {NULL} \cup UnmountFaults
  /\ \A v \in Vnodes : Owners(v) + lost[v] = vn[v].count /\ (vn[v].count > 0 => vn[v].alloc)

\* Once vfs_unmount_fs has returned, the table has no vnode of that address
\* left for the next filesystem that gets it, unless the purge found no memory
\* or a call on the filesystem made an entry after the purge had looked.
PurgeComplete ==
  \A f \in Filesystems : Quiet(f) /\ ~vfs[f].mounted /\ f \notin leftover => Entries(f) = {}

\* vfs_from_path and vfs_find_mounted_on_vnode only find filesystems that are
\* mounted and whose memory is not about to be freed, even if two of them were
\* mounted at the same path; and the vnode one of them covers is not freed.
MountTableLive ==
  /\ \A p \in Paths : vfs_from_path(p) # NULL => Usable(vfs_from_path(p))
  /\ \A v \in Vnodes : vfs_find_mounted_on_vnode(v) # {} => vn[v].alloc /\ ~vn[v].freeing

\* A vnode without references is freed, whatever chain of parents goes with it,
\* unless the kernel stops.
UnreferencedFreed ==
  \A v \in Vnodes : (vn[v].alloc /\ vn[v].count = 0) ~> (~vn[v].alloc \/ fault # NULL)
=============================================================================
