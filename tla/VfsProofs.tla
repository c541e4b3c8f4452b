------------------------------ MODULE VfsProofs ------------------------------
(***************************************************************************)
(* Proofs about the virtual file system: that v_count is the number of      *)
(* references somebody owns, that an unmount leaves no vnode of its         *)
(* filesystem in the table, and that the mount table is live.               *)
(*                                                                         *)
(* The inductive invariant VfsInv has three parts.  FsInv is about mounts   *)
(* and the table of vnodes: who unmounts a filesystem owns it, and visits   *)
(* every entry before the release.  StepsSound is about the steps somebody  *)
(* has still to do: one client frees a vnode, parents are held by who sets  *)
(* them, names are removed under the lock.  RefsCounted is the balance of   *)
(* references, which every operation keeps because what one holder gives up *)
(* another gets, the count changes, or a reference is lost (lemma Books).   *)
(***************************************************************************)
EXTENDS Vfs, FiniteSetTheorems, FunctionTheorems, SequenceTheorems,
        NaturalsInduction, WellFoundedInduction, TLAPS

-----------------------------------------------------------------------------
(* Steps and lists of steps.                                                *)

\* The steps a client may have to do.
Steps ==
  ({"unref", "last", "slab", "uncache", "rootref"} \X Vnodes)
  \cup ({"parent"} \X Vnodes \X (Vnodes \cup {NULL}))
  \cup ({"mount", "purge", "release", "rootof"} \X Filesystems)
  \cup ({"collect"} \X Filesystems \X Nat)
  \cup ({"vget", "drop"} \X Filesystems \X Nodeids)
  \cup ({"recheck", "insert"} \X Filesystems \X Nodeids \X Vnodes)
  \cup ({"enter"} \X Vnodes \X Names \X Vnodes)
  \cup ({"remove"} \X Vnodes \X Names)
  \cup { <<"unlock">> }

\* What the fields of a step are.
StepFields(s) ==
  /\ s[1] \in {"unref", "last", "slab", "uncache", "rootref", "parent", "enter", "remove"} => s[2] \in Vnodes
  /\ s[1] \in FsSteps \cup {"vget", "recheck", "insert", "rootof"} => s[2] \in Filesystems
  /\ s[1] = "parent" => s[3] \in Vnodes \cup {NULL}
  /\ s[1] = "collect" => s[3] \in Nat
  /\ s[1] \in {"vget", "drop", "recheck", "insert"} => s[3] \in Nodeids
  /\ s[1] \in {"enter", "remove"} => s[3] \in Names
  /\ s[1] \in {"recheck", "insert", "enter"} => s[4] \in Vnodes

\* The fields of every step have the types of what they name.
LEMMA FieldsOfSteps ==
  ASSUME NEW s \in Steps
  PROVE  StepFields(s)
<1>1. CASE s \in {"unref", "last", "slab", "uncache", "rootref"} \X Vnodes
  BY <1>1 DEF StepFields, FsSteps
<1>2. CASE s \in {"parent"} \X Vnodes \X (Vnodes \cup {NULL})
  BY <1>2 DEF StepFields, FsSteps
<1>3. CASE s \in {"mount", "purge", "release", "rootof"} \X Filesystems
  BY <1>3 DEF StepFields, FsSteps
<1>4. CASE s \in {"collect"} \X Filesystems \X Nat
  BY <1>4 DEF StepFields, FsSteps
<1>5. CASE s \in {"vget", "drop"} \X Filesystems \X Nodeids
  BY <1>5 DEF StepFields, FsSteps
<1>6. CASE s \in {"recheck", "insert"} \X Filesystems \X Nodeids \X Vnodes
  BY <1>6 DEF StepFields, FsSteps
<1>7. CASE s \in {"enter"} \X Vnodes \X Names \X Vnodes
  BY <1>7 DEF StepFields, FsSteps
<1>8. CASE s \in {"remove"} \X Vnodes \X Names
  BY <1>8 DEF StepFields, FsSteps
<1>9. CASE s = <<"unlock">>
  BY <1>9 DEF StepFields, FsSteps
<1> QED
  BY <1>1, <1>2, <1>3, <1>4, <1>5, <1>6, <1>7, <1>8, <1>9 DEF Steps

\* The steps as the actions write them.
LEMMA StepsMade ==
  /\ \A op \in {"unref", "last", "slab", "uncache", "rootref"}, v \in Vnodes : <<op, v>> \in Steps
  /\ \A v \in Vnodes, p \in Vnodes \cup {NULL} : <<"parent", v, p>> \in Steps
  /\ \A op \in {"mount", "purge", "release", "rootof"}, f \in Filesystems : <<op, f>> \in Steps
  /\ \A f \in Filesystems, n \in Nat : <<"collect", f, n>> \in Steps
  /\ \A op \in {"vget", "drop"}, f \in Filesystems, id \in Nodeids : <<op, f, id>> \in Steps
  /\ \A op \in {"recheck", "insert"}, f \in Filesystems, id \in Nodeids, v \in Vnodes :
        <<op, f, id, v>> \in Steps
  /\ \A d \in Vnodes, n \in Names, v \in Vnodes : <<"enter", d, n, v>> \in Steps
  /\ \A d \in Vnodes, n \in Names : <<"remove", d, n>> \in Steps
  /\ <<"unlock">> \in Steps
BY DEF Steps

\* The lists of steps are lists of steps.
TodoType == todo \in [Clients -> Seq(Steps)]

\* The positions of client c's list.
Slots(c) == 1 .. Len(todo[c])

\* What is left of client c's steps when the one it is at is done, and how many.
Rest(c) == IF todo[c] = <<>> THEN <<>> ELSE Tail(todo[c])

Base(c) == IF todo[c] = <<>> THEN 0 ELSE Len(todo[c]) - 1

\* Client c has replaced the step it was at, if any, by the steps of l.
Became(c, l) == todo' = [todo EXCEPT ![c] = l \o Rest(c)]

\* The rest of a list and its length.
LEMMA RestType ==
  ASSUME TodoType, NEW c \in Clients
  PROVE  /\ Rest(c) \in Seq(Steps) /\ Len(Rest(c)) = Base(c) /\ Base(c) \in Nat
         /\ todo[c] # <<>> => /\ Len(todo[c]) = Base(c) + 1
                              /\ \A i \in 1 .. Base(c) : Rest(c)[i] = todo[c][i + 1]
         /\ todo[c] = <<>> => Base(c) = 0 /\ Len(todo[c]) = 0
<1>1. todo[c] \in Seq(Steps)
  BY DEF TodoType
<1>2. CASE todo[c] = <<>>
  BY <1>1, <1>2 DEF Rest, Base
<1>3. CASE todo[c] # <<>>
  BY <1>1, <1>3, HeadTailProperties DEF Rest, Base
<1> QED
  BY <1>2, <1>3

\* A call of an idle client replaces nothing.
LEMMA CallBecame ==
  ASSUME TodoType, NEW c \in Clients, NEW l \in Seq(Steps), todo[c] = <<>>, Call(c, l)
  PROVE  Became(c, l)
<1>1. l \o <<>> = l
  BY ConcatEmptySeq
<1> QED
  BY <1>1 DEF Became, Call, Rest, TodoType

\* A step replaces the head of the list.
LEMMA ThenBecame ==
  ASSUME TodoType, NEW c \in Clients, NEW l \in Seq(Steps), todo[c] # <<>>, Then(c, l)
  PROVE  Became(c, l)
BY DEF Became, Then, Rest, TodoType

\* The step client c is at is its last one from the end.
LEMMA HeadPlanned ==
  ASSUME TodoType, NEW c \in Clients, todo[c] # <<>>
  PROVE  /\ Arg(c) = Planned(c, Base(c) + 1)
         /\ Base(c) + 1 \in Slots(c)
         /\ Slots(c) = 1 .. Base(c) + 1
         /\ Arg(c) \in Steps /\ Base(c) \in Nat
<1>1. todo[c] \in Seq(Steps) /\ Len(todo[c]) = Base(c) + 1 /\ Base(c) \in Nat
  BY RestType DEF TodoType
<1>2. Head(todo[c]) = todo[c][1]
  BY <1>1
<1>3. Len(todo[c]) + 1 - (Base(c) + 1) = 1
  BY <1>1
<1>4. Arg(c) = Planned(c, Base(c) + 1)
  BY <1>2, <1>3 DEF Arg, Planned
<1>5. todo[c][1] \in Steps
  BY <1>1
<1> QED
  BY <1>1, <1>2, <1>4, <1>5 DEF Arg, Slots

\* What is at a position of the list is a step.
LEMMA PlannedType ==
  ASSUME TodoType, NEW c \in Clients, NEW p \in Slots(c)
  PROVE  Planned(c, p) \in Steps /\ p \in Nat \ {0}
<1>1. todo[c] \in Seq(Steps) 
  BY DEF TodoType
<1>2. Len(todo[c]) + 1 - p \in 1 .. Len(todo[c])
  BY <1>1 DEF Slots
<1> QED
  BY <1>1, <1>2 DEF Planned, Slots

\* The steps after client c has replaced the one it was at by the steps of l:
\* positions are counted from the end, so the others keep theirs.
LEMMA ItemsAfter ==
  ASSUME TodoType, NEW c \in Clients, NEW l \in Seq(Steps), Became(c, l)
  PROVE  /\ TodoType'
         /\ Base(c) \in Nat /\ Len(l) \in Nat
         /\ Slots(c)' = 1 .. Base(c) + Len(l)
         /\ \A p \in 1 .. Base(c) : p \in Slots(c) /\ Planned(c, p)' = Planned(c, p)
         /\ \A p \in Base(c) + 1 .. Base(c) + Len(l) :
               /\ Base(c) + Len(l) + 1 - p \in 1 .. Len(l)
               /\ Planned(c, p)' = l[Base(c) + Len(l) + 1 - p]
         /\ \A d \in Clients \ {c} :
               /\ Slots(d)' = Slots(d)
               /\ \A p \in Slots(d) : Planned(d, p)' = Planned(d, p)
<1>1. Rest(c) \in Seq(Steps) /\ Len(Rest(c)) = Base(c) /\ Base(c) \in Nat
  BY RestType
<1>2. l \o Rest(c) \in Seq(Steps) /\ Len(l \o Rest(c)) = Len(l) + Base(c) /\ Len(l) \in Nat
  BY <1>1
<1>3. TodoType' /\ todo'[c] = l \o Rest(c) /\ \A d \in Clients \ {c} : todo'[d] = todo[d]
  BY <1>2 DEF TodoType, Became
<1>4. \A i \in 1 .. Len(l) : (l \o Rest(c))[i] = l[i]
  BY <1>1
<1>5. \A i \in 1 .. Base(c) : (l \o Rest(c))[Len(l) + i] = Rest(c)[i]
  BY <1>1
<1>6. Slots(c)' = 1 .. Base(c) + Len(l)
  BY <1>1, <1>2, <1>3 DEF Slots
<1>7. ASSUME NEW p \in 1 .. Base(c) PROVE p \in Slots(c) /\ Planned(c, p)' = Planned(c, p)
  <2>1. todo[c] # <<>> /\ Len(todo[c]) = Base(c) + 1 
    BY <1>1, RestType
  <2>2. Rest(c)[Base(c) + 1 - p] = todo[c][Base(c) + 1 - p + 1]
    <3>1. Base(c) + 1 - p \in 1 .. Base(c)
      BY <1>1
    <3> QED
      BY <2>1, <3>1, RestType
  <2>3. Planned(c, p)' = (l \o Rest(c))[Len(l) + (Base(c) + 1 - p)]
    <3>1. Len(l) + Base(c) + 1 - p = Len(l) + (Base(c) + 1 - p)
      BY <1>1, <1>2
    <3> QED
      BY <1>2, <1>3, <3>1 DEF Planned
  <2>4. (l \o Rest(c))[Len(l) + (Base(c) + 1 - p)] = Rest(c)[Base(c) + 1 - p]
    BY <1>1, <1>5
  <2>5. Base(c) + 1 - p + 1 = Len(todo[c]) + 1 - p
    BY <2>1, <1>1
  <2> QED
    BY <2>1, <2>2, <2>3, <2>4, <2>5, <1>1 DEF Planned, Slots
<1>8. ASSUME NEW p \in Base(c) + 1 .. Base(c) + Len(l)
      PROVE  /\ Base(c) + Len(l) + 1 - p \in 1 .. Len(l)
             /\ Planned(c, p)' = l[Base(c) + Len(l) + 1 - p]
  <2>1. PICK i \in Int : i = Base(c) + Len(l) + 1 - p
    BY <1>1, <1>2
  <2>2. i \in 1 .. Len(l)
    BY <1>1, <1>2, <2>1
  <2>3. Len(todo'[c]) + 1 - p = i
    BY <1>1, <1>2, <1>3, <2>1
  <2>4. Planned(c, p)' = l[i]
    BY <2>2, <2>3, <1>3, <1>4 DEF Planned
  <2> QED
    BY <2>1, <2>2, <2>4
<1>9. ASSUME NEW d \in Clients \ {c}
       PROVE /\ Slots(d)' = Slots(d) /\ \A p \in Slots(d) : Planned(d, p)' = Planned(d, p)
  BY <1>3 DEF Slots, Planned
<1> QED
  BY <1>1, <1>2, <1>3, <1>6, <1>7, <1>8, <1>9

-----------------------------------------------------------------------------
(* The invariant of mounts and of the table of vnodes.                      *)

\* The p-th step of client c from the end is op, of x.
Is(c, p, op, x) == p \in Slots(c) /\ Planned(c, p)[1] = op /\ Planned(c, p)[2] = x

\* Doing, by positions.
LEMMA DoingIs ==
  ASSUME TodoType, NEW op, NEW x
  PROVE  Doing(op, x) <=> \E c \in Clients : \E p \in Slots(c) : Is(c, p, op, x)
<1>1. ASSUME NEW c \in Clients
      PROVE  Range(todo[c]) = { Planned(c, p) : p \in Slots(c) }
  <2>1. todo[c] \in Seq(Steps) /\ DOMAIN todo[c] = 1 .. Len(todo[c]) /\ Len(todo[c]) \in Nat
    BY DEF TodoType
  <2>2. Range(todo[c]) = { todo[c][i] : i \in 1 .. Len(todo[c]) }
    BY <2>1 DEF Range
  <2>3. ASSUME NEW i \in 1 .. Len(todo[c])
        PROVE  Len(todo[c]) + 1 - i \in Slots(c) /\ todo[c][i] = Planned(c, Len(todo[c]) + 1 - i)
    <3>1. Len(todo[c]) + 1 - (Len(todo[c]) + 1 - i) = i
      BY <2>1
    <3> QED
      BY <2>1, <3>1 DEF Slots, Planned
  <2>4. ASSUME NEW p \in Slots(c)
        PROVE  Planned(c, p) \in { todo[c][i] : i \in 1 .. Len(todo[c]) }
    <3>1. Len(todo[c]) + 1 - p \in 1 .. Len(todo[c])
      BY <2>1 DEF Slots
    <3> QED
      BY <3>1 DEF Planned
  <2> QED
    BY <2>2, <2>3, <2>4
<1>2. Doing(op, x) => \E c \in Clients : \E p \in Slots(c) : Is(c, p, op, x)
  <2> SUFFICES ASSUME Doing(op, x) PROVE \E c \in Clients : \E p \in Slots(c) : Is(c, p, op, x)
    OBVIOUS
  <2>1. PICK s \in Pending : s[1] = op /\ s[2] = x
    BY DEF Doing
  <2>2. PICK c \in Clients : s \in Range(todo[c])
    BY DEF Pending
  <2> QED
    BY <1>1, <2>1, <2>2 DEF Is
<1>3. ASSUME NEW c \in Clients, NEW p \in Slots(c), Is(c, p, op, x) PROVE Doing(op, x)
  <2>1. Planned(c, p) \in Range(todo[c])
    BY <1>1
  <2>2. Planned(c, p) \in Pending
    BY <2>1 DEF Pending
  <2> QED
    BY <2>2, <1>3 DEF Doing, Is
<1> QED
  BY <1>2, <1>3

\* The same in the next state.
LEMMA DoingIsAfter ==
  ASSUME TodoType', NEW op, NEW x
  PROVE  Doing(op, x)' <=> \E c \in Clients : \E p \in Slots(c)' : Is(c, p, op, x)'
<1>1. ASSUME NEW c \in Clients
      PROVE  Range(todo'[c]) = { Planned(c, p)' : p \in Slots(c)' }
  <2>1. todo'[c] \in Seq(Steps) /\ DOMAIN todo'[c] = 1 .. Len(todo'[c]) /\ Len(todo'[c]) \in Nat
    BY DEF TodoType
  <2>2. Range(todo'[c]) = { todo'[c][i] : i \in 1 .. Len(todo'[c]) }
    BY <2>1 DEF Range
  <2>3. ASSUME NEW i \in 1 .. Len(todo'[c])
        PROVE  \E p \in Slots(c)' : todo'[c][i] = Planned(c, p)'
    <3>1. PICK p : p = Len(todo'[c]) + 1 - i
      OBVIOUS
    <3>2. Len(todo'[c]) + 1 - p = i /\ p \in Slots(c)'
      BY <2>1, <3>1 DEF Slots
    <3>3. Planned(c, p)' = todo'[c][i]
      BY <3>2 DEF Planned
    <3> QED
      BY <3>2, <3>3
  <2>4. ASSUME NEW p \in Slots(c)'
        PROVE  Planned(c, p)' \in { todo'[c][i] : i \in 1 .. Len(todo'[c]) }
    <3>1. Len(todo'[c]) + 1 - p \in 1 .. Len(todo'[c])
      BY <2>1 DEF Slots
    <3> QED
      BY <3>1 DEF Planned
  <2> QED
    BY <2>2, <2>3, <2>4
<1>2. Doing(op, x)' => \E c \in Clients : \E p \in Slots(c)' : Is(c, p, op, x)'
  <2> SUFFICES ASSUME Doing(op, x)' PROVE \E c \in Clients : \E p \in Slots(c)' : Is(c, p, op, x)'
    OBVIOUS
  <2>1. PICK s \in Pending' : s[1] = op /\ s[2] = x
    BY DEF Doing
  <2>2. PICK c \in Clients : s \in Range(todo'[c])
    BY DEF Pending
  <2> QED
    BY <1>1, <2>1, <2>2 DEF Is
<1>3. ASSUME NEW c \in Clients, NEW p \in Slots(c)', Is(c, p, op, x)' PROVE Doing(op, x)'
  <2>1. Planned(c, p)' \in Range(todo'[c])
    BY <1>1
  <2>2. Planned(c, p)' \in Pending'
    BY <2>1 DEF Pending
  <2> QED
    BY <2>2, <1>3 DEF Doing, Is
<1> QED
  BY <1>2, <1>3

\* The steps of vfs_purge_vnodes.
PurgeSteps == {"purge", "collect", "drop"}

\* An unmount of f owns it, and the purge is what its owner does before the release.
ReleaseOwns(f) ==
  \A c \in Clients, d \in Clients : \A p \in Slots(c), q \in Slots(d) : \A op \in FsSteps :
     Is(c, p, "release", f) /\ Is(d, q, op, f) => d = c /\ (q = p \/ (q > p /\ op \in PurgeSteps))

\* Nobody else mounts or unmounts a filesystem that is being mounted.
MountOwns(f) ==
  \A c \in Clients, d \in Clients : \A p \in Slots(c), q \in Slots(d) : \A op \in FsSteps :
     Is(c, p, "mount", f) /\ Is(d, q, op, f) => d = c /\ q = p

\* A purge is part of an unmount, which releases the filesystem after it.
PurgeBeforeRelease(f) ==
  \A c \in Clients : \A p \in Slots(c), op \in PurgeSteps :
     Is(c, p, op, f) => \E q \in Slots(c) : q < p /\ Is(c, q, "release", f)

\* A filesystem is unmounted while it is mounted.
MountedInUse(f) ==
  \A c \in Clients : \A p \in Slots(c), op \in FsSteps :
     Is(c, p, op, f) => (vfs[f].mounted <=> op # "mount")

\* Client c will look at node id of f before its p-th step from the end.
WillPurge(c, p, f, id) ==
  \E q \in Slots(c) : q > p /\ ( \/ Is(c, q, "purge", f) \/ Is(c, q, "collect", f)
                                 \/ Is(c, q, "drop", f) /\ Planned(c, q)[3] = id )

\* What is still in the table when a filesystem will be released will be purged before.
EntriesPurged(f) ==
  \A c \in Clients : \A p \in Slots(c) :
     Is(c, p, "release", f) => f \in leftover \/ \A id \in Entries(f) : WillPurge(c, p, f, id)

\* A filesystem that is not mounted has no entries but those no purge will find.
NoneUnmounted(f) == ~vfs[f].mounted => f \in leftover \/ Entries(f) = {}

\* What holds of one filesystem, whatever the others do.
FsSound(f) ==
  /\ ReleaseOwns(f) /\ MountOwns(f) /\ PurgeBeforeRelease(f) /\ MountedInUse(f)
  /\ EntriesPurged(f) /\ NoneUnmounted(f)

\* The mount table lists filesystems that are mounted, at their own path.
MountsListed ==
  \A p \in Paths : mount_table[p] # NULL => vfs[mount_table[p]].path = p /\ Usable(mount_table[p])

\* The types of what the filesystem invariant is about.
FsType ==
  /\ TodoType
  /\ vnode_table \in [Filesystems \X Nodeids -> Vnodes \cup {NULL}]
  /\ mount_table \in [Paths -> Filesystems \cup {NULL}]
  /\ vfs \in [Filesystems -> [mounted : BOOLEAN, covered : Vnodes \cup {NULL}, path : Paths \cup {NULL}]]

\* The invariant of mounts and of the table of vnodes.
FsInv == FsType /\ MountsListed /\ \A f \in Filesystems : FsSound(f)

\* Where an item of the new lists comes from.
LEMMA IsAfter ==
  ASSUME TodoType, NEW c \in Clients, NEW l \in Seq(Steps), Became(c, l),
         NEW d \in Clients, NEW p, NEW op, NEW x
  PROVE  Is(d, p, op, x)' <=>
           \/ (d # c \/ p <= Base(c)) /\ Is(d, p, op, x) 
           \/ d = c /\ \E i \in 1 .. Len(l) : p = Base(c) + Len(l) + 1 - i /\ l[i][1] = op /\ l[i][2] = x
<1>1. CASE d # c
  BY <1>1, ItemsAfter DEF Is
<1>2. CASE d = c
  <2>1. Is(d, p, op, x)' <=> p \in 1 .. Base(c) + Len(l) /\ Planned(d, p)'[1] = op /\ Planned(d, p)'[2] = x
    BY <1>2, ItemsAfter DEF Is
  <2>2. CASE p \in 1 .. Base(c)
    <3>1. p \in Slots(c) /\ Planned(c, p)' = Planned(c, p) /\ Base(c) \in Nat /\ Len(l) \in Nat
      BY <2>2, ItemsAfter
    <3> QED
      BY <1>2, <2>1, <2>2, <3>1 DEF Is
  <2>3. CASE p \in Base(c) + 1 .. Base(c) + Len(l)
    <3>1. Planned(c, p)' = l[Base(c) + Len(l) + 1 - p] /\ Base(c) \in Nat /\ Len(l) \in Nat
      BY <2>3, ItemsAfter
    <3>2. Base(c) + Len(l) + 1 - p \in 1 .. Len(l) /\ p = Base(c) + Len(l) + 1 - (Base(c) + Len(l) + 1 - p)
      BY <2>3, <3>1
    <3>3. \A i \in 1 .. Len(l) : p = Base(c) + Len(l) + 1 - i => i = Base(c) + Len(l) + 1 - p
      BY <2>3, <3>1
    <3>4. Is(d, p, op, x)' <=> l[Base(c) + Len(l) + 1 - p][1] = op /\ l[Base(c) + Len(l) + 1 - p][2] = x
      BY <1>2, <2>1, <2>3, <3>1 
    <3>5. ~(p <= Base(c))
      BY <2>3, <3>1
    <3> QED
      BY <1>2, <3>2, <3>3, <3>4, <3>5
  <2>4. CASE p \notin 1 .. Base(c) + Len(l)
    <3>1. Base(c) \in Nat /\ Len(l) \in Nat
      BY ItemsAfter
    <3>2. ~(p <= Base(c) /\ p \in Slots(c))
      <4>1. Slots(c) \subseteq Nat \ {0}
        BY PlannedType
      <4> QED
        BY <2>4, <3>1, <4>1
    <3> QED
      BY <1>2, <2>1, <2>4, <3>1, <3>2 DEF Is
  <2>5. Base(c) \in Nat /\ Len(l) \in Nat
    BY ItemsAfter
  <2> QED
    BY <2>2, <2>3, <2>4, <2>5
<1> QED
  BY <1>1, <1>2

\* An item stays where it is, unless it is the step that client c was at.
LEMMA IsKept ==
  ASSUME TodoType, NEW c \in Clients, NEW l \in Seq(Steps), Became(c, l),
         NEW d \in Clients, NEW p, NEW op, NEW x, Is(d, p, op, x)
  PROVE  \/ (d # c \/ p <= Base(c)) /\ Is(d, p, op, x)' /\ Planned(d, p)' = Planned(d, p)
         \/ /\ d = c /\ p = Base(c) + 1 /\ todo[c] # <<>> /\ Arg(c) = Planned(d, p)
            /\ Arg(c)[1] = op /\ Arg(c)[2] = x
<1>1. p \in Slots(d) /\ p \in Nat \ {0} /\ Base(c) \in Nat
  BY PlannedType, RestType DEF Is
<1>2. CASE d # c
  BY <1>1, <1>2, ItemsAfter, IsAfter
<1>3. CASE d = c /\ p <= Base(c)
  BY <1>1, <1>3, ItemsAfter, IsAfter
<1>4. CASE d = c /\ ~(p <= Base(c))
  <2>1. todo[c] # <<>>
    BY <1>1, <1>4, RestType DEF Slots
  <2>2. p = Base(c) + 1
    BY <1>1, <1>4, <2>1, HeadPlanned
  <2> QED
    BY <1>4, <2>1, <2>2, HeadPlanned DEF Is
<1> QED
  BY <1>2, <1>3, <1>4

\* The entries are those of the table.
LEMMA EntriesKept ==
  ASSUME UNCHANGED vnode_table, NEW f
  PROVE  Entries(f)' = Entries(f)
BY DEF Entries, LookedUp, create_vnode_key

\* Whatever happens elsewhere: the mounts and unmounts of f are the same, and its
\* new entries will be purged or are noted.
LEMMA FsOther ==
  ASSUME TodoType, NEW f \in Filesystems, FsSound(f),
         \A d \in Clients : \A p : \A op \in FsSteps :
            (Is(d, p, op, f)' <=> Is(d, p, op, f)) /\ (Is(d, p, op, f) => Planned(d, p)' = Planned(d, p)),
         vfs'[f] = vfs[f], f \in leftover => f \in leftover',
         \A id \in Entries(f)' : id \in Entries(f) \/ ~Late(f) \/ f \in leftover'
  PROVE  FsSound(f)'
<1>1. ReleaseOwns(f)'
  <2> SUFFICES ASSUME NEW d \in Clients, NEW e \in Clients, NEW p, NEW q, NEW op \in FsSteps,
                      Is(d, p, "release", f)', Is(e, q, op, f)'
               PROVE  e = d /\ (q = p \/ (q > p /\ op \in PurgeSteps))
    BY DEF ReleaseOwns
  <2>1. Is(d, p, "release", f) /\ Is(e, q, op, f)
    BY DEF FsSteps
  <2> QED
    BY <2>1 DEF FsSound, ReleaseOwns, Is
<1>2. MountOwns(f)'
  <2> SUFFICES ASSUME NEW d \in Clients, NEW e \in Clients, NEW p, NEW q, NEW op \in FsSteps,
                      Is(d, p, "mount", f)', Is(e, q, op, f)'
               PROVE  e = d /\ q = p
    BY DEF MountOwns
  <2>1. Is(d, p, "mount", f) /\ Is(e, q, op, f)
    BY DEF FsSteps
  <2> QED
    BY <2>1 DEF FsSound, MountOwns, Is
<1>3. PurgeBeforeRelease(f)'
  <2> SUFFICES ASSUME NEW d \in Clients, NEW p, NEW op \in PurgeSteps, Is(d, p, op, f)'
               PROVE  \E q : q < p /\ Is(d, q, "release", f)'
    BY DEF PurgeBeforeRelease, Is
  <2>1. Is(d, p, op, f)
    BY DEF PurgeSteps, FsSteps
  <2>2. PICK q : q < p /\ Is(d, q, "release", f)
    BY <2>1 DEF FsSound, PurgeBeforeRelease, Is
  <2>3. Is(d, q, "release", f)'
    BY <2>2 DEF FsSteps
  <2> QED
    BY <2>2, <2>3
<1>4. MountedInUse(f)'
  <2> SUFFICES ASSUME NEW d \in Clients, NEW p, NEW op \in FsSteps, Is(d, p, op, f)'
               PROVE  vfs'[f].mounted <=> op # "mount"
    BY DEF MountedInUse
  <2>1. Is(d, p, op, f)
    OBVIOUS
  <2> QED
    BY <2>1 DEF FsSound, MountedInUse, Is
<1>5. EntriesPurged(f)'
  <2> SUFFICES ASSUME NEW d \in Clients, NEW p, Is(d, p, "release", f)', f \notin leftover',
                      NEW id \in Entries(f)'
               PROVE  WillPurge(d, p, f, id)'
    BY DEF EntriesPurged
  <2>1. Is(d, p, "release", f) /\ f \notin leftover
    BY DEF FsSteps
  <2>a. ASSUME id \in Entries(f) PROVE WillPurge(d, p, f, id)
    BY <2>1, <2>a DEF FsSound, EntriesPurged, Is
  <2>b. ASSUME ~Late(f) PROVE WillPurge(d, p, f, id)
    <3>1. ~Usable(f)
      BY <2>1, DoingIs DEF Usable, Is
    <3>2. PICK op \in {"purge", "collect"} : Doing(op, f)
      BY <2>b, <3>1 DEF Late
    <3>3. PICK e \in Clients : \E q \in Slots(e) : Is(e, q, op, f)
      BY <3>2, DoingIs
    <3>4. PICK q \in Slots(e) : Is(e, q, op, f)
      BY <3>3
    <3>5. op \in FsSteps /\ op # "release"
      BY DEF FsSteps
    <3>6. e = d /\ (q = p \/ q > p)
      BY <2>1, <3>4, <3>5 DEF FsSound, ReleaseOwns, Is
    <3>7. q # p
      BY <2>1, <3>4, <3>5, <3>6 DEF Is
    <3> QED
      BY <3>4, <3>6, <3>7 DEF WillPurge
  <2>2. WillPurge(d, p, f, id)
    BY <2>a, <2>b
  <2>3. PICK q : /\ q > p
                 /\ \/ Is(d, q, "purge", f) \/ Is(d, q, "collect", f)
                    \/ Is(d, q, "drop", f) /\ Planned(d, q)[3] = id
    BY <2>2 DEF WillPurge
  <2>4. \/ Is(d, q, "purge", f)' \/ Is(d, q, "collect", f)'
        \/ Is(d, q, "drop", f)' /\ Planned(d, q)'[3] = id
    BY <2>3 DEF FsSteps
  <2> QED
    BY <2>3, <2>4 DEF WillPurge, Is
<1>6. NoneUnmounted(f)'
  <2> SUFFICES ASSUME ~vfs[f].mounted, f \notin leftover', NEW id \in Entries(f)' PROVE FALSE
    BY DEF NoneUnmounted
  <2>1. id \notin Entries(f)
    BY DEF FsSound, NoneUnmounted
  <2>2. PICK op \in {"purge", "collect"} : Doing(op, f)
    BY <2>1 DEF Late, Usable
  <2>3. PICK e \in Clients : \E q \in Slots(e) : Is(e, q, op, f)
    BY <2>2, DoingIs
  <2>4. op \in FsSteps /\ op # "mount"
    BY DEF FsSteps
  <2> QED
    BY <2>3, <2>4 DEF FsSound, MountedInUse
<1> QED
  BY <1>1, <1>2, <1>3, <1>4, <1>5, <1>6 DEF FsSound

\* The steps on f are the same when client c's step is none of them and makes none.
LEMMA FsItemsKept ==
  ASSUME TodoType, NEW c \in Clients, NEW l \in Seq(Steps), Became(c, l), NEW f,
         \A i \in 1 .. Len(l) : l[i][1] \in FsSteps => l[i][2] # f,
         todo[c] # <<>> => (Arg(c)[1] \in FsSteps => Arg(c)[2] # f)
  PROVE  \A d \in Clients : \A p : \A op \in FsSteps :
            (Is(d, p, op, f)' <=> Is(d, p, op, f)) /\ (Is(d, p, op, f) => Planned(d, p)' = Planned(d, p))
<1> SUFFICES ASSUME NEW d \in Clients, NEW p, NEW op \in FsSteps
             PROVE (Is(d, p, op, f)' <=> Is(d, p, op, f)) /\ (Is(d, p, op, f) => Planned(d, p)' = Planned(d, p))
  OBVIOUS
<1>1. Is(d, p, op, f)' => Is(d, p, op, f)
  BY IsAfter
<1>2. Is(d, p, op, f) => Is(d, p, op, f)' /\ Planned(d, p)' = Planned(d, p)
  BY IsKept
<1> QED
  BY <1>1, <1>2

\* Client c's step is not part of a mount or an unmount, but may change the table.
LEMMA FsOrdinary ==
  ASSUME FsInv, NEW c \in Clients, NEW l \in Seq(Steps), Became(c, l), FsType',
         \A i \in 1 .. Len(l) : l[i][1] \notin FsSteps,
         todo[c] # <<>> => Arg(c)[1] \notin FsSteps,
         \A f \in Filesystems : f \in leftover => f \in leftover',
         \A f \in Filesystems : \A id \in Entries(f)' : id \in Entries(f) \/ ~Late(f) \/ f \in leftover',
         UNCHANGED <<vfs, mount_table>>
  PROVE  FsInv'
<1>1. TodoType /\ TodoType'
  BY DEF FsInv, FsType
<1>2. ASSUME NEW f \in Filesystems PROVE FsSound(f)' /\ (Doing("release", f)' <=> Doing("release", f))
  <2>1. \A d \in Clients : \A p : \A op \in FsSteps :
            (Is(d, p, op, f)' <=> Is(d, p, op, f)) /\ (Is(d, p, op, f) => Planned(d, p)' = Planned(d, p))
    BY <1>1, FsItemsKept
  <2>2. FsSound(f)'
    BY <1>1, <2>1, FsOther DEF FsInv
  <2>3. Doing("release", f)' <=> Doing("release", f)
    BY <1>1, <2>1, DoingIs, DoingIsAfter DEF Is, FsSteps
  <2> QED
    BY <2>2, <2>3
<1>4. MountsListed'
  <2> SUFFICES ASSUME NEW p \in Paths, mount_table'[p] # NULL
               PROVE  vfs'[mount_table'[p]].path = p /\ Usable(mount_table[p])'
    BY DEF MountsListed
  <2>1. vfs[mount_table[p]].path = p /\ Usable(mount_table[p]) /\ mount_table[p] \in Filesystems
    BY DEF FsInv, MountsListed, FsType
  <2>2. PICK f \in Filesystems : f = mount_table[p]
    BY <2>1
  <2>3. Usable(f)'
    BY <2>1, <2>2, <1>2 DEF Usable
  <2>4. mount_table'[p] = f
    BY <2>2
  <2> QED
    BY <2>1, <2>3, <2>4
<1> QED
  BY <1>2, <1>4 DEF FsInv

\* A step on filesystem f alone: the others are as they were.
LEMMA FsFocus ==
  ASSUME FsInv, NEW c \in Clients, NEW l \in Seq(Steps), Became(c, l), FsType',
         NEW f \in Filesystems, FsSound(f)',
         \A i \in 1 .. Len(l) : l[i][1] \in FsSteps => l[i][2] = f,
         todo[c] # <<>> => (Arg(c)[1] \in FsSteps => Arg(c)[2] = f),
         \A g \in Filesystems \ {f} :
            vfs'[g] = vfs[g] /\ Entries(g)' = Entries(g) /\ (g \in leftover' <=> g \in leftover),
         \A p \in Paths : mount_table'[p] # NULL =>
            \/ mount_table'[p] = mount_table[p] /\ mount_table[p] # f
            \/ mount_table'[p] = f /\ vfs'[f].path = p /\ Usable(f)'
  PROVE  FsInv'
<1>1. TodoType /\ TodoType'
  BY DEF FsInv, FsType
<1>2. ASSUME NEW g \in Filesystems \ {f} PROVE FsSound(g)' /\ (Doing("release", g)' <=> Doing("release", g))
  <2>1. \A d \in Clients : \A p : \A op \in FsSteps :
            (Is(d, p, op, g)' <=> Is(d, p, op, g)) /\ (Is(d, p, op, g) => Planned(d, p)' = Planned(d, p))
    BY <1>1, FsItemsKept
  <2>2. FsSound(g)'
    BY <1>1, <2>1, FsOther DEF FsInv
  <2>3. Doing("release", g)' <=> Doing("release", g)
    BY <1>1, <2>1, DoingIs, DoingIsAfter DEF Is, FsSteps
  <2> QED
    BY <2>2, <2>3
<1>4. MountsListed'
  <2> SUFFICES ASSUME NEW p \in Paths, mount_table'[p] # NULL
               PROVE  vfs'[mount_table'[p]].path = p /\ Usable(mount_table[p])'
    BY DEF MountsListed
  <2>1. PICK g : g = mount_table'[p]
    OBVIOUS
  <2>2. CASE g = f
    BY <2>1, <2>2
  <2>3. CASE g # f
    <3>1. mount_table[p] = g /\ g \in Filesystems /\ vfs[g].path = p /\ Usable(g)
      BY <2>1, <2>3 DEF FsInv, MountsListed, FsType
    <3>2. Usable(g)' /\ vfs'[g].path = p
      BY <2>3, <3>1, <1>2 DEF Usable
    <3> QED
      BY <2>1, <3>2
  <2> QED
    BY <2>2, <2>3
<1> QED
  BY <1>2, <1>4 DEF FsInv

\* SetToSeq lists every element of a finite set.
LEMMA SetToSeqLists ==
  ASSUME NEW S, IsFiniteSet(S)
  PROVE  /\ SetToSeq(S) \in Seq(S)
         /\ \A x \in S : \E i \in 1 .. Len(SetToSeq(S)) : SetToSeq(S)[i] = x
<1> DEFINE n == Cardinality(S)
<1>1. n \in Nat /\ ExistsBijection(1 .. n, S)
  BY FS_CardinalityType
<1>2. PICK g : g \in Bijection(1 .. n, S)
  BY <1>1 DEF ExistsBijection
<1>3. g \in [1 .. n -> S] /\ IsInjective(g)
  BY <1>2 DEF Bijection, Injection, IsInjective
<1>4. SetToSeq(S) \in [1 .. n -> S] /\ IsInjective(SetToSeq(S))
  BY <1>3 DEF SetToSeq
<1>5. SetToSeq(S) \in Injection(1 .. n, S)
  BY <1>4 DEF Injection, IsInjective
<1>6. Cardinality(1 .. n) = n
  BY <1>1, FS_Interval
<1>7. SetToSeq(S) \in Surjection(1 .. n, S)
  BY <1>5, <1>6, FS_Injection
<1>8. SetToSeq(S) \in Seq(S) /\ Len(SetToSeq(S)) = n
  BY <1>1, <1>4
<1> QED
  BY <1>7, <1>8 DEF Surjection

\* The list that drops a reference, if there is one.
LEMMA UnrefsList ==
  ASSUME NEW v \in Vnodes \cup {NULL}
  PROVE  /\ Unrefs(v) \in Seq(Steps) /\ Len(Unrefs(v)) \in {0, 1}
         /\ Len(Unrefs(v)) = (IF v = NULL THEN 0 ELSE 1)
         /\ v # NULL => Unrefs(v)[1] = <<"unref", v>>
         /\ \A i \in 1 .. Len(Unrefs(v)) : Unrefs(v)[i] = <<"unref", v>> /\ v # NULL
<1>1. v # NULL => <<"unref", v>> \in Steps
  BY StepsMade
<1> QED
  BY <1>1 DEF Unrefs

\* The owner of an unmount has the only steps on its filesystem.
LEMMA PurgeOwner ==
  ASSUME FsInv, NEW c \in Clients, todo[c] # <<>>, NEW f \in Filesystems, 
         NEW op0 \in PurgeSteps, Is(c, Base(c) + 1, op0, f)
  PROVE  /\ vfs[f].mounted /\ ~Usable(f)
         /\ \E r : /\ r <= Base(c) /\ Is(c, r, "release", f) /\ r \in Nat
                   /\ \A d \in Clients : \A q : \A op \in FsSteps : Is(d, q, op, f) =>
                         d = c /\ (q = r \/ (q > r /\ q <= Base(c) + 1 /\ op \in PurgeSteps))
<1>1. TodoType /\ FsSound(f)
  BY DEF FsInv, FsType
<1>2. PICK r \in Slots(c) : r < Base(c) + 1 /\ Is(c, r, "release", f)
  BY <1>1 DEF FsSound, PurgeBeforeRelease, Is
<1>3. r \in Nat /\ Base(c) \in Nat /\ r <= Base(c)
  <2>1. r \in Nat /\ Base(c) \in Nat
    BY <1>1, <1>2, PlannedType, HeadPlanned
  <2> QED
    BY <2>1, <1>2
<1>4. ASSUME NEW d \in Clients, NEW q, NEW op \in FsSteps, Is(d, q, op, f)
      PROVE  d = c /\ (q = r \/ (q > r /\ q <= Base(c) + 1 /\ op \in PurgeSteps))
  <2>1. d = c /\ (q = r \/ (q > r /\ op \in PurgeSteps))
    BY <1>1, <1>2, <1>4 DEF FsSound, ReleaseOwns, Is
  <2>2. q \in 1 .. Base(c) + 1
    BY <1>1, <1>4, <2>1, HeadPlanned DEF Is
  <2> QED
    BY <2>1, <2>2, <1>3
<1>5. vfs[f].mounted 
  BY <1>1, <1>2 DEF FsSound, MountedInUse, Is, FsSteps
<1>6. ~Usable(f)
  BY <1>1, <1>2, DoingIs DEF Usable
<1> QED
  BY <1>2, <1>3, <1>4, <1>5, <1>6

-----------------------------------------------------------------------------
(* vfs_purge_vnodes.                                                        *)

\* What a client is at.
LEMMA AtHead ==
  ASSUME TodoType, NEW c \in Clients, NEW op, At(c, op)
  PROVE  /\ todo[c] # <<>> /\ Arg(c) \in Steps /\ Arg(c)[1] = op /\ StepFields(Arg(c))
         /\ Is(c, Base(c) + 1, op, Arg(c)[2]) /\ Base(c) \in Nat
         /\ Planned(c, Base(c) + 1) = Arg(c)
<1>1. todo[c] # <<>> /\ Arg(c)[1] = op
  BY DEF At, Arg
<1> QED
  BY <1>1, HeadPlanned, FieldsOfSteps DEF Is

\* The empty list is a list of steps.
LEMMA EmptyList ==
  << >> \in Seq(Steps) /\ Len(<< >>) = 0
OBVIOUS

\* One step is a list of steps.
LEMMA SingleList ==
  ASSUME NEW s \in Steps
  PROVE  <<s>> \in Seq(Steps) /\ Len(<<s>>) = 1 /\ <<s>>[1] = s
OBVIOUS

\* The purge goes on: the steps on f are its owner's, the release and steps of the purge.
LEMMA OwnerAfter ==
  ASSUME NEW c \in Clients, NEW f, NEW r \in Nat, Is(c, r, "release", f)', vfs'[f].mounted,
         \A d \in Clients : \A q : \A op \in FsSteps : Is(d, q, op, f)' =>
             d = c /\ (q = r \/ (q > r /\ op \in PurgeSteps))
  PROVE  /\ ReleaseOwns(f)' /\ MountOwns(f)' /\ PurgeBeforeRelease(f)' /\ MountedInUse(f)' /\ NoneUnmounted(f)'
         /\ \A d \in Clients : \A p : Is(d, p, "release", f)' => d = c /\ p = r
<1>0. \A d \in Clients : \A p : Is(d, p, "release", f)' => d = c /\ p = r
  BY DEF FsSteps, PurgeSteps
<1>1. ReleaseOwns(f)'
  <2> SUFFICES ASSUME NEW d \in Clients, NEW e \in Clients, NEW p, NEW q, NEW op \in FsSteps,
                      Is(d, p, "release", f)', Is(e, q, op, f)'
               PROVE  e = d /\ (q = p \/ (q > p /\ op \in PurgeSteps))
    BY DEF ReleaseOwns
  <2> QED
    BY <1>0
<1>2. MountOwns(f)'
  <2>1. \A d \in Clients : \A p : ~Is(d, p, "mount", f)'
    <3> SUFFICES ASSUME NEW d \in Clients, NEW p, Is(d, p, "mount", f)' PROVE FALSE
      OBVIOUS
    <3>1. p = r /\ d = c
      BY DEF FsSteps, PurgeSteps
    <3> QED
      BY <3>1 DEF Is
  <2> QED
    BY <2>1 DEF MountOwns
<1>3. PurgeBeforeRelease(f)'
  <2> SUFFICES ASSUME NEW d \in Clients, NEW p, NEW op \in PurgeSteps, Is(d, p, op, f)'
               PROVE  r < p /\ d = c
    BY DEF PurgeBeforeRelease, Is
  <2>1. op \in FsSteps /\ op # "release"
    BY DEF PurgeSteps, FsSteps
  <2>2. p # r
    BY <2>1 DEF Is
  <2> QED
    BY <2>1, <2>2
<1>4. MountedInUse(f)'
  <2> SUFFICES ASSUME NEW d \in Clients, NEW p, NEW op \in FsSteps, Is(d, p, op, f)'
               PROVE  op # "mount"
    BY DEF MountedInUse
  <2> QED
    BY DEF Is, PurgeSteps
<1>5. NoneUnmounted(f)'
  BY DEF NoneUnmounted
<1> QED
  BY <1>0, <1>1, <1>2, <1>3, <1>4, <1>5

\* Purge keeps the invariant of filesystems.
LEMMA FsPurge ==
  ASSUME FsInv, FsType', NEW c \in Clients, Purge(c)
  PROVE  FsInv'
<1>1. TodoType
  BY DEF FsInv, FsType
<1>2. At(c, "purge")
  BY DEF Purge
<1>3. PICK f \in Filesystems : f = Arg(c)[2]
  BY <1>1, <1>2, AtHead DEF StepFields, FsSteps
<1>4. PICK n \in Nat : n = Base(c)
  BY <1>1, <1>2, AtHead
<1>5. Is(c, n + 1, "purge", f) /\ todo[c] # <<>> /\ Arg(c)[1] = "purge"
  BY <1>1, <1>2, <1>3, <1>4, AtHead
<1>6. PICK r \in Nat : /\ r <= n /\ Is(c, r, "release", f) /\ vfs[f].mounted /\ ~Usable(f)
                       /\ \A d \in Clients : \A q : \A op \in FsSteps : Is(d, q, op, f) =>
                              d = c /\ (q = r \/ (q > r /\ q <= n + 1 /\ op \in PurgeSteps))
  BY <1>4, <1>5, PurgeOwner DEF PurgeSteps
<1>7. UNCHANGED <<vfs, mount_table, vnode_table>>
  BY DEF Purge
<1>8. Entries(f) \in SUBSET Nodeids /\ Cardinality(Entries(f)) \in Nat /\ Entries(f)' = Entries(f)
  BY <1>7, EntriesKept, FS_Subset, FS_CardinalityType, FiniteAssumption DEF Entries
<1>9. PICK l \in Seq(Steps) :
         /\ Became(c, l)
         /\ \/ l = << <<"collect", f, Cardinality(Entries(f))>> >> /\ UNCHANGED leftover
            \/ l = << >> /\ leftover' = (IF Entries(f) = {} THEN leftover ELSE leftover \cup {f})
  <2>1. CASE Then(c, << <<"collect", f, Cardinality(Entries(f))>> >>) /\ UNCHANGED leftover
    <3>1. << <<"collect", f, Cardinality(Entries(f))>> >> \in Seq(Steps)
      BY <1>8, StepsMade, SingleList
    <3> QED
      BY <2>1, <3>1, <1>1, <1>5, ThenBecame
  <2>2. CASE Then(c, <<>>) /\ leftover' = (IF Entries(f) = {} THEN leftover ELSE leftover \cup {f})
    BY <2>2, <1>1, <1>5, ThenBecame, EmptyList
  <2> QED
    BY <2>1, <2>2, <1>3 DEF Purge
<1>10. \A d \in Clients : \A p, op, x : Is(d, p, op, x)' <=>
           \/ (d # c \/ p <= n) /\ Is(d, p, op, x)
           \/ d = c /\ \E i \in 1 .. Len(l) : p = n + Len(l) + 1 - i /\ l[i][1] = op /\ l[i][2] = x
  BY <1>1, <1>4, <1>9, IsAfter
<1>11. Is(c, r, "release", f)'
  BY <1>6, <1>10
<1>12. \A d \in Clients : \A q : \A op \in FsSteps : Is(d, q, op, f)' =>
           d = c /\ (q = r \/ (q > r /\ q <= n + 1 /\ op \in PurgeSteps))
  <2>1. CASE l = << >>
    BY <2>1, <1>6, <1>10
  <2>2. CASE l = << <<"collect", f, Cardinality(Entries(f))>> >>
    <3>1. Len(l) = 1 /\ l[1][1] = "collect"
      BY <2>2
    <3> QED
      BY <3>1, <1>6, <1>10 DEF PurgeSteps
  <2> QED
    BY <2>1, <2>2, <1>9
<1>13. FsSound(f)'
  <2>1. /\ ReleaseOwns(f)' /\ MountOwns(f)' /\ PurgeBeforeRelease(f)' /\ MountedInUse(f)' /\ NoneUnmounted(f)'
        /\ \A d \in Clients : \A p : Is(d, p, "release", f)' => d = c /\ p = r
    BY <1>6, <1>7, <1>11, <1>12, OwnerAfter
  <2>2. EntriesPurged(f)'
    <3> SUFFICES ASSUME NEW d \in Clients, NEW p, Is(d, p, "release", f)', f \notin leftover',
                        NEW id \in Entries(f)'
                 PROVE  WillPurge(d, p, f, id)'
      BY DEF EntriesPurged
    <3>1. d = c /\ p = r
      BY <2>1
    <3>2. l = << <<"collect", f, Cardinality(Entries(f))>> >>
      BY <1>8, <1>9
    <3>3. Is(c, n + 1, "collect", f)'
      <4>1. PICK m \in Nat : m = n + 1
        OBVIOUS
      <4>2. Len(l) = 1 /\ l[1][1] = "collect" /\ l[1][2] = f /\ m = n + Len(l) + 1 - 1
        BY <3>2, <4>1
      <4>3. Is(c, m, "collect", f)'
        BY <4>2, <1>10
      <4> QED
        BY <4>1, <4>3
    <3> QED
      BY <3>1, <3>3, <1>6 DEF WillPurge, Is
  <2> QED
    BY <2>1, <2>2 DEF FsSound
<1>14. \A i \in 1 .. Len(l) : l[i][1] \in FsSteps => l[i][2] = f
  BY <1>9
<1>15. \A g \in Filesystems \ {f} : Entries(g)' = Entries(g) /\ (g \in leftover' <=> g \in leftover)
  BY <1>7, <1>9, EntriesKept
<1>16. \A p \in Paths : mount_table[p] # f
  <2>1. \A p \in Paths : mount_table[p] # NULL => Usable(mount_table[p])
    BY DEF FsInv, MountsListed
  <2> QED
    BY <2>1, <1>6, NullAssumption
<1> QED
  BY <1>1, <1>3, <1>5, <1>7, <1>9, <1>13, <1>14, <1>15, <1>16, FsFocus

\* The steps that drop the entries, as Collect lists them.
LEMMA CollectList ==
  ASSUME TodoType, NEW c \in Clients, Collect(c), NEW f \in Filesystems, f = Arg(c)[2]
  PROVE  \E l \in Seq(Steps) :
            /\ Became(c, l)
            /\ \A i \in 1 .. Len(l) : l[i] \in { <<"drop", f, id>> : id \in Entries(f) }
            /\ \A x \in { <<"drop", f, id>> : id \in Entries(f) } : \E i \in 1 .. Len(l) : l[i] = x
<1>1. todo[c] # <<>>
  BY DEF Collect, At
<1>8. Entries(f) \in SUBSET Nodeids /\ IsFiniteSet(Entries(f))
  BY FS_Subset, FiniteAssumption DEF Entries
<1> DEFINE S == { <<"drop", f, id>> : id \in Entries(f) }
<1>9. IsFiniteSet(S)
  <2> DEFINE g == [id \in Entries(f) |-> <<"drop", f, id>>]
  <2>1. g \in Surjection(Entries(f), S)
    BY DEF Surjection
  <2> HIDE DEF g, S
  <2> QED
    BY <1>8, <2>1, FS_Surjection
<1>10. S \in SUBSET Steps
  BY <1>8, StepsMade
<1>11. \E l \in Seq(Steps) :
         /\ Became(c, l)
         /\ \A i \in 1 .. Len(l) : l[i] \in S
         /\ \A x \in S : \E i \in 1 .. Len(l) : l[i] = x
  <2>1. SetToSeq(S) \in Seq(S) /\ \A x \in S : \E i \in 1 .. Len(SetToSeq(S)) : SetToSeq(S)[i] = x
    <3> HIDE DEF S
    <3> QED
      BY <1>9, SetToSeqLists
  <2>2. SetToSeq(S) \in Seq(Steps) /\ \A i \in 1 .. Len(SetToSeq(S)) : SetToSeq(S)[i] \in S
    <3> HIDE DEF S
    <3> QED
      BY <1>10, <2>1
  <2>3. Then(c, SetToSeq(S))
    BY DEF Collect
  <2> HIDE DEF S
  <2> QED
    BY <2>1, <2>2, <2>3, <1>1, ThenBecame
<1> QED
  BY <1>11

\* Collect keeps the invariant of filesystems.
LEMMA FsCollect ==
  ASSUME FsInv, FsType', NEW c \in Clients, Collect(c)
  PROVE  FsInv'
<1>1. TodoType
  BY DEF FsInv, FsType
<1>2. At(c, "collect")
  BY DEF Collect
<1>3. PICK f \in Filesystems : f = Arg(c)[2]
  BY <1>1, <1>2, AtHead DEF StepFields, FsSteps
<1>4. PICK n \in Nat : n = Base(c)
  BY <1>1, <1>2, AtHead
<1>5. /\ Is(c, n + 1, "collect", f) /\ todo[c] # <<>> /\ Arg(c)[1] = "collect"
      /\ Planned(c, n + 1) = Arg(c) /\ Arg(c)[3] \in Nat
  BY <1>1, <1>2, <1>3, <1>4, AtHead DEF StepFields
<1>6. PICK r \in Nat : /\ r <= n /\ Is(c, r, "release", f) /\ vfs[f].mounted /\ ~Usable(f)
                       /\ \A d \in Clients : \A q : \A op \in FsSteps : Is(d, q, op, f) =>
                              d = c /\ (q = r \/ (q > r /\ q <= n + 1 /\ op \in PurgeSteps))
  BY <1>4, <1>5, PurgeOwner DEF PurgeSteps
<1>7. UNCHANGED <<vfs, mount_table, vnode_table, leftover>>
  BY DEF Collect, tables
<1>8. Entries(f) \in SUBSET Nodeids /\ IsFiniteSet(Entries(f)) /\ Entries(f)' = Entries(f)
  BY <1>7, EntriesKept, FS_Subset, FiniteAssumption DEF Entries
<1> DEFINE S == { <<"drop", f, id>> : id \in Entries(f) }
<1>11. PICK l \in Seq(Steps) :
         /\ Became(c, l)
         /\ \A i \in 1 .. Len(l) : l[i] \in S
         /\ \A x \in S : \E i \in 1 .. Len(l) : l[i] = x
  BY <1>1, <1>3, CollectList
<1>12. \A i \in 1 .. Len(l) : l[i][1] = "drop" /\ l[i][2] = f
  BY <1>11
<1>13. \A d \in Clients : \A p, op, x : Is(d, p, op, x)' <=>
           \/ (d # c \/ p <= n) /\ Is(d, p, op, x)
           \/ d = c /\ \E i \in 1 .. Len(l) : p = n + Len(l) + 1 - i /\ l[i][1] = op /\ l[i][2] = x
  BY <1>1, <1>4, <1>11, IsAfter
<1>14. Is(c, r, "release", f)'
  BY <1>6, <1>13
<1>15. \A d \in Clients : \A q : \A op \in FsSteps : Is(d, q, op, f)' =>
           d = c /\ (q = r \/ (q > r /\ op \in PurgeSteps))
  <2> SUFFICES ASSUME NEW d \in Clients, NEW q, NEW op \in FsSteps, Is(d, q, op, f)'
               PROVE  d = c /\ (q = r \/ (q > r /\ op \in PurgeSteps))
    OBVIOUS
  <2>1. CASE Is(d, q, op, f)
    BY <2>1, <1>6
  <2>2. CASE d = c /\ \E i \in 1 .. Len(l) : q = n + Len(l) + 1 - i /\ l[i][1] = op /\ l[i][2] = f
    <3>1. PICK i \in 1 .. Len(l) : q = n + Len(l) + 1 - i /\ l[i][1] = op
      BY <2>2
    <3>2. q > r
      BY <3>1, <1>6
    <3> QED
      BY <2>2, <3>1, <3>2, <1>12 DEF PurgeSteps
  <2> QED
    BY <2>1, <2>2, <1>13
<1>16. FsSound(f)'
  <2>1. /\ ReleaseOwns(f)' /\ MountOwns(f)' /\ PurgeBeforeRelease(f)' /\ MountedInUse(f)' /\ NoneUnmounted(f)'
        /\ \A d \in Clients : \A p : Is(d, p, "release", f)' => d = c /\ p = r
    BY <1>6, <1>7, <1>14, <1>15, OwnerAfter
  <2>2. EntriesPurged(f)'
    <3> SUFFICES ASSUME NEW d \in Clients, NEW p, Is(d, p, "release", f)', f \notin leftover',
                        NEW id \in Entries(f)'
                 PROVE  WillPurge(d, p, f, id)'
      BY DEF EntriesPurged
    <3>1. d = c /\ p = r
      BY <2>1
    <3>2. <<"drop", f, id>> \in S
      BY <1>8
    <3>3. PICK i \in 1 .. Len(l) : l[i] = <<"drop", f, id>>
      BY <3>2, <1>11
    <3>4. PICK q \in Int : q = n + Len(l) + 1 - i
      OBVIOUS
    <3>5. q > r /\ Is(c, q, "drop", f)'
      BY <3>3, <3>4, <1>6, <1>12, <1>13
    <3>6. Planned(c, q)' = <<"drop", f, id>>
      <4>1. q \in Base(c) + 1 .. Base(c) + Len(l) /\ Base(c) + Len(l) + 1 - q = i
        BY <3>4, <1>4
      <4> QED
        BY <4>1, <3>3, <1>1, <1>11, ItemsAfter, SMTT(60)
    <3> QED
      BY <3>1, <3>5, <3>6 DEF WillPurge, Is
  <2> QED
    BY <2>1, <2>2 DEF FsSound
<1>17. \A g \in Filesystems \ {f} : Entries(g)' = Entries(g)
  BY <1>7, EntriesKept
<1>18. \A p \in Paths : mount_table[p] # f
  <2>1. \A p \in Paths : mount_table[p] # NULL => Usable(mount_table[p])
    BY DEF FsInv, MountsListed
  <2> QED
    BY <2>1, <1>6, NullAssumption
<1> QED
  BY <1>1, <1>3, <1>5, <1>7, <1>11, <1>12, <1>16, <1>17, <1>18, FsFocus

\* Removed takes away one entry of one filesystem.
LEMMA RemovedEntries ==
  ASSUME FsType, NEW f \in Filesystems, NEW id \in Nodeids, vnode_table' = Removed(f, id)
  PROVE  /\ Entries(f)' = Entries(f) \ {id}
         /\ \A g \in Filesystems \ {f} : Entries(g)' = Entries(g)
<1>1. \A g \in Filesystems, i \in Nodeids :
         vnode_table'[<<g, i>>] = IF g = f /\ i = id THEN NULL ELSE vnode_table[<<g, i>>]
  BY DEF FsType, Removed, create_vnode_key
<1> QED
  BY <1>1 DEF Entries, LookedUp, create_vnode_key

\* Drop keeps the invariant of filesystems.
LEMMA FsDrop ==
  ASSUME FsInv, FsType', NEW c \in Clients, Drop(c)
  PROVE  FsInv'
<1>1. TodoType /\ FsType
  BY DEF FsInv, FsType
<1>2. At(c, "drop")
  BY DEF Drop
<1>3. PICK f \in Filesystems : f = Arg(c)[2]
  BY <1>1, <1>2, AtHead DEF StepFields, FsSteps
<1>4. PICK id \in Nodeids : id = Arg(c)[3]
  BY <1>1, <1>2, AtHead DEF StepFields
<1>5. PICK n \in Nat : n = Base(c)
  BY <1>1, <1>2, AtHead
<1>6. /\ Is(c, n + 1, "drop", f) /\ todo[c] # <<>> /\ Arg(c)[1] = "drop"
      /\ Planned(c, n + 1) = Arg(c)
  BY <1>1, <1>2, <1>3, <1>5, AtHead DEF StepFields
<1>7. PICK r \in Nat : /\ r <= n /\ Is(c, r, "release", f) /\ vfs[f].mounted /\ ~Usable(f)
                       /\ \A d \in Clients : \A q : \A op \in FsSteps : Is(d, q, op, f) =>
                              d = c /\ (q = r \/ (q > r /\ q <= n + 1 /\ op \in PurgeSteps))
  BY <1>5, <1>6, PurgeOwner DEF PurgeSteps
<1>8. UNCHANGED <<vfs, mount_table, leftover>> /\ vnode_table' = Removed(f, id)
  BY <1>3, <1>4 DEF Drop
<1>9. /\ Entries(f)' = Entries(f) \ {id} /\ \A g \in Filesystems \ {f} : Entries(g)' = Entries(g)
      /\ IsFiniteSet(Entries(f))
  BY <1>1, <1>8, RemovedEntries, FS_Subset, FiniteAssumption DEF Entries
<1>10. PICK l \in Seq(Steps) : Became(c, l) /\ \A i \in 1 .. Len(l) : l[i][1] = "unref"
  <2>1. LookedUp(f, id) \in Vnodes \cup {NULL}
    BY <1>1 DEF FsType, LookedUp, create_vnode_key
  <2>2. PICK v \in Vnodes \cup {NULL} : v = LookedUp(f, id)
    BY <2>1
  <2>3. Then(c, Unrefs(v))
    BY <1>3, <1>4, <2>2 DEF Drop
  <2> QED
    BY <2>3, <1>1, <1>6, ThenBecame, UnrefsList
<1>11. \A d \in Clients : \A p, x : \A op \in FsSteps : Is(d, p, op, x)' <=> (d # c \/ p <= n) /\ Is(d, p, op, x)
  <2> SUFFICES ASSUME NEW d \in Clients, NEW p, NEW x, NEW op \in FsSteps
               PROVE  Is(d, p, op, x)' <=> (d # c \/ p <= n) /\ Is(d, p, op, x)
    OBVIOUS
  <2>1. \A i \in 1 .. Len(l) : l[i][1] # op
    BY <1>10 DEF FsSteps
  <2>2. Is(d, p, op, x)' <=>
           \/ (d # c \/ p <= Base(c)) /\ Is(d, p, op, x)
           \/ d = c /\ \E i \in 1 .. Len(l) : p = Base(c) + Len(l) + 1 - i /\ l[i][1] = op /\ l[i][2] = x
    BY <1>1, <1>10, IsAfter
  <2> QED
    BY <1>5, <2>1, <2>2
<1>12. Is(c, r, "release", f)'
  BY <1>7, <1>11 DEF FsSteps
<1>13. \A d \in Clients : \A q : \A op \in FsSteps : Is(d, q, op, f)' =>
           d = c /\ (q = r \/ (q > r /\ op \in PurgeSteps))
  BY <1>7, <1>11
<1>14. \A d \in Clients : \A p, op, x : (d # c \/ p <= n) /\ Is(d, p, op, x) => Planned(d, p)' = Planned(d, p)
  BY <1>1, <1>5, <1>10, IsKept
<1>15. FsSound(f)'
  <2>1. /\ ReleaseOwns(f)' /\ MountOwns(f)' /\ PurgeBeforeRelease(f)' /\ MountedInUse(f)' /\ NoneUnmounted(f)'
        /\ \A d \in Clients : \A p : Is(d, p, "release", f)' => d = c /\ p = r
    BY <1>7, <1>8, <1>12, <1>13, OwnerAfter
  <2>2. EntriesPurged(f)'
    <3> SUFFICES ASSUME NEW d \in Clients, NEW p, Is(d, p, "release", f)', f \notin leftover',
                        NEW j \in Entries(f)'
                 PROVE  WillPurge(d, p, f, j)'
      BY DEF EntriesPurged
    <3>1. d = c /\ p = r
      BY <2>1
    <3>2. j \in Entries(f) /\ j # id /\ f \notin leftover
      BY <1>8, <1>9
    <3>3. WillPurge(c, r, f, j)
      BY <3>2, <1>7 DEF FsInv, FsSound, EntriesPurged, Is
    <3>4. PICK q : /\ q > r
                   /\ \/ Is(c, q, "purge", f) \/ Is(c, q, "collect", f)
                      \/ Is(c, q, "drop", f) /\ Planned(c, q)[3] = j
      BY <3>3 DEF WillPurge
    <3>5. q # n + 1
      BY <3>2, <3>4, <1>4, <1>6 DEF Is
    <3>6. q <= n
      <4>1. q \in Slots(c)
        BY <3>4 DEF Is
      <4> QED
        BY <4>1, <3>5, <1>1, <1>5, <1>6, HeadPlanned
    <3>7. \/ Is(c, q, "purge", f)' \/ Is(c, q, "collect", f)'
          \/ Is(c, q, "drop", f)' /\ Planned(c, q)'[3] = j
      BY <3>4, <3>6, <1>11, <1>14 DEF FsSteps
    <3> QED
      BY <3>1, <3>4, <3>7 DEF WillPurge, Is
  <2> QED
    BY <2>1, <2>2 DEF FsSound
<1>16. \A p \in Paths : mount_table[p] # f
  <2>1. \A p \in Paths : mount_table[p] # NULL => Usable(mount_table[p])
    BY DEF FsInv, MountsListed
  <2> QED
    BY <2>1, <1>7, NullAssumption
<1>17. \A i \in 1 .. Len(l) : l[i][1] \notin FsSteps
  BY <1>10 DEF FsSteps
<1> QED
  BY <1>1, <1>3, <1>6, <1>8, <1>9, <1>10, <1>15, <1>16, <1>17, FsFocus

-----------------------------------------------------------------------------
(* Mounts.                                                                  *)

\* Nobody mounts or unmounts a filesystem that does not exist, or that is usable.
LEMMA QuietIs ==
  ASSUME FsInv, NEW f \in Filesystems, ~Exists(f) \/ Usable(f)
  PROVE  \A d \in Clients : \A p : \A op \in FsSteps : ~Is(d, p, op, f)
<1> SUFFICES ASSUME NEW d \in Clients, NEW p, NEW op \in FsSteps, Is(d, p, op, f) PROVE FALSE
  OBVIOUS
<1>1. TodoType /\ FsSound(f) /\ p \in Slots(d)
  BY DEF FsInv, FsType, Is
<1>2. Doing(op, f)
  BY <1>1, DoingIs
<1>3. vfs[f].mounted <=> op # "mount"
  BY <1>1 DEF FsSound, MountedInUse
<1>4. Usable(f) /\ op # "release" /\ op \in PurgeSteps
  BY <1>2, <1>3 DEF Exists, Usable, FsSteps, PurgeSteps
<1>5. PICK q \in Slots(d) : Is(d, q, "release", f)
  BY <1>1, <1>4 DEF FsSound, PurgeBeforeRelease
<1> QED
  BY <1>1, <1>4, <1>5, DoingIs DEF Usable

\* After the call of an idle client, its steps are the ones of l.
LEMMA CallItems ==
  ASSUME TodoType, NEW c \in Clients, NEW l \in Seq(Steps), todo[c] = <<>>, Call(c, l)
  PROVE  /\ Became(c, l) /\ Base(c) = 0
         /\ \A d \in Clients : \A p, op, x : Is(d, p, op, x)' <=>
              \/ d # c /\ Is(d, p, op, x)
              \/ d = c /\ \E i \in 1 .. Len(l) : p = Len(l) + 1 - i /\ l[i][1] = op /\ l[i][2] = x
         /\ \A d \in Clients : \A p, op, x : Is(d, p, op, x) =>
              d # c /\ Is(d, p, op, x)' /\ Planned(d, p)' = Planned(d, p)
<1>1. Became(c, l) /\ Base(c) = 0
  BY CallBecame, RestType
<1>2. \A p, op, x : ~Is(c, p, op, x)
  BY RestType DEF Is, Slots
<1>3. \A d \in Clients : \A p, op, x : Is(d, p, op, x)' <=>
              \/ (d # c \/ p <= 0) /\ Is(d, p, op, x)
              \/ d = c /\ \E i \in 1 .. Len(l) : p = 0 + Len(l) + 1 - i /\ l[i][1] = op /\ l[i][2] = x
  BY <1>1, IsAfter
<1>4. \A d \in Clients : \A p, op, x : Is(d, p, op, x) => Is(d, p, op, x)' /\ Planned(d, p)' = Planned(d, p)
  BY <1>1, IsKept
<1> QED
  BY <1>1, <1>2, <1>3, <1>4

\* What follows a list of one step.
LEMMA ConcatOne ==
  ASSUME NEW a \in Seq(Steps), NEW b \in Seq(Steps), Len(a) = 1
  PROVE  /\ a \o b \in Seq(Steps) /\ Len(a \o b) = 1 + Len(b)
         /\ (a \o b)[1] = a[1]
         /\ \A i \in 1 .. Len(b) : (a \o b)[1 + i] = b[i]
<1>1. /\ a \o b \in Seq(Steps) /\ Len(a \o b) = Len(a) + Len(b) /\ Len(b) \in Nat
      /\ \A i \in 1 .. Len(a) + Len(b) : (a \o b)[i] = IF i <= Len(a) THEN a[i] ELSE b[i - Len(a)]
  BY ConcatProperties, SMTT(60)
<1>2. PICK k : k = a \o b
  OBVIOUS
<1>3. \A i \in 1 .. 1 + Len(b) : k[i] = IF i <= 1 THEN a[i] ELSE b[i - 1]
  BY <1>1, <1>2
<1>4. k[1] = a[1]
  BY <1>1, <1>3
<1>5. ASSUME NEW i \in 1 .. Len(b) PROVE k[1 + i] = b[i]
  <2>1. 1 + i \in 1 .. 1 + Len(b) /\ ~(1 + i <= 1) /\ 1 + i - 1 = i
    BY <1>1
  <2> QED
    BY <2>1, <1>3
<1> QED
  BY <1>1, <1>2, <1>4, <1>5

\* The lists of no step and of one.
Nil == << >>

Single(s) == <<s>>

\* The list of no step.
LEMMA NilList == Nil \in Seq(Steps) /\ Len(Nil) = 0 /\ \A i \in 1 .. Len(Nil) : FALSE
BY DEF Nil

\* The list of one step.
LEMMA ListOfOne ==
  ASSUME NEW s \in Steps
  PROVE  Single(s) \in Seq(Steps) /\ Len(Single(s)) = 1 /\ Single(s)[1] = s
BY DEF Single

\* A step that leaves nothing behind.
LEMMA ThenNone ==
  ASSUME TodoType, NEW c \in Clients, todo[c] # <<>>, Then(c, << >>)
  PROVE  \E l \in Seq(Steps) : Became(c, l) /\ Len(l) = 0 /\ \A i \in 1 .. Len(l) : FALSE
<1>1. Then(c, Nil)
  BY DEF Nil
<1> QED
  BY <1>1, NilList, ThenBecame

\* A step that leaves one behind.
LEMMA ThenOne ==
  ASSUME TodoType, NEW c \in Clients, todo[c] # <<>>, NEW s \in Steps, Then(c, <<s>>)
  PROVE  \E l \in Seq(Steps) : Became(c, l) /\ Len(l) = 1 /\ l[1] = s
<1>1. Then(c, Single(s))
  BY DEF Single
<1> QED
  BY <1>1, ListOfOne, ThenBecame

\* A call that is over at once.
LEMMA CallNone ==
  ASSUME TodoType, NEW c \in Clients, todo[c] = <<>>, Call(c, << >>)
  PROVE  \E l \in Seq(Steps) : Call(c, l) /\ Became(c, l) /\ Len(l) = 0 /\ \A i \in 1 .. Len(l) : FALSE
<1>1. Call(c, Nil)
  BY DEF Nil
<1> QED
  BY <1>1, NilList, CallBecame

\* A call that leaves one step to do.
LEMMA CallOne ==
  ASSUME TodoType, NEW c \in Clients, todo[c] = <<>>, NEW s \in Steps, Call(c, <<s>>)
  PROVE  \E l \in Seq(Steps) : Call(c, l) /\ Became(c, l) /\ Len(l) = 1 /\ l[1] = s
<1>1. Call(c, Single(s))
  BY DEF Single
<1> QED
  BY <1>1, ListOfOne, CallBecame

\* vfs_mount_fs keeps the invariant of filesystems.
LEMMA FsMount ==
  ASSUME FsInv, FsType', NEW c \in Clients, todo[c] = <<>>, NEW f \in Filesystems,
         NEW v \in Vnodes \cup {NULL}, NEW p0 \in Paths, vfs_mount_fs(c, f, v, p0)
  PROVE  FsInv'
<1>1. TodoType
  BY DEF FsInv, FsType
<1>2. \A d \in Clients : \A p : \A op \in FsSteps : ~Is(d, p, op, f)
  BY QuietIs DEF vfs_mount_fs
<1>3. UNCHANGED <<vnode_table, mount_table, leftover>> /\ ~vfs[f].mounted
  BY DEF vfs_mount_fs, Exists
<1>4. vfs' = [vfs EXCEPT ![f] = [mounted |-> FALSE, covered |-> v, path |-> p0]]
  BY DEF vfs_mount_fs
<1>5. ~vfs'[f].mounted /\ \A g \in Filesystems \ {f} : vfs'[g] = vfs[g]
  BY <1>4 DEF FsInv, FsType
<1>6. PICK l \in Seq(Steps) : Call(c, l) /\ Len(l) = 1 /\ l[1][1] = "mount" /\ l[1][2] = f
  <2>1. <<"mount", f>> \in Steps /\ Call(c, << <<"mount", f>> >>)
    BY StepsMade DEF vfs_mount_fs
  <2>2. PICK l \in Seq(Steps) : Call(c, l) /\ Len(l) = 1 /\ l[1] = <<"mount", f>>
    BY <1>1, <2>1, CallOne
  <2> QED
    BY <2>2
<1>60. Call(c, l)
  BY <1>6
<1>7. Became(c, l)
  BY <1>1, <1>60, CallItems
<1>8. \A d \in Clients : \A p, op : Is(d, p, op, f)' /\ op \in FsSteps => d = c /\ p = 1 /\ op = "mount"
  <2>1. Len(l) = 1 /\ l[1][1] = "mount"
    BY <1>6
  <2> QED
    <3>1. \A d \in Clients : \A p, op, x : Is(d, p, op, x)' <=>
              \/ d # c /\ Is(d, p, op, x)
              \/ d = c /\ \E i \in 1 .. Len(l) : p = Len(l) + 1 - i /\ l[i][1] = op /\ l[i][2] = x
      BY <1>1, <1>60, CallItems
    <3> QED
      BY <2>1, <3>1, <1>2
<1>9. FsSound(f)'
  <2>1. ReleaseOwns(f)' /\ MountOwns(f)' /\ PurgeBeforeRelease(f)'
    BY <1>8 DEF ReleaseOwns, MountOwns, PurgeBeforeRelease, FsSteps, PurgeSteps
  <2>2. MountedInUse(f)' /\ EntriesPurged(f)'
    BY <1>8, <1>5 DEF MountedInUse, EntriesPurged, FsSteps
  <2>3. NoneUnmounted(f)'
    BY <1>3, EntriesKept DEF NoneUnmounted, FsInv, FsSound
  <2> QED
    BY <2>1, <2>2, <2>3 DEF FsSound
<1>10. \A p \in Paths : mount_table[p] # f
  <2>1. \A p \in Paths : mount_table[p] # NULL => Usable(mount_table[p])
    BY DEF FsInv, MountsListed
  <2>2. ~Usable(f)
    BY <1>3 DEF Usable
  <2> QED
    BY <2>1, <2>2, NullAssumption
<1>11. \A i \in 1 .. Len(l) : l[i][2] = f
  BY <1>6
<1>12. \A g \in Filesystems : Entries(g)' = Entries(g)
  BY <1>3, EntriesKept
<1> QED
  BY <1>1, <1>3, <1>5, <1>7, <1>9, <1>10, <1>11, <1>12, FsFocus

\* The end of a mount, good or bad, keeps the invariant of filesystems.
LEMMA FsMounted ==
  ASSUME FsInv, FsType', NEW c \in Clients, Mounted(c)
  PROVE  FsInv'
<1>1. TodoType
  BY DEF FsInv, FsType
<1>2. At(c, "mount")
  BY DEF Mounted
<1>3. PICK f \in Filesystems : f = Arg(c)[2]
  BY <1>1, <1>2, AtHead DEF StepFields, FsSteps
<1>4. PICK n \in Nat : n = Base(c)
  BY <1>1, <1>2, AtHead
<1>5. Is(c, n + 1, "mount", f) /\ todo[c] # <<>> /\ Arg(c)[1] = "mount"
  BY <1>1, <1>2, <1>3, <1>4, AtHead
<1>6. ~vfs[f].mounted
  BY <1>5 DEF FsInv, FsSound, MountedInUse, Is, FsSteps
<1>7. \A d \in Clients : \A q : \A op \in FsSteps : Is(d, q, op, f) => d = c /\ q = n + 1
  BY <1>5 DEF FsInv, FsSound, MountOwns, Is
<1>8. UNCHANGED <<vnode_table, leftover>>
  BY DEF Mounted
<1>9. PICK l \in Seq(Steps) : Became(c, l) /\ \A i \in 1 .. Len(l) : l[i][1] = "unref"
  <2>1. PICK v \in Vnodes \cup {NULL} : v = vfs[f].covered
    BY DEF FsInv, FsType
  <2>2. Then(c, Unrefs(v)) \/ Then(c, << >>)
    BY <2>1, <1>3 DEF Mounted
  <2> QED
    <3>1. CASE Then(c, Unrefs(v))
      <4>1. Unrefs(v) \in Seq(Steps) /\ \A i \in 1 .. Len(Unrefs(v)) : Unrefs(v)[i][1] = "unref"
        BY UnrefsList
      <4> QED
        BY <3>1, <4>1, <1>1, <1>5, ThenBecame
    <3>2. CASE Then(c, << >>)
      BY <3>2, <1>1, <1>5, ThenNone
    <3> QED
      BY <2>2, <3>1, <3>2
<1>10. \A i \in 1 .. Len(l) : l[i][1] \notin FsSteps
  BY <1>9 DEF FsSteps
<1>11. \A d \in Clients : \A p : \A op \in FsSteps : ~Is(d, p, op, f)'
  <2> SUFFICES ASSUME NEW d \in Clients, NEW p, NEW op \in FsSteps, Is(d, p, op, f)' PROVE FALSE
    OBVIOUS
  <2>1. (d # c \/ p <= n) /\ Is(d, p, op, f)
    BY <1>1, <1>4, <1>9, <1>10, IsAfter
  <2>2. d = c /\ p = n + 1
    BY <2>1, <1>7
  <2> QED
    BY <2>1, <2>2
<1>12. ~Doing("release", f)' /\ TodoType'
  BY <1>11, DoingIsAfter DEF FsType, FsSteps
<1>13. \/ vfs' = vfs /\ mount_table' = mount_table
       \/ /\ vfs' = [vfs EXCEPT ![f].mounted = TRUE]
          /\ mount_table' = [mount_table EXCEPT ![vfs[f].path] = f] \/ mount_table' = mount_table
  BY <1>3 DEF Mounted
<1>14. \A g \in Filesystems \ {f} : vfs'[g] = vfs[g]
  BY <1>13 DEF FsInv, FsType
<1>15. vfs'[f].path = vfs[f].path
  BY <1>13 DEF FsInv, FsType
<1>16. FsSound(f)'
  <2>1. ReleaseOwns(f)' /\ MountOwns(f)' /\ PurgeBeforeRelease(f)'
    BY <1>11 DEF ReleaseOwns, MountOwns, PurgeBeforeRelease, FsSteps, PurgeSteps
  <2>2. MountedInUse(f)' /\ EntriesPurged(f)'
    BY <1>11 DEF MountedInUse, EntriesPurged, FsSteps
  <2>3. NoneUnmounted(f)'
    <3>1. f \in leftover \/ Entries(f) = {}
      BY <1>6 DEF NoneUnmounted, FsInv, FsSound
    <3> QED
      BY <3>1, <1>8, EntriesKept DEF NoneUnmounted
  <2> QED
    BY <2>1, <2>2, <2>3 DEF FsSound
<1>17. \A p \in Paths : mount_table[p] # f
  <2>1. \A p \in Paths : mount_table[p] # NULL => Usable(mount_table[p])
    BY DEF FsInv, MountsListed
  <2>2. ~Usable(f)
    BY <1>6 DEF Usable
  <2> QED
    BY <2>1, <2>2, NullAssumption
<1>18. ASSUME NEW p \in Paths, mount_table'[p] # NULL
       PROVE  \/ mount_table'[p] = mount_table[p] /\ mount_table[p] # f
              \/ mount_table'[p] = f /\ vfs'[f].path = p /\ Usable(f)'
  <2>1. CASE mount_table' = mount_table
    BY <2>1, <1>17
  <2>2. CASE mount_table' = [mount_table EXCEPT ![vfs[f].path] = f] /\ vfs' = [vfs EXCEPT ![f].mounted = TRUE]
    <3>1. CASE p # vfs[f].path
      BY <3>1, <2>2, <1>17 DEF FsInv, FsType
    <3>2. CASE p = vfs[f].path
      <4>1. mount_table'[p] = f
        BY <3>2, <2>2 DEF FsInv, FsType
      <4>2. vfs'[f].mounted
        BY <2>2 DEF FsInv, FsType
      <4> QED
        BY <3>2, <4>1, <4>2, <1>12, <1>15 DEF Usable
    <3> QED
      BY <3>1, <3>2
  <2> QED
    BY <2>1, <2>2, <1>13
<1>19. \A g \in Filesystems : Entries(g)' = Entries(g)
  BY <1>8, EntriesKept
<1> QED
  BY <1>1, <1>3, <1>5, <1>8, <1>9, <1>10, <1>14, <1>16, <1>18, <1>19, FsFocus

\* vfs_unmount_fs keeps the invariant of filesystems.
LEMMA FsUnmount ==
  ASSUME FsInv, FsType', NEW c \in Clients, todo[c] = <<>>, NEW f \in Filesystems, vfs_unmount_fs(c, f)
  PROVE  FsInv'
<1>1. TodoType
  BY DEF FsInv, FsType
<1>2. \A d \in Clients : \A p : \A op \in FsSteps : ~Is(d, p, op, f)
  BY QuietIs DEF vfs_unmount_fs
<1>3. UNCHANGED <<vnode_table, vfs, leftover>> /\ vfs[f].mounted /\ mount_table' = Unmounted(f)
  BY DEF vfs_unmount_fs, Usable
<1> DEFINE m == << <<"unlock">>, <<"purge", f>>, <<"release", f>> >>
<1>4. PICK v \in Vnodes \cup {NULL} : v = vfs[f].covered
  BY DEF FsInv, FsType
<1>5. m \in Seq(Steps) /\ Len(m) = 3 /\ m[1][1] = "unlock" /\ m[2][1] = "purge" /\ m[3][1] = "release"
      /\ m[2][2] = f /\ m[3][2] = f
  BY StepsMade
<1>6. PICK l \in Seq(Steps) :
        /\ Call(c, l) /\ Len(l) \in Nat /\ Len(l) >= 3
        /\ l[Len(l)][1] = "release" /\ l[Len(l)][2] = f /\ l[Len(l) - 1][1] = "purge" /\ l[Len(l) - 1][2] = f
        /\ \A i \in 1 .. Len(l) : i < Len(l) - 1 => l[i][1] \notin FsSteps
  <2>1. Call(c, Unrefs(v) \o m)
    BY <1>4 DEF vfs_unmount_fs
  <2>2. CASE v = NULL
    <3>1. Unrefs(v) = << >>
      BY <2>2 DEF Unrefs
    <3>2. Unrefs(v) \o m = m
      <4> HIDE DEF m
      <4> QED
        BY <1>5, <3>1, ConcatEmptySeq
    <3>3. \A i \in 1 .. Len(m) : i < Len(m) - 1 => m[i][1] \notin FsSteps
      BY <1>5 DEF FsSteps
    <3>4. m \in Seq(Steps)
      BY <1>5
    <3>5. /\ Len(m) \in Nat /\ Len(m) >= 3
          /\ m[Len(m)][1] = "release" /\ m[Len(m)][2] = f /\ m[Len(m) - 1][1] = "purge" /\ m[Len(m) - 1][2] = f
      BY <1>5
    <3>6. Call(c, m)
      BY <2>1, <3>2
    <3> HIDE DEF m
    <3> QED
      BY <3>3, <3>4, <3>5, <3>6
  <2>3. CASE v # NULL
    <3>1. Unrefs(v) \in Seq(Steps) /\ Len(Unrefs(v)) = 1 /\ Unrefs(v)[1] = <<"unref", v>>
      BY <2>3, UnrefsList
    <3> DEFINE k == Unrefs(v) \o m
    <3>2. k \in Seq(Steps) /\ Len(k) = 4 /\ k[1] = Unrefs(v)[1] /\ k[2] = m[1] /\ k[3] = m[2] /\ k[4] = m[3]
      <4> HIDE DEF m
      <4>1. /\ k \in Seq(Steps) /\ Len(k) = 4 /\ k[1] = Unrefs(v)[1]
            /\ \A i \in 1 .. 3 : k[1 + i] = m[i]
        <5>1. m \in Seq(Steps) /\ Unrefs(v) \in Seq(Steps)
          BY <1>5, <3>1
        <5>2. /\ k \in Seq(Steps) /\ Len(k) = 1 + Len(m) /\ k[1] = Unrefs(v)[1]
              /\ \A i \in 1 .. Len(m) : k[1 + i] = m[i]
          BY <5>1, <3>1, ConcatOne
        <5>3. Len(m) = 3
          BY <1>5
        <5> HIDE DEF k
        <5> QED
          BY <5>2, <5>3
      <4>2. k[1 + 1] = m[1] /\ k[1 + 2] = m[2] /\ k[1 + 3] = m[3]
        BY <4>1
      <4> HIDE DEF k
      <4> QED
        BY <4>1, <4>2
    <3>3. k[1][1] = "unref" /\ k[2][1] = "unlock" /\ k[3][1] = "purge" /\ k[4][1] = "release" /\ k[3][2] = f /\ k[4][2] = f
      BY <3>1, <3>2, <1>5
    <3>4. Call(c, k)
      BY <2>1
    <3> HIDE DEF k
    <3>5. \A i \in 1 .. Len(k) : i < Len(k) - 1 => k[i][1] \notin FsSteps
      BY <3>2, <3>3 DEF FsSteps
    <3>6. Len(k) - 1 = 3 /\ Len(k) \in Nat /\ Len(k) >= 3
      BY <3>2
    <3> QED
      BY <3>2, <3>3, <3>4, <3>5, <3>6
  <2> QED
    BY <2>2, <2>3
<1>7. Became(c, l)
  BY <1>1, <1>6, CallItems
<1>8. \A d \in Clients : \A p, op : Is(d, p, op, f)' /\ op \in FsSteps =>
           d = c /\ ((p = 1 /\ op = "release") \/ (p = 2 /\ op = "purge"))
  <2> SUFFICES ASSUME NEW d \in Clients, NEW p, NEW op \in FsSteps, Is(d, p, op, f)'
               PROVE  d = c /\ ((p = 1 /\ op = "release") \/ (p = 2 /\ op = "purge"))
    OBVIOUS
  <2>1. d = c /\ \E i \in 1 .. Len(l) : p = Len(l) + 1 - i /\ l[i][1] = op /\ l[i][2] = f
    BY <1>1, <1>2, <1>6, CallItems
  <2>2. PICK i \in 1 .. Len(l) : p = Len(l) + 1 - i /\ l[i][1] = op
    BY <2>1
  <2>3. i = Len(l) \/ i = Len(l) - 1
    BY <2>2, <1>6
  <2>4. (i = Len(l) => p = 1) /\ (i = Len(l) - 1 => p = 2)
    BY <2>2, <1>6
  <2> QED
    BY <2>1, <2>2, <2>3, <2>4, <1>6
<1>9. Is(c, 1, "release", f)' /\ Is(c, 2, "purge", f)'
  <2>0. Len(l) \in Nat /\ Len(l) >= 3
    BY <1>6
  <2>1. 1 = Len(l) + 1 - Len(l) /\ 2 = Len(l) + 1 - (Len(l) - 1) /\ Len(l) \in 1 .. Len(l) /\ Len(l) - 1 \in 1 .. Len(l)
    BY <2>0
  <2> QED
    BY <2>1, <1>1, <1>6, CallItems
<1>10. FsSound(f)'
  <2>1. /\ ReleaseOwns(f)' /\ MountOwns(f)' /\ PurgeBeforeRelease(f)' /\ MountedInUse(f)' /\ NoneUnmounted(f)'
        /\ \A d \in Clients : \A p : Is(d, p, "release", f)' => d = c /\ p = 1
    BY <1>3, <1>8, <1>9, OwnerAfter DEF PurgeSteps
  <2>2. EntriesPurged(f)'
    <3> SUFFICES ASSUME NEW d \in Clients, NEW p, Is(d, p, "release", f)', NEW id
                 PROVE  WillPurge(d, p, f, id)'
      BY DEF EntriesPurged
    <3>1. d = c /\ p = 1
      BY <2>1
    <3> QED
      BY <3>1, <1>9 DEF WillPurge, Is
  <2> QED
    BY <2>1, <2>2 DEF FsSound
<1>11. \A i \in 1 .. Len(l) : l[i][1] \in FsSteps => l[i][2] = f
  <2> SUFFICES ASSUME NEW i \in 1 .. Len(l), l[i][1] \in FsSteps PROVE l[i][2] = f
    OBVIOUS
  <2>1. i = Len(l) \/ i = Len(l) - 1
    BY <1>6
  <2> QED
    BY <2>1, <1>6
<1>12. \A g \in Filesystems : Entries(g)' = Entries(g)
  BY <1>3, EntriesKept
<1>13. ASSUME NEW p \in Paths, mount_table'[p] # NULL
       PROVE  mount_table'[p] = mount_table[p] /\ mount_table[p] # f
  <2>1. p # vfs[f].path
    BY <1>3, <1>13 DEF Unmounted, FsInv, FsType
  <2>2. mount_table'[p] = mount_table[p]
    BY <1>3, <2>1 DEF Unmounted, FsInv, FsType
  <2>3. mount_table[p] # f
    BY <2>1, <2>2, <1>13 DEF FsInv, MountsListed
  <2> QED
    BY <2>2, <2>3
<1> QED
  BY <1>1, <1>3, <1>7, <1>10, <1>11, <1>12, <1>13, FsFocus

\* Release keeps the invariant of filesystems.
LEMMA FsRelease ==
  ASSUME FsInv, FsType', NEW c \in Clients, Release(c)
  PROVE  FsInv'
<1>1. TodoType
  BY DEF FsInv, FsType
<1>2. At(c, "release")
  BY DEF Release
<1>3. PICK f \in Filesystems : f = Arg(c)[2]
  BY <1>1, <1>2, AtHead DEF StepFields, FsSteps
<1>4. PICK n \in Nat : n = Base(c)
  BY <1>1, <1>2, AtHead
<1>5. Is(c, n + 1, "release", f) /\ todo[c] # <<>> /\ Arg(c)[1] = "release"
  BY <1>1, <1>2, <1>3, <1>4, AtHead
<1>6. \A p \in Slots(c) : p <= n + 1
  BY <1>1, <1>4, <1>5, HeadPlanned
<1>7. \A d \in Clients : \A q : \A op \in FsSteps : Is(d, q, op, f) => d = c /\ q = n + 1
  <2> SUFFICES ASSUME NEW d \in Clients, NEW q, NEW op \in FsSteps, Is(d, q, op, f) PROVE d = c /\ q = n + 1
    OBVIOUS
  <2>1. d = c /\ (q = n + 1 \/ q > n + 1)
    BY <1>5 DEF FsInv, FsSound, ReleaseOwns, Is
  <2>2. q \in Slots(c) /\ q \in Nat
    BY <2>1, <1>1, PlannedType DEF Is
  <2> QED
    BY <2>1, <2>2, <1>6
<1>8. f \in leftover \/ Entries(f) = {}
  <2> SUFFICES ASSUME f \notin leftover, NEW id \in Entries(f) PROVE FALSE
    OBVIOUS
  <2>1. WillPurge(c, n + 1, f, id)
    BY <1>5 DEF FsInv, FsSound, EntriesPurged, Is
  <2>2. PICK q \in Slots(c) : q > n + 1
    BY <2>1 DEF WillPurge
  <2>3. q \in Nat
    BY <1>1, PlannedType
  <2> QED
    BY <2>2, <2>3, <1>6
<1>9. UNCHANGED <<vnode_table, leftover, mount_table>> /\ vfs' = [vfs EXCEPT ![f] = NewVfs]
  BY <1>3 DEF Release
<1>10. PICK l \in Seq(Steps) : Became(c, l) /\ \A i \in 1 .. Len(l) : FALSE
  BY <1>1, <1>5, ThenNone DEF Release
<1>11. \A d \in Clients : \A p : \A op \in FsSteps : ~Is(d, p, op, f)'
  <2> SUFFICES ASSUME NEW d \in Clients, NEW p, NEW op \in FsSteps, Is(d, p, op, f)' PROVE FALSE
    OBVIOUS
  <2>1. (d # c \/ p <= n) /\ Is(d, p, op, f)
    BY <1>1, <1>4, <1>10, IsAfter
  <2>2. d = c /\ p = n + 1
    BY <2>1, <1>7
  <2> QED
    BY <2>1, <2>2
<1>12. FsSound(f)'
  <2>1. ReleaseOwns(f)' /\ MountOwns(f)' /\ PurgeBeforeRelease(f)'
    BY <1>11 DEF ReleaseOwns, MountOwns, PurgeBeforeRelease, FsSteps, PurgeSteps
  <2>2. MountedInUse(f)' /\ EntriesPurged(f)'
    BY <1>11 DEF MountedInUse, EntriesPurged, FsSteps
  <2>3. NoneUnmounted(f)'
    BY <1>8, <1>9, EntriesKept DEF NoneUnmounted
  <2> QED
    BY <2>1, <2>2, <2>3 DEF FsSound
<1>13. \A p \in Paths : mount_table[p] # f
  <2>1. \A p \in Paths : mount_table[p] # NULL => Usable(mount_table[p])
    BY DEF FsInv, MountsListed
  <2>2. ~Usable(f)
    BY <1>1, <1>5, DoingIs DEF Usable, Is
  <2> QED
    BY <2>1, <2>2, NullAssumption
<1>14. \A g \in Filesystems : Entries(g)' = Entries(g)
  BY <1>9, EntriesKept
<1>15. \A g \in Filesystems \ {f} : vfs'[g] = vfs[g]
  BY <1>9 DEF FsInv, FsType
<1> QED
  BY <1>1, <1>3, <1>5, <1>9, <1>10, <1>12, <1>13, <1>14, <1>15, FsFocus

-----------------------------------------------------------------------------
(* Vnodes and the steps on them.                                            *)

\* The fields of a vnode.
VnodeType == [alloc : BOOLEAN, count : Int, freeing : BOOLEAN, parent : Vnodes \cup {NULL}]

\* The types of what the counts are about.
RefType ==
  /\ vn \in [Vnodes -> VnodeType]
  /\ namecache \in [Vnodes \X Names -> Vnodes \cup {NULL}]
  /\ held \in [Clients -> [Vnodes -> Nat]]
  /\ lost \in [Vnodes -> Nat]
  /\ spin \in Clients \cup {NULL}

\* An object of the slab is blank, and a vnode that is being freed has no references.
VnodesSound ==
  \A v \in Vnodes : (~vn[v].alloc => vn[v] = Blank) /\ (vn[v].freeing => vn[v].count = 0)

\* One client frees a vnode: the one that dropped its last reference.
FreedOnce ==
  /\ \A c \in Clients : \A p \in Slots(c) : \A v \in Vnodes :
       /\ Is(c, p, "last", v) => vn[v].alloc /\ vn[v].count = 0 /\ ~vn[v].freeing
       /\ Is(c, p, "slab", v) => vn[v].alloc /\ vn[v].count = 0 /\ vn[v].freeing
  /\ \A c \in Clients, d \in Clients : \A p \in Slots(c), q \in Slots(d) : \A v \in Vnodes, op \in {"last", "slab"} :
       Is(c, p, op, v) /\ Is(d, q, op, v) => c = d /\ p = q

\* Who gives a vnode a parent has references to both, and nobody else does.
ParentsHeld ==
  /\ \A c \in Clients : \A p \in Slots(c) : \A v \in Vnodes :
       Is(c, p, "parent", v) =>
         held[c][v] > 0 /\ (Planned(c, p)[3] # NULL => held[c][Planned(c, p)[3]] > 0)
  /\ \A c \in Clients, d \in Clients : \A p \in Slots(c), q \in Slots(d) : \A v \in Vnodes :
       Is(c, p, "parent", v) /\ Is(d, q, "parent", v) => c = d /\ p = q

\* Entries of the name cache are removed with the lock held, one at a time.
NamesLocked ==
  \A c \in Clients : \A p \in Slots(c) :
     /\ Planned(c, p)[1] \in {"remove", "uncache"} => spin = c
     /\ Planned(c, p)[1] = "unlock" => \A q \in Slots(c) : Planned(c, q)[1] \in {"remove", "uncache"} => q > p
     /\ Planned(c, p)[1] = "uncache" => \A q \in Slots(c) : Planned(c, q)[1] = "remove" => q > p

\* Entering a name is the last step of its call.
EnterAlone ==
  \A c \in Clients : \A p \in Slots(c) : Planned(c, p)[1] = "enter" => Len(todo[c]) = 1

\* What holds of the steps that somebody has still to do.
StepsSound == VnodesSound /\ FreedOnce /\ ParentsHeld /\ NamesLocked /\ EnterAlone

\* What becomes of a vnode when a reference is taken, or another one dropped.
CountsUp ==
  \A v \in Vnodes :
    \/ vn'[v] = vn[v]
    \/ /\ vn[v].count > 0 \/ ~vn[v].alloc
       /\ vn'[v].count > 0 /\ vn'[v].alloc /\ ~vn'[v].freeing

\* A step after client c's is one of before, or one of l.
LEMMA Origin ==
  ASSUME TodoType, NEW c \in Clients, NEW l \in Seq(Steps), Became(c, l),
         NEW d \in Clients, NEW p \in Slots(d)'
  PROVE  \/ (d # c \/ p <= Base(c)) /\ p \in Slots(d) /\ Planned(d, p)' = Planned(d, p)
         \/ /\ d = c /\ p > Base(c) /\ p \in Nat
            /\ \E i \in 1 .. Len(l) : p = Base(c) + Len(l) + 1 - i /\ Planned(d, p)' = l[i]
<1>1. CASE d # c
  BY <1>1, ItemsAfter
<1>2. CASE d = c
  <2>1. p \in 1 .. Base(c) + Len(l) /\ Base(c) \in Nat /\ Len(l) \in Nat
    BY <1>2, ItemsAfter
  <2>2. CASE p <= Base(c)
    <3>1. p \in 1 .. Base(c)
      BY <2>1, <2>2
    <3> QED
      BY <1>2, <2>2, <3>1, ItemsAfter
  <2>3. CASE ~(p <= Base(c))
    <3>1. p \in Base(c) + 1 .. Base(c) + Len(l) /\ p > Base(c) /\ p \in Nat
      BY <2>1, <2>3
    <3>2. PICK i \in 1 .. Len(l) : i = Base(c) + Len(l) + 1 - p
      BY <2>1, <3>1
    <3>3. p = Base(c) + Len(l) + 1 - i
      BY <2>1, <3>1, <3>2
    <3>4. Planned(d, p)' = l[i]
      BY <1>2, <3>1, <3>2, ItemsAfter
    <3> QED
      BY <1>2, <3>1, <3>3, <3>4
  <2> QED
    BY <2>2, <2>3
<1> QED
  BY <1>1, <1>2

\* A step that l has no step like was there before.
LEMMA OldItem ==
  ASSUME TodoType, NEW c \in Clients, NEW l \in Seq(Steps), Became(c, l),
         NEW d \in Clients, NEW p \in Slots(d)', 
         \A i \in 1 .. Len(l) : l[i][1] # Planned(d, p)'[1]
  PROVE  (d # c \/ p <= Base(c)) /\ p \in Slots(d) /\ Planned(d, p)' = Planned(d, p)
BY Origin

\* A step that starts no free keeps FreedOnce.
LEMMA LastKept ==
  ASSUME TodoType, NEW c \in Clients, NEW l \in Seq(Steps), Became(c, l),
         \A i \in 1 .. Len(l) : l[i][1] \notin {"last", "slab"},
         CountsUp, VnodesSound, FreedOnce
  PROVE  FreedOnce'
<1>1. ASSUME NEW d \in Clients, NEW p \in Slots(d)', NEW v \in Vnodes, NEW op \in {"last", "slab"}, Is(d, p, op, v)'
      PROVE  Is(d, p, op, v) /\ p \in Slots(d)
  <2>1. p \in Slots(d) /\ Planned(d, p)' = Planned(d, p)
    BY <1>1, OldItem DEF Is
  <2> QED
    BY <1>1, <2>1 DEF Is
<1>2. ASSUME NEW d \in Clients, NEW p \in Slots(d)', NEW v \in Vnodes, Is(d, p, "last", v)'
      PROVE  vn'[v].alloc /\ vn'[v].count = 0 /\ ~vn'[v].freeing
  <2>1. vn[v].alloc /\ vn[v].count = 0 /\ ~vn[v].freeing
    BY <1>1, <1>2 DEF FreedOnce
  <2>2. vn'[v] = vn[v]
    BY <2>1 DEF CountsUp
  <2> QED
    BY <2>1, <2>2
<1>3. ASSUME NEW d \in Clients, NEW p \in Slots(d)', NEW v \in Vnodes, Is(d, p, "slab", v)'
      PROVE  vn'[v].alloc /\ vn'[v].count = 0 /\ vn'[v].freeing
  <2>1. vn[v].alloc /\ vn[v].count = 0 /\ vn[v].freeing
    BY <1>1, <1>3 DEF FreedOnce
  <2>2. vn'[v] = vn[v]
    BY <2>1 DEF CountsUp
  <2> QED
    BY <2>1, <2>2
<1>4. ASSUME NEW d \in Clients, NEW e \in Clients, NEW p \in Slots(d)', NEW q \in Slots(e)', NEW v \in Vnodes,
             NEW op \in {"last", "slab"}, Is(d, p, op, v)', Is(e, q, op, v)'
      PROVE  d = e /\ p = q
  <2>1. Is(d, p, op, v) /\ Is(e, q, op, v) /\ p \in Slots(d) /\ q \in Slots(e)
    BY <1>1, <1>4
  <2> QED
    BY <2>1 DEF FreedOnce
<1> QED
  BY <1>2, <1>3, <1>4 DEF FreedOnce

\* Taking references keeps VnodesSound.
LEMMA VnodesKept ==
  ASSUME CountsUp, VnodesSound
  PROVE  VnodesSound'
BY DEF CountsUp, VnodesSound

\* The references that client c had before are still there, if it is inside a call.
HeldKept(c) ==
  \A d \in Clients, v \in Vnodes : (d # c \/ todo[c] # <<>>) /\ held[d][v] > 0 => held'[d][v] > 0

\* A step that gives no parent keeps ParentsHeld.
LEMMA ParentsKept ==
  ASSUME TodoType, NEW c \in Clients, NEW l \in Seq(Steps), Became(c, l),
         \A i \in 1 .. Len(l) : l[i][1] # "parent",
         HeldKept(c), ParentsHeld
  PROVE  ParentsHeld'
<1>1. ASSUME NEW d \in Clients, NEW p \in Slots(d)', NEW v \in Vnodes, Is(d, p, "parent", v)'
      PROVE  Is(d, p, "parent", v) /\ p \in Slots(d) /\ Planned(d, p)' = Planned(d, p) /\ (d # c \/ todo[c] # <<>>)
  <2>1. p \in Slots(d) /\ Planned(d, p)' = Planned(d, p)
    BY <1>1, OldItem DEF Is
  <2>2. d = c => todo[c] # <<>>
    BY <2>1, RestType DEF Slots
  <2> QED
    BY <1>1, <2>1, <2>2 DEF Is
<1>2. ASSUME NEW d \in Clients, NEW p \in Slots(d)', NEW v \in Vnodes, Is(d, p, "parent", v)'
      PROVE  held'[d][v] > 0 /\ (Planned(d, p)'[3] # NULL => held'[d][Planned(d, p)'[3]] > 0)
  <2>1. /\ Planned(d, p)' = Planned(d, p) /\ (d # c \/ todo[c] # <<>>) /\ p \in Slots(d)
        /\ held[d][v] > 0 /\ (Planned(d, p)[3] # NULL => held[d][Planned(d, p)[3]] > 0)
    BY <1>1, <1>2 DEF ParentsHeld
  <2>2. Planned(d, p)[3] \in Vnodes \cup {NULL}
    BY <1>1, <1>2, <2>1, PlannedType, FieldsOfSteps DEF Is, StepFields
  <2>3. held'[d][v] > 0
    BY <2>1 DEF HeldKept
  <2>4. PICK x \in Vnodes \cup {NULL} : x = Planned(d, p)[3]
    BY <2>2
  <2>5. x # NULL => held'[d][x] > 0
    BY <2>1, <2>4 DEF HeldKept
  <2> QED
    BY <2>1, <2>3, <2>4, <2>5
<1>3. ASSUME NEW d \in Clients, NEW e \in Clients, NEW p \in Slots(d)', NEW q \in Slots(e)', NEW v \in Vnodes,
             Is(d, p, "parent", v)', Is(e, q, "parent", v)'
      PROVE  d = e /\ p = q
  <2>1. Is(d, p, "parent", v) /\ Is(e, q, "parent", v) /\ p \in Slots(d) /\ q \in Slots(e)
    BY <1>1, <1>3
  <2> QED
    BY <2>1 DEF ParentsHeld
<1> QED
  BY <1>2, <1>3 DEF ParentsHeld

\* A step outside the name cache keeps NamesLocked.
LEMMA NamesKept ==
  ASSUME TodoType, NEW c \in Clients, NEW l \in Seq(Steps), Became(c, l),
         \A i \in 1 .. Len(l) : l[i][1] \notin {"remove", "uncache", "unlock"},
         spin' = spin, NamesLocked
  PROVE  NamesLocked'
<1>1. ASSUME NEW d \in Clients, NEW p \in Slots(d)', Planned(d, p)'[1] \in {"remove", "uncache", "unlock"}
      PROVE  p \in Slots(d) /\ Planned(d, p)' = Planned(d, p)
  BY <1>1, OldItem
<1> SUFFICES ASSUME NEW d \in Clients, NEW p \in Slots(d)'
             PROVE /\ Planned(d, p)'[1] \in {"remove", "uncache"} => spin' = d
                   /\ Planned(d, p)'[1] = "unlock" =>
                         \A q \in Slots(d)' : Planned(d, q)'[1] \in {"remove", "uncache"} => q > p
                   /\ Planned(d, p)'[1] = "uncache" => \A q \in Slots(d)' : Planned(d, q)'[1] = "remove" => q > p
  BY DEF NamesLocked
<1>2. Planned(d, p)'[1] \in {"remove", "uncache"} => spin' = d
  BY <1>1 DEF NamesLocked
<1>3. ASSUME Planned(d, p)'[1] = "unlock", NEW q \in Slots(d)', Planned(d, q)'[1] \in {"remove", "uncache"}
      PROVE  q > p
  BY <1>1, <1>3 DEF NamesLocked
<1>4. ASSUME Planned(d, p)'[1] = "uncache", NEW q \in Slots(d)', Planned(d, q)'[1] = "remove"
      PROVE  q > p
  BY <1>1, <1>4 DEF NamesLocked
<1> QED
  BY <1>2, <1>3, <1>4

\* A step that enters no name keeps EnterAlone.
LEMMA EnterKept ==
  ASSUME TodoType, NEW c \in Clients, NEW l \in Seq(Steps), Became(c, l),
         \A i \in 1 .. Len(l) : l[i][1] # "enter", EnterAlone
  PROVE  EnterAlone'
<1> SUFFICES ASSUME NEW d \in Clients, NEW p \in Slots(d)', Planned(d, p)'[1] = "enter"
             PROVE  Len(todo'[d]) = 1
  BY DEF EnterAlone
<1>1. (d # c \/ p <= Base(c)) /\ p \in Slots(d) /\ Planned(d, p)' = Planned(d, p)
  BY OldItem
<1>2. Len(todo[d]) = 1
  BY <1>1 DEF EnterAlone
<1>3. d # c
  <2> SUFFICES ASSUME d = c PROVE FALSE
    OBVIOUS
  <2>1. Base(c) \in Nat /\ Len(todo[c]) = Base(c) + 1
    BY <1>1, RestType DEF Slots
  <2>2. p \in Nat \ {0} /\ p <= Base(c)
    BY <1>1, PlannedType
  <2>3. PICK k : k = Len(todo[c]) /\ k = 1 /\ k = Base(c) + 1
    BY <1>2, <2>1
  <2> QED
    BY <2>1, <2>2, <2>3
<1> QED
  BY <1>2, <1>3 DEF Became, TodoType

\* Steps that the sound conditions do not speak of.
TrackedSteps == {"last", "slab", "parent", "remove", "uncache", "unlock", "enter"}

\* A step that starts none of the tracked ones keeps StepsSound.
LEMMA StepsPlain ==
  ASSUME TodoType, NEW c \in Clients, NEW l \in Seq(Steps), Became(c, l),
         \A i \in 1 .. Len(l) : l[i][1] \notin TrackedSteps,
         CountsUp, HeldKept(c), spin' = spin, StepsSound
  PROVE  StepsSound'
BY LastKept, VnodesKept, ParentsKept, NamesKept, EnterKept DEF StepsSound, TrackedSteps

-----------------------------------------------------------------------------
(* Counting references.                                                     *)

\* One if b holds.
Bit(b) == IF b THEN 1 ELSE 0

\* Sets that differ in one element differ by one.
LEMMA OneElement ==
  ASSUME NEW S, NEW T, NEW x, IsFiniteSet(S), S \ {x} = T \ {x}
  PROVE  /\ IsFiniteSet(T) /\ Cardinality(S) \in Nat /\ Cardinality(T) \in Nat
         /\ Cardinality(T) = Cardinality(S) - Bit(x \in S) + Bit(x \in T)
<1> DEFINE R == S \ {x}
<1>1. IsFiniteSet(R) /\ Cardinality(R) = IF x \in S THEN Cardinality(S) - 1 ELSE Cardinality(S)
  BY FS_RemoveElement
<1>2. IsFiniteSet(R \cup {x}) /\ Cardinality(R \cup {x}) = Cardinality(R) + 1
  <2>1. x \notin R
    OBVIOUS
  <2> HIDE DEF R
  <2> QED
    BY <1>1, <2>1, FS_AddElement
<1>3. Cardinality(S) \in Nat /\ Cardinality(R) \in Nat
  BY <1>1, FS_CardinalityType
<1>4. CASE x \in T
  <2>1. T = R \cup {x}
    BY <1>4
  <2>2. Cardinality(T) = Cardinality(R) + 1 /\ IsFiniteSet(T)
    BY <1>2, <2>1
  <2> HIDE DEF R
  <2> QED
    BY <1>1, <1>3, <1>4, <2>2 DEF Bit
<1>5. CASE x \notin T
  <2>1. T = R
    BY <1>5
  <2>2. Cardinality(T) = Cardinality(R) /\ IsFiniteSet(T)
    BY <1>1, <2>1
  <2> HIDE DEF R
  <2> QED
    BY <1>1, <1>3, <1>5, <2>2 DEF Bit
<1> QED
  BY <1>4, <1>5

\* The references of one holder are as many as it holds.
LEMMA Column ==
  ASSUME NEW x, NEW k \in Nat
  PROVE  IsFiniteSet({x} \X (1 .. k)) /\ Cardinality({x} \X (1 .. k)) = k
<1>1. IsFiniteSet({x}) /\ Cardinality({x}) = 1
  BY FS_Singleton
<1>2. IsFiniteSet(1 .. k) /\ Cardinality(1 .. k) = k
  BY FS_Interval
<1>3. /\ IsFiniteSet({x} \X (1 .. k)) 
      /\ Cardinality({x} \X (1 .. k)) = Cardinality({x}) * Cardinality(1 .. k)
  BY ONLY <1>1, <1>2, FS_Product
<1> QED
  BY <1>1, <1>2, <1>3

\* The number of elements of two sets that have none in common.
LEMMA Disjoint ==
  ASSUME NEW S, NEW T, IsFiniteSet(S), IsFiniteSet(T), \A x \in S : x \notin T
  PROVE  /\ IsFiniteSet(S \cup T) /\ Cardinality(S \cup T) = Cardinality(S) + Cardinality(T)
         /\ Cardinality(S) \in Nat /\ Cardinality(T) \in Nat
<1>1. S \cap T = {}
  OBVIOUS
<1>2. Cardinality(S \cap T) = 0
  BY <1>1, FS_EmptySet
<1>3. Cardinality(S) \in Nat /\ Cardinality(T) \in Nat
  BY FS_CardinalityType
<1>4. IsFiniteSet(S \cup T) /\ Cardinality(S \cup T) = Cardinality(S) + Cardinality(T) - Cardinality(S \cap T)
  BY ONLY IsFiniteSet(S), IsFiniteSet(T), FS_Union
<1> QED
  BY <1>2, <1>3, <1>4

\* What a step carries, by its kind.
LEMMA CarriedIs ==
  ASSUME NEW s \in Steps, NEW u \in Vnodes
  PROVE  /\ Carried(s, u) \in Nat
         /\ s[1] = "unref" => Carried(s, u) = Bit(s[2] = u)
         /\ s[1] = "enter" => Carried(s, u) = Bit(s[4] = u)
         /\ s[1] \in {"recheck", "insert"} => Carried(s, u) = 2 * Bit(s[4] = u)
         /\ s[1] \notin {"unref", "enter", "recheck", "insert"} => Carried(s, u) = 0
<1>1. CASE s[1] = "unref"
  BY <1>1 DEF Carried, Bit
<1>2. CASE s[1] = "enter"
  BY <1>2 DEF Carried, Bit
<1>3. CASE s[1] \in {"recheck", "insert"}
  BY <1>3 DEF Carried, Bit
<1>4. CASE s[1] \notin {"unref", "enter", "recheck", "insert"}
  BY <1>4 DEF Carried, Bit
<1> QED
  BY <1>1, <1>2, <1>3, <1>4

\* What the i-th step of l carries, and what client c's step does.
CarriedAt(l, i, u) == IF i \in 1 .. Len(l) THEN Carried(l[i], u) ELSE 0

HeadCarried(c, u) == IF todo[c] = <<>> THEN 0 ELSE Carried(Arg(c), u)

\* The references that steps carry, by positions.
LEMMA StepRefsIs ==
  ASSUME TodoType, NEW u
  PROVE  StepRefs(u) =
           UNION { UNION { {<<c, p>>} \X (1 .. Carried(Planned(c, p), u)) : p \in Slots(c) } : c \in Clients }
<1>1. \A c \in Clients : DOMAIN todo[c] = Slots(c)
  BY DEF TodoType, Slots
<1> QED
  BY <1>1 DEF StepRefs

\* The same in the next state.
LEMMA StepRefsIsAfter ==
  ASSUME TodoType', NEW u
  PROVE  StepRefs(u)' =
           UNION { UNION { {<<c, p>>} \X (1 .. Carried(Planned(c, p)', u)) : p \in Slots(c)' } : c \in Clients }
<1>1. \A c \in Clients : DOMAIN todo'[c] = Slots(c)'
  BY DEF TodoType, Slots
<1>2. StepRefs(u)' =
        UNION { UNION { {<<c, p>>} \X (1 .. Carried(Planned(c, p), u)') : p \in DOMAIN todo'[c] } : c \in Clients }
  BY DEF StepRefs
<1>3. \A c \in Clients : \A p \in Slots(c)' : Carried(Planned(c, p), u)' = Carried(Planned(c, p)', u)
  BY DEF Carried
<1> QED
  BY <1>1, <1>2, <1>3

\* What the steps carry after client c has replaced the one it was at by those of l.
LEMMA StepsDelta ==
  ASSUME TodoType, NEW c \in Clients, NEW l \in Seq(Steps), Became(c, l), NEW u \in Vnodes,
         IsFiniteSet(StepRefs(u)),
         \A i \in 1 .. Len(l) : i > 2 => Carried(l[i], u) = 0
  PROVE  /\ IsFiniteSet(StepRefs(u)')
         /\ Cardinality(StepRefs(u)) \in Nat /\ Cardinality(StepRefs(u)') \in Nat
         /\ Cardinality(StepRefs(u)') = Cardinality(StepRefs(u)) - HeadCarried(c, u)
                                          + CarriedAt(l, 1, u) + CarriedAt(l, 2, u)
<1>1. PICK n \in Nat : n = Base(c)
  BY RestType
<1>2. TodoType' /\ Len(l) \in Nat
  BY ItemsAfter
<1>3. PICK S : S = StepRefs(u)
  OBVIOUS
<1>4. PICK T : T = StepRefs(u)'
  OBVIOUS
<1>5. PICK k \in Nat : k = HeadCarried(c, u)
  <2>1. HeadCarried(c, u) \in Nat
    BY HeadPlanned, CarriedIs DEF HeadCarried
  <2> QED
    BY <2>1
<1>6. PICK k1 \in Nat : k1 = CarriedAt(l, 1, u)
  <2>1. CarriedAt(l, 1, u) \in Nat
    BY CarriedIs DEF CarriedAt
  <2> QED
    BY <2>1
<1>7. PICK k2 \in Nat : k2 = CarriedAt(l, 2, u)
  <2>1. CarriedAt(l, 2, u) \in Nat
    BY CarriedIs DEF CarriedAt
  <2> QED
    BY <2>1
<1> DEFINE H == {<<c, n + 1>>} \X (1 .. k)
           N1 == {<<c, n + Len(l)>>} \X (1 .. k1)
           N2 == {<<c, n + Len(l) - 1>>} \X (1 .. k2)
           B == S \ H
<1>8. \A x : x \in S <=> \E d \in Clients : \E p \in Slots(d) : \E j \in 1 .. Carried(Planned(d, p), u) : x = << <<d, p>>, j>>
  BY <1>3, StepRefsIs
<1>9. \A x : x \in T <=> \E d \in Clients : \E p \in Slots(d)' : \E j \in 1 .. Carried(Planned(d, p)', u) : x = << <<d, p>>, j>>
  BY <1>2, <1>4, StepRefsIsAfter
<1>10. \A x \in H : x \in S
  <2> SUFFICES ASSUME NEW j \in 1 .. k PROVE << <<c, n + 1>>, j>> \in S
    OBVIOUS
  <2>1. todo[c] # <<>> /\ k = Carried(Arg(c), u)
    BY <1>5 DEF HeadCarried
  <2>2. n + 1 \in Slots(c) /\ Planned(c, n + 1) = Arg(c)
    BY <1>1, <2>1, HeadPlanned
  <2> QED
    BY <1>8, <2>1, <2>2
<1>11. \A x \in N1 : x \in T
  <2> SUFFICES ASSUME NEW j \in 1 .. k1 PROVE << <<c, n + Len(l)>>, j>> \in T
    OBVIOUS
  <2>1. 1 \in 1 .. Len(l) /\ k1 = Carried(l[1], u)
    BY <1>6 DEF CarriedAt
  <2>2. PICK p : p = n + Len(l)
    OBVIOUS
  <2>3. p \in Slots(c)' /\ Planned(c, p)' = l[1]
    <3>0. Len(l) >= 1
      BY <1>2, <2>1
    <3>1. p \in Base(c) + 1 .. Base(c) + Len(l) /\ Base(c) + Len(l) + 1 - p = 1 /\ p \in 1 .. Base(c) + Len(l)
      BY <1>1, <1>2, <2>2, <3>0
    <3>2. p \in Base(c) + 1 .. Base(c) + Len(l) /\ p \in 1 .. Base(c) + Len(l)
      BY <3>1
    <3>3. p \in Slots(c)' /\ Planned(c, p)' = l[Base(c) + Len(l) + 1 - p]
      BY <3>2, ItemsAfter
    <3> QED
      BY <3>1, <3>3
  <2> QED
    BY <1>9, <2>1, <2>2, <2>3
<1>12. \A x \in N2 : x \in T
  <2> SUFFICES ASSUME NEW j \in 1 .. k2 PROVE << <<c, n + Len(l) - 1>>, j>> \in T
    OBVIOUS
  <2>1. 2 \in 1 .. Len(l) /\ k2 = Carried(l[2], u)
    BY <1>7 DEF CarriedAt
  <2>2. PICK p : p = n + Len(l) - 1
    OBVIOUS
  <2>3. p \in Slots(c)' /\ Planned(c, p)' = l[2]
    <3>1. p \in Base(c) + 1 .. Base(c) + Len(l) /\ Base(c) + Len(l) + 1 - p = 2 /\ p \in 1 .. Base(c) + Len(l)
      BY <1>1, <1>2, <2>1, <2>2
    <3> QED
      BY <3>1, ItemsAfter, SMTT(60)
  <2> QED
    BY <1>9, <2>1, <2>2, <2>3
\* The references that stay are those of the other clients and of the steps below.
<1>13. ASSUME NEW d \in Clients, NEW p \in Slots(d), NEW j \in 1 .. Carried(Planned(d, p), u), << <<d, p>>, j>> \notin H
       PROVE  (d # c \/ p <= n) /\ p \in Slots(d)' /\ Planned(d, p)' = Planned(d, p)
  <2>1. p \in Nat /\ p > 0 /\ Is(d, p, Planned(d, p)[1], Planned(d, p)[2])
    BY PlannedType DEF Is
  <2>2. CASE d # c \/ p <= n
    <3>1. d # c => Slots(d)' = Slots(d) /\ Planned(d, p)' = Planned(d, p)
      BY ItemsAfter
    <3>2. d = c => p \in 1 .. n
      BY <2>1, <2>2
    <3>3. d = c => p \in 1 .. Base(c) + Len(l) /\ Planned(d, p)' = Planned(d, p)
      BY <3>2, <1>1, <1>2, ItemsAfter
    <3>4. d = c => p \in Slots(d)'
      BY <3>3, ItemsAfter
    <3> QED
      BY <2>2, <3>1, <3>3, <3>4
  <2>3. CASE d = c /\ ~(p <= n)
    <3>1. todo[c] # <<>> /\ p = n + 1
      BY <2>3, <2>1, <1>1, HeadPlanned, RestType DEF Slots
    <3>2. Planned(d, p) = Arg(c)
      BY <2>3, <3>1, <1>1, HeadPlanned
    <3>3. j \in 1 .. k
      BY <3>1, <3>2, <1>5 DEF HeadCarried
    <3> QED
      BY <1>13, <2>3, <3>1, <3>3
  <2> QED
    BY <2>2, <2>3
<1>14. ASSUME NEW x \in B PROVE x \in T /\ x \notin N1 /\ x \notin N2
  <2>1. PICK d \in Clients : \E p \in Slots(d) : \E j \in 1 .. Carried(Planned(d, p), u) : x = << <<d, p>>, j>>
    BY <1>8
  <2>2. PICK p \in Slots(d) : \E j \in 1 .. Carried(Planned(d, p), u) : x = << <<d, p>>, j>>
    BY <2>1
  <2>3. PICK j \in 1 .. Carried(Planned(d, p), u) : x = << <<d, p>>, j>>
    BY <2>2
  <2>4. (d # c \/ p <= n) /\ p \in Slots(d)' /\ Planned(d, p)' = Planned(d, p)
    BY <1>13, <2>3
  <2>5. x \in T
    BY <2>3, <2>4, <1>9
  <2>6. x \notin N1
    <3>1. k1 > 0 => Len(l) >= 1
      BY <1>6, <1>2 DEF CarriedAt
    <3> QED
      BY <3>1, <2>3, <2>4, <1>2
  <2>7. x \notin N2
    <3>1. k2 > 0 => Len(l) >= 2
      BY <1>7, <1>2 DEF CarriedAt
    <3> QED
      BY <3>1, <2>3, <2>4, <1>2
  <2> QED
    BY <2>5, <2>6, <2>7
<1>15. ASSUME NEW x \in T PROVE x \in B \/ x \in N1 \/ x \in N2
  <2>1. PICK d \in Clients : \E p \in Slots(d)' : \E j \in 1 .. Carried(Planned(d, p)', u) : x = << <<d, p>>, j>>
    BY <1>9
  <2>2. PICK p \in Slots(d)' : \E j \in 1 .. Carried(Planned(d, p)', u) : x = << <<d, p>>, j>>
    BY <2>1
  <2>3. PICK j \in 1 .. Carried(Planned(d, p)', u) : x = << <<d, p>>, j>>
    BY <2>2
  <2>4. CASE (d # c \/ p <= n) /\ p \in Slots(d) /\ Planned(d, p)' = Planned(d, p)
    <3>1. x \in S
      BY <2>3, <2>4, <1>8
    <3>2. x \notin H
      BY <2>3, <2>4
    <3> QED
      BY <3>1, <3>2
  <2>5. CASE d = c /\ \E i \in 1 .. Len(l) : p = n + Len(l) + 1 - i /\ Planned(d, p)' = l[i]
    <3>1. PICK i \in 1 .. Len(l) : p = n + Len(l) + 1 - i /\ Planned(d, p)' = l[i]
      BY <2>5
    <3>2. j \in 1 .. Carried(l[i], u)
      BY <3>1, <2>3
    <3>3. ~(i > 2)
      BY <3>2
    <3>4. CASE i = 1
      <4>1. p = n + Len(l) /\ j \in 1 .. k1
        BY <3>1, <3>2, <3>4, <1>2, <1>6 DEF CarriedAt
      <4> QED
        BY <4>1, <2>3, <2>5
    <3>5. CASE i = 2
      <4>1. p = n + Len(l) - 1 /\ j \in 1 .. k2
        BY <3>1, <3>2, <3>5, <1>2, <1>7 DEF CarriedAt
      <4> QED
        BY <4>1, <2>3, <2>5
    <3> QED
      BY <3>3, <3>4, <3>5
  <2> QED
    BY <2>4, <2>5, <1>1, Origin
<1>16. T = B \cup (N1 \cup N2)
  BY <1>11, <1>12, <1>14, <1>15
<1>17. S = B \cup H
  BY <1>10
<1>18. IsFiniteSet(H) /\ Cardinality(H) = k /\ IsFiniteSet(N1) /\ Cardinality(N1) = k1 /\ IsFiniteSet(N2) /\ Cardinality(N2) = k2
  BY Column
<1>19. IsFiniteSet(B)
  BY <1>3, FS_Subset
<1>20. \A x \in N1 : x \notin N2
  BY <1>1, <1>2
<1>21. \A x \in B : x \notin H /\ x \notin (N1 \cup N2)
  BY <1>14
<1> HIDE DEF H, N1, N2, B
<1>22. Cardinality(S) = Cardinality(B) + k /\ Cardinality(B) \in Nat
  BY <1>17, <1>18, <1>19, <1>21, Disjoint
<1>23. IsFiniteSet(N1 \cup N2) /\ Cardinality(N1 \cup N2) = k1 + k2
  BY <1>18, <1>20, Disjoint
<1>24. IsFiniteSet(T) /\ Cardinality(T) = Cardinality(B) + (k1 + k2)
  BY <1>16, <1>19, <1>21, <1>23, Disjoint
<1>25. /\ IsFiniteSet(T) /\ Cardinality(S) \in Nat /\ Cardinality(T) \in Nat
       /\ Cardinality(T) = Cardinality(S) - k + k1 + k2
  BY <1>22, <1>24
<1> QED
  BY <1>3, <1>4, <1>5, <1>6, <1>7, <1>25

\* A finite set with an element has a positive number of them.
LEMMA NotEmptyCard ==
  ASSUME NEW S, IsFiniteSet(S), NEW x \in S
  PROVE  Cardinality(S) \in Nat /\ Cardinality(S) > 0
<1>1. Cardinality(S) \in Nat /\ Cardinality(S) # 0
  BY FS_CardinalityType, FS_EmptySet
<1> QED
  BY <1>1

\* The tables have finitely many keys.
LEMMA FiniteKeys ==
  IsFiniteSet(Filesystems \X Nodeids) /\ IsFiniteSet(Vnodes \X Names)
<1>1. IsFiniteSet(Filesystems) /\ IsFiniteSet(Nodeids) /\ IsFiniteSet(Names) /\ IsFiniteSet(Vnodes)
  BY FiniteAssumption, VnodesAssumption
<1> QED
  BY ONLY <1>1, FS_Product

\* The owners other than clients and steps are elements of finite sets.
LEMMA FiniteRefs ==
  ASSUME NEW u
  PROVE  /\ IsFiniteSet(TableRefs(u)) /\ IsFiniteSet(NameRefs(u))
         /\ IsFiniteSet(ParentRefs(u)) /\ IsFiniteSet(MountRefs(u))
<1>1. TableRefs(u) \in SUBSET (Filesystems \X Nodeids)
  BY DEF TableRefs
<1>2. NameRefs(u) \in SUBSET (Vnodes \X Names)
  BY DEF NameRefs
<1>3. ParentRefs(u) \in SUBSET Vnodes
  BY DEF ParentRefs
<1>4. MountRefs(u) \in SUBSET Filesystems
  BY DEF MountRefs
<1> QED
  BY <1>1, <1>2, <1>3, <1>4, FiniteKeys, FiniteAssumption, VnodesAssumption, FS_Subset

\* The entry of key k becomes w.
SetEntry(k, w) == vnode_table' = [vnode_table EXCEPT ![k] = w]

\* How the references of the table change with one entry.
LEMMA TableDelta ==
  ASSUME FsType, NEW k \in Filesystems \X Nodeids, NEW w, SetEntry(k, w), NEW u
  PROVE  /\ Cardinality(TableRefs(u)') \in Nat /\ Cardinality(TableRefs(u)) \in Nat
         /\ Cardinality(TableRefs(u)') = Cardinality(TableRefs(u)) - Bit(vnode_table[k] = u) + Bit(w = u)
<1>1. PICK S : S = TableRefs(u)
  OBVIOUS
<1>2. PICK T : T = TableRefs(u)'
  OBVIOUS
<1>3. \A x \in Filesystems \X Nodeids : vnode_table'[x] = IF x = k THEN w ELSE vnode_table[x]
  BY DEF FsType, SetEntry
<1>4. S = { x \in Filesystems \X Nodeids : vnode_table[x] = u }
  BY <1>1 DEF TableRefs
<1>5. T = { x \in Filesystems \X Nodeids : vnode_table'[x] = u }
  BY <1>2 DEF TableRefs
<1>6. S \ {k} = T \ {k} /\ (k \in S <=> vnode_table[k] = u) /\ (k \in T <=> w = u)
  BY <1>3, <1>4, <1>5
<1>7. IsFiniteSet(S)
  BY <1>1, FiniteRefs
<1>8. Cardinality(S) \in Nat /\ Cardinality(T) \in Nat /\ Cardinality(T) = Cardinality(S) - Bit(k \in S) + Bit(k \in T)
  BY ONLY <1>6, <1>7, OneElement
<1>9. Bit(k \in S) = Bit(vnode_table[k] = u) /\ Bit(k \in T) = Bit(w = u)
  BY <1>6 DEF Bit
<1> QED
  BY <1>1, <1>2, <1>8, <1>9

\* The references that clients hold, element by element.
LEMMA HeldRefsIs ==
  ASSUME NEW u
  PROVE  /\ \A x : x \in HeldRefs(u) <=> \E d \in Clients : \E j \in 1 .. held[d][u] : x = <<d, j>>
         /\ \A x : x \in HeldRefs(u)' <=> \E d \in Clients : \E j \in 1 .. held'[d][u] : x = <<d, j>>
BY DEF HeldRefs

\* A client gets or drops a reference to v.
LEMMA HeldDelta ==
  ASSUME RefType, NEW c \in Clients, NEW v \in Vnodes, NEW k \in {1, -1}, held[c][v] + k >= 0,
         held' = [held EXCEPT ![c][v] = @ + k],
         NEW u \in Vnodes, IsFiniteSet(HeldRefs(u))
  PROVE  /\ IsFiniteSet(HeldRefs(u)') /\ Cardinality(HeldRefs(u)) \in Nat /\ Cardinality(HeldRefs(u)') \in Nat
         /\ Cardinality(HeldRefs(u)') = Cardinality(HeldRefs(u)) + k * Bit(u = v)
<1>1. PICK S : S = HeldRefs(u)
  OBVIOUS
<1>2. PICK T : T = HeldRefs(u)'
  OBVIOUS
<1>3. \A d \in Clients : held'[d][u] = IF d = c /\ u = v THEN held[d][u] + k ELSE held[d][u]
  BY DEF RefType
<1>4. \A d \in Clients : held[d][u] \in Nat
  BY DEF RefType
<1>5. \A x : x \in S <=> \E d \in Clients : \E j \in 1 .. held[d][u] : x = <<d, j>>
  BY <1>1, HeldRefsIs
<1>6. \A x : x \in T <=> \E d \in Clients : \E j \in 1 .. held'[d][u] : x = <<d, j>>
  BY <1>2, HeldRefsIs
<1>7. CASE u # v
  <2>0. \A d \in Clients : held'[d][u] = held[d][u]
    BY <1>3, <1>7
  <2>1. S = T
    <3>1. \A x : x \in S <=> x \in T
      BY <2>0, <1>5, <1>6
    <3> QED
      BY <3>1
  <2> QED
    <3>1. HeldRefs(u)' = HeldRefs(u) /\ Cardinality(HeldRefs(u)) \in Nat
      BY <1>1, <1>2, <2>1, FS_CardinalityType
    <3>2. k * Bit(u = v) = 0
      BY <1>7 DEF Bit
    <3> QED
      BY <3>1, <3>2
<1>8. CASE u = v
  <2>1. PICK m \in Nat : m = held[c][u]
    BY <1>4
  <2>2. PICK z : z = <<c, IF k = 1 THEN m + 1 ELSE m>>
    OBVIOUS
  <2>3. held'[c][u] = m + k
    BY <1>3, <1>8, <2>1
  <2>4. S \ {z} = T \ {z} /\ (z \in S <=> k # 1) /\ (z \in T <=> k = 1)
    <3>1. CASE k = 1
      <4>1. z = <<c, m + 1>> /\ held'[c][u] = m + 1 /\ \A d \in Clients : d # c => held'[d][u] = held[d][u]
        BY <2>2, <2>3, <3>1, <1>3
      <4>2. \A j \in 1 .. m + 1 : j # m + 1 => j \in 1 .. m
        OBVIOUS
      <4>3. \A x : x \in T <=> x \in S \/ x = z
        BY <4>1, <4>2, <2>1, <1>5, <1>6
      <4>4. z \notin S
        BY <4>1, <2>1, <1>5
      <4> QED
        BY <4>3, <4>4, <3>1
    <3>2. CASE k = -1
      <4>1. z = <<c, m>> /\ held'[c][u] = m - 1 /\ m >= 1 /\ \A d \in Clients : d # c => held'[d][u] = held[d][u]
        BY <2>1, <2>2, <2>3, <3>2, <1>3, <1>8
      <4>2. \A j \in 1 .. m : j # m => j \in 1 .. m - 1
        OBVIOUS
      <4>3. \A x : x \in S <=> x \in T \/ x = z
        BY <4>1, <4>2, <2>1, <1>5, <1>6
      <4>4. z \notin T
        BY <4>1, <2>1, <1>6
      <4> QED
        BY <4>3, <4>4, <3>2
    <3> QED
      BY <3>1, <3>2
  <2>5. IsFiniteSet(S)
    BY <1>1
  <2>6. IsFiniteSet(T) /\ Cardinality(S) \in Nat /\ Cardinality(T) \in Nat /\ Cardinality(T) = Cardinality(S) - Bit(z \in S) + Bit(z \in T)
    BY ONLY <2>4, <2>5, OneElement
  <2>7. Cardinality(T) = Cardinality(S) + k * Bit(u = v)
    BY <2>4, <2>6, <1>8 DEF Bit
  <2> QED
    BY <1>1, <1>2, <2>6, <2>7
<1> QED
  BY <1>7, <1>8

\* Client c's step is not one of op and makes none.
NoStep(c, l, op) ==
  (\A i \in 1 .. Len(l) : l[i][1] # op) /\ (todo[c] # <<>> => Arg(c)[1] # op)

\* Who does op is the same when client c has nothing to do with it.
LEMMA DoingKept ==
  ASSUME TodoType, NEW c \in Clients, NEW l \in Seq(Steps), Became(c, l), NEW op, NoStep(c, l, op), NEW x
  PROVE  Doing(op, x)' <=> Doing(op, x)
<1>1. TodoType'
  BY ItemsAfter
<1>2. \A d \in Clients : \A p : Is(d, p, op, x)' => Is(d, p, op, x)
  BY IsAfter DEF NoStep
<1>3. \A d \in Clients : \A p : Is(d, p, op, x) => Is(d, p, op, x)'
  BY IsKept DEF NoStep
<1> QED
  BY <1>1, <1>2, <1>3, DoingIs, DoingIsAfter DEF Is

\* The pending steps, by positions.
LEMMA PendingIs ==
  ASSUME TodoType, NEW s
  PROVE  s \in Pending <=> \E c \in Clients : \E p \in Slots(c) : s = Planned(c, p)
<1>1. ASSUME NEW c \in Clients
      PROVE  Range(todo[c]) = { Planned(c, p) : p \in Slots(c) }
  <2>1. todo[c] \in Seq(Steps) /\ DOMAIN todo[c] = 1 .. Len(todo[c]) /\ Len(todo[c]) \in Nat
    BY DEF TodoType
  <2>2. Range(todo[c]) = { todo[c][i] : i \in 1 .. Len(todo[c]) }
    BY <2>1 DEF Range
  <2>3. ASSUME NEW i \in 1 .. Len(todo[c])
        PROVE  Len(todo[c]) + 1 - i \in Slots(c) /\ todo[c][i] = Planned(c, Len(todo[c]) + 1 - i)
    <3>1. Len(todo[c]) + 1 - (Len(todo[c]) + 1 - i) = i
      BY <2>1
    <3> QED
      BY <2>1, <3>1 DEF Slots, Planned
  <2>4. ASSUME NEW p \in Slots(c)
        PROVE  Planned(c, p) \in { todo[c][i] : i \in 1 .. Len(todo[c]) }
    <3>1. Len(todo[c]) + 1 - p \in 1 .. Len(todo[c])
      BY <2>1 DEF Slots
    <3> QED
      BY <3>1 DEF Planned
  <2> QED
    BY <2>2, <2>3, <2>4
<1> QED
  BY <1>1 DEF Pending

\* The same in the next state.
LEMMA PendingIsAfter ==
  ASSUME TodoType', NEW s
  PROVE  s \in Pending' <=> \E c \in Clients : \E p \in Slots(c)' : s = Planned(c, p)'
<1>1. ASSUME NEW c \in Clients
      PROVE  Range(todo'[c]) = { Planned(c, p)' : p \in Slots(c)' }
  <2>1. todo'[c] \in Seq(Steps) /\ DOMAIN todo'[c] = 1 .. Len(todo'[c]) /\ Len(todo'[c]) \in Nat
    BY DEF TodoType
  <2>2. Range(todo'[c]) = { todo'[c][i] : i \in 1 .. Len(todo'[c]) }
    BY <2>1 DEF Range
  <2>3. ASSUME NEW i \in 1 .. Len(todo'[c])
        PROVE  \E p \in Slots(c)' : todo'[c][i] = Planned(c, p)'
    <3>1. PICK p : p = Len(todo'[c]) + 1 - i
      OBVIOUS
    <3>2. Len(todo'[c]) + 1 - p = i /\ p \in Slots(c)'
      BY <2>1, <3>1 DEF Slots
    <3>3. Planned(c, p)' = todo'[c][i]
      BY <3>2 DEF Planned
    <3> QED
      BY <3>2, <3>3
  <2>4. ASSUME NEW p \in Slots(c)'
        PROVE  Planned(c, p)' \in { todo'[c][i] : i \in 1 .. Len(todo'[c]) }
    <3>1. Len(todo'[c]) + 1 - p \in 1 .. Len(todo'[c])
      BY <2>1 DEF Slots
    <3> QED
      BY <3>1 DEF Planned
  <2> QED
    BY <2>2, <2>3, <2>4
<1> QED
  BY <1>1 DEF Pending

\* The p-th step of client c from the end removes key k.
RemovalAt(c, p, k) ==
  p \in Slots(c) /\ Planned(c, p)[1] = "remove" /\ Planned(c, p)[2] = k[1] /\ Planned(c, p)[3] = k[2]

\* Removing, by positions.
LEMMA RemovingIs ==
  ASSUME TodoType, NEW k
  PROVE  Removing(k) <=> \E c \in Clients : \E p : RemovalAt(c, p, k)
BY PendingIs DEF Removing, RemovalAt

\* The same in the next state.
LEMMA RemovingIsAfter ==
  ASSUME TodoType', NEW k
  PROVE  Removing(k)' <=> \E c \in Clients : \E p : RemovalAt(c, p, k)'
<1>1. \A s : s \in Pending' <=> \E c \in Clients : \E p \in Slots(c)' : s = Planned(c, p)'
  BY PendingIsAfter
<1>2. Removing(k)' <=> \E s \in Pending' : s[1] = "remove" /\ s[2] = k[1] /\ s[3] = k[2]
  BY DEF Removing
<1> QED
  BY <1>1, <1>2 DEF RemovalAt

\* The removals are the same when client c has nothing to do with one.
LEMMA RemovingKept ==
  ASSUME TodoType, NEW c \in Clients, NEW l \in Seq(Steps), Became(c, l), NoStep(c, l, "remove"), NEW k
  PROVE  Removing(k)' <=> Removing(k)
<1>1. TodoType'
  BY ItemsAfter
<1>2. ASSUME NEW d \in Clients, NEW p, RemovalAt(d, p, k)' PROVE RemovalAt(d, p, k)
  BY <1>2, OldItem DEF RemovalAt, NoStep
<1>3. ASSUME NEW d \in Clients, NEW p, RemovalAt(d, p, k) PROVE RemovalAt(d, p, k)'
  <2>1. Is(d, p, "remove", k[1])
    BY <1>3 DEF RemovalAt, Is
  <2>2. Is(d, p, "remove", k[1])' /\ Planned(d, p)' = Planned(d, p)
    BY <2>1, IsKept DEF NoStep
  <2> QED
    BY <2>2, <1>3 DEF RemovalAt, Is
<1> QED
  BY <1>1, <1>2, <1>3, RemovingIs, RemovingIsAfter

-----------------------------------------------------------------------------
(* The inductive invariant.                                                 *)

\* Every vnode's count is the number of its references.
Balanced(u) ==
  /\ IsFiniteSet(HeldRefs(u)) /\ IsFiniteSet(StepRefs(u))
  /\ Owners(u) + lost[u] = vn[u].count

\* The books balance for every vnode.
RefsCounted == \A u \in Vnodes : Balanced(u)

\* No fault, or one that unmounting a filesystem in use leads to.
NoFault == fault \in {NULL} \cup UnmountFaults

\* The inductive invariant.
VfsInv == FsInv /\ RefType /\ RefsCounted /\ StepsSound /\ NoFault

\* The parts of the invariant.
LEMMA InvParts ==
  ASSUME VfsInv
  PROVE  /\ FsInv /\ FsType /\ TodoType /\ RefType /\ RefsCounted
         /\ StepsSound /\ VnodesSound /\ FreedOnce /\ ParentsHeld /\ NamesLocked /\ EnterAlone
BY DEF VfsInv, FsInv, FsType, StepsSound

\* The sum that Owners is, and what it is equal to.
LEMMA Tally ==
  ASSUME RefsCounted, NEW u \in Vnodes
  PROVE  /\ Cardinality(HeldRefs(u)) \in Nat /\ Cardinality(StepRefs(u)) \in Nat
         /\ Cardinality(TableRefs(u)) \in Nat /\ Cardinality(NameRefs(u)) \in Nat
         /\ Cardinality(ParentRefs(u)) \in Nat /\ Cardinality(MountRefs(u)) \in Nat
         /\ Owners(u) = Cardinality(HeldRefs(u)) + Cardinality(StepRefs(u)) + Cardinality(TableRefs(u))
                        + Cardinality(NameRefs(u)) + Cardinality(ParentRefs(u)) + Cardinality(MountRefs(u))
         /\ Owners(u) + lost[u] = vn[u].count
<1>1. IsFiniteSet(HeldRefs(u)) /\ IsFiniteSet(StepRefs(u)) /\ Owners(u) + lost[u] = vn[u].count
  BY DEF RefsCounted, Balanced
<1>2. /\ Cardinality(HeldRefs(u)) \in Nat /\ Cardinality(StepRefs(u)) \in Nat
      /\ Cardinality(TableRefs(u)) \in Nat /\ Cardinality(NameRefs(u)) \in Nat
      /\ Cardinality(ParentRefs(u)) \in Nat /\ Cardinality(MountRefs(u)) \in Nat
  BY <1>1, FiniteRefs, FS_CardinalityType
<1> QED
  BY <1>1, <1>2 DEF Owners

\* The sum that Owners is in the next state.
LEMMA TallyAfter ==
  ASSUME NEW u, IsFiniteSet(HeldRefs(u)'), IsFiniteSet(StepRefs(u)')
  PROVE  /\ Cardinality(HeldRefs(u)') \in Nat /\ Cardinality(StepRefs(u)') \in Nat
         /\ Cardinality(TableRefs(u)') \in Nat /\ Cardinality(NameRefs(u)') \in Nat
         /\ Cardinality(ParentRefs(u)') \in Nat /\ Cardinality(MountRefs(u)') \in Nat
         /\ Owners(u)' = Cardinality(HeldRefs(u)') + Cardinality(StepRefs(u)') + Cardinality(TableRefs(u)')
                        + Cardinality(NameRefs(u)') + Cardinality(ParentRefs(u)') + Cardinality(MountRefs(u)')
<1>1. TableRefs(u)' \in SUBSET (Filesystems \X Nodeids)
  BY DEF TableRefs
<1>2. NameRefs(u)' \in SUBSET (Vnodes \X Names)
  BY DEF NameRefs
<1>3. ParentRefs(u)' \in SUBSET Vnodes
  BY DEF ParentRefs
<1>4. MountRefs(u)' \in SUBSET Filesystems
  BY DEF MountRefs
<1>5. IsFiniteSet(TableRefs(u)') /\ IsFiniteSet(NameRefs(u)') /\ IsFiniteSet(ParentRefs(u)') /\ IsFiniteSet(MountRefs(u)')
  BY <1>1, <1>2, <1>3, <1>4, FiniteKeys, FiniteAssumption, VnodesAssumption, FS_Subset
<1> QED
  BY <1>5, FS_CardinalityType DEF Owners

\* How the owners of u change when client c does a step.
LEMMA Account ==
  ASSUME VfsInv, NEW c \in Clients, NEW l \in Seq(Steps), Became(c, l), NEW u \in Vnodes,
         \A i \in 1 .. Len(l) : i > 2 => Carried(l[i], u) = 0,
         IsFiniteSet(HeldRefs(u)')
  PROVE  /\ IsFiniteSet(StepRefs(u)')
         /\ Owners(u)' \in Nat /\ Owners(u) \in Nat /\ lost[u] \in Nat /\ vn[u].count = Owners(u) + lost[u]
         /\ HeadCarried(c, u) \in Nat /\ CarriedAt(l, 1, u) \in Nat /\ CarriedAt(l, 2, u) \in Nat
         /\ Cardinality(HeldRefs(u)) \in Nat /\ Cardinality(HeldRefs(u)') \in Nat
         /\ Cardinality(TableRefs(u)) \in Nat /\ Cardinality(TableRefs(u)') \in Nat
         /\ Cardinality(NameRefs(u)) \in Nat /\ Cardinality(NameRefs(u)') \in Nat
         /\ Cardinality(ParentRefs(u)) \in Nat /\ Cardinality(ParentRefs(u)') \in Nat
         /\ Cardinality(MountRefs(u)) \in Nat /\ Cardinality(MountRefs(u)') \in Nat
         /\ Owners(u)' = Owners(u) - HeadCarried(c, u) + CarriedAt(l, 1, u) + CarriedAt(l, 2, u)
              + (Cardinality(HeldRefs(u)') - Cardinality(HeldRefs(u)))
              + (Cardinality(TableRefs(u)') - Cardinality(TableRefs(u)))
              + (Cardinality(NameRefs(u)') - Cardinality(NameRefs(u)))
              + (Cardinality(ParentRefs(u)') - Cardinality(ParentRefs(u)))
              + (Cardinality(MountRefs(u)') - Cardinality(MountRefs(u)))
<1>1. TodoType /\ RefsCounted /\ RefType
  BY InvParts
<1>2. IsFiniteSet(StepRefs(u))
  BY <1>1 DEF RefsCounted, Balanced
<1>3. /\ IsFiniteSet(StepRefs(u)')
      /\ Cardinality(StepRefs(u)') = Cardinality(StepRefs(u)) - HeadCarried(c, u)
                                          + CarriedAt(l, 1, u) + CarriedAt(l, 2, u)
  BY <1>1, <1>2, StepsDelta
<1>4. HeadCarried(c, u) \in Nat /\ CarriedAt(l, 1, u) \in Nat /\ CarriedAt(l, 2, u) \in Nat
  <2>1. HeadCarried(c, u) \in Nat
    BY <1>1, HeadPlanned, CarriedIs DEF HeadCarried
  <2>2. CarriedAt(l, 1, u) \in Nat /\ CarriedAt(l, 2, u) \in Nat
    BY CarriedIs DEF CarriedAt
  <2> QED
    BY <2>1, <2>2
<1>5. lost[u] \in Nat
  BY <1>1 DEF RefType
<1>6. /\ Cardinality(HeldRefs(u)) \in Nat /\ Cardinality(StepRefs(u)) \in Nat
      /\ Cardinality(TableRefs(u)) \in Nat /\ Cardinality(NameRefs(u)) \in Nat
      /\ Cardinality(ParentRefs(u)) \in Nat /\ Cardinality(MountRefs(u)) \in Nat
      /\ Owners(u) = Cardinality(HeldRefs(u)) + Cardinality(StepRefs(u)) + Cardinality(TableRefs(u))
                     + Cardinality(NameRefs(u)) + Cardinality(ParentRefs(u)) + Cardinality(MountRefs(u))
      /\ Owners(u) + lost[u] = vn[u].count
  BY <1>1, Tally
<1>7. /\ Cardinality(HeldRefs(u)') \in Nat /\ Cardinality(StepRefs(u)') \in Nat
      /\ Cardinality(TableRefs(u)') \in Nat /\ Cardinality(NameRefs(u)') \in Nat
      /\ Cardinality(ParentRefs(u)') \in Nat /\ Cardinality(MountRefs(u)') \in Nat
      /\ Owners(u)' = Cardinality(HeldRefs(u)') + Cardinality(StepRefs(u)') + Cardinality(TableRefs(u)')
                     + Cardinality(NameRefs(u)') + Cardinality(ParentRefs(u)') + Cardinality(MountRefs(u)')
  BY <1>3, TallyAfter
<1>8. Owners(u) \in Nat
  BY <1>6
<1>9. Owners(u)' \in Nat
  BY <1>7
<1>10. Owners(u)' = Owners(u) - HeadCarried(c, u) + CarriedAt(l, 1, u) + CarriedAt(l, 2, u)
              + (Cardinality(HeldRefs(u)') - Cardinality(HeldRefs(u)))
              + (Cardinality(TableRefs(u)') - Cardinality(TableRefs(u)))
              + (Cardinality(NameRefs(u)') - Cardinality(NameRefs(u)))
              + (Cardinality(ParentRefs(u)') - Cardinality(ParentRefs(u)))
              + (Cardinality(MountRefs(u)') - Cardinality(MountRefs(u)))
  <2>1. PICK h1 \in Nat, h2 \in Nat, t1 \in Nat, t2 \in Nat :
             /\ h1 = Cardinality(HeldRefs(u)) /\ h2 = Cardinality(HeldRefs(u)')
             /\ t1 = Cardinality(TableRefs(u)) /\ t2 = Cardinality(TableRefs(u)')
    BY <1>6, <1>7
  <2>2. PICK n1 \in Nat, n2 \in Nat, p1 \in Nat, p2 \in Nat :
             /\ n1 = Cardinality(NameRefs(u)) /\ n2 = Cardinality(NameRefs(u)')
             /\ p1 = Cardinality(ParentRefs(u)) /\ p2 = Cardinality(ParentRefs(u)')
    BY <1>6, <1>7
  <2>3. PICK m1 \in Nat, m2 \in Nat, s1 \in Nat, s2 \in Nat :
             /\ m1 = Cardinality(MountRefs(u)) /\ m2 = Cardinality(MountRefs(u)')
             /\ s1 = Cardinality(StepRefs(u)) /\ s2 = Cardinality(StepRefs(u)')
    BY <1>6, <1>7
  <2>4. PICK a0 \in Nat, a1 \in Nat, a2 \in Nat :
             a0 = HeadCarried(c, u) /\ a1 = CarriedAt(l, 1, u) /\ a2 = CarriedAt(l, 2, u)
    BY <1>4
  <2>5. PICK o1 \in Nat, o2 \in Nat : o1 = Owners(u) /\ o2 = Owners(u)'
    BY <1>8, <1>9
  <2>6. s2 = s1 - a0 + a1 + a2
    BY <1>3, <2>3, <2>4
  <2>7. o1 = h1 + s1 + t1 + n1 + p1 + m1
    BY <1>6, <2>1, <2>2, <2>3, <2>5
  <2>8. o2 = h2 + s2 + t2 + n2 + p2 + m2
    BY <1>7, <2>1, <2>2, <2>3, <2>5
  <2>9. o2 = o1 - a0 + a1 + a2 + (h2 - h1) + (t2 - t1) + (n2 - n1) + (p2 - p1) + (m2 - m1)
    BY <2>6, <2>7, <2>8
  <2> QED
    BY <2>1, <2>2, <2>3, <2>4, <2>5, <2>9
<1>11. vn[u].count = Owners(u) + lost[u]
  BY <1>6
<1> QED
  BY <1>3, <1>4, <1>5, <1>6, <1>7, <1>8, <1>9, <1>10, <1>11

\* No vnode's parent changes.
ParentsUnchanged == \A w \in Vnodes : vn'[w].parent = vn[w].parent /\ vn'[w].freeing = vn[w].freeing

\* The references of names are the same.
LEMMA SameNames ==
  ASSUME TodoType, NEW c \in Clients, NEW l \in Seq(Steps), Became(c, l), NoStep(c, l, "remove"),
         UNCHANGED namecache, NEW u
  PROVE  NameRefs(u)' = NameRefs(u)
<1>1. \A k : Removing(k)' <=> Removing(k)
  BY RemovingKept
<1> QED
  BY <1>1 DEF NameRefs

\* The references of children are the same.
LEMMA SameParents ==
  ASSUME TodoType, NEW c \in Clients, NEW l \in Seq(Steps), Became(c, l), NoStep(c, l, "parent"),
         ParentsUnchanged, NEW u
  PROVE  ParentRefs(u)' = ParentRefs(u)
<1>1. \A w : Reparented(w)' <=> Reparented(w)
  BY DoingKept DEF Reparented
<1> QED
  BY <1>1 DEF ParentRefs, ParentsUnchanged

\* The references of mounts are the same.
LEMMA SameMounts ==
  ASSUME TodoType, NEW c \in Clients, NEW l \in Seq(Steps), Became(c, l), NoStep(c, l, "mount"),
         NoStep(c, l, "release"), UNCHANGED vfs, NEW u
  PROVE  MountRefs(u)' = MountRefs(u)
<1>1. \A f : (Doing("mount", f)' <=> Doing("mount", f)) /\ (Doing("release", f)' <=> Doing("release", f))
  BY DoingKept
<1> QED
  BY <1>1 DEF MountRefs, Usable

\* The references of the table are the same.
LEMMA SameTable ==
  ASSUME UNCHANGED vnode_table, NEW u
  PROVE  TableRefs(u)' = TableRefs(u)
BY DEF TableRefs

\* The references of clients are the same.
LEMMA SameHeld ==
  ASSUME UNCHANGED held, NEW u
  PROVE  HeldRefs(u)' = HeldRefs(u)
BY DEF HeldRefs

\* A vnode that has a reference is allocated and not being freed.
LEMMA Positive ==
  ASSUME VfsInv, NEW v \in Vnodes,
         \/ \E c \in Clients : held[c][v] > 0
         \/ \E k \in Filesystems \X Nodeids : vnode_table[k] = v
         \/ \E k \in Vnodes \X Names : namecache[k] = v /\ ~Removing(k)
         \/ ParentRefs(v) # {}
         \/ MountRefs(v) # {}
         \/ \E c \in Clients : HeadCarried(c, v) > 0
  PROVE  vn[v].count > 0 /\ vn[v].alloc /\ ~vn[v].freeing /\ vn[v] \in VnodeType
<1>1. RefsCounted /\ RefType /\ VnodesSound /\ TodoType
  BY InvParts
<1>2. lost[v] \in Nat /\ vn[v] \in VnodeType
  BY <1>1 DEF RefType
<1>3. IsFiniteSet(HeldRefs(v)) /\ IsFiniteSet(StepRefs(v))
  BY <1>1 DEF RefsCounted, Balanced
<1>4. CASE \E c \in Clients : held[c][v] > 0
  <2>1. PICK c \in Clients : held[c][v] > 0
    BY <1>4
  <2>2. 1 \in 1 .. held[c][v]
    BY <1>1, <2>1 DEF RefType
  <2>3. <<c, 1>> \in HeldRefs(v)
    BY <2>2, HeldRefsIs
  <2>4. Cardinality(HeldRefs(v)) > 0
    BY <1>3, <2>3, NotEmptyCard
  <2>5. Owners(v) > 0
    BY <1>1, <2>4, Tally
  <2> QED
    BY <1>1, <1>2, <2>5, Tally DEF VnodesSound, Blank, VnodeType
<1>5. CASE \E k \in Filesystems \X Nodeids : vnode_table[k] = v
  <2>1. PICK k : k \in TableRefs(v)
    BY <1>5 DEF TableRefs
  <2>2. Cardinality(TableRefs(v)) > 0
    BY <2>1, FiniteRefs, NotEmptyCard
  <2>5. Owners(v) > 0
    BY <1>1, <2>2, Tally
  <2> QED
    BY <1>1, <1>2, <2>5, Tally DEF VnodesSound, Blank, VnodeType
<1>6. CASE \E k \in Vnodes \X Names : namecache[k] = v /\ ~Removing(k)
  <2>1. PICK k : k \in NameRefs(v)
    BY <1>6 DEF NameRefs
  <2>2. Cardinality(NameRefs(v)) > 0
    BY <2>1, FiniteRefs, NotEmptyCard
  <2>5. Owners(v) > 0
    BY <1>1, <2>2, Tally
  <2> QED
    BY <1>1, <1>2, <2>5, Tally DEF VnodesSound, Blank, VnodeType
<1>7. CASE ParentRefs(v) # {}
  <2>1. PICK k : k \in ParentRefs(v)
    BY <1>7
  <2>2. Cardinality(ParentRefs(v)) > 0
    BY <2>1, FiniteRefs, NotEmptyCard
  <2>5. Owners(v) > 0
    BY <1>1, <2>2, Tally
  <2> QED
    BY <1>1, <1>2, <2>5, Tally DEF VnodesSound, Blank, VnodeType
<1>8. CASE MountRefs(v) # {}
  <2>1. PICK k : k \in MountRefs(v)
    BY <1>8
  <2>2. Cardinality(MountRefs(v)) > 0
    BY <2>1, FiniteRefs, NotEmptyCard
  <2>5. Owners(v) > 0
    BY <1>1, <2>2, Tally
  <2> QED
    BY <1>1, <1>2, <2>5, Tally DEF VnodesSound, Blank, VnodeType
<1>9. CASE \E c \in Clients : HeadCarried(c, v) > 0
  <2>1. PICK c \in Clients : HeadCarried(c, v) > 0
    BY <1>9
  <2>2. todo[c] # <<>> /\ HeadCarried(c, v) = Carried(Arg(c), v)
    BY <2>1 DEF HeadCarried
  <2>3. PICK p \in Slots(c) : Planned(c, p) = Arg(c) /\ Arg(c) \in Steps
    BY <1>1, <2>2, HeadPlanned
  <2>4. 1 \in 1 .. Carried(Planned(c, p), v)
    BY <2>1, <2>2, <2>3, CarriedIs
  <2>5. << <<c, p>>, 1>> \in StepRefs(v)
    BY <1>1, <2>4, StepRefsIs
  <2>6. Cardinality(StepRefs(v)) > 0
    BY <1>3, <2>5, NotEmptyCard
  <2>7. Owners(v) > 0
    BY <1>1, <2>6, Tally
  <2> QED
    BY <1>1, <1>2, <2>7, Tally DEF VnodesSound, Blank, VnodeType
<1> QED
  BY <1>4, <1>5, <1>6, <1>7, <1>8, <1>9

\* What vnode_ref does to a vnode that has a reference.
LEMMA VnodeRef ==
  ASSUME vn \in [Vnodes -> VnodeType], NEW v \in Vnodes, vn' = vnode_ref(vn, v),
         vn[v].count > 0, vn[v].alloc, ~vn[v].freeing
  PROVE  /\ vn' \in [Vnodes -> VnodeType] /\ ParentsUnchanged /\ CountsUp
         /\ \A u \in Vnodes : vn'[u].count = vn[u].count + Bit(u = v)
<1>1. vn[v] \in VnodeType
  OBVIOUS
<1>2. vn'[v] = [vn[v] EXCEPT !.count = @ + 1] /\ \A u \in Vnodes \ {v} : vn'[u] = vn[u]
  BY DEF vnode_ref
<1>3. /\ vn'[v] \in VnodeType /\ vn'[v].count = vn[v].count + 1 /\ vn'[v].alloc = vn[v].alloc
      /\ vn'[v].freeing = vn[v].freeing /\ vn'[v].parent = vn[v].parent
  <2>1. /\ vn'[v].count = vn[v].count + 1 /\ vn'[v].alloc = vn[v].alloc
        /\ vn'[v].freeing = vn[v].freeing /\ vn'[v].parent = vn[v].parent
    BY <1>1, <1>2 DEF VnodeType
  <2>2. vn[v].count + 1 \in Int
    BY <1>1 DEF VnodeType
  <2>3. vn'[v] \in VnodeType
    BY <1>1, <1>2, <2>2 DEF VnodeType
  <2> QED
    BY <2>1, <2>3
<1>4. vn' \in [Vnodes -> VnodeType]
  BY <1>2, <1>3 DEF vnode_ref
<1>5. ParentsUnchanged
  BY <1>2, <1>3 DEF ParentsUnchanged
<1>6. CountsUp
  BY <1>1, <1>2, <1>3 DEF CountsUp, VnodeType
<1>7. ASSUME NEW u \in Vnodes PROVE vn'[u].count = vn[u].count + Bit(u = v)
  <2>1. vn[u].count \in Int
    <3>1. vn[u] \in VnodeType
      OBVIOUS
    <3> QED
      BY <3>1 DEF VnodeType
  <2> QED
    <3>1. CASE u = v
      <4>1. Bit(u = v) = 1 /\ vn'[u].count = vn[u].count + 1
        BY <3>1, <1>3 DEF Bit
      <4> QED
        BY <4>1
    <3>2. CASE u # v
      <4>1. Bit(u = v) = 0 /\ vn'[u].count = vn[u].count
        BY <3>2, <1>2 DEF Bit
      <4> QED
        BY <2>1, <4>1
    <3> QED
      BY <3>1, <3>2
<1> QED
  BY <1>4, <1>5, <1>6, <1>7

\* Nothing happens to the vnodes.
LEMMA SameCounts ==
  ASSUME UNCHANGED vn
  PROVE  CountsUp /\ ParentsUnchanged
BY DEF CountsUp, ParentsUnchanged

\* A step that has nothing to do with filesystems keeps their invariant.
LEMMA FsNothing ==
  ASSUME FsInv, NEW c \in Clients, NEW l \in Seq(Steps), Became(c, l),
         \A i \in 1 .. Len(l) : l[i][1] \notin FsSteps,
         todo[c] # <<>> => Arg(c)[1] \notin FsSteps,
         UNCHANGED <<vfs, leftover, mount_table, vnode_table>>
  PROVE  FsInv'
<1>1. FsType /\ TodoType
  BY DEF FsInv, FsType
<1>2. FsType'
  BY <1>1, ItemsAfter DEF FsType
<1>3. \A f : Entries(f)' = Entries(f)
  BY EntriesKept
<1> QED
  BY <1>2, <1>3, FsOrdinary

-----------------------------------------------------------------------------
(* Double-entry bookkeeping.                                                *)

\* What a step adds to each kind of reference to u (a negative number takes away).
MoreHeld(u, n) ==
  IsFiniteSet(HeldRefs(u)') /\ n \in Int /\ Cardinality(HeldRefs(u)') = Cardinality(HeldRefs(u)) + n

MoreSteps(c, l, u, n) ==
  /\ n \in Int /\ n = CarriedAt(l, 1, u) + CarriedAt(l, 2, u) - HeadCarried(c, u)
  /\ \A i \in 1 .. Len(l) : i > 2 => Carried(l[i], u) = 0

MoreTable(u, n) == n \in Int /\ Cardinality(TableRefs(u)') = Cardinality(TableRefs(u)) + n

MoreNames(u, n) == n \in Int /\ Cardinality(NameRefs(u)') = Cardinality(NameRefs(u)) + n

MoreParents(u, n) == n \in Int /\ Cardinality(ParentRefs(u)') = Cardinality(ParentRefs(u)) + n

MoreMounts(u, n) == n \in Int /\ Cardinality(MountRefs(u)') = Cardinality(MountRefs(u)) + n

MoreLost(u, n) == n \in Int /\ lost'[u] = lost[u] + n

MoreCount(u, n) == n \in Int /\ vn'[u].count = vn[u].count + n

\* Double entry: the count changes by what the owners and the losses change by.
LEMMA Books ==
  ASSUME VfsInv, NEW c \in Clients, NEW l \in Seq(Steps), Became(c, l), NEW u \in Vnodes,
         NEW dh, MoreHeld(u, dh), NEW ds, MoreSteps(c, l, u, ds), NEW dt, MoreTable(u, dt),
         NEW dn, MoreNames(u, dn), NEW dp, MoreParents(u, dp), NEW dm, MoreMounts(u, dm),
         NEW dl, MoreLost(u, dl), NEW dc, MoreCount(u, dc),
         dc = dh + ds + dt + dn + dp + dm + dl
  PROVE  Balanced(u)'
<1>1. /\ dh \in Int /\ ds \in Int /\ dt \in Int /\ dn \in Int /\ dp \in Int /\ dm \in Int /\ dl \in Int /\ dc \in Int
  BY DEF MoreHeld, MoreSteps, MoreTable, MoreNames, MoreParents, MoreMounts, MoreLost, MoreCount
<1>2. IsFiniteSet(HeldRefs(u)') /\ \A i \in 1 .. Len(l) : i > 2 => Carried(l[i], u) = 0
  BY DEF MoreHeld, MoreSteps
<1>3. /\ IsFiniteSet(StepRefs(u)')
      /\ Owners(u)' \in Nat /\ Owners(u) \in Nat /\ lost[u] \in Nat /\ vn[u].count = Owners(u) + lost[u]
      /\ HeadCarried(c, u) \in Nat /\ CarriedAt(l, 1, u) \in Nat /\ CarriedAt(l, 2, u) \in Nat
      /\ Cardinality(HeldRefs(u)) \in Nat /\ Cardinality(HeldRefs(u)') \in Nat
      /\ Cardinality(TableRefs(u)) \in Nat /\ Cardinality(TableRefs(u)') \in Nat
      /\ Cardinality(NameRefs(u)) \in Nat /\ Cardinality(NameRefs(u)') \in Nat
      /\ Cardinality(ParentRefs(u)) \in Nat /\ Cardinality(ParentRefs(u)') \in Nat
      /\ Cardinality(MountRefs(u)) \in Nat /\ Cardinality(MountRefs(u)') \in Nat
      /\ Owners(u)' = Owners(u) - HeadCarried(c, u) + CarriedAt(l, 1, u) + CarriedAt(l, 2, u)
              + (Cardinality(HeldRefs(u)') - Cardinality(HeldRefs(u)))
              + (Cardinality(TableRefs(u)') - Cardinality(TableRefs(u)))
              + (Cardinality(NameRefs(u)') - Cardinality(NameRefs(u)))
              + (Cardinality(ParentRefs(u)') - Cardinality(ParentRefs(u)))
              + (Cardinality(MountRefs(u)') - Cardinality(MountRefs(u)))
  BY <1>2, Account
<1>4. Cardinality(HeldRefs(u)') - Cardinality(HeldRefs(u)) = dh
  <2>1. Cardinality(HeldRefs(u)') = Cardinality(HeldRefs(u)) + dh
    BY DEF MoreHeld
  <2>2. Cardinality(HeldRefs(u)) \in Nat
    BY <1>3
  <2>3. dh \in Int
    BY <1>1
  <2> QED
    BY <2>1, <2>2, <2>3
<1>5. Cardinality(TableRefs(u)') - Cardinality(TableRefs(u)) = dt
  <2>1. Cardinality(TableRefs(u)') = Cardinality(TableRefs(u)) + dt
    BY DEF MoreTable
  <2>2. Cardinality(TableRefs(u)) \in Nat
    BY <1>3
  <2>3. dt \in Int
    BY <1>1
  <2> QED
    BY <2>1, <2>2, <2>3
<1>6. Cardinality(NameRefs(u)') - Cardinality(NameRefs(u)) = dn
  <2>1. Cardinality(NameRefs(u)') = Cardinality(NameRefs(u)) + dn
    BY DEF MoreNames
  <2>2. Cardinality(NameRefs(u)) \in Nat
    BY <1>3
  <2>3. dn \in Int
    BY <1>1
  <2> QED
    BY <2>1, <2>2, <2>3
<1>7. Cardinality(ParentRefs(u)') - Cardinality(ParentRefs(u)) = dp
  <2>1. Cardinality(ParentRefs(u)') = Cardinality(ParentRefs(u)) + dp
    BY DEF MoreParents
  <2>2. Cardinality(ParentRefs(u)) \in Nat
    BY <1>3
  <2>3. dp \in Int
    BY <1>1
  <2> QED
    BY <2>1, <2>2, <2>3
<1>8. Cardinality(MountRefs(u)') - Cardinality(MountRefs(u)) = dm
  <2>1. Cardinality(MountRefs(u)') = Cardinality(MountRefs(u)) + dm
    BY DEF MoreMounts
  <2>2. Cardinality(MountRefs(u)) \in Nat
    BY <1>3
  <2>3. dm \in Int
    BY <1>1
  <2> QED
    BY <2>1, <2>2, <2>3
<1>9. PICK a0 \in Nat, a1 \in Nat, a2 \in Nat, o1 \in Nat, o2 \in Nat, k \in Nat :
         /\ a0 = HeadCarried(c, u) /\ a1 = CarriedAt(l, 1, u) /\ a2 = CarriedAt(l, 2, u)
         /\ o1 = Owners(u) /\ o2 = Owners(u)' /\ k = lost[u]
  BY <1>3
<1>10. o2 = o1 - a0 + a1 + a2 + dh + dt + dn + dp + dm
  BY <1>3, <1>4, <1>5, <1>6, <1>7, <1>8, <1>9
<1>11. ds = a1 + a2 - a0
  BY <1>9 DEF MoreSteps
<1>12. lost'[u] = k + dl
  BY <1>9 DEF MoreLost
<1>13. vn'[u].count = o1 + k + dc
  BY <1>3, <1>9 DEF MoreCount
<1>14. o2 + (k + dl) = o1 + k + dc
  BY <1>1, <1>10, <1>11
<1>15. Owners(u)' + lost'[u] = vn'[u].count
  BY <1>9, <1>12, <1>13, <1>14
<1> QED
  BY <1>2, <1>3, <1>15 DEF Balanced

\* The clients hold what they held.
LEMMA NoMoreHeld ==
  ASSUME VfsInv, UNCHANGED held, NEW u \in Vnodes
  PROVE  MoreHeld(u, 0)
<1>1. HeldRefs(u)' = HeldRefs(u)
  BY SameHeld
<1>2. IsFiniteSet(HeldRefs(u))
  BY InvParts DEF RefsCounted, Balanced
<1>3. Cardinality(HeldRefs(u)) \in Nat
  BY <1>2, FS_CardinalityType
<1> QED
  BY <1>1, <1>2, <1>3 DEF MoreHeld

\* A client gets a reference to v.
LEMMA OneMoreHeld ==
  ASSUME VfsInv, NEW c \in Clients, NEW v \in Vnodes, Gives(c, v), NEW u \in Vnodes
  PROVE  MoreHeld(u, Bit(u = v))
<1>1. RefType /\ IsFiniteSet(HeldRefs(u))
  BY InvParts DEF RefsCounted, Balanced
<1>2. 1 \in {1, -1} /\ held[c][v] + 1 >= 0
  BY <1>1 DEF RefType
<1>3. /\ IsFiniteSet(HeldRefs(u)') /\ Cardinality(HeldRefs(u)) \in Nat
      /\ Cardinality(HeldRefs(u)') = Cardinality(HeldRefs(u)) + 1 * Bit(u = v)
  BY <1>1, <1>2, HeldDelta, ZenonT(90) DEF Gives
<1>4. Bit(u = v) \in Int /\ 1 * Bit(u = v) = Bit(u = v)
  BY DEF Bit
<1> QED
  BY <1>3, <1>4 DEF MoreHeld

\* The table refers to what it referred to.
LEMMA NoMoreTable ==
  ASSUME UNCHANGED vnode_table, NEW u \in Vnodes
  PROVE  MoreTable(u, 0)
<1>1. TableRefs(u)' = TableRefs(u)
  BY SameTable
<1>2. Cardinality(TableRefs(u)) \in Nat
  BY FiniteRefs, FS_CardinalityType
<1> QED
  BY <1>1, <1>2 DEF MoreTable

\* The names refer to what they referred to.
LEMMA NoMoreNames ==
  ASSUME TodoType, NEW c \in Clients, NEW l \in Seq(Steps), Became(c, l), NoStep(c, l, "remove"),
         UNCHANGED namecache, NEW u \in Vnodes
  PROVE  MoreNames(u, 0)
<1>1. NameRefs(u)' = NameRefs(u)
  BY SameNames
<1>2. Cardinality(NameRefs(u)) \in Nat
  BY FiniteRefs, FS_CardinalityType
<1> QED
  BY <1>1, <1>2 DEF MoreNames

\* The children refer to what they referred to.
LEMMA NoMoreParents ==
  ASSUME TodoType, NEW c \in Clients, NEW l \in Seq(Steps), Became(c, l), NoStep(c, l, "parent"),
         ParentsUnchanged, NEW u \in Vnodes
  PROVE  MoreParents(u, 0)
<1>1. ParentRefs(u)' = ParentRefs(u)
  BY SameParents
<1>2. Cardinality(ParentRefs(u)) \in Nat
  BY FiniteRefs, FS_CardinalityType
<1> QED
  BY <1>1, <1>2 DEF MoreParents

\* The mounts refer to what they referred to.
LEMMA NoMoreMounts ==
  ASSUME TodoType, NEW c \in Clients, NEW l \in Seq(Steps), Became(c, l), NoStep(c, l, "mount"),
         NoStep(c, l, "release"), UNCHANGED vfs, NEW u \in Vnodes
  PROVE  MoreMounts(u, 0)
<1>1. MountRefs(u)' = MountRefs(u)
  BY SameMounts
<1>2. Cardinality(MountRefs(u)) \in Nat
  BY FiniteRefs, FS_CardinalityType
<1> QED
  BY <1>1, <1>2 DEF MoreMounts

\* No reference is lost.
LEMMA NoMoreLost ==
  ASSUME VfsInv, UNCHANGED lost, NEW u \in Vnodes
  PROVE  MoreLost(u, 0)
<1>1. lost[u] \in Nat
  BY InvParts DEF RefType
<1> QED
  BY <1>1 DEF MoreLost

\* A reference to v is lost.
LEMMA OneMoreLost ==
  ASSUME VfsInv, NEW v \in Vnodes, lost' = [lost EXCEPT ![v] = @ + 1], NEW u \in Vnodes
  PROVE  MoreLost(u, Bit(u = v))
<1>1. lost \in [Vnodes -> Nat]
  BY InvParts DEF RefType
<1>2. lost[u] \in Nat
  BY <1>1
<1>3. lost'[u] = IF u = v THEN lost[u] + 1 ELSE lost[u]
  BY <1>1
<1> QED
  BY <1>2, <1>3 DEF MoreLost, Bit

\* The fields of a vnode have their types.
LEMMA CountType ==
  ASSUME VfsInv, NEW u \in Vnodes
  PROVE  vn[u] \in VnodeType /\ vn[u].count \in Int /\ vn[u].parent \in Vnodes \cup {NULL}
<1>1. vn[u] \in VnodeType
  BY InvParts DEF RefType
<1> QED
  BY <1>1 DEF VnodeType

\* A count is the same.
LEMMA NoMoreCount ==
  ASSUME VfsInv, NEW u \in Vnodes, vn'[u].count = vn[u].count
  PROVE  MoreCount(u, 0)
<1>1. vn[u].count \in Int
  BY CountType
<1> QED
  BY <1>1 DEF MoreCount

\* vnode_ref adds one to the count of v.
LEMMA OneMoreCount ==
  ASSUME VfsInv, NEW v \in Vnodes, vn' = vnode_ref(vn, v), vn[v].count > 0, vn[v].alloc, ~vn[v].freeing,
         NEW u \in Vnodes
  PROVE  MoreCount(u, Bit(u = v))
<1>1. vn \in [Vnodes -> VnodeType]
  BY InvParts DEF RefType
<1>2. vn'[u].count = vn[u].count + Bit(u = v)
  BY <1>1, VnodeRef
<1>3. Bit(u = v) \in Int
  BY DEF Bit
<1> QED
  BY <1>2, <1>3 DEF MoreCount

\* The calls and steps that touch no table: only held, lost, the counts and the
\* references that the steps carry change.
LEMMA NoMoreElse ==
  ASSUME TodoType, NEW c \in Clients, NEW l \in Seq(Steps), Became(c, l),
         \A i \in 1 .. Len(l) : l[i][1] \notin {"remove", "parent", "mount", "release"},
         todo[c] # <<>> => Arg(c)[1] \notin {"remove", "parent", "mount", "release"},
         UNCHANGED <<namecache, vfs>>, ParentsUnchanged, NEW u \in Vnodes
  PROVE  MoreNames(u, 0) /\ MoreParents(u, 0) /\ MoreMounts(u, 0)
<1>1. NoStep(c, l, "remove") /\ NoStep(c, l, "parent") /\ NoStep(c, l, "mount") /\ NoStep(c, l, "release")
  BY DEF NoStep
<1>2. UNCHANGED namecache /\ UNCHANGED vfs
  OBVIOUS
<1> QED
  BY <1>1, <1>2, NoMoreNames, NoMoreParents, NoMoreMounts

\* What the steps carry more, by the number of the new ones.
LEMMA NoNewSteps ==
  ASSUME NEW c \in Clients, NEW l \in Seq(Steps), Len(l) = 0, NEW u \in Vnodes, NEW n \in Nat, HeadCarried(c, u) = n
  PROVE  MoreSteps(c, l, u, - n)
BY DEF MoreSteps, CarriedAt

\* One step takes the place of another.
LEMMA OneNewStep ==
  ASSUME NEW c \in Clients, NEW l \in Seq(Steps), Len(l) = 1, NEW u \in Vnodes,
         NEW n \in Nat, HeadCarried(c, u) = n, NEW k \in Nat, Carried(l[1], u) = k
  PROVE  MoreSteps(c, l, u, k - n)
BY DEF MoreSteps, CarriedAt

\* What the list that drops a reference carries.
LEMMA UnrefsCarry ==
  ASSUME NEW v \in Vnodes \cup {NULL}, NEW u \in Vnodes
  PROVE  CarriedAt(Unrefs(v), 1, u) = Bit(u = v) /\ CarriedAt(Unrefs(v), 2, u) = 0
<1>1. CASE v = NULL
  <2>1. Len(Unrefs(v)) = 0 /\ u # v
    BY <1>1, UnrefsList, NullAssumption, VnodesAssumption
  <2> QED
    BY <2>1 DEF CarriedAt, Bit
<1>2. CASE v # NULL
  <2>1. Len(Unrefs(v)) = 1 /\ Unrefs(v)[1] = <<"unref", v>> /\ v \in Vnodes /\ <<"unref", v>> \in Steps
    BY <1>2, UnrefsList, StepsMade
  <2>2. PICK s \in Steps : s = <<"unref", v>>
    BY <2>1
  <2>3. s[1] = "unref" /\ s[2] = v
    BY <2>2
  <2>4. Carried(s, u) = Bit(v = u)
    BY <2>3, CarriedIs
  <2> QED
    BY <2>1, <2>2, <2>4 DEF CarriedAt, Bit
<1> QED
  BY <1>1, <1>2

\* Client c will drop a reference to v.
LEMMA UnrefSteps ==
  ASSUME NEW c \in Clients, NEW v \in Vnodes \cup {NULL}, NEW l, l = Unrefs(v), NEW u \in Vnodes,
         NEW n \in Nat, HeadCarried(c, u) = n
  PROVE  MoreSteps(c, l, u, Bit(u = v) - n)
<1>1. CarriedAt(l, 1, u) = Bit(u = v) /\ CarriedAt(l, 2, u) = 0 /\ Len(l) \in {0, 1}
  BY UnrefsCarry, UnrefsList
<1>2. Bit(u = v) \in Nat
  BY DEF Bit
<1> QED
  BY <1>1, <1>2 DEF MoreSteps

\* An idle client carries nothing.
LEMMA IdleCarries ==
  ASSUME NEW c \in Clients, todo[c] = <<>>, NEW u
  PROVE  HeadCarried(c, u) = 0
BY DEF HeadCarried

\* What the step that client c is at carries.
LEMMA HeadCarries ==
  ASSUME TodoType, NEW c \in Clients, todo[c] # <<>>, NEW u \in Vnodes
  PROVE  /\ Arg(c)[1] = "unref" => HeadCarried(c, u) = Bit(Arg(c)[2] = u)
         /\ Arg(c)[1] = "enter" => HeadCarried(c, u) = Bit(Arg(c)[4] = u)
         /\ Arg(c)[1] \in {"recheck", "insert"} => HeadCarried(c, u) = 2 * Bit(Arg(c)[4] = u)
         /\ Arg(c)[1] \notin {"unref", "enter", "recheck", "insert"} => HeadCarried(c, u) = 0
<1>1. Arg(c) \in Steps
  BY HeadPlanned
<1> QED
  BY <1>1, CarriedIs DEF HeadCarried

-----------------------------------------------------------------------------
(* Operations that take a reference.                                        *)

\* The invariant is the conjunction of its parts.
LEMMA Conclude ==
  ASSUME FsInv', RefType', StepsSound', \A u \in Vnodes : Balanced(u)', NoFault'
  PROVE  VfsInv'
BY DEF VfsInv, RefsCounted

\* A client that gets a reference loses none.
LEMMA GivesType ==
  ASSUME RefType, NEW c \in Clients, NEW v \in Vnodes, Gives(c, v)
  PROVE  held' \in [Clients -> [Vnodes -> Nat]] /\ HeldKept(c)
<1>1. held \in [Clients -> [Vnodes -> Nat]]
  BY DEF RefType
<1>2. held' \in [Clients -> [Vnodes -> Nat]]
  BY <1>1 DEF Gives
<1>3. \A d \in Clients, w \in Vnodes : held'[d][w] >= held[d][w] /\ held[d][w] \in Nat /\ held'[d][w] \in Nat
  BY <1>1, <1>2 DEF Gives
<1>4. HeldKept(c)
  BY <1>3 DEF HeldKept
<1> QED
  BY <1>2, <1>4

\* Nobody drops a reference.
LEMMA HeldSame ==
  ASSUME UNCHANGED held, NEW c
  PROVE  HeldKept(c)
BY DEF HeldKept

\* One reference more is lost.
LEMMA LostType ==
  ASSUME RefType, NEW v \in Vnodes, lost' = [lost EXCEPT ![v] = @ + 1]
  PROVE  lost' \in [Vnodes -> Nat]
BY DEF RefType

\* The count grows by what clients hold or have lost.
LEMMA BooksKept ==
  ASSUME VfsInv, NEW c \in Clients, NEW l \in Seq(Steps), Became(c, l), NEW u \in Vnodes,
         MoreTable(u, 0), MoreNames(u, 0), MoreParents(u, 0), MoreMounts(u, 0), MoreSteps(c, l, u, 0),
         NEW dh \in Int, MoreHeld(u, dh), NEW dl \in Int, MoreLost(u, dl), NEW dc \in Int, MoreCount(u, dc),
         dc = dh + dl
  PROVE  Balanced(u)'
<1>1. dc = dh + 0 + 0 + 0 + 0 + 0 + dl
  OBVIOUS
<1> QED
  BY <1>1, Books

\* A reference is taken to a vnode that has one: the holder keeps it, or it is lost.
LEMMA TakeRef ==
  ASSUME VfsInv, NEW c \in Clients, NEW v \in Vnodes,
         NEW l \in Seq(Steps), Became(c, l), Len(l) = 0, todo[c] # <<>> => Arg(c)[1] = "rootref",
         vn[v].count > 0, vn[v].alloc, ~vn[v].freeing,
         vn' = vnode_ref(vn, v), fault' = NULL,
         \/ Gives(c, v) /\ UNCHANGED lost
         \/ lost' = [lost EXCEPT ![v] = @ + 1] /\ UNCHANGED held,
         UNCHANGED <<tables, spin>>
  PROVE  VfsInv'
<1>1. FsInv /\ RefType /\ StepsSound /\ TodoType
  BY InvParts
<1>2. Became(c, l) /\ Len(l) = 0 /\ \A i \in 1 .. Len(l) : FALSE
  OBVIOUS
<1>3. UNCHANGED <<vfs, leftover, mount_table, vnode_table>> /\ UNCHANGED namecache /\ spin' = spin
  BY DEF tables
<1>4. FsInv'
  <2>1. \A i \in 1 .. Len(l) : l[i][1] \notin FsSteps
    BY <1>2
  <2>2. todo[c] # <<>> => Arg(c)[1] \notin FsSteps
    BY DEF FsSteps
  <2>3. Became(c, l)
    BY <1>2
  <2> QED
    BY <1>1, <1>3, <2>1, <2>2, <2>3, FsNothing
<1>5. vn' \in [Vnodes -> VnodeType] /\ ParentsUnchanged /\ CountsUp
  BY <1>1, VnodeRef DEF RefType
<1>6. held' \in [Clients -> [Vnodes -> Nat]] /\ HeldKept(c)
  BY <1>1, GivesType, HeldSame DEF RefType
<1>7. lost' \in [Vnodes -> Nat]
  BY <1>1, LostType DEF RefType
<1>8. RefType'
  BY <1>1, <1>3, <1>5, <1>6, <1>7 DEF RefType
<1>9. StepsSound'
  <2>1. \A i \in 1 .. Len(l) : l[i][1] \notin TrackedSteps
    BY <1>2
  <2>2. Became(c, l)
    BY <1>2
  <2> QED
    BY <1>1, <1>3, <1>5, <1>6, <2>1, <2>2, StepsPlain
<1>10. ASSUME NEW u \in Vnodes PROVE Balanced(u)'
  <2>0. Became(c, l)
    BY <1>2
  <2>1. MoreTable(u, 0)
    BY <1>3, NoMoreTable
  <2>2. MoreNames(u, 0) /\ MoreParents(u, 0) /\ MoreMounts(u, 0)
    <3>1. \A i \in 1 .. Len(l) : l[i][1] \notin {"remove", "parent", "mount", "release"}
      BY <1>2
    <3>2. todo[c] # <<>> => Arg(c)[1] \notin {"remove", "parent", "mount", "release"}
      OBVIOUS
    <3>3. UNCHANGED <<namecache, vfs>>
      BY <1>3
    <3> QED
      BY <1>1, <3>2, <3>3, <1>5, <2>0, <3>1, NoMoreElse
  <2>3. MoreSteps(c, l, u, 0)
    <3>1. HeadCarried(c, u) = 0
      BY <1>1, IdleCarries, HeadCarries
    <3>2. MoreSteps(c, l, u, - 0)
      BY <1>2, <3>1, NoNewSteps
    <3> QED
      BY <3>2
  <2>5. PICK b \in Int : b = Bit(u = v)
    BY DEF Bit
  <2>4. MoreCount(u, b)
    BY <2>5, OneMoreCount
  <2>6. CASE Gives(c, v) /\ UNCHANGED lost
    <3>1. MoreHeld(u, b) /\ MoreLost(u, 0)
      BY <2>5, <2>6, OneMoreHeld, NoMoreLost
    <3>2. b = b + 0 /\ 0 \in Int
      BY <2>5
    <3> QED
      BY <2>0, <2>1, <2>2, <2>3, <2>4, <3>1, <3>2, BooksKept
  <2>7. CASE lost' = [lost EXCEPT ![v] = @ + 1] /\ UNCHANGED held
    <3>1. MoreLost(u, b) /\ MoreHeld(u, 0)
      BY <2>5, <2>7, OneMoreLost, NoMoreHeld
    <3>2. b = 0 + b /\ 0 \in Int
      BY <2>5
    <3> QED
      BY <2>0, <2>1, <2>2, <2>3, <2>4, <3>1, <3>2, BooksKept
  <2> QED
    BY <2>6, <2>7
<1>11. NoFault'
  BY DEF NoFault
<1> QED
  BY <1>4, <1>8, <1>9, <1>10, <1>11, Conclude

\* The same, for a call that is over at once.
LEMMA CallTakes ==
  ASSUME VfsInv, NEW c \in Clients, NEW v \in Vnodes, todo[c] = <<>>, Call(c, <<>>),
         vn[v].count > 0, vn[v].alloc, ~vn[v].freeing,
         vn' = vnode_ref(vn, v), Touch(v),
         \/ Gives(c, v) /\ UNCHANGED lost
         \/ lost' = [lost EXCEPT ![v] = @ + 1] /\ UNCHANGED held,
         UNCHANGED <<tables, spin>>
  PROVE  VfsInv'
<1>1. PICK l \in Seq(Steps) : Became(c, l) /\ Len(l) = 0
  BY InvParts, CallNone
<1>2. fault' = NULL /\ (todo[c] # <<>> => Arg(c)[1] = "rootref")
  BY DEF Touch, UseOf
<1> QED
  BY <1>1, <1>2, TakeRef

\* namecache_lookup keeps the invariant.
LEMMA LookupKept ==
  ASSUME VfsInv, NEW c \in Clients, Idle(c), NEW d \in Vnodes, NEW n \in Names, namecache_lookup(c, d, n)
  PROVE  VfsInv'
<1>1. PICK v \in Vnodes : v = namecache[<<d, n>>]
  BY InvParts DEF namecache_lookup, RefType, make_namecache_key
<1>2. ~Removing(<<d, n>>)
  <2> SUFFICES ASSUME Removing(<<d, n>>) PROVE FALSE
    OBVIOUS
  <2>1. PICK e \in Clients : \E p : RemovalAt(e, p, <<d, n>>)
    BY InvParts, RemovingIs
  <2>2. spin = e
    BY <2>1, InvParts DEF NamesLocked, RemovalAt
  <2> QED
    BY <2>2, NullAssumption DEF Idle
<1>3. vn[v].count > 0 /\ vn[v].alloc /\ ~vn[v].freeing
  BY <1>1, <1>2, Positive
<1>4. /\ Call(c, <<>>) /\ vn' = vnode_ref(vn, v) /\ Gives(c, v) /\ Touch(v) /\ UNCHANGED lost
      /\ UNCHANGED <<tables, spin>>
  BY <1>1 DEF namecache_lookup, make_namecache_key
<1>5. todo[c] = <<>>
  BY DEF Idle
<1> QED
  BY <1>3, <1>4, <1>5, CallTakes

\* vnode_get that finds a vnode keeps the invariant.
LEMMA GetHitKept ==
  ASSUME VfsInv, NEW c \in Clients, Idle(c), NEW f \in Filesystems, NEW id \in Nodeids, NEW v \in Vnodes,
         v = LookedUp(f, id), Call(c, <<>>), vn' = vnode_ref(vn, v), lost' = [lost EXCEPT ![v] = @ + 1],
         Touch(v), UNCHANGED <<tables, held, spin>>
  PROVE  VfsInv'
<1>1. vnode_table[<<f, id>>] = v /\ <<f, id>> \in Filesystems \X Nodeids
  BY DEF LookedUp, create_vnode_key
<1>2. vn[v].count > 0 /\ vn[v].alloc /\ ~vn[v].freeing
  BY <1>1, Positive
<1>3. todo[c] = <<>> /\ UNCHANGED held /\ UNCHANGED <<tables, spin>>
  BY DEF Idle
<1> QED
  BY <1>2, <1>3, CallTakes

-----------------------------------------------------------------------------
(* Operations on the table.                                                 *)

\* A step that leaves the name cache, the parents and the mounts alone.
LEMMA PlainStep ==
  ASSUME VfsInv, NEW c \in Clients, NEW l \in Seq(Steps), Became(c, l),
         \A i \in 1 .. Len(l) : l[i][1] \notin TrackedSteps \cup {"mount", "release"},
         todo[c] # <<>> => Arg(c)[1] \notin {"remove", "parent", "mount", "release"},
         FsInv', RefType', NoFault',
         UNCHANGED <<namecache, vfs>>, spin' = spin, ParentsUnchanged, CountsUp, HeldKept(c),
         \A u \in Vnodes : \E dh, ds, dt, dl, dc :
            /\ MoreHeld(u, dh) /\ MoreSteps(c, l, u, ds) /\ MoreTable(u, dt) /\ MoreLost(u, dl)
            /\ MoreCount(u, dc) /\ dc = dh + ds + dt + dl
  PROVE  VfsInv'
<1>1. TodoType /\ StepsSound
  BY InvParts
<1>2. \A i \in 1 .. Len(l) : l[i][1] \notin TrackedSteps
  OBVIOUS
<1>3. StepsSound'
  BY <1>1, <1>2, StepsPlain
<1>4. ASSUME NEW u \in Vnodes PROVE Balanced(u)'
  <2>1. PICK dh, ds, dt, dl, dc :
            /\ MoreHeld(u, dh) /\ MoreSteps(c, l, u, ds) /\ MoreTable(u, dt) /\ MoreLost(u, dl)
            /\ MoreCount(u, dc) /\ dc = dh + ds + dt + dl
    OBVIOUS
  <2>2. MoreNames(u, 0) /\ MoreParents(u, 0) /\ MoreMounts(u, 0)
    <3>1. \A i \in 1 .. Len(l) : l[i][1] \notin {"remove", "parent", "mount", "release"}
      BY DEF TrackedSteps
    <3> QED
      BY <1>1, <3>1, NoMoreElse
  <2>3. dh \in Int /\ ds \in Int /\ dt \in Int /\ dl \in Int /\ dc \in Int
    BY <2>1 DEF MoreHeld, MoreSteps, MoreTable, MoreLost, MoreCount
  <2>4. dc = dh + ds + dt + 0 + 0 + 0 + dl
    BY <2>1, <2>3
  <2>5. MoreHeld(u, dh) /\ MoreSteps(c, l, u, ds) /\ MoreTable(u, dt) /\ MoreLost(u, dl) /\ MoreCount(u, dc)
    BY <2>1
  <2> QED
    BY <2>2, <2>4, <2>5, Books
<1> QED
  BY <1>3, <1>4, Conclude

\* What is the same when no vnode, no reference and no lock changes.
LEMMA SameRefs ==
  ASSUME VfsInv, NEW c, UNCHANGED <<vn, held, lost, spin, namecache>>
  PROVE  /\ RefType' /\ ParentsUnchanged /\ CountsUp /\ HeldKept(c)
         /\ \A u \in Vnodes : MoreHeld(u, 0) /\ MoreLost(u, 0) /\ MoreCount(u, 0)
<1>1. RefType'
  BY InvParts DEF RefType
<1>2. UNCHANGED held /\ UNCHANGED lost /\ UNCHANGED vn
  OBVIOUS
<1>3. \A u \in Vnodes : MoreHeld(u, 0) /\ MoreLost(u, 0) /\ MoreCount(u, 0)
  BY <1>2, NoMoreHeld, NoMoreLost, NoMoreCount
<1> QED
  BY <1>1, <1>2, <1>3, SameCounts, HeldSame

\* Steps that neither carry references nor get any.
LEMMA QuietStep ==
  ASSUME VfsInv, NEW c \in Clients, NEW l \in Seq(Steps), Became(c, l),
         \A i \in 1 .. Len(l) : l[i][1] \in {"vget", "collect", "drop", "rootref", "rootof"},
         todo[c] # <<>> => Arg(c)[1] \in {"vget", "purge", "collect", "rootref", "rootof"},
         FsInv', NoFault',
         UNCHANGED <<vn, held, lost, spin, namecache, vfs, vnode_table>>
  PROVE  VfsInv'
<1>1. /\ RefType' /\ ParentsUnchanged /\ CountsUp /\ HeldKept(c)
      /\ \A u \in Vnodes : MoreHeld(u, 0) /\ MoreLost(u, 0) /\ MoreCount(u, 0)
  BY SameRefs
<1>2. \A u \in Vnodes : MoreTable(u, 0)
  BY NoMoreTable
<1>3. ASSUME NEW u \in Vnodes PROVE MoreSteps(c, l, u, 0)
  <2>1. HeadCarried(c, u) = 0
    BY InvParts, HeadCarries, IdleCarries
  <2>2. \A i \in 1 .. Len(l) : Carried(l[i], u) = 0
    BY CarriedIs
  <2> QED
    BY <2>1, <2>2 DEF MoreSteps, CarriedAt
<1>4. \A i \in 1 .. Len(l) : l[i][1] \notin TrackedSteps \cup {"mount", "release"}
  BY DEF TrackedSteps
<1>5. todo[c] # <<>> => Arg(c)[1] \notin {"remove", "parent", "mount", "release"}
  OBVIOUS
<1>6. ASSUME NEW u \in Vnodes
      PROVE  \E dh, ds, dt, dl, dc :
            /\ MoreHeld(u, dh) /\ MoreSteps(c, l, u, ds) /\ MoreTable(u, dt) /\ MoreLost(u, dl)
            /\ MoreCount(u, dc) /\ dc = dh + ds + dt + dl
  <2>1. 0 = 0 + 0 + 0 + 0
    OBVIOUS
  <2> QED
    BY <1>1, <1>2, <1>3, <2>1
<1> QED
  BY <1>1, <1>4, <1>5, <1>6, PlainStep

\* A reference of the table becomes the one that the next step drops.
LEMMA TableDropped ==
  ASSUME VfsInv, NEW c \in Clients, NEW f \in Filesystems, NEW id \in Nodeids,
         NEW v, v = LookedUp(f, id), NEW l, l = Unrefs(v), Became(c, l),
         todo[c] # <<>> => Arg(c)[1] = "drop",
         FsInv', NoFault', vnode_table' = Removed(f, id),
         UNCHANGED <<vn, held, lost, spin, namecache, vfs>>
  PROVE  VfsInv'
<1>1. /\ RefType' /\ ParentsUnchanged /\ CountsUp /\ HeldKept(c)
      /\ \A u \in Vnodes : MoreHeld(u, 0) /\ MoreLost(u, 0) /\ MoreCount(u, 0)
  BY SameRefs
<1>2. FsType /\ <<f, id>> \in Filesystems \X Nodeids
  BY InvParts
<1>3. v \in Vnodes \cup {NULL} /\ v = vnode_table[<<f, id>>] /\ vnode_table' = [vnode_table EXCEPT ![<<f, id>>] = NULL]
  BY <1>2 DEF LookedUp, Removed, create_vnode_key, FsType
<1>4. /\ l \in Seq(Steps) /\ \A i \in 1 .. Len(l) : l[i] = <<"unref", v>>
  BY <1>3, UnrefsList
<1>5. ASSUME NEW u \in Vnodes PROVE MoreSteps(c, l, u, Bit(u = v) - 0)
  <2>1. HeadCarried(c, u) = 0
    BY InvParts, HeadCarries, IdleCarries
  <2> QED
    BY <1>3, <2>1, UnrefSteps
<1>6. ASSUME NEW u \in Vnodes PROVE MoreTable(u, - Bit(u = v))
  <2>0. PICK k \in Filesystems \X Nodeids : k = <<f, id>>
    BY <1>2
  <2>1. /\ Cardinality(TableRefs(u)) \in Nat
        /\ Cardinality(TableRefs(u)') = Cardinality(TableRefs(u)) - Bit(vnode_table[k] = u) + Bit(NULL = u)
    <3>1. SetEntry(k, NULL)
      BY <1>3, <2>0 DEF SetEntry
    <3> QED
      BY <1>2, <3>1, TableDelta
  <2>2. Bit(NULL = u) = 0 /\ Bit(vnode_table[k] = u) = Bit(u = v) /\ Bit(u = v) \in Int
    BY <1>3, <2>0, NullAssumption, VnodesAssumption DEF Bit
  <2> QED
    BY <2>1, <2>2 DEF MoreTable
<1>7. \A i \in 1 .. Len(l) : l[i][1] \notin TrackedSteps \cup {"mount", "release"}
  BY <1>4 DEF TrackedSteps
<1>8. ASSUME NEW u \in Vnodes
      PROVE  \E dh, ds, dt, dl, dc :
            /\ MoreHeld(u, dh) /\ MoreSteps(c, l, u, ds) /\ MoreTable(u, dt) /\ MoreLost(u, dl)
            /\ MoreCount(u, dc) /\ dc = dh + ds + dt + dl
  <2>1. 0 = 0 + (Bit(u = v) - 0) + (- Bit(u = v)) + 0
    BY DEF Bit
  <2> QED
    BY <1>1, <1>5, <1>6, <2>1
<1>9. todo[c] # <<>> => Arg(c)[1] \notin {"remove", "parent", "mount", "release"}
  OBVIOUS
<1>10. l \in Seq(Steps) /\ UNCHANGED <<namecache, vfs>> /\ spin' = spin
  BY <1>4
<1> QED
  BY <1>1, <1>7, <1>8, <1>9, <1>10, PlainStep

\* vnode_put keeps the invariant.
LEMMA PutKept ==
  ASSUME VfsInv, NEW c \in Clients, Idle(c), NEW v \in Vnodes, vnode_put(c, v)
  PROVE  VfsInv'
<1>1. TodoType /\ RefType /\ FsInv
  BY InvParts
<1>2. PICK l : l = Unrefs(v)
  OBVIOUS
<1>3. todo[c] = <<>> /\ fault = NULL /\ Call(c, l) /\ held[c][v] > 0 /\ held' = [held EXCEPT ![c][v] = @ - 1]
  BY <1>2 DEF Idle, vnode_put
<1>4. UNCHANGED <<vn, tables, lost, spin, fault>>
  BY DEF vnode_put
<1>5. UNCHANGED <<vfs, leftover, mount_table, vnode_table>> /\ UNCHANGED <<namecache, vfs>> /\ spin' = spin
  BY <1>4 DEF tables
<1>6. l \in Seq(Steps) /\ \A i \in 1 .. Len(l) : l[i] = <<"unref", v>>
  BY <1>2, UnrefsList
<1>7. Became(c, l)
  BY <1>1, <1>3, <1>6, CallBecame
<1>8. FsInv'
  <2>1. \A i \in 1 .. Len(l) : l[i][1] \notin FsSteps
    BY <1>6 DEF FsSteps
  <2>2. l \in Seq(Steps)
    BY <1>6
  <2>3. todo[c] # <<>> => Arg(c)[1] \notin FsSteps
    BY <1>3
  <2> QED
    BY <1>1, <1>5, <1>7, <2>1, <2>2, <2>3, FsNothing
<1>9. held[c][v] \in Nat /\ held' \in [Clients -> [Vnodes -> Nat]]
  <2>1. held \in [Clients -> [Vnodes -> Nat]]
    BY <1>1 DEF RefType
  <2>2. held[c][v] - 1 \in Nat
    BY <1>3, <2>1
  <2> QED
    BY <1>3, <2>1, <2>2
<1>10. RefType' /\ CountsUp /\ ParentsUnchanged
  BY <1>1, <1>4, <1>5, <1>9, SameCounts DEF RefType
<1>11. HeldKept(c)
  BY <1>1, <1>3 DEF HeldKept, RefType
<1>12. ASSUME NEW u \in Vnodes
      PROVE  \E dh, ds, dt, dl, dc :
            /\ MoreHeld(u, dh) /\ MoreSteps(c, l, u, ds) /\ MoreTable(u, dt) /\ MoreLost(u, dl)
            /\ MoreCount(u, dc) /\ dc = dh + ds + dt + dl
  <2>1. MoreHeld(u, - Bit(u = v))
    <3>1. -1 \in {1, -1} /\ held[c][v] + -1 >= 0 /\ held' = [held EXCEPT ![c][v] = @ + -1]
      <4>1. held \in [Clients -> [Vnodes -> Nat]]
        BY <1>1 DEF RefType
      <4>2. held[c][v] + -1 = held[c][v] - 1
        BY <1>9
      <4>3. held' = [held EXCEPT ![c][v] = held[c][v] - 1]
        BY <1>3, <4>1
      <4>4. held' = [held EXCEPT ![c][v] = @ + -1]
        BY <4>1, <4>2, <4>3
      <4>5. held[c][v] + -1 >= 0
        BY <1>3, <1>9
      <4> QED
        BY <4>4, <4>5
    <3>2. IsFiniteSet(HeldRefs(u))
      BY InvParts DEF RefsCounted, Balanced
    <3>3. /\ IsFiniteSet(HeldRefs(u)')
          /\ Cardinality(HeldRefs(u)) \in Nat
          /\ Cardinality(HeldRefs(u)') = Cardinality(HeldRefs(u)) + (-1) * Bit(u = v)
      BY <1>1, <3>1, <3>2, HeldDelta, ZenonT(90)
    <3>4. (-1) * Bit(u = v) = - Bit(u = v) /\ - Bit(u = v) \in Int
      BY DEF Bit
    <3> QED
      BY <3>3, <3>4 DEF MoreHeld
  <2>2. MoreSteps(c, l, u, Bit(u = v) - 0)
    BY <1>2, <1>3, IdleCarries, UnrefSteps
  <2>3. MoreTable(u, 0) /\ MoreLost(u, 0) /\ MoreCount(u, 0)
    BY <1>4, <1>5, NoMoreTable, NoMoreLost, NoMoreCount
  <2>4. 0 = (- Bit(u = v)) + (Bit(u = v) - 0) + 0 + 0
    BY DEF Bit
  <2> QED
    BY <2>1, <2>2, <2>3, <2>4
<1>13. \A i \in 1 .. Len(l) : l[i][1] \notin TrackedSteps \cup {"mount", "release"}
  BY <1>6 DEF TrackedSteps
<1>14. todo[c] # <<>> => Arg(c)[1] \notin {"remove", "parent", "mount", "release"}
  BY <1>3
<1>15. l \in Seq(Steps) /\ NoFault'
  BY <1>3, <1>4, <1>6 DEF NoFault
<1> QED
  BY <1>5, <1>7, <1>8, <1>10, <1>11, <1>12, <1>13, <1>14, <1>15, PlainStep

\* The types after a step that may change the table.
LEMMA FsTypeAfter ==
  ASSUME FsType, NEW c \in Clients, NEW l \in Seq(Steps), Became(c, l), UNCHANGED <<mount_table, vfs>>,
         vnode_table' \in [Filesystems \X Nodeids -> Vnodes \cup {NULL}]
  PROVE  FsType'
BY ItemsAfter DEF FsType

\* A step that is not part of a mount or an unmount changes the table: what it
\* enters will be purged or is noted.
LEMMA FsUsed ==
  ASSUME VfsInv, NEW c \in Clients, NEW l \in Seq(Steps), Became(c, l),
         \A i \in 1 .. Len(l) : l[i][1] \notin FsSteps,
         todo[c] # <<>> => Arg(c)[1] \notin FsSteps,
         vnode_table' \in [Filesystems \X Nodeids -> Vnodes \cup {NULL}],
         \A f \in Filesystems : f \in leftover => f \in leftover',
         \A f \in Filesystems : \A id \in Entries(f)' : id \in Entries(f) \/ ~Late(f) \/ f \in leftover',
         UNCHANGED <<vfs, mount_table>>
  PROVE  FsInv'
<1>1. FsInv /\ FsType /\ UNCHANGED <<mount_table, vfs>>
  BY InvParts
<1>2. FsType'
  BY <1>1, FsTypeAfter
<1> QED
  BY <1>1, <1>2, FsOrdinary

\* A step that only looks keeps the invariant.
LEMMA LookKept ==
  ASSUME VfsInv, NEW c \in Clients, NEW l \in Seq(Steps), Became(c, l),
         \A i \in 1 .. Len(l) : l[i][1] \in {"vget", "rootref", "rootof"},
         todo[c] # <<>> => Arg(c)[1] \in {"vget", "rootref", "rootof"},
         UNCHANGED <<vn, tables, held, lost, spin>>, NoFault'
  PROVE  VfsInv'
<1>1. /\ UNCHANGED <<vn, held, lost, spin, namecache, vfs, vnode_table>>
      /\ UNCHANGED <<vfs, leftover, mount_table, vnode_table>>
  BY DEF tables
<1>2. FsInv'
  <2>1. \A i \in 1 .. Len(l) : l[i][1] \notin FsSteps
    BY DEF FsSteps
  <2>2. todo[c] # <<>> => Arg(c)[1] \notin FsSteps
    BY DEF FsSteps
  <2>3. FsInv
    BY InvParts
  <2> QED
    BY <1>1, <2>1, <2>2, <2>3, FsNothing
<1>3. \A i \in 1 .. Len(l) : l[i][1] \in {"vget", "collect", "drop", "rootref", "rootof"}
  OBVIOUS
<1>4. todo[c] # <<>> => Arg(c)[1] \in {"vget", "purge", "collect", "rootref", "rootof"}
  OBVIOUS
<1> QED
  BY <1>1, <1>2, <1>3, <1>4, QuietStep

\* The steps that take a reference to the root of f, if there is one.
LEMMA RootStepsList ==
  ASSUME VfsInv, NEW f \in Filesystems
  PROVE  RootSteps(f) \in Seq(Steps) /\ \A i \in 1 .. Len(RootSteps(f)) : RootSteps(f)[i][1] = "rootref"
<1>1. LookedUp(f, Root) \in Vnodes \cup {NULL}
  BY InvParts, RootAssumption DEF FsType, LookedUp, create_vnode_key
<1>2. CASE LookedUp(f, Root) = NULL
  BY <1>2, EmptyList DEF RootSteps
<1>3. CASE LookedUp(f, Root) # NULL
  <2>1. PICK s \in Steps : s = <<"rootref", LookedUp(f, Root)>>
    BY <1>1, <1>3, StepsMade
  <2>2. RootSteps(f) = <<s>> /\ s[1] = "rootref"
    BY <1>3, <2>1 DEF RootSteps
  <2> QED
    BY <2>2, SingleList
<1> QED
  BY <1>2, <1>3

\* vfs_root_vnode keeps the invariant.
LEMMA RootKept ==
  ASSUME VfsInv, NEW c \in Clients, Idle(c), NEW f \in Filesystems, vfs_root_vnode(c, f)
  PROVE  VfsInv'
<1>1. PICK l \in Seq(Steps) : l = RootSteps(f) /\ \A i \in 1 .. Len(l) : l[i][1] = "rootref"
  BY RootStepsList
<1>2. todo[c] = <<>> /\ fault = NULL
  BY DEF Idle
<1>3. Call(c, l) /\ UNCHANGED <<vn, tables, held, lost, spin>> /\ fault' = fault
  BY <1>1 DEF vfs_root_vnode
<1>4. Became(c, l)
  BY <1>2, <1>3, InvParts, CallBecame
<1>5. NoFault' /\ \A i \in 1 .. Len(l) : l[i][1] \in {"vget", "rootref", "rootof"}
  BY <1>1, <1>2, <1>3 DEF NoFault
<1> QED
  BY <1>2, <1>3, <1>4, <1>5, LookKept

\* RootOf keeps the invariant.
LEMMA RootOfKept ==
  ASSUME VfsInv, NEW c \in Clients, RootOf(c)
  PROVE  VfsInv'
<1>1. At(c, "rootof") /\ TodoType
  BY InvParts DEF RootOf
<1>2. todo[c] # <<>> /\ Arg(c)[1] = "rootof"
  BY <1>1, AtHead
<1>3. PICK f \in Filesystems : f = Arg(c)[2]
  BY <1>1, AtHead DEF StepFields
<1>4. PICK l \in Seq(Steps) : l = RootSteps(f) /\ \A i \in 1 .. Len(l) : l[i][1] = "rootref"
  BY RootStepsList
<1>5. Then(c, l) /\ UNCHANGED <<vn, tables, held, lost, spin>>
  BY <1>3, <1>4 DEF RootOf
<1>6. Became(c, l)
  BY <1>1, <1>2, <1>5, ThenBecame
<1>7. NoFault'
  BY DEF RootOf, NoFault, UnmountFaults
<1>8. /\ \A i \in 1 .. Len(l) : l[i][1] \in {"vget", "rootref", "rootof"}
      /\ todo[c] # <<>> => Arg(c)[1] \in {"vget", "rootref", "rootof"}
  BY <1>2, <1>4
<1> QED
  BY <1>5, <1>6, <1>7, <1>8, LookKept

\* RootRef keeps the invariant: it takes a reference, or it is too late.
LEMMA RootRefKept ==
  ASSUME VfsInv, NEW c \in Clients, RootRef(c)
  PROVE  VfsInv'
<1>1. At(c, "rootref") /\ TodoType
  BY InvParts DEF RootRef
<1>2. todo[c] # <<>> /\ Arg(c)[1] = "rootref" /\ fault = NULL
  BY <1>1, AtHead DEF At
<1>3. PICK v \in Vnodes : v = Arg(c)[2]
  BY <1>1, AtHead DEF StepFields
<1>4. PICK l \in Seq(Steps) : Became(c, l) /\ Len(l) = 0 /\ \A i \in 1 .. Len(l) : FALSE
  BY <1>1, <1>2, ThenNone DEF RootRef
<1>5. CASE vn[v].count > 0 /\ vn' = vnode_ref(vn, v) /\ Gives(c, v) /\ UNCHANGED fault
  <2>1. vn[v].alloc /\ ~vn[v].freeing
    <3>1. vn[v].alloc \/ vn[v] = Blank
      BY InvParts DEF VnodesSound
    <3>2. Blank.count = 0
      BY DEF Blank
    <3>3. vn[v].count # 0
      BY <1>5
    <3>4. ~vn[v].freeing
      BY <3>3, InvParts DEF VnodesSound
    <3> QED
      BY <3>1, <3>2, <3>3, <3>4
  <2>2. UNCHANGED <<tables, spin>> /\ UNCHANGED lost /\ fault' = NULL
    BY <1>2, <1>5 DEF RootRef
  <2> QED
    BY <1>2, <1>4, <1>5, <2>1, <2>2, TakeRef
<1>6. CASE fault' = "freed root" /\ UNCHANGED <<vn, held>>
  <2>1. UNCHANGED <<vn, tables, held, lost, spin>>
    BY <1>6 DEF RootRef
  <2>2. NoFault'
    BY <1>6 DEF NoFault, UnmountFaults
  <2>3. /\ \A i \in 1 .. Len(l) : l[i][1] \in {"vget", "rootref", "rootof"}
        /\ todo[c] # <<>> => Arg(c)[1] \in {"vget", "rootref", "rootof"}
    BY <1>2, <1>4
  <2> QED
    BY <1>4, <2>1, <2>2, <2>3, LookKept
<1> QED
  BY <1>3, <1>5, <1>6 DEF RootRef

\* vnode_get that finds none keeps the invariant.
LEMMA GetMissKept ==
  ASSUME VfsInv, NEW c \in Clients, Idle(c), NEW f \in Filesystems, NEW id \in Nodeids,
         Call(c, << <<"vget", f, id>> >>), UNCHANGED <<vn, lost, fault>>, UNCHANGED <<tables, held, spin>>
  PROVE  VfsInv'
<1>1. TodoType /\ FsType
  BY InvParts
<1>2. todo[c] = <<>> /\ fault = NULL
  BY DEF Idle
<1>3. PICK s \in Steps : s = <<"vget", f, id>>
  BY StepsMade
<1>4. PICK l \in Seq(Steps) : Became(c, l) /\ Len(l) = 1 /\ l[1] = s
  BY <1>1, <1>2, <1>3, CallOne
<1>5. \A i \in 1 .. Len(l) : l[i][1] \in {"vget", "rootref", "rootof"}
  BY <1>3, <1>4
<1>6. NoFault' /\ UNCHANGED <<vn, tables, held, lost, spin>>
  BY <1>2 DEF NoFault
<1> QED
  BY <1>2, <1>4, <1>5, <1>6, LookKept

\* vnode_get keeps the invariant.
LEMMA GetKept ==
  ASSUME VfsInv, NEW c \in Clients, Idle(c), NEW f \in Filesystems, NEW id \in Nodeids, vnode_get(c, f, id)
  PROVE  VfsInv'
<1>1. LookedUp(f, id) \in Vnodes \cup {NULL}
  BY InvParts DEF FsType, LookedUp, create_vnode_key
<1>2. CASE LookedUp(f, id) # NULL
  <2>1. PICK v \in Vnodes : v = LookedUp(f, id)
    BY <1>1, <1>2
  <2>2. /\ Call(c, <<>>) /\ vn' = vnode_ref(vn, v) /\ lost' = [lost EXCEPT ![v] = @ + 1]
        /\ Touch(v) /\ UNCHANGED <<tables, held, spin>>
    BY <1>2, <2>1 DEF vnode_get
  <2> QED
    BY <2>1, <2>2, GetHitKept
<1>3. CASE LookedUp(f, id) = NULL
  <2>1. /\ Call(c, << <<"vget", f, id>> >>) /\ UNCHANGED <<vn, lost, fault>>
        /\ UNCHANGED <<tables, held, spin>>
    BY <1>3 DEF vnode_get
  <2> QED
    BY <2>1, GetMissKept
<1> QED
  BY <1>2, <1>3

\* namei_get_root_vnode keeps the invariant.
LEMMA NameiKept ==
  ASSUME VfsInv, NEW c \in Clients, Idle(c), namei_get_root_vnode(c)
  PROVE  VfsInv'
<1>1. PICK f \in Filesystems \cup {NULL} : f = vfs_from_path(RootPath)
  BY InvParts, RootAssumption DEF FsType, vfs_from_path
<1>2. TodoType /\ todo[c] = <<>> /\ fault = NULL /\ UNCHANGED <<vn, tables, held, lost, spin>>
  BY InvParts DEF Idle, namei_get_root_vnode
<1>3. CASE f # NULL /\ Call(c, << <<"rootof", f>> >>) /\ UNCHANGED fault
  <2>1. PICK s \in Steps : s = <<"rootof", f>>
    BY <1>3, StepsMade
  <2>2. PICK l \in Seq(Steps) : Became(c, l) /\ Len(l) = 1 /\ l[1] = s
    BY <1>2, <1>3, <2>1, CallOne
  <2>3. NoFault' /\ \A i \in 1 .. Len(l) : l[i][1] \in {"vget", "rootref", "rootof"}
    BY <1>2, <1>3, <2>1, <2>2 DEF NoFault
  <2> QED
    BY <1>2, <2>2, <2>3, LookKept
<1>4. CASE Call(c, <<>>) /\ fault' = "null pointer"
  <2>1. PICK l \in Seq(Steps) : Became(c, l) /\ \A i \in 1 .. Len(l) : FALSE
    BY <1>2, <1>4, CallNone
  <2>2. NoFault' /\ \A i \in 1 .. Len(l) : l[i][1] \in {"vget", "rootref", "rootof"}
    BY <1>4, <2>1 DEF NoFault, UnmountFaults
  <2> QED
    BY <1>2, <2>1, <2>2, LookKept
<1> QED
  BY <1>1, <1>3, <1>4 DEF namei_get_root_vnode

\* Purge keeps the invariant.
LEMMA PurgeKept ==
  ASSUME VfsInv, NEW c \in Clients, Purge(c)
  PROVE  VfsInv'
<1>1. TodoType /\ FsType /\ FsInv
  BY InvParts
<1>2. At(c, "purge")
  BY DEF Purge
<1>3. PICK f \in Filesystems : f = Arg(c)[2]
  BY <1>1, <1>2, AtHead DEF StepFields, FsSteps
<1>4. todo[c] # <<>> /\ Arg(c)[1] = "purge" /\ fault = NULL
  BY <1>1, <1>2, AtHead DEF At
<1>5. UNCHANGED <<vn, held, lost, spin, namecache, vfs, vnode_table>> /\ UNCHANGED <<mount_table, vfs>> /\ fault' = fault
  BY DEF Purge
<1>6. PICK l \in Seq(Steps) : Became(c, l) /\ \A i \in 1 .. Len(l) : l[i][1] = "collect"
  <2>1. Cardinality(Entries(f)) \in Nat
    BY FS_Subset, FS_CardinalityType, FiniteAssumption DEF Entries
  <2>2. PICK s \in Steps : s = <<"collect", f, Cardinality(Entries(f))>>
    BY <2>1, StepsMade
  <2>3. CASE Then(c, <<s>>)
    <3>1. PICK l \in Seq(Steps) : Became(c, l) /\ Len(l) = 1 /\ l[1] = s
      BY <1>1, <1>4, <2>3, ThenOne
    <3>2. \A i \in 1 .. Len(l) : l[i][1] = "collect"
      BY <3>1, <2>2
    <3> QED
      BY <3>1, <3>2
  <2>4. CASE Then(c, <<>>)
    BY <1>1, <1>4, <2>4, ThenNone
  <2> QED
    BY <1>3, <2>2, <2>3, <2>4 DEF Purge
<1>7. Became(c, l)
  BY <1>6
<1>8. FsType'
  <2>1. vnode_table' \in [Filesystems \X Nodeids -> Vnodes \cup {NULL}]
    BY <1>1, <1>5 DEF FsType
  <2> QED
    BY <1>1, <1>5, <1>7, <2>1, FsTypeAfter
<1>9. FsInv'
  BY <1>1, <1>8, FsPurge
<1>10. \A i \in 1 .. Len(l) : l[i][1] \in {"vget", "collect", "drop", "rootref", "rootof"}
  BY <1>6
<1>11. NoFault' /\ (todo[c] # <<>> => Arg(c)[1] \in {"vget", "purge", "collect", "rootref", "rootof"})
  BY <1>4, <1>5 DEF NoFault
<1> QED
  BY <1>5, <1>7, <1>9, <1>10, <1>11, QuietStep

\* Collect keeps the invariant.
LEMMA CollectKept ==
  ASSUME VfsInv, NEW c \in Clients, Collect(c)
  PROVE  VfsInv'
<1>1. TodoType /\ FsType /\ FsInv
  BY InvParts
<1>2. At(c, "collect")
  BY DEF Collect
<1>3. PICK f \in Filesystems : f = Arg(c)[2]
  BY <1>1, <1>2, AtHead DEF StepFields, FsSteps
<1>4. todo[c] # <<>> /\ Arg(c)[1] = "collect"
  BY <1>1, <1>2, AtHead
<1>5. UNCHANGED <<vn, held, lost, spin, namecache, vfs, vnode_table>> /\ UNCHANGED <<mount_table, vfs>>
  BY DEF Collect, tables
<1>6. PICK l \in Seq(Steps) :
         Became(c, l) /\ \A i \in 1 .. Len(l) : l[i] \in { <<"drop", f, id>> : id \in Entries(f) }
  BY <1>1, <1>3, CollectList
<1>7. Became(c, l)
  BY <1>6
<1>8. FsType'
  <2>1. vnode_table' \in [Filesystems \X Nodeids -> Vnodes \cup {NULL}]
    BY <1>1, <1>5 DEF FsType
  <2> QED
    BY <1>1, <1>5, <1>7, <2>1, FsTypeAfter
<1>9. FsInv'
  BY <1>1, <1>8, FsCollect
<1>10. \A i \in 1 .. Len(l) : l[i][1] \in {"vget", "collect", "drop", "rootref", "rootof"}
  BY <1>6
<1>11. NoFault' /\ (todo[c] # <<>> => Arg(c)[1] \in {"vget", "purge", "collect", "rootref", "rootof"})
  BY <1>4 DEF Collect, NoFault, UnmountFaults
<1> QED
  BY <1>5, <1>7, <1>9, <1>10, <1>11, QuietStep

\* Drop keeps the invariant.
LEMMA DropKept ==
  ASSUME VfsInv, NEW c \in Clients, Drop(c)
  PROVE  VfsInv'
<1>1. TodoType /\ FsType /\ FsInv
  BY InvParts
<1>2. At(c, "drop")
  BY DEF Drop
<1>3. PICK f \in Filesystems : f = Arg(c)[2]
  BY <1>1, <1>2, AtHead DEF StepFields, FsSteps
<1>4. PICK id \in Nodeids : id = Arg(c)[3]
  BY <1>1, <1>2, AtHead DEF StepFields
<1>5. todo[c] # <<>> /\ Arg(c)[1] = "drop" /\ fault = NULL
  BY <1>1, <1>2, AtHead DEF At
<1>6. PICK v \in Vnodes \cup {NULL} : v = LookedUp(f, id)
  BY <1>1 DEF FsType, LookedUp, create_vnode_key
<1>7. PICK l : l = Unrefs(v)
  OBVIOUS
<1>8. l \in Seq(Steps)
  BY <1>7, UnrefsList
<1>9. Then(c, l) /\ vnode_table' = Removed(f, id)
  BY <1>3, <1>4, <1>6, <1>7 DEF Drop
<1>10. Became(c, l)
  BY <1>1, <1>5, <1>8, <1>9, ThenBecame
<1>11. UNCHANGED <<vn, held, lost, spin, namecache, vfs>> /\ UNCHANGED <<mount_table, vfs>> /\ fault' = fault
  BY DEF Drop
<1>12. FsType'
  <2>1. vnode_table' \in [Filesystems \X Nodeids -> Vnodes \cup {NULL}]
    BY <1>1, <1>9 DEF FsType, Removed, create_vnode_key
  <2> QED
    BY <1>1, <1>8, <1>11, <1>10, <2>1, FsTypeAfter
<1>13. FsInv'
  BY <1>1, <1>12, FsDrop
<1>14. NoFault' /\ (todo[c] # <<>> => Arg(c)[1] = "drop")
  BY <1>5, <1>11 DEF NoFault
<1> QED
  BY <1>6, <1>7, <1>9, <1>10, <1>11, <1>13, <1>14, TableDropped

\* vnode_cache_remove keeps the invariant.
LEMMA CacheRemoveKept ==
  ASSUME VfsInv, NEW c \in Clients, Idle(c), NEW f \in Filesystems, NEW id \in Nodeids,
         vnode_cache_remove(c, f, id)
  PROVE  VfsInv'
<1>1. TodoType /\ FsType /\ FsInv
  BY InvParts
<1>2. todo[c] = <<>> /\ fault = NULL
  BY DEF Idle
<1>3. PICK v \in Vnodes \cup {NULL} : v = LookedUp(f, id)
  BY <1>1 DEF FsType, LookedUp, create_vnode_key
<1>4. PICK l : l = Unrefs(v)
  OBVIOUS
<1>5. l \in Seq(Steps) /\ \A i \in 1 .. Len(l) : l[i] = <<"unref", v>>
  BY <1>4, UnrefsList
<1>6. Call(c, l) /\ vnode_table' = Removed(f, id)
  BY <1>3, <1>4 DEF vnode_cache_remove
<1>7. Became(c, l)
  BY <1>1, <1>2, <1>5, <1>6, CallBecame
<1>8. /\ UNCHANGED <<vn, held, lost, spin, namecache, vfs>> /\ UNCHANGED <<vfs, leftover, mount_table>>
      /\ fault' = fault
  BY DEF vnode_cache_remove
<1>9. FsInv'
  <2>1. vnode_table' \in [Filesystems \X Nodeids -> Vnodes \cup {NULL}]
    BY <1>1, <1>6 DEF FsType, Removed, create_vnode_key
  <2>2. \A g \in Filesystems : \A j \in Entries(g)' : j \in Entries(g)
    <3>1. Entries(f)' = Entries(f) \ {id} /\ \A g \in Filesystems \ {f} : Entries(g)' = Entries(g)
      BY <1>1, <1>6, RemovedEntries
    <3> QED
      BY <3>1
  <2>3. \A i \in 1 .. Len(l) : l[i][1] \notin FsSteps
    BY <1>5 DEF FsSteps
  <2>4. l \in Seq(Steps) /\ leftover' = leftover /\ UNCHANGED <<vfs, mount_table>>
    BY <1>5, <1>8
  <2> QED
    BY <1>2, <1>7, <2>1, <2>2, <2>3, <2>4, FsUsed
<1>10. NoFault' /\ (todo[c] # <<>> => Arg(c)[1] = "drop") /\ vnode_table' = Removed(f, id)
  BY <1>2, <1>6, <1>8 DEF NoFault
<1> QED
  BY <1>3, <1>4, <1>7, <1>8, <1>9, <1>10, TableDropped

-----------------------------------------------------------------------------
(* New vnodes.                                                              *)

\* A set of naturals that is not empty has a least element, which is its Min.
LEMMA LeastExists ==
  ASSUME NEW S \in SUBSET Nat, S # {}
  PROVE  Min(S) \in S
<1>1. PICK f \in S : \A g \in S : ~(<<g, f>> \in OpToRel(<, Nat))
  BY WFMin, NatLessThanWellFounded
<1>2. ASSUME NEW g \in S PROVE f <= g
  <2>1. ~(<<g, f>> \in { x \in Nat \X Nat : x[1] < x[2] })
    BY <1>1 DEF OpToRel
  <2>2. f \in Nat /\ g \in Nat
    OBVIOUS
  <2> QED
    BY <2>1, <2>2
<1> QED
  BY <1>2 DEF Min

\* NewNode turns a free vnode into one with two references.
LEMMA VnodeAlloc ==
  ASSUME VfsInv, NEW v, v \in Free, vn' = NewNode(v)
  PROVE  /\ v \in Vnodes /\ vn' \in [Vnodes -> VnodeType] /\ ParentsUnchanged /\ CountsUp
         /\ \A u \in Vnodes : MoreCount(u, 2 * Bit(u = v))
<1>1. v \in Vnodes /\ ~vn[v].alloc
  BY DEF Free
<1>2. vn \in [Vnodes -> VnodeType] /\ vn[v] = Blank
  BY <1>1, InvParts DEF RefType, VnodesSound
<1>3. PICK a, b : a = [Blank EXCEPT !.alloc = TRUE, !.count = 1] /\ b = [a EXCEPT !.count = 2]
  OBVIOUS
<1>4. /\ b \in VnodeType /\ b.alloc /\ b.count = 2 /\ ~b.freeing /\ b.parent = NULL
  <2>1. b = [alloc |-> TRUE, count |-> 2, freeing |-> FALSE, parent |-> NULL]
    BY <1>3 DEF Blank
  <2>2. b.alloc /\ b.count = 2 /\ ~b.freeing /\ b.parent = NULL
    BY <2>1
  <2>3. b \in VnodeType
    BY <2>1 DEF VnodeType
  <2> QED
    BY <2>2, <2>3
<1>5. vn[v].count = 0 /\ ~vn[v].freeing /\ vn[v].parent = NULL
  BY <1>2 DEF Blank
<1>6. vn' = [vn EXCEPT ![v] = b]
  <2>1. PICK w : w = [vn EXCEPT ![v] = a]
    OBVIOUS
  <2>2. vn' = [w EXCEPT ![v].count = @ + 1]
    BY <1>3, <2>1 DEF NewNode, vnode_alloc, vnode_ref
  <2>3. DOMAIN w = Vnodes /\ w[v] = a /\ \A u \in Vnodes \ {v} : w[u] = vn[u]
    BY <1>1, <1>2, <2>1
  <2>4. a.count + 1 = 2
    <3>1. a = [alloc |-> TRUE, count |-> 1, freeing |-> FALSE, parent |-> NULL]
      BY <1>3 DEF Blank
    <3> QED
      BY <3>1
  <2>5. vn' = [w EXCEPT ![v] = b]
    BY <1>3, <2>2, <2>3, <2>4
  <2>6. vn' = [u \in Vnodes |-> IF u = v THEN b ELSE vn[u]]
    BY <2>3, <2>5
  <2> QED
    BY <1>1, <1>2, <2>6
<1>7. vn'[v] = b /\ \A u \in Vnodes \ {v} : vn'[u] = vn[u]
  BY <1>1, <1>2, <1>6
<1>8. vn' \in [Vnodes -> VnodeType]
  BY <1>2, <1>4, <1>6
<1>9. ParentsUnchanged
  <2>1. b.freeing = vn[v].freeing
    BY <1>4, <1>5, <1>1, CountType DEF VnodeType
  <2> QED
    BY <1>4, <1>5, <1>7, <2>1 DEF ParentsUnchanged
<1>10. CountsUp
  BY <1>1, <1>4, <1>7 DEF CountsUp
<1>11. ASSUME NEW u \in Vnodes PROVE MoreCount(u, 2 * Bit(u = v))
  <2>1. CASE u = v
    <3>1. vn'[u].count = 2 /\ vn[u].count = 0 /\ 2 * Bit(u = v) = 2
      BY <1>4, <1>5, <1>7, <2>1 DEF Bit
    <3> QED
      BY <3>1 DEF MoreCount
  <2>2. CASE u # v
    <3>1. vn'[u].count = vn[u].count /\ vn[u].count \in Int /\ 2 * Bit(u = v) = 0
      BY <1>7, <2>2, CountType DEF Bit
    <3> QED
      BY <3>1 DEF MoreCount
  <2> QED
    BY <2>1, <2>2
<1> QED
  BY <1>1, <1>8, <1>9, <1>10, <1>11

\* A filesystem allocates a vnode; its two references go with the next step.
LEMMA NewVnode ==
  ASSUME VfsInv, NEW c \in Clients, NEW v, v \in Free, vn' = NewNode(v),
         NEW s \in Steps, s[1] \in {"recheck", "insert"}, s[4] = v,
         NEW l \in Seq(Steps), Became(c, l), Len(l) = 1, l[1] = s,
         todo[c] # <<>> => Arg(c)[1] = "vget",
         UNCHANGED <<tables, held, lost, spin>>, NoFault'
  PROVE  VfsInv'
<1>1. TodoType /\ FsType /\ RefType
  BY InvParts
<1>2. /\ v \in Vnodes /\ vn' \in [Vnodes -> VnodeType] /\ ParentsUnchanged /\ CountsUp
      /\ \A u \in Vnodes : MoreCount(u, 2 * Bit(u = v))
  BY VnodeAlloc
<1>3. /\ UNCHANGED <<vfs, leftover, mount_table>> /\ UNCHANGED <<namecache, vfs>> /\ spin' = spin
      /\ UNCHANGED vnode_table /\ UNCHANGED held /\ UNCHANGED lost
  BY DEF tables
<1>4. \A i \in 1 .. Len(l) : l[i] = s
  OBVIOUS
<1>5. FsInv'
  <2>1. \A i \in 1 .. Len(l) : l[i][1] \notin FsSteps
    BY <1>4 DEF FsSteps
  <2>2. todo[c] # <<>> => Arg(c)[1] \notin FsSteps
    BY DEF FsSteps
  <2>3. FsInv /\ UNCHANGED <<vfs, leftover, mount_table, vnode_table>>
    BY <1>3, InvParts
  <2> QED
    BY <2>1, <2>2, <2>3, FsNothing
<1>6. RefType'
  BY <1>1, <1>2, <1>3 DEF RefType
<1>7. \A i \in 1 .. Len(l) : l[i][1] \notin TrackedSteps \cup {"mount", "release"}
  BY <1>4 DEF TrackedSteps
<1>8. todo[c] # <<>> => Arg(c)[1] \notin {"remove", "parent", "mount", "release"}
  OBVIOUS
<1>9. ASSUME NEW u \in Vnodes
      PROVE  \E dh, ds, dt, dl, dc :
            /\ MoreHeld(u, dh) /\ MoreSteps(c, l, u, ds) /\ MoreTable(u, dt) /\ MoreLost(u, dl)
            /\ MoreCount(u, dc) /\ dc = dh + ds + dt + dl
  <2>1. MoreHeld(u, 0) /\ MoreTable(u, 0) /\ MoreLost(u, 0)
    BY <1>3, NoMoreHeld, NoMoreTable, NoMoreLost
  <2>2. HeadCarried(c, u) = 0
    BY <1>1, HeadCarries, IdleCarries
  <2>3. PICK k \in Nat : k = 2 * Bit(u = v)
    BY DEF Bit
  <2>4. Carried(l[1], u) = k
    <3>1. Carried(s, u) = 2 * Bit(s[4] = u)
      BY CarriedIs
    <3>2. Bit(s[4] = u) = Bit(u = v)
      BY DEF Bit
    <3> QED
      BY <2>3, <3>1, <3>2
  <2>5. MoreSteps(c, l, u, k - 0)
    BY <2>2, <2>4, OneNewStep
  <2>6. MoreCount(u, k) /\ k = 0 + (k - 0) + 0 + 0
    BY <1>2, <2>3
  <2> QED
    BY <2>1, <2>5, <2>6
<1>10. HeldKept(c)
  BY <1>3, HeldSame
<1> QED
  BY <1>2, <1>3, <1>5, <1>6, <1>7, <1>8, <1>9, <1>10, PlainStep

\* create keeps the invariant.
LEMMA CreateKept ==
  ASSUME VfsInv, NEW c \in Clients, Idle(c), NEW f \in Filesystems, NEW id \in Nodeids, create(c, f, id)
  PROVE  VfsInv'
<1>1. TodoType
  BY InvParts
<1>2. todo[c] = <<>> /\ fault = NULL
  BY DEF Idle
<1>3. PICK v : v = Min(Free)
  OBVIOUS
<1>4. v \in Free /\ v \in Vnodes
  <2>1. Free \in SUBSET Nat /\ Free # {} /\ Free \subseteq Vnodes
    BY VnodesAssumption DEF Free, create
  <2> QED
    BY <1>3, <2>1, LeastExists
<1>5. PICK s \in Steps : s = <<"insert", f, id, v>>
  BY <1>4, StepsMade
<1>6. s[1] \in {"recheck", "insert"} /\ s[2] = f /\ s[4] = v
  BY <1>5
<1>7. Call(c, <<s>>) /\ vn' = NewNode(v)
  BY <1>3, <1>5 DEF create
<1>8. PICK l \in Seq(Steps) : Became(c, l) /\ Len(l) = 1 /\ l[1] = s
  BY <1>1, <1>2, <1>7, CallOne
<1>9. /\ UNCHANGED <<tables, held, lost, spin>> /\ NoFault' /\ (todo[c] # <<>> => Arg(c)[1] = "vget")
  BY <1>2 DEF create, NoFault
<1>10. vn' = NewNode(v)
  BY <1>7
<1> QED
  BY <1>4, <1>6, <1>8, <1>9, <1>10, NewVnode

\* Vget keeps the invariant.
LEMMA VgetKept ==
  ASSUME VfsInv, NEW c \in Clients, Vget(c)
  PROVE  VfsInv'
<1>1. TodoType /\ FsType
  BY InvParts
<1>2. At(c, "vget")
  BY DEF Vget
<1>3. PICK f \in Filesystems : f = Arg(c)[2]
  BY <1>1, <1>2, AtHead DEF StepFields, FsSteps
<1>4. PICK id \in Nodeids : id = Arg(c)[3]
  BY <1>1, <1>2, AtHead DEF StepFields
<1>5. todo[c] # <<>> /\ Arg(c)[1] = "vget" /\ fault = NULL
  BY <1>1, <1>2, AtHead DEF At
<1>7. UNCHANGED <<tables, held, lost, spin>> /\ NoFault'
  BY DEF Vget, NoFault, UnmountFaults
<1>8. CASE Then(c, <<>>) /\ UNCHANGED vn
  <2>1. PICK l \in Seq(Steps) : Became(c, l) /\ \A i \in 1 .. Len(l) : FALSE
    BY <1>1, <1>5, <1>8, ThenNone
  <2>2. /\ \A i \in 1 .. Len(l) : l[i][1] \in {"vget", "rootref", "rootof"}
        /\ todo[c] # <<>> => Arg(c)[1] \in {"vget", "rootref", "rootof"}
        /\ UNCHANGED <<vn, tables, held, lost, spin>>
    BY <1>5, <1>7, <1>8, <2>1
  <2> QED
    BY <1>7, <2>1, <2>2, LookKept
<1>9. CASE Free # {} /\ vn' = NewNode(Min(Free)) /\ Then(c, << <<"recheck", f, id, Min(Free)>> >>)
  <2>1. PICK v : v = Min(Free)
    OBVIOUS
  <2>2. v \in Free /\ v \in Vnodes
    <3>1. Free \in SUBSET Nat /\ Free # {} /\ Free \subseteq Vnodes
      BY <1>9, VnodesAssumption DEF Free
    <3> QED
      BY <2>1, <3>1, LeastExists
  <2>3. PICK s \in Steps : s = <<"recheck", f, id, v>>
    BY <2>2, StepsMade
  <2>4. s[1] \in {"recheck", "insert"} /\ s[2] = f /\ s[4] = v
    BY <2>3
  <2>5. Then(c, <<s>>) /\ vn' = NewNode(v)
    BY <1>9, <2>1, <2>3
  <2>6. PICK l \in Seq(Steps) : Became(c, l) /\ Len(l) = 1 /\ l[1] = s
    BY <1>1, <1>5, <2>5, ThenOne
  <2>7. vn' = NewNode(v) /\ (todo[c] # <<>> => Arg(c)[1] = "vget")
    BY <1>5, <2>5
  <2> QED
    BY <1>7, <2>2, <2>4, <2>6, <2>7, NewVnode
<1> QED
  BY <1>3, <1>4, <1>8, <1>9 DEF Vget

\* The client that was about to enter v for node id of f gets one of v's two
\* references; the table gets the other one, or it is lost.
LEMMA VnodeGiven ==
  ASSUME VfsInv, NEW c \in Clients, NEW op \in {"recheck", "insert"}, At(c, op),
         NEW f \in Filesystems, f = Arg(c)[2], NEW id \in Nodeids, NEW v \in Vnodes, v = Arg(c)[4],
         LookedUp(f, id) = NULL, Gives(c, v), Then(c, <<>>),
         \/ vnode_table' = Inserted(f, id, v) /\ Noted(f) /\ UNCHANGED lost
         \/ lost' = [lost EXCEPT ![v] = @ + 1] /\ UNCHANGED <<vnode_table, leftover>>,
         UNCHANGED <<vn, mount_table, namecache, vfs, spin, fault>>
  PROVE  VfsInv'
<1>1. TodoType /\ FsType /\ RefType
  BY InvParts
<1>2. todo[c] # <<>> /\ Arg(c)[1] = op /\ fault = NULL
  BY <1>1, AtHead DEF At
<1>4. PICK l \in Seq(Steps) : Became(c, l) /\ Len(l) = 0 /\ \A i \in 1 .. Len(l) : FALSE
  BY <1>1, <1>2, ThenNone
<1>5. Became(c, l)
  BY <1>4
<1>6. PICK k \in Filesystems \X Nodeids : k = <<f, id>>
  OBVIOUS
<1>7. vnode_table[k] = NULL /\ (vnode_table' = Inserted(f, id, v) => SetEntry(k, v))
  BY <1>6 DEF LookedUp, create_vnode_key, Inserted, SetEntry
<1>8. vnode_table' \in [Filesystems \X Nodeids -> Vnodes \cup {NULL}]
  BY <1>1, <1>7 DEF FsType, SetEntry
<1>9. \A g \in Filesystems \ {f} : Entries(g)' = Entries(g)
  <2>1. \A g \in Filesystems \ {f}, i \in Nodeids : vnode_table'[<<g, i>>] = vnode_table[<<g, i>>]
    BY <1>1, <1>6, <1>7 DEF FsType, SetEntry
  <2> QED
    BY <2>1 DEF Entries, LookedUp, create_vnode_key
<1>10. FsInv'
  <2>1. \A i \in 1 .. Len(l) : l[i][1] \notin FsSteps
    BY <1>4
  <2>2. todo[c] # <<>> => Arg(c)[1] \notin FsSteps
    BY <1>2 DEF FsSteps
  <2>3. UNCHANGED <<vfs, mount_table>> /\ \A g \in Filesystems : g \in leftover => g \in leftover'
    BY DEF Noted
  <2>4. ASSUME NEW g \in Filesystems, NEW j \in Entries(g)'
        PROVE  j \in Entries(g) \/ ~Late(g) \/ g \in leftover'
    <3>1. CASE g # f
      BY <1>9, <2>4, <3>1
    <3>2. CASE UNCHANGED vnode_table
      BY <2>4, <3>2, EntriesKept
    <3>3. CASE g = f /\ Noted(f)
      BY <3>3 DEF Noted
    <3> QED
      BY <3>1, <3>2, <3>3
  <2> QED
    BY <1>5, <1>8, <2>1, <2>2, <2>3, <2>4, FsUsed
<1>11. held' \in [Clients -> [Vnodes -> Nat]] /\ HeldKept(c)
  BY <1>1, GivesType
<1>12. lost' \in [Vnodes -> Nat]
  BY <1>1, LostType DEF RefType
<1>13. RefType' /\ ParentsUnchanged /\ CountsUp
  BY <1>1, <1>11, <1>12, SameCounts DEF RefType
<1>14. \A i \in 1 .. Len(l) : l[i][1] \notin TrackedSteps \cup {"mount", "release"}
  BY <1>4
<1>15. todo[c] # <<>> => Arg(c)[1] \notin {"remove", "parent", "mount", "release"}
  BY <1>2
<1>16. ASSUME NEW u \in Vnodes
      PROVE  \E dh, ds, dt, dl, dc :
            /\ MoreHeld(u, dh) /\ MoreSteps(c, l, u, ds) /\ MoreTable(u, dt) /\ MoreLost(u, dl)
            /\ MoreCount(u, dc) /\ dc = dh + ds + dt + dl
  <2>1. PICK b \in {0, 1} : b = Bit(u = v)
    BY DEF Bit
  <2>2. MoreHeld(u, b)
    BY <2>1, OneMoreHeld
  <2>3. MoreCount(u, 0)
    BY NoMoreCount
  <2>4. MoreSteps(c, l, u, - (2 * b))
    <3>1. HeadCarried(c, u) = 2 * Bit(Arg(c)[4] = u)
      BY <1>1, <1>2, HeadCarries
    <3>2. Bit(Arg(c)[4] = u) = Bit(u = v)
      BY DEF Bit
    <3>3. PICK n \in Nat : n = 2 * b
      OBVIOUS
    <3>4. HeadCarried(c, u) = n /\ Len(l) = 0
      BY <1>4, <2>1, <3>1, <3>2, <3>3
    <3>5. MoreSteps(c, l, u, - n)
      BY <3>4, NoNewSteps
    <3> QED
      BY <3>3, <3>5
  <2>5. CASE vnode_table' = Inserted(f, id, v) /\ UNCHANGED lost
    <3>1. MoreTable(u, b)
      <4>1. /\ Cardinality(TableRefs(u)) \in Nat
            /\ Cardinality(TableRefs(u)') = Cardinality(TableRefs(u)) - Bit(vnode_table[k] = u) + Bit(v = u)
        BY <1>1, <1>7, <2>5, TableDelta
      <4>2. Bit(vnode_table[k] = u) = 0 /\ Bit(v = u) = b
        BY <1>7, <2>1, NullAssumption, VnodesAssumption DEF Bit
      <4>3. Cardinality(TableRefs(u)') = Cardinality(TableRefs(u)) + b
        BY <4>1, <4>2
      <4> QED
        BY <4>3 DEF MoreTable
    <3>2. MoreLost(u, 0)
      BY <2>5, NoMoreLost
    <3>3. 0 = b + (- (2 * b)) + b + 0
      OBVIOUS
    <3> QED
      BY <2>2, <2>3, <2>4, <3>1, <3>2, <3>3
  <2>6. CASE lost' = [lost EXCEPT ![v] = @ + 1] /\ UNCHANGED vnode_table
    <3>1. MoreLost(u, b) /\ MoreTable(u, 0)
      BY <2>1, <2>6, OneMoreLost, NoMoreTable
    <3>2. 0 = b + (- (2 * b)) + 0 + b
      OBVIOUS
    <3> QED
      BY <2>2, <2>3, <2>4, <3>1, <3>2
  <2> QED
    BY <2>5, <2>6
<1>17. NoFault' /\ spin' = spin /\ UNCHANGED <<namecache, vfs>>
  BY <1>2 DEF NoFault
<1> QED
  BY <1>5, <1>10, <1>11, <1>13, <1>14, <1>15, <1>16, <1>17, PlainStep

\* The loser of the race gets a reference to the vnode it found; it drops one of
\* the two to its own, and loses the other.
LEMMA RaceLost ==
  ASSUME VfsInv, NEW c \in Clients, At(c, "recheck"),
         NEW f \in Filesystems, f = Arg(c)[2], NEW id \in Nodeids, NEW v \in Vnodes, v = Arg(c)[4],
         NEW w \in Vnodes, w = LookedUp(f, id), vn' = vnode_ref(vn, w), Gives(c, w),
         lost' = [lost EXCEPT ![v] = @ + 1], Then(c, Unrefs(v)), Touch(w),
         UNCHANGED <<vnode_table, mount_table, namecache, vfs, leftover, spin>>
  PROVE  VfsInv'
<1>1. TodoType /\ FsType /\ RefType
  BY InvParts
<1>2. todo[c] # <<>> /\ Arg(c)[1] = "recheck" /\ fault = NULL
  BY <1>1, AtHead DEF At
<1>4. PICK l : l = Unrefs(v)
  OBVIOUS
<1>5. l \in Seq(Steps) /\ \A i \in 1 .. Len(l) : l[i] = <<"unref", v>>
  BY <1>4, UnrefsList
<1>6. l \in Seq(Steps) /\ Then(c, l)
  BY <1>4, <1>5
<1>7. Became(c, l)
  BY <1>1, <1>2, <1>6, ThenBecame
<1>8. vn[w].count > 0 /\ vn[w].alloc /\ ~vn[w].freeing
  <2>1. vnode_table[<<f, id>>] = w /\ <<f, id>> \in Filesystems \X Nodeids
    BY DEF LookedUp, create_vnode_key
  <2> QED
    BY <2>1, Positive
<1>9. FsInv'
  <2>1. \A i \in 1 .. Len(l) : l[i][1] \notin FsSteps
    BY <1>5 DEF FsSteps
  <2>2. todo[c] # <<>> => Arg(c)[1] \notin FsSteps
    BY <1>2 DEF FsSteps
  <2>3. FsInv /\ UNCHANGED <<vfs, leftover, mount_table, vnode_table>>
    BY InvParts
  <2> QED
    BY <1>6, <1>7, <2>1, <2>2, <2>3, FsNothing
<1>10. vn' \in [Vnodes -> VnodeType] /\ ParentsUnchanged /\ CountsUp
  BY <1>1, <1>8, VnodeRef DEF RefType
<1>11. held' \in [Clients -> [Vnodes -> Nat]] /\ HeldKept(c)
  BY <1>1, GivesType
<1>12. lost' \in [Vnodes -> Nat]
  BY <1>1, LostType
<1>13. RefType'
  BY <1>1, <1>10, <1>11, <1>12 DEF RefType
<1>14. \A i \in 1 .. Len(l) : l[i][1] \notin TrackedSteps \cup {"mount", "release"}
  BY <1>5 DEF TrackedSteps
<1>15. todo[c] # <<>> => Arg(c)[1] \notin {"remove", "parent", "mount", "release"}
  BY <1>2
<1>16. ASSUME NEW u \in Vnodes
      PROVE  \E dh, ds, dt, dl, dc :
            /\ MoreHeld(u, dh) /\ MoreSteps(c, l, u, ds) /\ MoreTable(u, dt) /\ MoreLost(u, dl)
            /\ MoreCount(u, dc) /\ dc = dh + ds + dt + dl
  <2>1. PICK b \in {0, 1} : b = Bit(u = v)
    BY DEF Bit
  <2>2. PICK a \in {0, 1} : a = Bit(u = w)
    BY DEF Bit
  <2>3. MoreHeld(u, a) /\ MoreCount(u, a) /\ MoreLost(u, b) /\ MoreTable(u, 0)
    BY <1>8, <2>1, <2>2, OneMoreHeld, OneMoreCount, OneMoreLost, NoMoreTable
  <2>4. MoreSteps(c, l, u, b - (2 * b))
    <3>1. HeadCarried(c, u) = 2 * Bit(Arg(c)[4] = u)
      BY <1>1, <1>2, HeadCarries
    <3>2. Bit(Arg(c)[4] = u) = Bit(u = v)
      BY DEF Bit
    <3>3. PICK n \in Nat : n = 2 * b
      OBVIOUS
    <3>4. HeadCarried(c, u) = n
      BY <2>1, <3>1, <3>2, <3>3
    <3>5. MoreSteps(c, l, u, Bit(u = v) - n)
      BY <1>4, <3>4, UnrefSteps
    <3> QED
      BY <2>1, <3>3, <3>5
  <2>5. a = a + (b - (2 * b)) + 0 + b
    OBVIOUS
  <2> QED
    BY <2>3, <2>4, <2>5
<1>17. NoFault' /\ spin' = spin /\ UNCHANGED <<namecache, vfs>>
  BY <1>8 DEF NoFault, Touch, UseOf
<1> QED
  BY <1>6, <1>7, <1>9, <1>10, <1>11, <1>13, <1>14, <1>15, <1>16, <1>17, PlainStep

\* Recheck keeps the invariant.
LEMMA RecheckKept ==
  ASSUME VfsInv, NEW c \in Clients, Recheck(c)
  PROVE  VfsInv'
<1>1. TodoType /\ FsType
  BY InvParts
<1>2. At(c, "recheck")
  BY DEF Recheck
<1>3. PICK f \in Filesystems : f = Arg(c)[2]
  BY <1>1, <1>2, AtHead DEF StepFields, FsSteps
<1>4. PICK id \in Nodeids : id = Arg(c)[3]
  BY <1>1, <1>2, AtHead DEF StepFields
<1>5. PICK v \in Vnodes : v = Arg(c)[4]
  BY <1>1, <1>2, AtHead DEF StepFields
<1>6. LookedUp(f, id) \in Vnodes \cup {NULL}
  BY <1>1 DEF FsType, LookedUp, create_vnode_key
<1>7. CASE LookedUp(f, id) # NULL
  <2>1. PICK w \in Vnodes : w = LookedUp(f, id)
    BY <1>6, <1>7
  <2>2. /\ vn' = vnode_ref(vn, w) /\ Gives(c, w) /\ lost' = [lost EXCEPT ![v] = @ + 1]
        /\ Then(c, Unrefs(v)) /\ Touch(w) /\ UNCHANGED <<vnode_table, mount_table, namecache, vfs, leftover, spin>>
    BY <1>3, <1>4, <1>5, <1>7, <2>1 DEF Recheck
  <2> QED
    BY <1>2, <1>3, <1>5, <2>1, <2>2, RaceLost
<1>8. CASE LookedUp(f, id) = NULL
  <2>1. /\ \/ vnode_table' = Inserted(f, id, v) /\ Noted(f) /\ UNCHANGED lost
           \/ lost' = [lost EXCEPT ![v] = @ + 1] /\ UNCHANGED <<vnode_table, leftover>>
        /\ Gives(c, v) /\ Then(c, <<>>)
        /\ UNCHANGED <<vn, mount_table, namecache, vfs, spin, fault>>
    BY <1>3, <1>4, <1>5, <1>8 DEF Recheck
  <2> QED
    BY <1>2, <1>3, <1>5, <1>8, <2>1, VnodeGiven
<1> QED
  BY <1>7, <1>8

\* vnode_cache_insert failed: both references are dropped.
LEMMA InsertFailed ==
  ASSUME VfsInv, NEW c \in Clients, At(c, "insert"),
         NEW f \in Filesystems, f = Arg(c)[2], NEW v \in Vnodes, v = Arg(c)[4],
         Then(c, Unrefs(v) \o Unrefs(v)), 
         UNCHANGED <<vn, vnode_table, mount_table, namecache, vfs, leftover, held, lost, spin, fault>>
  PROVE  VfsInv'
<1>1. TodoType /\ FsType /\ RefType
  BY InvParts
<1>2. todo[c] # <<>> /\ Arg(c)[1] = "insert" /\ fault = NULL
  BY <1>1, AtHead DEF At
<1>4. PICK s \in Steps : s = <<"unref", v>>
  BY StepsMade
<1>5. PICK l \in Seq(Steps) : l = Unrefs(v) \o Unrefs(v) /\ Len(l) = 2 /\ l[1] = s /\ l[2] = s
  <2>1. PICK m : m = Unrefs(v)
    OBVIOUS
  <2>2. m \in Seq(Steps) /\ Len(m) = 1 /\ m[1] = s
    BY <1>4, <2>1, UnrefsList, NullAssumption, VnodesAssumption
  <2>3. /\ m \o m \in Seq(Steps) /\ Len(m \o m) = 2 /\ (m \o m)[1] = s /\ (m \o m)[1 + 1] = s
    BY <2>2, ConcatOne
  <2>4. PICK k : k = m \o m
    OBVIOUS
  <2>5. k \in Seq(Steps) /\ Len(k) = 2 /\ k[1] = s /\ k[1 + 1] = s
    BY <2>3, <2>4
  <2>6. k = Unrefs(v) \o Unrefs(v)
    BY <2>1, <2>4
  <2>7. k[2] = s
    BY <2>5
  <2> QED
    BY <2>5, <2>6, <2>7
<1>6. Then(c, l)
  BY <1>5
<1>7. Became(c, l)
  BY <1>1, <1>2, <1>6, ThenBecame
<1>8. \A i \in 1 .. Len(l) : l[i] = s /\ l[i][1] = "unref"
  BY <1>4, <1>5
<1>9. /\ RefType' /\ ParentsUnchanged /\ CountsUp /\ HeldKept(c)
      /\ \A u \in Vnodes : MoreHeld(u, 0) /\ MoreLost(u, 0) /\ MoreCount(u, 0)
  BY SameRefs
<1>10. FsInv'
  <2>1. \A i \in 1 .. Len(l) : l[i][1] \notin FsSteps
    BY <1>8 DEF FsSteps
  <2>2. todo[c] # <<>> => Arg(c)[1] \notin FsSteps
    BY <1>2 DEF FsSteps
  <2>3. FsInv /\ UNCHANGED <<vfs, leftover, mount_table, vnode_table>>
    BY InvParts
  <2> QED
    BY <1>7, <2>1, <2>2, <2>3, FsNothing
<1>11. \A i \in 1 .. Len(l) : l[i][1] \notin TrackedSteps \cup {"mount", "release"}
  BY <1>8 DEF TrackedSteps
<1>12. todo[c] # <<>> => Arg(c)[1] \notin {"remove", "parent", "mount", "release"}
  BY <1>2
<1>13. ASSUME NEW u \in Vnodes
      PROVE  \E dh, ds, dt, dl, dc :
            /\ MoreHeld(u, dh) /\ MoreSteps(c, l, u, ds) /\ MoreTable(u, dt) /\ MoreLost(u, dl)
            /\ MoreCount(u, dc) /\ dc = dh + ds + dt + dl
  <2>1. PICK b \in {0, 1} : b = Bit(u = v)
    BY DEF Bit
  <2>2. MoreTable(u, 0)
    BY NoMoreTable
  <2>3. HeadCarried(c, u) = 2 * b
    <3>1. HeadCarried(c, u) = 2 * Bit(Arg(c)[4] = u)
      BY <1>1, <1>2, HeadCarries
    <3>2. Bit(Arg(c)[4] = u) = Bit(u = v)
      BY DEF Bit
    <3> QED
      BY <2>1, <3>1, <3>2
  <2>4. Carried(s, u) = b
    <3>1. s[1] = "unref" /\ s[2] = v
      BY <1>4
    <3>2. Carried(s, u) = Bit(v = u)
      BY <3>1, CarriedIs
    <3> QED
      BY <2>1, <3>2 DEF Bit
  <2>5. CarriedAt(l, 1, u) = b /\ CarriedAt(l, 2, u) = b
    BY <1>5, <2>4 DEF CarriedAt
  <2>6. MoreSteps(c, l, u, 0)
    <3>1. \A i \in 1 .. Len(l) : i > 2 => Carried(l[i], u) = 0
      BY <1>5
    <3>2. 0 = b + b - 2 * b
      OBVIOUS
    <3> QED
      BY <2>3, <2>5, <3>1, <3>2 DEF MoreSteps
  <2>7. 0 = 0 + 0 + 0 + 0
    OBVIOUS
  <2> QED
    BY <1>9, <2>2, <2>6, <2>7
<1>14. NoFault' /\ spin' = spin /\ UNCHANGED <<namecache, vfs>>
  BY <1>2 DEF NoFault
<1> QED
  BY <1>7, <1>9, <1>10, <1>11, <1>12, <1>13, <1>14, PlainStep

\* vnode_cache_insert keeps the invariant.
LEMMA InsertKept ==
  ASSUME VfsInv, NEW c \in Clients, vnode_cache_insert(c)
  PROVE  VfsInv'
<1>1. TodoType /\ FsType
  BY InvParts
<1>2. At(c, "insert")
  BY DEF vnode_cache_insert
<1>3. PICK f \in Filesystems : f = Arg(c)[2]
  BY <1>1, <1>2, AtHead DEF StepFields, FsSteps
<1>4. PICK id \in Nodeids : id = Arg(c)[3]
  BY <1>1, <1>2, AtHead DEF StepFields
<1>5. PICK v \in Vnodes : v = Arg(c)[4]
  BY <1>1, <1>2, AtHead DEF StepFields
<1>6. UNCHANGED <<vn, mount_table, namecache, vfs, lost, spin, fault>>
  BY DEF vnode_cache_insert
<1>7. CASE LookedUp(f, id) = NULL /\ vnode_table' = Inserted(f, id, v) /\ Noted(f) /\ Gives(c, v) /\ Then(c, <<>>)
  <2>1. /\ LookedUp(f, id) = NULL /\ vnode_table' = Inserted(f, id, v) /\ Noted(f) /\ UNCHANGED lost
        /\ Gives(c, v) /\ Then(c, <<>>) /\ UNCHANGED <<vn, mount_table, namecache, vfs, spin, fault>>
    BY <1>6, <1>7
  <2> QED
    BY <1>2, <1>3, <1>5, <2>1, VnodeGiven
<1>8. CASE Then(c, Unrefs(v) \o Unrefs(v)) /\ UNCHANGED <<vnode_table, leftover, held>>
  <2>1. /\ Then(c, Unrefs(v) \o Unrefs(v))
        /\ UNCHANGED <<vn, vnode_table, mount_table, namecache, vfs, leftover, held, lost, spin, fault>>
    BY <1>6, <1>8
  <2> QED
    BY <1>2, <1>3, <1>5, <2>1, InsertFailed
<1> QED
  BY <1>3, <1>4, <1>5, <1>7, <1>8 DEF vnode_cache_insert

-----------------------------------------------------------------------------
(* Mounts and the vnodes they cover.                                        *)

\* Nobody removes names: the lock is free, or its holder has nothing to remove.
LEMMA NamesClear ==
  ASSUME \A d \in Clients : \A p \in Slots(d)' : Planned(d, p)'[1] \notin {"remove", "uncache"}
  PROVE  NamesLocked'
BY DEF NamesLocked

\* While the lock is free nobody removes names.
LEMMA NothingRemoved ==
  ASSUME VfsInv, spin = NULL
  PROVE  \A d \in Clients : \A p \in Slots(d) : Planned(d, p)[1] \notin {"remove", "uncache"}
BY InvParts, NullAssumption DEF NamesLocked

\* A step with locked sections of its own keeps the rest of StepsSound.
LEMMA SoundButNames ==
  ASSUME VfsInv, NEW c \in Clients, NEW l \in Seq(Steps), Became(c, l),
         \A i \in 1 .. Len(l) : l[i][1] \notin {"last", "slab", "parent", "enter"},
         CountsUp, HeldKept(c), NamesLocked'
  PROVE  StepsSound'
<1>1. TodoType /\ VnodesSound /\ FreedOnce /\ ParentsHeld /\ EnterAlone
  BY InvParts
<1>2. FreedOnce'
  <2>1. \A i \in 1 .. Len(l) : l[i][1] \notin {"last", "slab"}
    OBVIOUS
  <2> QED
    BY <1>1, <2>1, LastKept
<1>3. ParentsHeld'
  <2>1. \A i \in 1 .. Len(l) : l[i][1] # "parent"
    OBVIOUS
  <2> QED
    BY <1>1, <2>1, ParentsKept
<1>4. EnterAlone'
  <2>1. \A i \in 1 .. Len(l) : l[i][1] # "enter"
    OBVIOUS
  <2> QED
    BY <1>1, <2>1, EnterKept
<1> QED
  BY <1>1, <1>2, <1>3, <1>4, VnodesKept DEF StepsSound

\* A step that only changes mounts, and counts with them.
LEMMA MountStep ==
  ASSUME VfsInv, NEW c \in Clients, NEW l \in Seq(Steps), Became(c, l),
         \A i \in 1 .. Len(l) : l[i][1] \notin {"remove", "parent"},
         todo[c] # <<>> => Arg(c)[1] \notin {"remove", "parent"},
         FsInv', RefType', StepsSound', NoFault',
         UNCHANGED <<namecache, vnode_table, held, lost>>, ParentsUnchanged,
         \A u \in Vnodes : \E ds, dm, dc :
            MoreSteps(c, l, u, ds) /\ MoreMounts(u, dm) /\ MoreCount(u, dc) /\ dc = ds + dm
  PROVE  VfsInv'
<1>1. TodoType
  BY InvParts
<1>2. ASSUME NEW u \in Vnodes PROVE Balanced(u)'
  <2>1. PICK ds, dm, dc : MoreSteps(c, l, u, ds) /\ MoreMounts(u, dm) /\ MoreCount(u, dc) /\ dc = ds + dm
    OBVIOUS
  <2>2. UNCHANGED namecache /\ UNCHANGED vnode_table /\ UNCHANGED held /\ UNCHANGED lost
    OBVIOUS
  <2>3. NoStep(c, l, "remove") /\ NoStep(c, l, "parent")
    BY DEF NoStep
  <2>4. MoreHeld(u, 0) /\ MoreTable(u, 0) /\ MoreLost(u, 0)
    BY <2>2, NoMoreHeld, NoMoreTable, NoMoreLost
  <2>5. MoreNames(u, 0) /\ MoreParents(u, 0)
    BY <1>1, <2>2, <2>3, NoMoreNames, NoMoreParents
  <2>6. ds \in Int /\ dm \in Int /\ dc \in Int
    BY <2>1 DEF MoreSteps, MoreMounts, MoreCount
  <2>7. dc = 0 + ds + 0 + 0 + 0 + dm + 0
    BY <2>1, <2>6
  <2>8. MoreSteps(c, l, u, ds) /\ MoreMounts(u, dm) /\ MoreCount(u, dc)
    BY <2>1
  <2> QED
    BY <2>4, <2>5, <2>7, <2>8, Books
<1> QED
  BY <1>2, Conclude

\* The mounts of filesystems other than f are the same.
LEMMA MountDelta ==
  ASSUME TodoType, NEW c \in Clients, NEW l \in Seq(Steps), Became(c, l), NEW f \in Filesystems,
         \A i \in 1 .. Len(l) : l[i][1] \in {"mount", "release"} => l[i][2] = f,
         todo[c] # <<>> => (Arg(c)[1] \in {"mount", "release"} => Arg(c)[2] = f),
         \A g \in Filesystems \ {f} : vfs'[g] = vfs[g], NEW u \in Vnodes,
         NEW a \in {0, 1}, f \in MountRefs(u) <=> a = 1, NEW b \in {0, 1}, f \in MountRefs(u)' <=> b = 1
  PROVE  MoreMounts(u, b - a)
<1>1. TodoType'
  BY ItemsAfter
<1>2. ASSUME NEW g \in Filesystems \ {f}, NEW op \in {"mount", "release"}
      PROVE  Doing(op, g)' <=> Doing(op, g)
  <2>1. \A d \in Clients : \A p : Is(d, p, op, g)' => Is(d, p, op, g)
    BY IsAfter
  <2>2. \A d \in Clients : \A p : Is(d, p, op, g) => Is(d, p, op, g)'
    BY IsKept
  <2> QED
    BY <1>1, <2>1, <2>2, DoingIs, DoingIsAfter DEF Is
<1>3. PICK S : S = MountRefs(u)
  OBVIOUS
<1>4. PICK T : T = MountRefs(u)'
  OBVIOUS
<1>5. S \ {f} = T \ {f}
  <2>1. \A g \in Filesystems \ {f} : g \in S <=> g \in T
    BY <1>2, <1>3, <1>4 DEF MountRefs, Usable
  <2>2. S \subseteq Filesystems /\ T \subseteq Filesystems
    BY <1>3, <1>4 DEF MountRefs
  <2> QED
    BY <2>1, <2>2
<1>6. IsFiniteSet(S)
  BY <1>3, FiniteRefs
<1>7. Cardinality(S) \in Nat /\ Cardinality(T) = Cardinality(S) - Bit(f \in S) + Bit(f \in T)
  BY ONLY <1>5, <1>6, OneElement
<1>8. Bit(f \in S) = a /\ Bit(f \in T) = b
  BY <1>3, <1>4 DEF Bit
<1>9. Cardinality(T) = Cardinality(S) + (b - a)
  BY <1>7, <1>8
<1> QED
  BY <1>3, <1>4, <1>9 DEF MoreMounts

\* Whether a filesystem refers to the vnode it covers.
LEMMA MountRefsIs ==
  ASSUME NEW f \in Filesystems, NEW u
  PROVE  /\ f \in MountRefs(u) <=> vfs[f].covered = u /\ (Usable(f) \/ Doing("mount", f))
         /\ f \in MountRefs(u)' <=> vfs'[f].covered = u /\ (Usable(f)' \/ Doing("mount", f)')
BY DEF MountRefs

\* vfs_mount_fs keeps the invariant.
LEMMA MountKept ==
  ASSUME VfsInv, NEW c \in Clients, Idle(c), NEW f \in Filesystems, NEW v \in Vnodes \cup {NULL}, NEW p \in Paths,
         vfs_mount_fs(c, f, v, p)
  PROVE  VfsInv'
<1>1. TodoType /\ FsType /\ RefType /\ FsInv /\ StepsSound
  BY InvParts
<1>2. todo[c] = <<>> /\ fault = NULL
  BY DEF Idle
<1>3. PICK s \in Steps : s = <<"mount", f>>
  BY StepsMade
<1>4. Call(c, <<s>>)
  BY <1>3 DEF vfs_mount_fs
<1>5. PICK l \in Seq(Steps) : Became(c, l) /\ Len(l) = 1 /\ l[1] = s
  BY <1>1, <1>2, <1>4, CallOne
<1>6. Became(c, l) /\ \A i \in 1 .. Len(l) : l[i][1] = "mount" /\ l[i][2] = f
  BY <1>3, <1>5
<1>7. /\ UNCHANGED <<namecache, vnode_table, held, lost>> /\ UNCHANGED held /\ spin' = spin
      /\ vnode_table' = vnode_table /\ mount_table' = mount_table /\ fault' = fault
  BY DEF vfs_mount_fs
<1>8. vfs' = [vfs EXCEPT ![f] = [mounted |-> FALSE, covered |-> v, path |-> p]]
  BY DEF vfs_mount_fs
<1>9. FsType'
  <2>1. TodoType'
    BY <1>1, <1>6, ItemsAfter
  <2>2. [mounted |-> FALSE, covered |-> v, path |-> p] \in [mounted : BOOLEAN, covered : Vnodes \cup {NULL}, path : Paths \cup {NULL}]
    OBVIOUS
  <2>3. vfs' \in [Filesystems -> [mounted : BOOLEAN, covered : Vnodes \cup {NULL}, path : Paths \cup {NULL}]]
    BY <1>1, <1>8, <2>2 DEF FsType
  <2> QED
    BY <1>1, <1>7, <2>1, <2>3 DEF FsType
<1>10. FsInv'
  BY <1>1, <1>2, <1>9, FsMount
<1>11. /\ vn' \in [Vnodes -> VnodeType] /\ ParentsUnchanged /\ CountsUp
       /\ \A u \in Vnodes : MoreCount(u, Bit(u = v))
  <2>1. CASE v = NULL
    <3>1. UNCHANGED vn /\ \A u \in Vnodes : Bit(u = v) = 0
      BY <2>1, NullAssumption, VnodesAssumption DEF vfs_mount_fs, Bit
    <3> QED
      BY <1>1, <3>1, SameCounts, NoMoreCount DEF RefType
  <2>2. CASE v # NULL
    <3>1. v \in Vnodes /\ held[c][v] > 0 /\ vn' = vnode_ref(vn, v)
      BY <2>2 DEF vfs_mount_fs
    <3>2. vn[v].count > 0 /\ vn[v].alloc /\ ~vn[v].freeing
      BY <3>1, Positive
    <3> QED
      BY <1>1, <3>1, <3>2, VnodeRef, OneMoreCount DEF RefType
  <2> QED
    BY <2>1, <2>2
<1>12. RefType'
  BY <1>1, <1>7, <1>11 DEF RefType
<1>13. StepsSound'
  <2>1. \A i \in 1 .. Len(l) : l[i][1] \notin TrackedSteps
    BY <1>6 DEF TrackedSteps
  <2>2. HeldKept(c)
    BY <1>7, HeldSame
  <2> QED
    BY <1>1, <1>6, <1>7, <1>11, <2>1, <2>2, StepsPlain
<1>14. ASSUME NEW u \in Vnodes
       PROVE  \E ds, dm, dc :
            MoreSteps(c, l, u, ds) /\ MoreMounts(u, dm) /\ MoreCount(u, dc) /\ dc = ds + dm
  <2>1. PICK b \in {0, 1} : b = Bit(u = v)
    BY DEF Bit
  <2>2. MoreCount(u, b)
    BY <1>11, <2>1
  <2>3. MoreSteps(c, l, u, 0 - 0)
    <3>1. s[1] = "mount"
      BY <1>3
    <3>2. Carried(s, u) = 0
      BY <3>1, CarriedIs
    <3>3. HeadCarried(c, u) = 0 /\ Carried(l[1], u) = 0 /\ Len(l) = 1
      BY <1>2, <1>5, <3>2, IdleCarries
    <3> QED
      BY <3>3, OneNewStep
  <2>4. MoreMounts(u, b - 0)
    <3>1. ~(f \in MountRefs(u))
      <4>1. ~vfs[f].mounted /\ ~Doing("mount", f)
        BY DEF vfs_mount_fs, Exists
      <4> QED
        BY <4>1, MountRefsIs DEF Usable
    <3>2. f \in MountRefs(u)' <=> b = 1
      <4>1. Doing("mount", f)'
        <5>1. PICK q : q = Base(c) + Len(l) + 1 - 1
          OBVIOUS
        <5>3. 1 \in 1 .. Len(l) /\ l[1][1] = "mount" /\ l[1][2] = f
          BY <1>5, <1>6
        <5>4. Is(c, q, "mount", f)'
          BY <1>1, <1>6, <5>1, <5>3, IsAfter
        <5>2. TodoType'
          BY <1>9 DEF FsType
        <5> QED
          BY <5>4, <5>2, DoingIsAfter DEF Is
      <4>2. vfs'[f].covered = v
        BY <1>1, <1>8 DEF FsType
      <4>3. (u = v) <=> b = 1
        BY <2>1 DEF Bit
      <4> QED
        BY <4>1, <4>2, <4>3, MountRefsIs
    <3>3. \A g \in Filesystems \ {f} : vfs'[g] = vfs[g]
      BY <1>1, <1>8 DEF FsType
    <3>4. /\ \A i \in 1 .. Len(l) : l[i][1] \in {"mount", "release"} => l[i][2] = f
          /\ todo[c] # <<>> => (Arg(c)[1] \in {"mount", "release"} => Arg(c)[2] = f)
      BY <1>2, <1>6
    <3>5. 0 \in {0, 1} /\ (f \in MountRefs(u) <=> 0 = 1)
      BY <3>1
    <3>6. Became(c, l)
      BY <1>6
    <3> QED
      BY <1>1, <3>2, <3>3, <3>4, <3>5, <3>6, MountDelta
  <2>5. b = (0 - 0) + (b - 0)
    OBVIOUS
  <2> QED
    BY <2>2, <2>3, <2>4, <2>5
<1>15. NoFault' /\ ParentsUnchanged
  BY <1>2, <1>7, <1>11 DEF NoFault
<1>16. /\ \A i \in 1 .. Len(l) : l[i][1] \notin {"remove", "parent"}
       /\ todo[c] # <<>> => Arg(c)[1] \notin {"remove", "parent"}
  BY <1>2, <1>6
<1> QED
  BY <1>6, <1>7, <1>10, <1>12, <1>13, <1>14, <1>15, <1>16, MountStep

\* The end of a mount keeps the invariant.
LEMMA MountedKept ==
  ASSUME VfsInv, NEW c \in Clients, Mounted(c)
  PROVE  VfsInv'
<1>1. TodoType /\ FsType /\ RefType /\ FsInv /\ StepsSound
  BY InvParts
<1>2. At(c, "mount")
  BY DEF Mounted
<1>3. PICK f \in Filesystems : f = Arg(c)[2]
  BY <1>1, <1>2, AtHead DEF StepFields, FsSteps
<1>4. PICK n \in Nat : n = Base(c)
  BY <1>1, <1>2, AtHead
<1>5. /\ Is(c, n + 1, "mount", f) /\ todo[c] # <<>> /\ Arg(c)[1] = "mount" /\ fault = NULL
  BY <1>1, <1>2, <1>3, <1>4, AtHead DEF At
<1>6. \A d \in Clients : \A q : \A op \in FsSteps : Is(d, q, op, f) => d = c /\ q = n + 1 /\ op = "mount"
  <2>1. MountOwns(f)
    BY <1>1 DEF FsInv, FsSound
  <2> SUFFICES ASSUME NEW d \in Clients, NEW q, NEW op \in FsSteps, Is(d, q, op, f)
               PROVE  d = c /\ q = n + 1 /\ op = "mount"
    OBVIOUS
  <2>2. d = c /\ q = n + 1
    BY <1>5, <2>1 DEF MountOwns, Is
  <2> QED
    BY <1>5, <2>2 DEF Is
<1>7. ~vfs[f].mounted /\ Doing("mount", f)
  <2>1. ~vfs[f].mounted
    BY <1>1, <1>5 DEF FsInv, FsSound, MountedInUse, Is, FsSteps
  <2> QED
    BY <1>1, <1>5, <2>1, DoingIs DEF Is
<1>8. PICK v \in Vnodes \cup {NULL} : v = vfs[f].covered
  BY <1>1 DEF FsType
<1>9. /\ UNCHANGED <<vn, held, lost, spin, namecache>> /\ UNCHANGED <<namecache, vnode_table, held, lost>>
      /\ fault' = fault /\ spin' = spin
  BY DEF Mounted
<1>10. /\ RefType' /\ ParentsUnchanged /\ CountsUp /\ HeldKept(c)
       /\ \A u \in Vnodes : MoreHeld(u, 0) /\ MoreLost(u, 0) /\ MoreCount(u, 0)
  BY <1>9, SameRefs
<1>11. NoFault' /\ (todo[c] # <<>> => Arg(c)[1] \notin {"remove", "parent"})
  BY <1>5, <1>9 DEF NoFault
<1>12. todo[c] # <<>> => (Arg(c)[1] \in {"mount", "release"} => Arg(c)[2] = f)
  BY <1>3
<1>13. ASSUME NEW l \in Seq(Steps), Became(c, l), \A i \in 1 .. Len(l) : l[i][1] = "unref"
       PROVE  /\ ~Doing("mount", f)' /\ ~Doing("release", f)' /\ TodoType'
              /\ \A i \in 1 .. Len(l) : l[i][1] \notin {"remove", "parent"}
              /\ \A i \in 1 .. Len(l) : l[i][1] \in {"mount", "release"} => l[i][2] = f
              /\ StepsSound'
  <2>1. TodoType'
    BY <1>1, <1>13, ItemsAfter
  <2>2. ASSUME NEW d \in Clients, NEW q, NEW op \in {"mount", "release"}, Is(d, q, op, f)' PROVE FALSE
    <3>1. (d # c \/ q <= n) /\ Is(d, q, op, f)
      BY <1>1, <1>4, <1>13, <2>2, IsAfter
    <3>2. d = c /\ q = n + 1
      BY <1>6, <3>1 DEF FsSteps
    <3> QED
      BY <3>1, <3>2
  <2>3. ~Doing("mount", f)' /\ ~Doing("release", f)'
    BY <2>1, <2>2, DoingIsAfter
  <2>4. \A i \in 1 .. Len(l) : l[i][1] \notin TrackedSteps
    BY <1>13 DEF TrackedSteps
  <2>5. StepsSound'
    BY <1>1, <1>9, <1>10, <1>13, <2>4, StepsPlain
  <2> QED
    BY <1>13, <2>1, <2>3, <2>5
<1>14. CASE Then(c, Unrefs(v)) /\ UNCHANGED <<vfs, mount_table>>
  <2>1. PICK l : l = Unrefs(v)
    OBVIOUS
  <2>2. l \in Seq(Steps) /\ \A i \in 1 .. Len(l) : l[i][1] = "unref"
    BY <2>1, UnrefsList
  <2>3. l \in Seq(Steps) /\ Then(c, l)
    BY <1>14, <2>1, <2>2
  <2>4. Became(c, l)
    BY <1>1, <1>5, <2>3, ThenBecame
  <2>5. /\ ~Doing("mount", f)' /\ ~Doing("release", f)' /\ TodoType'
        /\ \A i \in 1 .. Len(l) : l[i][1] \notin {"remove", "parent"}
        /\ \A i \in 1 .. Len(l) : l[i][1] \in {"mount", "release"} => l[i][2] = f
        /\ StepsSound'
    BY <1>13, <2>2, <2>4
  <2>6. FsType'
    BY <1>1, <1>9, <1>14, <2>5 DEF FsType
  <2>7. FsInv'
    BY <1>1, <2>6, FsMounted
  <2>8. ASSUME NEW u \in Vnodes
        PROVE  \E ds, dm, dc :
             MoreSteps(c, l, u, ds) /\ MoreMounts(u, dm) /\ MoreCount(u, dc) /\ dc = ds + dm
    <3>1. PICK b \in {0, 1} : b = Bit(u = v)
      BY DEF Bit
    <3>2. HeadCarried(c, u) = 0
      BY <1>1, <1>5, HeadCarries
    <3>3. MoreSteps(c, l, u, b - 0)
      BY <2>1, <3>1, <3>2, UnrefSteps
    <3>4. f \in MountRefs(u) <=> b = 1
      BY <1>7, <1>8, <3>1, MountRefsIs DEF Bit
    <3>5. 0 \in {0, 1} /\ (f \in MountRefs(u)' <=> 0 = 1)
      <4>1. ~Usable(f)'
        BY <1>7, <1>14 DEF Usable
      <4>2. f \notin MountRefs(u)'
        BY <4>1, <2>5, MountRefsIs
      <4> QED
        BY <4>2
    <3>6. \A g \in Filesystems \ {f} : vfs'[g] = vfs[g]
      BY <1>14
    <3>7. \A i \in 1 .. Len(l) : l[i][1] \in {"mount", "release"} => l[i][2] = f
      BY <2>5
    <3>8. MoreMounts(u, 0 - b)
      BY <1>1, <1>12, <2>3, <2>4, <3>4, <3>5, <3>6, <3>7, MountDelta
    <3>9. 0 = (b - 0) + (0 - b)
      OBVIOUS
    <3> QED
      BY <1>10, <3>3, <3>8, <3>9
  <2>9. StepsSound' /\ \A i \in 1 .. Len(l) : l[i][1] \notin {"remove", "parent"}
    BY <2>5
  <2> QED
    BY <1>9, <1>10, <1>11, <2>3, <2>4, <2>7, <2>8, <2>9, MountStep
<1>15. CASE /\ vfs' = [vfs EXCEPT ![f].mounted = TRUE] /\ Then(c, <<>>)
            /\ \/ mount_table' = [mount_table EXCEPT ![vfs[f].path] = f]
               \/ UNCHANGED mount_table
  <2>1. PICK l \in Seq(Steps) : Became(c, l) /\ Len(l) = 0 /\ \A i \in 1 .. Len(l) : FALSE
    BY <1>1, <1>5, <1>15, ThenNone
  <2>2. Became(c, l) /\ \A i \in 1 .. Len(l) : l[i][1] = "unref"
    BY <2>1
  <2>5. /\ ~Doing("mount", f)' /\ ~Doing("release", f)' /\ TodoType'
        /\ \A i \in 1 .. Len(l) : l[i][1] \notin {"remove", "parent"}
        /\ \A i \in 1 .. Len(l) : l[i][1] \in {"mount", "release"} => l[i][2] = f
        /\ StepsSound'
    BY <1>13, <2>2
  <2>6. /\ vfs' \in [Filesystems -> [mounted : BOOLEAN, covered : Vnodes \cup {NULL}, path : Paths \cup {NULL}]]
        /\ vfs'[f].mounted /\ vfs'[f].covered = v /\ \A g \in Filesystems \ {f} : vfs'[g] = vfs[g]
    BY <1>1, <1>8, <1>15 DEF FsType
  <2>7. FsType'
    <3>1. mount_table' \in [Paths -> Filesystems \cup {NULL}]
      BY <1>1, <1>15 DEF FsType
    <3> QED
      BY <1>1, <1>9, <2>5, <2>6, <3>1 DEF FsType
  <2>8. FsInv'
    BY <1>1, <2>7, FsMounted
  <2>9. ASSUME NEW u \in Vnodes
        PROVE  \E ds, dm, dc :
             MoreSteps(c, l, u, ds) /\ MoreMounts(u, dm) /\ MoreCount(u, dc) /\ dc = ds + dm
    <3>1. PICK b \in {0, 1} : b = Bit(u = v)
      BY DEF Bit
    <3>2. HeadCarried(c, u) = 0 /\ Len(l) = 0
      BY <1>1, <1>5, <2>1, HeadCarries
    <3>3. MoreSteps(c, l, u, - 0)
      BY <3>2, NoNewSteps
    <3>4. f \in MountRefs(u) <=> b = 1
      BY <1>7, <1>8, <3>1, MountRefsIs DEF Bit
    <3>5. f \in MountRefs(u)' <=> b = 1
      <4>1. Usable(f)'
        BY <2>5, <2>6 DEF Usable
      <4> QED
        BY <4>1, <2>6, <3>1, MountRefsIs DEF Bit
    <3>6. \A g \in Filesystems \ {f} : vfs'[g] = vfs[g]
      BY <2>6
    <3>7. \A i \in 1 .. Len(l) : l[i][1] \in {"mount", "release"} => l[i][2] = f
      BY <2>5
    <3>8. MoreMounts(u, b - b)
      BY <1>1, <1>12, <2>2, <3>4, <3>5, <3>6, <3>7, MountDelta
    <3>9. MoreSteps(c, l, u, 0) /\ MoreMounts(u, 0) /\ 0 = 0 + 0
      BY <3>3, <3>8
    <3> QED
      BY <1>10, <3>9
  <2>10. StepsSound' /\ Became(c, l) /\ \A i \in 1 .. Len(l) : l[i][1] \notin {"remove", "parent"}
    BY <2>2, <2>5
  <2> QED
    BY <1>9, <1>10, <1>11, <2>8, <2>9, <2>10, MountStep
<1> QED
  BY <1>3, <1>8, <1>14, <1>15 DEF Mounted

\* Release keeps the invariant.
LEMMA ReleaseKept ==
  ASSUME VfsInv, NEW c \in Clients, Release(c)
  PROVE  VfsInv'
<1>1. TodoType /\ FsType /\ RefType /\ FsInv /\ StepsSound
  BY InvParts
<1>2. At(c, "release")
  BY DEF Release
<1>3. PICK f \in Filesystems : f = Arg(c)[2]
  BY <1>1, <1>2, AtHead DEF StepFields, FsSteps
<1>4. PICK n : n = Base(c) + 1
  OBVIOUS
<1>5. Is(c, n, "release", f) /\ todo[c] # <<>> /\ Arg(c)[1] = "release" /\ fault = NULL
  BY <1>1, <1>2, <1>3, <1>4, AtHead DEF At
<1>6. Doing("release", f) /\ ~Doing("mount", f)
  <2>1. ASSUME NEW d \in Clients, NEW q, Is(d, q, "mount", f) PROVE FALSE
    <3>1. MountOwns(f)
      BY <1>1 DEF FsInv, FsSound
    <3>2. d = c /\ q = n
      BY <1>5, <2>1, <3>1 DEF MountOwns, Is, FsSteps
    <3> QED
      BY <1>5, <2>1, <3>2 DEF Is
  <2> QED
    BY <1>1, <1>5, <2>1, DoingIs DEF Is
<1>7. /\ UNCHANGED <<vn, held, lost, spin, namecache>> /\ UNCHANGED <<namecache, vnode_table, held, lost>>
      /\ fault' = fault /\ spin' = spin /\ mount_table' = mount_table
      /\ Then(c, <<>>) /\ vfs' = [vfs EXCEPT ![f] = NewVfs]
  BY <1>3 DEF Release
<1>8. /\ RefType' /\ ParentsUnchanged /\ CountsUp /\ HeldKept(c)
      /\ \A u \in Vnodes : MoreHeld(u, 0) /\ MoreLost(u, 0) /\ MoreCount(u, 0)
  BY <1>7, SameRefs
<1>9. PICK l \in Seq(Steps) : Became(c, l) /\ Len(l) = 0 /\ \A i \in 1 .. Len(l) : FALSE
  BY <1>1, <1>5, <1>7, ThenNone
<1>10. Became(c, l) /\ \A i \in 1 .. Len(l) : l[i][1] \notin TrackedSteps \cup {"mount", "release", "remove", "parent"}
  BY <1>9
<1>11. /\ vfs' \in [Filesystems -> [mounted : BOOLEAN, covered : Vnodes \cup {NULL}, path : Paths \cup {NULL}]]
       /\ vfs'[f].covered = NULL /\ \A g \in Filesystems \ {f} : vfs'[g] = vfs[g]
  BY <1>1, <1>7 DEF FsType, NewVfs
<1>12. TodoType'
  BY <1>1, <1>10, ItemsAfter
<1>13. FsType'
  BY <1>1, <1>7, <1>11, <1>12 DEF FsType
<1>14. FsInv'
  BY <1>1, <1>13, FsRelease
<1>15. StepsSound'
  <2>1. \A i \in 1 .. Len(l) : l[i][1] \notin TrackedSteps
    BY <1>10
  <2> QED
    BY <1>1, <1>7, <1>8, <1>10, <2>1, StepsPlain
<1>16. ASSUME NEW u \in Vnodes
       PROVE  \E ds, dm, dc :
             MoreSteps(c, l, u, ds) /\ MoreMounts(u, dm) /\ MoreCount(u, dc) /\ dc = ds + dm
  <2>1. HeadCarried(c, u) = 0 /\ Len(l) = 0
    BY <1>1, <1>5, <1>9, HeadCarries
  <2>2. MoreSteps(c, l, u, - 0)
    BY <2>1, NoNewSteps
  <2>3. f \notin MountRefs(u)
    BY <1>6, MountRefsIs DEF Usable
  <2>4. f \notin MountRefs(u)'
    <3>1. u # NULL
      BY NullAssumption, VnodesAssumption
    <3> QED
      BY <1>11, <3>1, MountRefsIs
  <2>5. 0 \in {0, 1} /\ (f \in MountRefs(u) <=> 0 = 1) /\ (f \in MountRefs(u)' <=> 0 = 1)
    BY <2>3, <2>4
  <2>6. /\ \A i \in 1 .. Len(l) : l[i][1] \in {"mount", "release"} => l[i][2] = f
        /\ todo[c] # <<>> => (Arg(c)[1] \in {"mount", "release"} => Arg(c)[2] = f)
        /\ \A g \in Filesystems \ {f} : vfs'[g] = vfs[g]
    BY <1>3, <1>10, <1>11
  <2>7. Became(c, l)
    BY <1>10
  <2>8. MoreMounts(u, 0 - 0)
    BY <1>1, <2>5, <2>6, <2>7, MountDelta
  <2>9. 0 = (- 0) + (0 - 0)
    OBVIOUS
  <2> QED
    BY <1>8, <2>2, <2>8, <2>9
<1>17. NoFault' /\ (todo[c] # <<>> => Arg(c)[1] \notin {"remove", "parent"})
  BY <1>5, <1>7 DEF NoFault
<1>18. \A i \in 1 .. Len(l) : l[i][1] \notin {"remove", "parent"}
  BY <1>10
<1> QED
  BY <1>7, <1>8, <1>10, <1>14, <1>15, <1>16, <1>17, <1>18, MountStep

\* A vnode is not the null pointer.
LEMMA NotNull ==
  ASSUME NEW u \in Vnodes
  PROVE  u # NULL
BY NullAssumption, VnodesAssumption

\* Lists of two and of three steps.
Pair(s, t) == <<s, t>>

Triple(s, t, w) == <<s, t, w>>

\* The list of two steps.
LEMMA ListOfTwo ==
  ASSUME NEW s \in Steps, NEW t \in Steps
  PROVE  Pair(s, t) \in Seq(Steps) /\ Len(Pair(s, t)) = 2 /\ Pair(s, t)[1] = s /\ Pair(s, t)[2] = t
BY DEF Pair

\* The list of three steps.
LEMMA ListOfThree ==
  ASSUME NEW s \in Steps, NEW t \in Steps, NEW w \in Steps
  PROVE  /\ Triple(s, t, w) \in Seq(Steps) /\ Len(Triple(s, t, w)) = 3
         /\ Triple(s, t, w)[1] = s /\ Triple(s, t, w)[2] = t /\ Triple(s, t, w)[3] = w
BY DEF Triple

\* A list that drops a reference first, if there is one, and goes on with the
\* steps of m, which carry none.
DropThen(l, v, m) == l = Unrefs(v) \o m

\* Where the steps of such a list are, from the front and from the end.
LinedUp(l, v, m) ==
  /\ l \in Seq(Steps) /\ Len(m) \in Nat /\ Len(l) \in Nat
  /\ \A i \in 1 .. Len(l) :
       \/ l[i] = <<"unref", v>> /\ i = 1 /\ v # NULL
       \/ \E j \in 1 .. Len(m) : l[i] = m[j] /\ Len(l) - i = Len(m) - j
  /\ \A j \in 1 .. Len(m) : \E i \in 1 .. Len(l) : l[i] = m[j] /\ Len(l) - i = Len(m) - j
  /\ v = NULL => Len(l) = Len(m) /\ \A i \in 1 .. Len(m) : l[i] = m[i]
  /\ v # NULL => Len(l) = Len(m) + 1 /\ l[1] = <<"unref", v>>

\* A list that drops a reference and goes on is lined up.
LEMMA UnrefThen ==
  ASSUME NEW v \in Vnodes \cup {NULL}, NEW m \in Seq(Steps), NEW l, DropThen(l, v, m)
  PROVE  LinedUp(l, v, m)
<1> USE DEF LinedUp
<1>1. Len(m) \in Nat
  OBVIOUS
<1>2. CASE v = NULL
  <2>1. Unrefs(v) = << >>
    BY <1>2 DEF Unrefs
  <2>2. l = m
    BY <2>1, ConcatEmptySeq DEF DropThen
  <2>3. \A i \in 1 .. Len(l) : l[i] = m[i] /\ Len(l) - i = Len(m) - i
    BY <2>2
  <2> QED
    BY <1>1, <1>2, <2>2, <2>3
<1>3. CASE v # NULL
  <2>1. PICK k \in Seq(Steps) : k = Unrefs(v)
    BY UnrefsList
  <2>2. Len(k) = 1 /\ k[1] = <<"unref", v>>
    BY <1>3, <2>1, UnrefsList
  <2>3. /\ k \o m \in Seq(Steps) /\ Len(k \o m) = 1 + Len(m) /\ (k \o m)[1] = k[1]
        /\ \A i \in 1 .. Len(m) : (k \o m)[1 + i] = m[i]
    BY <2>2, ConcatOne
  <2>4. l = k \o m
    BY <2>1 DEF DropThen
  <2>5. l \in Seq(Steps) /\ Len(l) = 1 + Len(m) /\ l[1] = <<"unref", v>> /\ \A i \in 1 .. Len(m) : l[1 + i] = m[i]
    BY <2>2, <2>3, <2>4
  <2>6. ASSUME NEW i \in 1 .. Len(l)
        PROVE  \/ l[i] = <<"unref", v>> /\ i = 1 /\ v # NULL
               \/ \E j \in 1 .. Len(m) : l[i] = m[j] /\ Len(l) - i = Len(m) - j
    <3>1. CASE i = 1
      BY <1>3, <2>5, <3>1
    <3>2. CASE i # 1
      <4>1. PICK j \in 1 .. Len(m) : i = 1 + j
        <5>1. i - 1 \in 1 .. Len(m) /\ i = 1 + (i - 1)
          BY <1>1, <2>5, <3>2
        <5> QED
          BY <5>1
      <4>2. l[i] = m[j]
        BY <2>5, <4>1
      <4>3. Len(l) - i = Len(m) - j
        BY <1>1, <2>5, <4>1
      <4> QED
        BY <4>2, <4>3
    <3> QED
      BY <3>1, <3>2
  <2>7. ASSUME NEW j \in 1 .. Len(m) PROVE \E i \in 1 .. Len(l) : l[i] = m[j] /\ Len(l) - i = Len(m) - j
    <3>1. PICK i : i = 1 + j
      OBVIOUS
    <3>2. i \in 1 .. Len(l) /\ Len(l) - i = Len(m) - j
      BY <1>1, <2>5, <3>1
    <3>3. l[i] = m[j]
      BY <2>5, <3>1
    <3> QED
      BY <3>2, <3>3
  <2>8. Len(l) = Len(m) + 1 /\ Len(l) \in Nat
    BY <1>1, <2>5
  <2> QED
    BY <1>1, <1>3, <2>5, <2>6, <2>7, <2>8
<1> QED
  BY <1>2, <1>3

\* The new steps of client c, counted from the end.
LEMMA TailItems ==
  ASSUME TodoType, NEW c \in Clients, NEW v \in Vnodes \cup {NULL}, NEW m \in Seq(Steps), NEW l, DropThen(l, v, m),
         Became(c, l), NEW d \in Clients, NEW p \in Slots(d)'
  PROVE  \/ (d # c \/ p <= Base(c)) /\ p \in Slots(d) /\ Planned(d, p)' = Planned(d, p)
         \/ d = c /\ Planned(d, p)' = <<"unref", v>> /\ v \in Vnodes
         \/ d = c /\ \E j \in 1 .. Len(m) : p = Base(c) + Len(m) + 1 - j /\ Planned(d, p)' = m[j]
<1>0. LinedUp(l, v, m)
  BY UnrefThen
<1>1. /\ l \in Seq(Steps) /\ Len(m) \in Nat /\ Len(l) \in Nat
      /\ \A i \in 1 .. Len(l) :
              \/ l[i] = <<"unref", v>> /\ i = 1 /\ v # NULL
              \/ \E j \in 1 .. Len(m) : l[i] = m[j] /\ Len(l) - i = Len(m) - j
  BY <1>0 DEF LinedUp
<1>2. l \in Seq(Steps) /\ Base(c) \in Nat
  BY <1>1, RestType
<1>3. \/ (d # c \/ p <= Base(c)) /\ p \in Slots(d) /\ Planned(d, p)' = Planned(d, p)
      \/ d = c /\ \E i \in 1 .. Len(l) : p = Base(c) + Len(l) + 1 - i /\ Planned(d, p)' = l[i]
  BY <1>2, Origin
<1>4. ASSUME NEW i \in 1 .. Len(l), d = c, p = Base(c) + Len(l) + 1 - i, Planned(d, p)' = l[i]
      PROVE  \/ Planned(d, p)' = <<"unref", v>> /\ v \in Vnodes
             \/ \E j \in 1 .. Len(m) : p = Base(c) + Len(m) + 1 - j /\ Planned(d, p)' = m[j]
  <2>1. CASE l[i] = <<"unref", v>> /\ v # NULL
    BY <1>4, <2>1
  <2>2. ASSUME NEW j \in 1 .. Len(m), l[i] = m[j], Len(l) - i = Len(m) - j
        PROVE  p = Base(c) + Len(m) + 1 - j
    <3>1. PICK n \in Nat : n = Base(c)
      BY <1>2
    <3>2. PICK h \in Nat, k \in Nat : h = Len(l) /\ k = Len(m)
      BY <1>1
    <3>3. i \in Int /\ j \in Int /\ h - i = k - j /\ p = n + h + 1 - i
      BY <1>4, <2>2, <3>1, <3>2
    <3>4. p = n + k + 1 - j
      BY <3>3
    <3> QED
      BY <3>1, <3>2, <3>4
  <2> QED
    BY <1>1, <1>4, <2>1, <2>2
<1> QED
  BY <1>3, <1>4

\* Every step of m is at its place from the end.
LEMMA NewItem ==
  ASSUME TodoType, NEW c \in Clients, NEW v \in Vnodes \cup {NULL}, NEW m \in Seq(Steps), NEW l, DropThen(l, v, m),
         Became(c, l), NEW j \in 1 .. Len(m)
  PROVE  \E p \in Slots(c)' : p = Base(c) + Len(m) + 1 - j /\ Planned(c, p)' = m[j]
<1>0. LinedUp(l, v, m)
  BY UnrefThen
<1>1. /\ l \in Seq(Steps) /\ Len(m) \in Nat /\ Len(l) \in Nat
      /\ \E i \in 1 .. Len(l) : l[i] = m[j] /\ Len(l) - i = Len(m) - j
  BY <1>0 DEF LinedUp
<1>2. PICK i \in 1 .. Len(l) : l[i] = m[j] /\ Len(l) - i = Len(m) - j
  BY <1>1
<1>3. l \in Seq(Steps) /\ Base(c) \in Nat
  BY <1>1, RestType
<1>4. PICK p : p = Base(c) + Len(l) + 1 - i
  OBVIOUS
<1>5. /\ p \in Base(c) + 1 .. Base(c) + Len(l) /\ p \in 1 .. Base(c) + Len(l) /\ p = Base(c) + Len(m) + 1 - j
      /\ Base(c) + Len(l) + 1 - p = i
  <2>1. PICK n \in Nat : n = Base(c)
    BY <1>3
  <2>2. PICK h \in Nat, k \in Nat : h = Len(l) /\ k = Len(m)
    BY <1>1
  <2>3. i \in 1 .. h /\ j \in 1 .. k /\ h - i = k - j /\ p = n + h + 1 - i
    BY <1>2, <1>4, <2>1, <2>2
  <2>4. p \in n + 1 .. n + h /\ p \in 1 .. n + h /\ p = n + k + 1 - j /\ n + h + 1 - p = i
    BY <2>3
  <2> QED
    BY <2>1, <2>2, <2>4
<1>7. p \in Slots(c)' /\ Planned(c, p)' = l[Base(c) + Len(l) + 1 - p]
  BY <1>3, <1>5, ItemsAfter
<1> QED
  BY <1>2, <1>5, <1>7

\* Such a list carries the one reference.
LEMMA UnrefThenSteps ==
  ASSUME NEW c \in Clients, NEW v \in Vnodes \cup {NULL}, NEW m \in Seq(Steps), NEW l, DropThen(l, v, m),
         \A i \in 1 .. Len(m) : m[i][1] \notin {"unref", "enter", "recheck", "insert"},
         NEW u \in Vnodes, HeadCarried(c, u) = 0
  PROVE  MoreSteps(c, l, u, Bit(u = v))
<1>0. LinedUp(l, v, m)
  BY UnrefThen
<1>1. /\ l \in Seq(Steps) /\ Len(m) \in Nat /\ Len(l) \in Nat
      /\ \A i \in 1 .. Len(l) :
              \/ l[i] = <<"unref", v>> /\ i = 1 /\ v # NULL
              \/ \E j \in 1 .. Len(m) : l[i] = m[j] /\ Len(l) - i = Len(m) - j
      /\ v = NULL => Len(l) = Len(m) /\ \A i \in 1 .. Len(m) : l[i] = m[i]
      /\ v # NULL => Len(l) = Len(m) + 1 /\ l[1] = <<"unref", v>>
  BY <1>0 DEF LinedUp
<1>2. \A j \in 1 .. Len(m) : Carried(m[j], u) = 0
  <2> SUFFICES ASSUME NEW j \in 1 .. Len(m) PROVE Carried(m[j], u) = 0
    OBVIOUS
  <2>1. PICK s \in Steps : s = m[j]
    OBVIOUS
  <2>2. s[1] \notin {"unref", "enter", "recheck", "insert"}
    BY <2>1
  <2>3. Carried(s, u) = 0
    BY <2>2, CarriedIs
  <2> QED
    BY <2>1, <2>3
<1>3. \A i \in 1 .. Len(l) : i # 1 => Carried(l[i], u) = 0
  BY <1>1, <1>2
<1>4. CarriedAt(l, 2, u) = 0 /\ \A i \in 1 .. Len(l) : i > 2 => Carried(l[i], u) = 0
  BY <1>3 DEF CarriedAt
<1>5. CarriedAt(l, 1, u) = Bit(u = v)
  <2>1. CASE v = NULL
    <3>1. Bit(u = v) = 0
      BY <2>1, NotNull DEF Bit
    <3>2. 1 \in 1 .. Len(l) => Carried(l[1], u) = 0
      BY <1>1, <1>2, <2>1
    <3> QED
      BY <3>1, <3>2 DEF CarriedAt
  <2>2. CASE v # NULL
    <3>1. PICK s \in Steps : s = <<"unref", v>>
      BY <2>2, StepsMade
    <3>2. s[1] = "unref" /\ s[2] = v
      BY <3>1
    <3>3. Carried(s, u) = Bit(v = u)
      BY <3>2, CarriedIs
    <3>4. 1 \in 1 .. Len(l) /\ l[1] = s
      BY <1>1, <2>2, <3>1
    <3> QED
      BY <3>3, <3>4 DEF CarriedAt, Bit
  <2> QED
    BY <2>1, <2>2
<1>6. Bit(u = v) \in Int /\ Bit(u = v) = Bit(u = v) + 0 - 0
  BY DEF Bit
<1> QED
  BY <1>4, <1>5, <1>6 DEF MoreSteps

\* vfs_unmount_fs keeps the invariant.
LEMMA UnmountKept ==
  ASSUME VfsInv, NEW c \in Clients, Idle(c), NEW f \in Filesystems, vfs_unmount_fs(c, f)
  PROVE  VfsInv'
<1>1. TodoType /\ FsType /\ RefType /\ FsInv /\ StepsSound
  BY InvParts
<1>2. todo[c] = <<>> /\ fault = NULL /\ spin = NULL
  BY DEF Idle
<1>3. PICK v \in Vnodes \cup {NULL} : v = vfs[f].covered
  BY <1>1 DEF FsType
<1>4. PICK s \in Steps, t \in Steps, w \in Steps : s = <<"unlock">> /\ t = <<"purge", f>> /\ w = <<"release", f>>
  BY StepsMade
<1>5. PICK m \in Seq(Steps) :
        m = Triple(s, t, w) /\ Len(m) = 3 /\ m[1][1] = "unlock" /\ m[2][1] = "purge" /\ m[3][1] = "release" /\ m[3][2] = f
  <2>1. PICK m \in Seq(Steps) : m = Triple(s, t, w) /\ Len(m) = 3 /\ m[1] = s /\ m[2] = t /\ m[3] = w
    BY ListOfThree
  <2>2. s[1] = "unlock" /\ t[1] = "purge" /\ w[1] = "release" /\ w[2] = f
    BY <1>4
  <2> QED
    BY <2>1, <2>2
<1>6. \A j \in 1 .. Len(m) : m[j][1] \in {"unlock", "purge", "release"} /\ (m[j][1] = "release" => m[j][2] = f)
  BY <1>5
<1>7. PICK l : DropThen(l, v, m)
  BY DEF DropThen
<1>8a. LinedUp(l, v, m)
  BY <1>7, UnrefThen
<1>8. l \in Seq(Steps)
  BY <1>8a DEF LinedUp
<1>9. Call(c, l)
  BY <1>3, <1>4, <1>5, <1>7 DEF vfs_unmount_fs, DropThen, Triple
<1>10. Became(c, l)
  BY <1>1, <1>2, <1>8, <1>9, CallBecame
<1>11. \A i \in 1 .. Len(l) : l[i][1] \in {"unref", "unlock", "purge", "release"} /\ (l[i][1] = "release" => l[i][2] = f)
  <2>1. \A i \in 1 .. Len(l) : l[i] = <<"unref", v>> \/ \E j \in 1 .. Len(m) : l[i] = m[j]
    BY <1>8a DEF LinedUp
  <2> QED
    BY <1>6, <2>1
<1>12. /\ UNCHANGED <<namecache, vnode_table, held, lost>> /\ UNCHANGED vn /\ UNCHANGED held /\ UNCHANGED vfs
       /\ fault' = fault /\ spin' = c /\ mount_table' = Unmounted(f) /\ vfs[f].mounted /\ Usable(f)
  BY DEF vfs_unmount_fs, Usable
<1>13. FsType'
  <2>1. TodoType'
    BY <1>1, <1>8, <1>10, ItemsAfter
  <2>2. mount_table' \in [Paths -> Filesystems \cup {NULL}]
    BY <1>1, <1>12 DEF FsType, Unmounted
  <2> QED
    BY <1>1, <1>12, <2>1, <2>2 DEF FsType
<1>14. FsInv'
  BY <1>1, <1>2, <1>13, FsUnmount
<1>15. RefType' /\ ParentsUnchanged /\ CountsUp /\ HeldKept(c)
  BY <1>1, <1>12, SameCounts, HeldSame DEF RefType
<1>16. StepsSound'
  <2>1. NamesLocked'
    <3>1. ASSUME NEW d \in Clients, NEW p \in Slots(d)' PROVE Planned(d, p)'[1] \notin {"remove", "uncache"}
      <4>1. \A e \in Clients : \A q \in Slots(e) : Planned(e, q)[1] \notin {"remove", "uncache"}
        BY <1>2, NothingRemoved
      <4>2. \/ p \in Slots(d) /\ Planned(d, p)' = Planned(d, p)
            \/ \E i \in 1 .. Len(l) : Planned(d, p)' = l[i]
        BY <1>1, <1>8, <1>10, Origin
      <4> QED
        BY <1>11, <4>1, <4>2
    <3> QED
      BY <3>1, NamesClear
  <2>2. \A i \in 1 .. Len(l) : l[i][1] \notin {"last", "slab", "parent", "enter"}
    BY <1>11
  <2> QED
    BY <1>8, <1>10, <1>15, <2>1, <2>2, SoundButNames
<1>17. Doing("release", f)' /\ ~Doing("mount", f)'
  <2>1. TodoType'
    BY <1>13 DEF FsType
  <2>2. Doing("release", f)'
    <3>1. 3 \in 1 .. Len(m)
      BY <1>5
    <3>2. PICK p \in Slots(c)' : Planned(c, p)' = m[3]
      BY <1>1, <1>7, <1>10, <3>1, NewItem
    <3>3. Is(c, p, "release", f)'
      BY <1>5, <3>2 DEF Is
    <3> QED
      BY <2>1, <3>3, DoingIsAfter DEF Is
  <2>3. ASSUME NEW d \in Clients, NEW p, Is(d, p, "mount", f)' PROVE FALSE
    <3>1. \A e \in Clients : \A q : ~Is(e, q, "mount", f)
      BY <1>1, <1>12, QuietIs DEF FsSteps
    <3> QED
      BY <1>1, <1>8, <1>10, <1>11, <2>3, <3>1, IsAfter
  <2> QED
    BY <2>1, <2>2, <2>3, DoingIsAfter
<1>18. ASSUME NEW u \in Vnodes
       PROVE  \E ds, dm, dc :
             MoreSteps(c, l, u, ds) /\ MoreMounts(u, dm) /\ MoreCount(u, dc) /\ dc = ds + dm
  <2>1. PICK b \in {0, 1} : b = Bit(u = v)
    BY DEF Bit
  <2>2. HeadCarried(c, u) = 0
    BY <1>2, IdleCarries
  <2>3. MoreSteps(c, l, u, b)
    <3>1. \A i \in 1 .. Len(m) : m[i][1] \notin {"unref", "enter", "recheck", "insert"}
      BY <1>6
    <3> QED
      BY <1>7, <2>1, <2>2, <3>1, UnrefThenSteps
  <2>4. f \in MountRefs(u) <=> b = 1
    <3>1. Usable(f)
      BY <1>12
    <3> QED
      BY <1>3, <2>1, <3>1, MountRefsIs DEF Bit
  <2>5. 0 \in {0, 1} /\ (f \in MountRefs(u)' <=> 0 = 1)
    <3>1. ~Usable(f)'
      BY <1>17 DEF Usable
    <3>2. f \notin MountRefs(u)'
      BY <1>17, <3>1, MountRefsIs
    <3> QED
      BY <3>2
  <2>6. /\ \A i \in 1 .. Len(l) : l[i][1] \in {"mount", "release"} => l[i][2] = f
        /\ todo[c] # <<>> => (Arg(c)[1] \in {"mount", "release"} => Arg(c)[2] = f)
        /\ \A g \in Filesystems \ {f} : vfs'[g] = vfs[g]
    BY <1>2, <1>11, <1>12
  <2>7. MoreMounts(u, 0 - b)
    BY <1>1, <1>8, <1>10, <2>4, <2>5, <2>6, MountDelta
  <2>8. MoreCount(u, 0)
    BY <1>12, NoMoreCount
  <2>9. 0 = b + (0 - b)
    OBVIOUS
  <2> QED
    BY <2>3, <2>7, <2>8, <2>9
<1>19. NoFault' /\ (todo[c] # <<>> => Arg(c)[1] \notin {"remove", "parent"})
  BY <1>2, <1>12 DEF NoFault
<1>20. \A i \in 1 .. Len(l) : l[i][1] \notin {"remove", "parent"}
  BY <1>11
<1> QED
  BY <1>8, <1>10, <1>12, <1>14, <1>15, <1>16, <1>18, <1>19, <1>20, MountStep

-----------------------------------------------------------------------------
(* The name cache.                                                          *)

\* Unlock keeps the invariant: the section it ends has removed all it had to.
LEMMA UnlockKept ==
  ASSUME VfsInv, NEW c \in Clients, Unlock(c)
  PROVE  VfsInv'
<1>1. TodoType /\ FsType /\ RefType /\ FsInv /\ NamesLocked
  BY InvParts
<1>2. At(c, "unlock") /\ Then(c, << >>)
  BY DEF Unlock
<1>3. /\ UNCHANGED vn /\ UNCHANGED held /\ UNCHANGED vfs /\ fault' = fault /\ fault = NULL
      /\ UNCHANGED <<vfs, leftover, mount_table, vnode_table>>
      /\ UNCHANGED <<namecache, vnode_table, held, lost>> /\ spin' = NULL /\ spin \in {NULL, c}
  BY <1>2 DEF Unlock, tables, At
<1>4. todo[c] # <<>> /\ Arg(c)[1] = "unlock" /\ Planned(c, Base(c) + 1) = Arg(c)
  BY <1>1, <1>2, AtHead
<1>5. Base(c) + 1 \in Slots(c) /\ Base(c) \in Nat
  BY <1>1, <1>4, HeadPlanned
<1>6. PICK l \in Seq(Steps) : Became(c, l) /\ Len(l) = 0 /\ \A i \in 1 .. Len(l) : FALSE
  BY <1>1, <1>2, <1>4, ThenNone
<1>7. FsInv'
  <2>1. \A i \in 1 .. Len(l) : l[i][1] \notin FsSteps
    BY <1>6
  <2>2. todo[c] # <<>> => Arg(c)[1] \notin FsSteps
    BY <1>4 DEF FsSteps
  <2> QED
    BY <1>1, <1>3, <1>6, <2>1, <2>2, FsNothing
<1>8. RefType' /\ ParentsUnchanged /\ CountsUp /\ HeldKept(c)
  BY <1>1, <1>3, SameCounts, HeldSame DEF RefType
<1>9. NamesLocked'
  <2>1. ASSUME NEW d \in Clients, NEW p \in Slots(d)', Planned(d, p)'[1] \in {"remove", "uncache"} PROVE FALSE
    <3>1. (d # c \/ p <= Base(c)) /\ p \in Slots(d) /\ Planned(d, p)' = Planned(d, p)
      <4>1. \A i \in 1 .. Len(l) : l[i][1] # Planned(d, p)'[1]
        BY <1>6
      <4> QED
        BY <1>1, <1>6, <4>1, OldItem
    <3>2. Planned(d, p)[1] \in {"remove", "uncache"} /\ spin = d
      BY <1>1, <2>1, <3>1 DEF NamesLocked
    <3>3. d = c
      BY <1>3, <3>2, NullAssumption
    <3>4. p > Base(c) + 1
      BY <1>1, <1>4, <1>5, <3>1, <3>2, <3>3 DEF NamesLocked
    <3>5. p \in Int
      BY <3>1 DEF Slots
    <3> QED
      BY <1>5, <3>1, <3>3, <3>4, <3>5
  <2> QED
    BY <2>1, NamesClear
<1>10. StepsSound'
  <2>1. \A i \in 1 .. Len(l) : l[i][1] \notin {"last", "slab", "parent", "enter"}
    BY <1>6
  <2> QED
    BY <1>6, <1>8, <1>9, <2>1, SoundButNames
<1>11. ASSUME NEW u \in Vnodes
       PROVE  \E ds, dm, dc :
            MoreSteps(c, l, u, ds) /\ MoreMounts(u, dm) /\ MoreCount(u, dc) /\ dc = ds + dm
  <2>1. HeadCarried(c, u) = 0
    BY <1>1, <1>4, HeadCarries
  <2>2. MoreSteps(c, l, u, - 0)
    BY <1>6, <2>1, NoNewSteps
  <2>3. NoStep(c, l, "mount") /\ NoStep(c, l, "release")
    BY <1>4, <1>6 DEF NoStep
  <2>4. MoreMounts(u, 0)
    BY <1>1, <1>3, <1>6, <2>3, NoMoreMounts
  <2>5. MoreCount(u, 0)
    BY <1>3, NoMoreCount
  <2>6. 0 = (- 0) + 0
    OBVIOUS
  <2> QED
    BY <2>2, <2>4, <2>5, <2>6
<1>12. NoFault'
  BY <1>3 DEF NoFault
<1>13. \A i \in 1 .. Len(l) : l[i][1] \notin {"remove", "parent"}
  BY <1>6
<1>14. todo[c] # <<>> => Arg(c)[1] \notin {"remove", "parent"}
  BY <1>4
<1> QED
  BY <1>3, <1>6, <1>7, <1>8, <1>10, <1>11, <1>12, <1>13, <1>14, MountStep

\* The only entry of the name cache that is being removed before or after is k.
OnlyRemoves(c, l, k) ==
  /\ \A i \in 1 .. Len(l) : l[i][1] = "remove" => l[i][2] = k[1] /\ l[i][3] = k[2]
  /\ todo[c] # <<>> => (Arg(c)[1] = "remove" => Arg(c)[2] = k[1] /\ Arg(c)[3] = k[2])

\* Different keys differ in the directory or in the name.
LEMMA KeyParts ==
  ASSUME NEW j \in Vnodes \X Names, NEW k \in Vnodes \X Names, j # k
  PROVE  j[1] # k[1] \/ j[2] # k[2]
OBVIOUS

\* Removals of other keys go on.
LEMMA RemovingOther ==
  ASSUME TodoType, NEW c \in Clients, NEW l \in Seq(Steps), Became(c, l),
         NEW k \in Vnodes \X Names, OnlyRemoves(c, l, k), NEW j \in Vnodes \X Names, j # k
  PROVE  Removing(j)' <=> Removing(j)
<1>1. TodoType'
  BY ItemsAfter
<1>2. j[1] # k[1] \/ j[2] # k[2]
  BY KeyParts
<1>3. ASSUME NEW d \in Clients, NEW p, RemovalAt(d, p, j)' PROVE RemovalAt(d, p, j)
  <2>1. p \in Slots(d)' /\ Planned(d, p)'[1] = "remove" /\ Planned(d, p)'[2] = j[1] /\ Planned(d, p)'[3] = j[2]
    BY <1>3 DEF RemovalAt
  <2>2. \/ p \in Slots(d) /\ Planned(d, p)' = Planned(d, p)
        \/ \E i \in 1 .. Len(l) : Planned(d, p)' = l[i]
    BY <2>1, Origin
  <2>3. \A i \in 1 .. Len(l) : Planned(d, p)' # l[i]
    BY <1>2, <2>1 DEF OnlyRemoves
  <2> QED
    BY <2>1, <2>2, <2>3 DEF RemovalAt
<1>4. ASSUME NEW d \in Clients, NEW p, RemovalAt(d, p, j) PROVE RemovalAt(d, p, j)'
  <2>1. Is(d, p, "remove", j[1]) /\ Planned(d, p)[3] = j[2]
    BY <1>4 DEF RemovalAt, Is
  <2>2. ~(todo[c] # <<>> /\ Arg(c) = Planned(d, p) /\ Arg(c)[1] = "remove" /\ Arg(c)[2] = j[1])
    BY <1>2, <2>1 DEF OnlyRemoves
  <2>3. Is(d, p, "remove", j[1])' /\ Planned(d, p)' = Planned(d, p)
    BY <2>1, <2>2, IsKept
  <2> QED
    BY <2>1, <2>3 DEF RemovalAt, Is
<1> QED
  BY <1>1, <1>3, <1>4, RemovingIs, RemovingIsAfter

\* Whether an entry of the name cache refers to a vnode.
LEMMA NameRefsIs ==
  ASSUME NEW k \in Vnodes \X Names, NEW u
  PROVE  /\ k \in NameRefs(u) <=> namecache[k] = u /\ ~Removing(k)
         /\ k \in NameRefs(u)' <=> namecache'[k] = u /\ ~Removing(k)'
BY DEF NameRefs

\* How the references of names change with one entry.
LEMMA NameDelta ==
  ASSUME TodoType, NEW c \in Clients, NEW l \in Seq(Steps), Became(c, l),
         NEW k \in Vnodes \X Names, OnlyRemoves(c, l, k),
         \A j \in Vnodes \X Names : j # k => namecache'[j] = namecache[j], NEW u \in Vnodes,
         NEW a \in {0, 1}, k \in NameRefs(u) <=> a = 1, NEW b \in {0, 1}, k \in NameRefs(u)' <=> b = 1
  PROVE  MoreNames(u, b - a)
<1>1. \A j \in Vnodes \X Names : j # k => (Removing(j)' <=> Removing(j))
  BY RemovingOther
<1>3. PICK S : S = NameRefs(u)
  OBVIOUS
<1>4. PICK T : T = NameRefs(u)'
  OBVIOUS
<1>5. S \ {k} = T \ {k}
  <2>1. \A j \in Vnodes \X Names : j # k => (j \in S <=> j \in T)
    BY <1>1, <1>3, <1>4, NameRefsIs
  <2>2. S \subseteq Vnodes \X Names /\ T \subseteq Vnodes \X Names
    BY <1>3, <1>4 DEF NameRefs
  <2> QED
    BY <2>1, <2>2
<1>6. IsFiniteSet(S)
  BY <1>3, FiniteRefs
<1>7. Cardinality(S) \in Nat /\ Cardinality(T) = Cardinality(S) - Bit(k \in S) + Bit(k \in T)
  BY ONLY <1>5, <1>6, OneElement
<1>8. Bit(k \in S) = a /\ Bit(k \in T) = b
  BY <1>3, <1>4 DEF Bit
<1>9. Cardinality(T) = Cardinality(S) + (b - a)
  BY <1>7, <1>8
<1> QED
  BY <1>3, <1>4, <1>9 DEF MoreNames

\* A step on the name cache.
LEMMA NameStep ==
  ASSUME VfsInv, NEW c \in Clients, NEW l \in Seq(Steps), Became(c, l),
         \A i \in 1 .. Len(l) : l[i][1] \notin FsSteps,
         todo[c] # <<>> => Arg(c)[1] \notin FsSteps, NoStep(c, l, "parent"),
         RefType', StepsSound', NoFault',
         UNCHANGED <<vfs, leftover, mount_table, vnode_table>>, UNCHANGED held, ParentsUnchanged,
         \A u \in Vnodes : \E ds, dn, dl, dc :
            MoreSteps(c, l, u, ds) /\ MoreNames(u, dn) /\ MoreLost(u, dl) /\ MoreCount(u, dc) /\ dc = ds + dn + dl
  PROVE  VfsInv'
<1>1. TodoType /\ FsInv
  BY InvParts
<1>2. ASSUME NEW u \in Vnodes PROVE Balanced(u)'
  <2>1. PICK ds, dn, dl, dc :
           MoreSteps(c, l, u, ds) /\ MoreNames(u, dn) /\ MoreLost(u, dl) /\ MoreCount(u, dc) /\ dc = ds + dn + dl
    OBVIOUS
  <2>2. UNCHANGED vfs /\ UNCHANGED vnode_table
    OBVIOUS
  <2>3. NoStep(c, l, "mount") /\ NoStep(c, l, "release")
    BY DEF NoStep, FsSteps
  <2>4. MoreHeld(u, 0) /\ MoreTable(u, 0)
    BY <2>2, NoMoreHeld, NoMoreTable
  <2>5. MoreParents(u, 0) /\ MoreMounts(u, 0)
    BY <1>1, <2>2, <2>3, NoMoreParents, NoMoreMounts
  <2>6. ds \in Int /\ dn \in Int /\ dl \in Int /\ dc \in Int
    BY <2>1 DEF MoreSteps, MoreNames, MoreLost, MoreCount
  <2>7. dc = 0 + ds + 0 + dn + 0 + 0 + dl
    BY <2>1, <2>6
  <2>8. MoreSteps(c, l, u, ds) /\ MoreNames(u, dn) /\ MoreLost(u, dl) /\ MoreCount(u, dc)
    BY <2>1
  <2> QED
    BY <2>4, <2>5, <2>7, <2>8, Books
<1>3. FsInv'
  BY <1>1, FsNothing
<1> QED
  BY <1>2, <1>3, Conclude

\* namecache_enter keeps the invariant: its reference goes with the next step.
LEMMA EnterCallKept ==
  ASSUME VfsInv, NEW c \in Clients, Idle(c), NEW d \in Vnodes, NEW n \in Names, NEW v \in Vnodes,
         namecache_enter(c, d, n, v)
  PROVE  VfsInv'
<1>1. TodoType /\ RefType /\ VnodesSound /\ FreedOnce /\ ParentsHeld /\ NamesLocked /\ EnterAlone
  BY InvParts
<1>2. todo[c] = <<>> /\ fault = NULL
  BY DEF Idle
<1>3. /\ UNCHANGED held /\ UNCHANGED <<vfs, leftover, mount_table, vnode_table>> /\ UNCHANGED namecache
      /\ UNCHANGED lost /\ spin' = spin /\ fault' = fault /\ held[c][v] > 0 /\ vn' = vnode_ref(vn, v)
  BY DEF namecache_enter, tables, EntryRef
<1>4. PICK s \in Steps : s = <<"enter", d, n, v>>
  BY StepsMade
<1>5. s[1] = "enter" /\ s[4] = v
  BY <1>4
<1>6. Call(c, <<s>>)
  BY <1>4 DEF namecache_enter
<1>7. PICK l \in Seq(Steps) : Call(c, l) /\ Became(c, l) /\ Len(l) = 1 /\ l[1] = s
  BY <1>1, <1>2, <1>6, CallOne
<1>8. \A i \in 1 .. Len(l) : l[i][1] = "enter"
  BY <1>5, <1>7
<1>9. vn[v].count > 0 /\ vn[v].alloc /\ ~vn[v].freeing
  BY <1>3, Positive
<1>10. vn' \in [Vnodes -> VnodeType] /\ ParentsUnchanged /\ CountsUp
  BY <1>1, <1>3, <1>9, VnodeRef DEF RefType
<1>11. RefType' /\ HeldKept(c)
  BY <1>1, <1>3, <1>10, HeldSame DEF RefType
<1>12. EnterAlone'
  <2>1. ASSUME NEW e \in Clients, NEW p \in Slots(e)', Planned(e, p)'[1] = "enter"
        PROVE  Len(todo'[e]) = 1
    <3>1. CASE e = c
      <4>1. todo'[c] = l
        BY <1>1, <1>7 DEF Call, TodoType
      <4> QED
        BY <1>7, <3>1, <4>1
    <3>2. CASE e # c
      <4>1. todo'[e] = todo[e]
        BY <1>1, <1>7, <3>2 DEF Call, TodoType
      <4>2. p \in Slots(e) /\ Planned(e, p)' = Planned(e, p)
        BY <2>1, <4>1 DEF Slots, Planned
      <4> QED
        BY <1>1, <2>1, <4>1, <4>2 DEF EnterAlone
    <3> QED
      BY <3>1, <3>2
  <2> QED
    BY <2>1 DEF EnterAlone
<1>13. StepsSound'
  <2>1. VnodesSound'
    BY <1>1, <1>10, VnodesKept
  <2>2. FreedOnce'
    <3>1. \A i \in 1 .. Len(l) : l[i][1] \notin {"last", "slab"}
      BY <1>8
    <3> QED
      BY <1>1, <1>7, <1>10, <3>1, LastKept
  <2>3. ParentsHeld'
    <3>1. \A i \in 1 .. Len(l) : l[i][1] # "parent"
      BY <1>8
    <3> QED
      BY <1>1, <1>7, <1>11, <3>1, ParentsKept
  <2>4. NamesLocked'
    <3>1. \A i \in 1 .. Len(l) : l[i][1] \notin {"remove", "uncache", "unlock"}
      BY <1>8
    <3> QED
      BY <1>1, <1>3, <1>7, <3>1, NamesKept
  <2> QED
    BY <1>12, <2>1, <2>2, <2>3, <2>4 DEF StepsSound
<1>14. ASSUME NEW u \in Vnodes
       PROVE \E ds, dn, dl, dc :
            MoreSteps(c, l, u, ds) /\ MoreNames(u, dn) /\ MoreLost(u, dl) /\ MoreCount(u, dc) /\ dc = ds + dn + dl
  <2>1. PICK b \in {0, 1} : b = Bit(u = v)
    BY DEF Bit
  <2>2. HeadCarried(c, u) = 0
    BY <1>2, IdleCarries
  <2>3. Carried(l[1], u) = b
    <3>1. Carried(s, u) = Bit(s[4] = u)
      BY <1>5, CarriedIs
    <3> QED
      BY <1>5, <1>7, <2>1, <3>1 DEF Bit
  <2>4. MoreSteps(c, l, u, b - 0)
    BY <1>7, <2>2, <2>3, OneNewStep
  <2>5. MoreNames(u, 0)
    <3>1. NoStep(c, l, "remove")
      BY <1>2, <1>8 DEF NoStep
    <3> QED
      BY <1>1, <1>3, <1>7, <3>1, NoMoreNames
  <2>6. MoreLost(u, 0)
    BY <1>3, NoMoreLost
  <2>7. MoreCount(u, b)
    BY <1>3, <1>9, <2>1, OneMoreCount
  <2>8. b = (b - 0) + 0 + 0
    OBVIOUS
  <2> QED
    BY <2>4, <2>5, <2>6, <2>7, <2>8
<1>15. \A i \in 1 .. Len(l) : l[i][1] \notin FsSteps
  BY <1>8 DEF FsSteps
<1>16. todo[c] # <<>> => Arg(c)[1] \notin FsSteps
  BY <1>2
<1>17. NoStep(c, l, "parent")
  BY <1>2, <1>8 DEF NoStep
<1>18. NoFault'
  BY <1>2, <1>3 DEF NoFault
<1> QED
  BY <1>3, <1>7, <1>10, <1>11, <1>13, <1>14, <1>15, <1>16, <1>17, <1>18, NameStep

\* Whoever enters a name does so while nobody removes one.
LEMMA EnterExcludes ==
  ASSUME VfsInv, NEW c \in Clients, At(c, "enter"), NEW k
  PROVE  ~Removing(k)
<1>1. TodoType /\ NamesLocked /\ EnterAlone
  BY InvParts
<1>2. spin \in {NULL, c}
  BY DEF At
<1>3. todo[c] # <<>> /\ Arg(c)[1] = "enter" /\ Planned(c, Base(c) + 1) = Arg(c)
  BY <1>1, AtHead
<1>4. Base(c) + 1 \in Slots(c) /\ Base(c) \in Nat /\ Slots(c) = 1 .. Base(c) + 1
  BY <1>1, <1>3, HeadPlanned
<1>5. Len(todo[c]) = 1
  BY <1>1, <1>3, <1>4 DEF EnterAlone
<1>6. Slots(c) = 1 .. 1
  BY <1>5 DEF Slots
<1>7. ASSUME NEW d \in Clients, NEW p, RemovalAt(d, p, k) PROVE FALSE
  <2>1. p \in Slots(d) /\ Planned(d, p)[1] = "remove"
    BY <1>7 DEF RemovalAt
  <2>2. spin = d
    BY <1>1, <2>1 DEF NamesLocked
  <2>3. d = c
    BY <1>2, <2>2, NullAssumption
  <2>4. p = Base(c) + 1
    BY <1>4, <1>6, <2>1, <2>3
  <2> QED
    BY <1>3, <2>1, <2>3, <2>4
<1> QED
  BY <1>1, <1>7, RemovingIs

\* A name is entered: the entry gets the reference, and an old one is lost.
LEMMA EnterDone ==
  ASSUME VfsInv, NEW c \in Clients, At(c, "enter"), NEW k \in Vnodes \X Names, NEW v \in Vnodes, v = Arg(c)[4],
         NEW old \in Vnodes \cup {NULL}, old = namecache[k],
         NEW l \in Seq(Steps), Became(c, l), Len(l) = 0,
         namecache' = [namecache EXCEPT ![k] = v],
         old = NULL => lost' = lost, old # NULL => lost' = [lost EXCEPT ![old] = @ + 1],
         UNCHANGED <<vn, vnode_table, mount_table, vfs, leftover, held, spin, fault>>
  PROVE  VfsInv'
<1>1. TodoType /\ RefType /\ StepsSound
  BY InvParts
<1>2. /\ UNCHANGED held /\ UNCHANGED <<vfs, leftover, mount_table, vnode_table>> /\ UNCHANGED vn
      /\ spin' = spin /\ fault' = fault
  OBVIOUS
<1>3. todo[c] # <<>> /\ Arg(c)[1] = "enter" /\ fault = NULL
  BY <1>1, AtHead DEF At
<1>4. RefType' /\ ParentsUnchanged /\ CountsUp /\ HeldKept(c)
  <2>1. lost' \in [Vnodes -> Nat]
    BY <1>1, LostType DEF RefType
  <2>2. namecache' \in [Vnodes \X Names -> Vnodes \cup {NULL}]
    BY <1>1 DEF RefType
  <2> QED
    BY <1>1, <1>2, <2>1, <2>2, SameCounts, HeldSame DEF RefType
<1>5. StepsSound'
  <2>1. \A i \in 1 .. Len(l) : l[i][1] \notin TrackedSteps
    OBVIOUS
  <2> QED
    BY <1>1, <1>2, <1>4, <2>1, StepsPlain
<1>6. NoStep(c, l, "parent") /\ NoStep(c, l, "remove") /\ OnlyRemoves(c, l, k)
  BY <1>3 DEF NoStep, OnlyRemoves
<1>7. ~Removing(k) /\ ~Removing(k)'
  BY <1>1, <1>6, EnterExcludes, RemovingKept
<1>8. \A j \in Vnodes \X Names : j # k => namecache'[j] = namecache[j]
  BY <1>1 DEF RefType
<1>9. namecache'[k] = v
  BY <1>1 DEF RefType
<1>10. ASSUME NEW u \in Vnodes
       PROVE \E ds, dn, dl, dc :
            MoreSteps(c, l, u, ds) /\ MoreNames(u, dn) /\ MoreLost(u, dl) /\ MoreCount(u, dc) /\ dc = ds + dn + dl
  <2>1. PICK b \in {0, 1} : b = Bit(u = v)
    BY DEF Bit
  <2>2. PICK a \in {0, 1} : a = Bit(u = old)
    BY DEF Bit
  <2>3. HeadCarried(c, u) = b
    <3>1. HeadCarried(c, u) = Bit(Arg(c)[4] = u)
      BY <1>1, <1>3, HeadCarries
    <3> QED
      BY <2>1, <3>1 DEF Bit
  <2>4. MoreSteps(c, l, u, - b)
    <3>1. b \in Nat /\ Len(l) = 0
      OBVIOUS
    <3> QED
      BY ONLY c \in Clients, l \in Seq(Steps), u \in Vnodes, <2>3, <3>1, NoNewSteps
  <2>5. k \in NameRefs(u) <=> a = 1
    BY <1>7, <2>2, NameRefsIs DEF Bit
  <2>6. k \in NameRefs(u)' <=> b = 1
    BY <1>7, <1>9, <2>1, NameRefsIs DEF Bit
  <2>7. MoreNames(u, b - a)
    BY <1>1, <1>6, <1>8, <2>5, <2>6, NameDelta
  <2>8. MoreLost(u, a)
    <3>1. CASE old = NULL
      <4>1. a = 0
        BY <2>2, <3>1, NotNull DEF Bit
      <4>2. MoreLost(u, 0)
        BY <3>1, NoMoreLost
      <4> QED
        BY <4>1, <4>2
    <3>2. CASE old # NULL
      <4>1. old \in Vnodes
        BY <3>2
      <4>2. lost' = [lost EXCEPT ![old] = @ + 1]
        BY <3>2
      <4>3. MoreLost(u, Bit(u = old))
        BY ONLY VfsInv, <4>1, <4>2, u \in Vnodes, OneMoreLost
      <4> QED
        BY <2>2, <4>3
    <3> QED
      BY <3>1, <3>2
  <2>9. MoreCount(u, 0)
    BY <1>2, NoMoreCount
  <2>10. 0 = (- b) + (b - a) + a
    OBVIOUS
  <2> QED
    BY <2>4, <2>7, <2>8, <2>9, <2>10
<1>11. \A i \in 1 .. Len(l) : l[i][1] \notin FsSteps
  OBVIOUS
<1>12. todo[c] # <<>> => Arg(c)[1] \notin FsSteps
  BY <1>3 DEF FsSteps
<1>13. NoFault'
  BY <1>2, <1>3 DEF NoFault
<1> QED
  BY <1>2, <1>4, <1>5, <1>6, <1>10, <1>11, <1>12, <1>13, NameStep

\* No memory for the entry: the reference will be dropped.
LEMMA EnterFailed ==
  ASSUME VfsInv, NEW c \in Clients, At(c, "enter"), NEW v \in Vnodes, v = Arg(c)[4], Then(c, Unrefs(v)),
         UNCHANGED <<vn, vnode_table, mount_table, namecache, vfs, leftover, held, lost, spin, fault>>
  PROVE  VfsInv'
<1>1. TodoType /\ RefType /\ FsInv
  BY InvParts
<1>2. todo[c] # <<>> /\ Arg(c)[1] = "enter" /\ fault = NULL
  BY <1>1, AtHead DEF At
<1>3. PICK l \in Seq(Steps) : l = Unrefs(v)
  BY UnrefsList
<1>4. Became(c, l)
  <2>1. Then(c, l)
    BY <1>3
  <2> QED
    BY <1>1, <1>2, <2>1, ThenBecame
<1>5. \A i \in 1 .. Len(l) : l[i][1] = "unref"
  <2>1. \A i \in 1 .. Len(l) : l[i] = <<"unref", v>>
    BY <1>3, UnrefsList
  <2> QED
    BY <2>1
<1>6. FsInv'
  <2>1. \A i \in 1 .. Len(l) : l[i][1] \notin FsSteps
    BY <1>5 DEF FsSteps
  <2>2. todo[c] # <<>> => Arg(c)[1] \notin FsSteps
    BY <1>2 DEF FsSteps
  <2>3. UNCHANGED <<vfs, leftover, mount_table, vnode_table>>
    OBVIOUS
  <2> QED
    BY <1>1, <1>4, <2>1, <2>2, <2>3, FsNothing
<1>7. /\ UNCHANGED <<vn, held, lost, spin, namecache>> /\ UNCHANGED vnode_table
      /\ UNCHANGED <<namecache, vfs>> /\ spin' = spin
  OBVIOUS
<1>8. /\ RefType' /\ ParentsUnchanged /\ CountsUp /\ HeldKept(c)
      /\ \A u \in Vnodes : MoreHeld(u, 0) /\ MoreLost(u, 0) /\ MoreCount(u, 0)
  BY <1>7, SameRefs
<1>9. ASSUME NEW u \in Vnodes
      PROVE  \E dh, ds, dt, dl, dc :
            /\ MoreHeld(u, dh) /\ MoreSteps(c, l, u, ds) /\ MoreTable(u, dt) /\ MoreLost(u, dl)
            /\ MoreCount(u, dc) /\ dc = dh + ds + dt + dl
  <2>1. PICK b \in {0, 1} : b = Bit(u = v)
    BY DEF Bit
  <2>2. HeadCarried(c, u) = b
    <3>1. HeadCarried(c, u) = Bit(Arg(c)[4] = u)
      BY <1>1, <1>2, HeadCarries
    <3> QED
      BY <2>1, <3>1 DEF Bit
  <2>3. b \in Nat
    OBVIOUS
  <2>4. MoreSteps(c, l, u, Bit(u = v) - b)
    BY ONLY c \in Clients, v \in Vnodes, u \in Vnodes, <1>3, <2>2, <2>3, UnrefSteps
  <2>5. MoreSteps(c, l, u, b - b)
    BY <2>1, <2>4
  <2>6. MoreTable(u, 0)
    BY <1>7, NoMoreTable
  <2>7. 0 = 0 + (b - b) + 0 + 0
    OBVIOUS
  <2> QED
    BY <1>8, <2>5, <2>6, <2>7
<1>10. \A i \in 1 .. Len(l) : l[i][1] \notin TrackedSteps \cup {"mount", "release"}
  BY <1>5 DEF TrackedSteps
<1>11. todo[c] # <<>> => Arg(c)[1] \notin {"remove", "parent", "mount", "release"}
  BY <1>2
<1>12. NoFault'
  BY <1>2 DEF NoFault
<1> QED
  BY <1>4, <1>6, <1>7, <1>8, <1>9, <1>10, <1>11, <1>12, PlainStep

\* Enter keeps the invariant.
LEMMA EnterStepKept ==
  ASSUME VfsInv, NEW c \in Clients, Enter(c)
  PROVE  VfsInv'
<1>1. TodoType /\ RefType
  BY InvParts
<1>2. At(c, "enter") /\ UNCHANGED <<vn, vnode_table, mount_table, vfs, leftover, held, spin, fault>>
  BY DEF Enter
<1>3. todo[c] # <<>> /\ Arg(c) \in Steps /\ Arg(c)[1] = "enter" /\ StepFields(Arg(c))
  BY <1>1, <1>2, AtHead
<1>4. Arg(c)[2] \in Vnodes /\ Arg(c)[3] \in Names /\ Arg(c)[4] \in Vnodes
  BY <1>3 DEF StepFields
<1>5. PICK k \in Vnodes \X Names : k = <<Arg(c)[2], Arg(c)[3]>>
  BY <1>4
<1>6. PICK v \in Vnodes : v = Arg(c)[4]
  BY <1>4
<1>7. PICK old \in Vnodes \cup {NULL} : old = namecache[k]
  BY <1>1 DEF RefType
<1>8. \/ /\ namecache' = [namecache EXCEPT ![k] = v]
         /\ lost' = IF old = NULL THEN lost ELSE [lost EXCEPT ![old] = @ + 1]
         /\ Then(c, << >>)
      \/ Then(c, Unrefs(v)) /\ UNCHANGED <<namecache, lost>>
  BY <1>5, <1>6, <1>7 DEF Enter
<1>9. CASE /\ namecache' = [namecache EXCEPT ![k] = v]
           /\ lost' = IF old = NULL THEN lost ELSE [lost EXCEPT ![old] = @ + 1]
           /\ Then(c, << >>)
  <2>1. PICK l \in Seq(Steps) : Became(c, l) /\ Len(l) = 0
    BY <1>1, <1>3, <1>9, ThenNone
  <2>2. namecache' = [namecache EXCEPT ![k] = v]
    BY <1>9
  <2>3. old = NULL => lost' = lost
    BY <1>9
  <2>4. old # NULL => lost' = [lost EXCEPT ![old] = @ + 1]
    BY <1>9
  <2> QED
    BY <1>2, <1>6, <1>7, <2>1, <2>2, <2>3, <2>4, EnterDone
<1>10. CASE Then(c, Unrefs(v)) /\ UNCHANGED <<namecache, lost>>
  <2>1. UNCHANGED <<vn, vnode_table, mount_table, namecache, vfs, leftover, held, lost, spin, fault>>
    BY <1>2, <1>10
  <2> QED
    BY <1>2, <1>6, <1>10, <2>1, EnterFailed
<1> QED
  BY <1>8, <1>9, <1>10

\* RemoveName keeps the invariant: the entry has no reference any more.
LEMMA RemoveNameKept ==
  ASSUME VfsInv, NEW c \in Clients, RemoveName(c)
  PROVE  VfsInv'
<1>1. TodoType /\ RefType /\ StepsSound
  BY InvParts
<1>2. /\ At(c, "remove") /\ Then(c, << >>) /\ UNCHANGED held /\ UNCHANGED vn /\ UNCHANGED lost
      /\ UNCHANGED <<vfs, leftover, mount_table, vnode_table>> /\ spin' = spin /\ fault' = fault /\ fault = NULL
  BY DEF RemoveName, At
<1>3. todo[c] # <<>> /\ Arg(c) \in Steps /\ Arg(c)[1] = "remove" /\ StepFields(Arg(c)) /\ Planned(c, Base(c) + 1) = Arg(c)
  BY <1>1, <1>2, AtHead
<1>4. Arg(c)[2] \in Vnodes /\ Arg(c)[3] \in Names /\ Base(c) + 1 \in Slots(c)
  BY <1>1, <1>3, HeadPlanned DEF StepFields
<1>5. PICK k \in Vnodes \X Names : k = <<Arg(c)[2], Arg(c)[3]>>
  BY <1>4
<1>6. namecache' = [namecache EXCEPT ![k] = NULL]
  BY <1>5 DEF RemoveName
<1>7. PICK l \in Seq(Steps) : Became(c, l) /\ Len(l) = 0
  BY <1>1, <1>2, <1>3, ThenNone
<1>8. RefType' /\ ParentsUnchanged /\ CountsUp /\ HeldKept(c)
  <2>1. namecache' \in [Vnodes \X Names -> Vnodes \cup {NULL}]
    BY <1>1, <1>6 DEF RefType
  <2> QED
    BY <1>1, <1>2, <2>1, SameCounts, HeldSame DEF RefType
<1>9. StepsSound'
  <2>1. \A i \in 1 .. Len(l) : l[i][1] \notin TrackedSteps
    BY <1>7
  <2> QED
    BY <1>1, <1>2, <1>7, <1>8, <2>1, StepsPlain
<1>10. NoStep(c, l, "parent") /\ OnlyRemoves(c, l, k)
  <2>1. k[1] = Arg(c)[2] /\ k[2] = Arg(c)[3]
    BY <1>5
  <2> QED
    BY <1>3, <1>7, <2>1 DEF NoStep, OnlyRemoves
<1>11. Removing(k)
  <2>1. RemovalAt(c, Base(c) + 1, k)
    BY <1>3, <1>4, <1>5 DEF RemovalAt
  <2> QED
    BY <1>1, <2>1, RemovingIs
<1>12. \A j \in Vnodes \X Names : j # k => namecache'[j] = namecache[j]
  BY <1>1, <1>6 DEF RefType
<1>13. namecache'[k] = NULL
  BY <1>1, <1>6 DEF RefType
<1>14. ASSUME NEW u \in Vnodes
       PROVE \E ds, dn, dl, dc :
            MoreSteps(c, l, u, ds) /\ MoreNames(u, dn) /\ MoreLost(u, dl) /\ MoreCount(u, dc) /\ dc = ds + dn + dl
  <2>1. HeadCarried(c, u) = 0
    BY <1>1, <1>3, HeadCarries
  <2>2. MoreSteps(c, l, u, - 0)
    BY <1>7, <2>1, NoNewSteps
  <2>3. 0 \in {0, 1} /\ (k \in NameRefs(u) <=> 0 = 1)
    BY <1>11, NameRefsIs
  <2>4. k \in NameRefs(u)' <=> 0 = 1
    BY <1>13, NotNull, NameRefsIs
  <2>5. MoreNames(u, 0 - 0)
    BY <1>1, <1>7, <1>10, <1>12, <2>3, <2>4, NameDelta
  <2>6. MoreLost(u, 0)
    BY <1>2, NoMoreLost
  <2>7. MoreCount(u, 0)
    BY <1>2, NoMoreCount
  <2>8. 0 = (- 0) + (0 - 0) + 0
    OBVIOUS
  <2> QED
    BY <2>2, <2>5, <2>6, <2>7, <2>8
<1>15. \A i \in 1 .. Len(l) : l[i][1] \notin FsSteps
  BY <1>7
<1>16. todo[c] # <<>> => Arg(c)[1] \notin FsSteps
  BY <1>3 DEF FsSteps
<1>17. NoFault'
  BY <1>2 DEF NoFault
<1> QED
  BY <1>2, <1>7, <1>8, <1>9, <1>10, <1>14, <1>15, <1>16, <1>17, NameStep

\* A removal starts: the entry's reference becomes the client's to drop.
LEMMA RemovalKept ==
  ASSUME VfsInv, NEW c \in Clients, todo[c] # <<>> => Arg(c)[1] = "uncache",
         NEW k \in Vnodes \X Names, NEW x \in Vnodes, x = namecache[k], ~Removing(k),
         NEW r \in Steps, r[1] = "remove", r[2] = k[1], r[3] = k[2],
         NEW t \in Steps, t[1] \in {"unlock", "uncache"},
         NEW m \in Seq(Steps), Len(m) = 2, m[1] = r, m[2] = t,
         NEW l \in Seq(Steps), DropThen(l, x, m), Became(c, l), NamesLocked', spin' \in Clients,
         UNCHANGED <<vn, tables, held, lost>>, NoFault'
  PROVE  VfsInv'
<1>1. TodoType /\ RefType
  BY InvParts
<1>2. /\ UNCHANGED held /\ UNCHANGED vn /\ UNCHANGED lost /\ UNCHANGED namecache
      /\ UNCHANGED <<vfs, leftover, mount_table, vnode_table>>
  BY DEF tables
<1>3. LinedUp(l, x, m)
  BY UnrefThen
<1>4. \A i \in 1 .. Len(l) : l[i][1] \in {"unref", "remove", "unlock", "uncache"} /\ (l[i][1] = "remove" => l[i] = r)
  <2>1. \A i \in 1 .. Len(l) : l[i] = <<"unref", x>> \/ \E j \in 1 .. Len(m) : l[i] = m[j]
    BY <1>3 DEF LinedUp
  <2>2. \A j \in 1 .. Len(m) : m[j] = r \/ m[j] = t
    OBVIOUS
  <2> QED
    BY <2>1, <2>2
<1>5. RefType' /\ ParentsUnchanged /\ CountsUp /\ HeldKept(c)
  BY <1>1, <1>2, SameCounts, HeldSame DEF RefType
<1>6. StepsSound'
  <2>1. \A i \in 1 .. Len(l) : l[i][1] \notin {"last", "slab", "parent", "enter"}
    BY <1>4
  <2> QED
    BY <1>5, <2>1, SoundButNames
<1>7. NoStep(c, l, "parent") /\ OnlyRemoves(c, l, k)
  BY <1>4 DEF NoStep, OnlyRemoves
<1>8. Removing(k)'
  <2>1. 1 \in 1 .. Len(m)
    OBVIOUS
  <2>2. PICK p \in Slots(c)' : Planned(c, p)' = m[1]
    BY <1>1, <2>1, NewItem
  <2>3. RemovalAt(c, p, k)'
    BY <2>2 DEF RemovalAt
  <2>4. TodoType'
    BY <1>1, ItemsAfter
  <2> QED
    BY <2>3, <2>4, RemovingIsAfter
<1>9. \A j \in Vnodes \X Names : j # k => namecache'[j] = namecache[j]
  BY <1>2
<1>10. ASSUME NEW u \in Vnodes
       PROVE \E ds, dn, dl, dc :
            MoreSteps(c, l, u, ds) /\ MoreNames(u, dn) /\ MoreLost(u, dl) /\ MoreCount(u, dc) /\ dc = ds + dn + dl
  <2>1. PICK b \in {0, 1} : b = Bit(u = x)
    BY DEF Bit
  <2>2. HeadCarried(c, u) = 0
    <3>1. CASE todo[c] = <<>>
      BY <3>1, IdleCarries
    <3>2. CASE todo[c] # <<>>
      <4>1. Arg(c)[1] = "uncache"
        BY <3>2
      <4> QED
        BY <1>1, <3>2, <4>1, HeadCarries
    <3> QED
      BY <3>1, <3>2
  <2>3. MoreSteps(c, l, u, b)
    <3>1. \A i \in 1 .. Len(m) : m[i][1] \notin {"unref", "enter", "recheck", "insert"}
      OBVIOUS
    <3>2. MoreSteps(c, l, u, Bit(u = x))
      BY <2>2, <3>1, UnrefThenSteps
    <3> QED
      BY <2>1, <3>2
  <2>4. k \in NameRefs(u) <=> b = 1
    BY <2>1, NameRefsIs DEF Bit
  <2>5. 0 \in {0, 1} /\ (k \in NameRefs(u)' <=> 0 = 1)
    BY <1>8, NameRefsIs
  <2>6. MoreNames(u, 0 - b)
    BY <1>1, <1>7, <1>9, <2>4, <2>5, NameDelta
  <2>7. MoreLost(u, 0)
    BY <1>2, NoMoreLost
  <2>8. MoreCount(u, 0)
    BY <1>2, NoMoreCount
  <2>9. 0 = b + (0 - b) + 0
    OBVIOUS
  <2> QED
    BY <2>3, <2>6, <2>7, <2>8, <2>9
<1>11. \A i \in 1 .. Len(l) : l[i][1] \notin FsSteps
  BY <1>4 DEF FsSteps
<1>12. todo[c] # <<>> => Arg(c)[1] \notin FsSteps
  BY DEF FsSteps
<1> QED
  BY <1>2, <1>5, <1>6, <1>7, <1>10, <1>11, <1>12, NameStep

\* An idle client begins a locked section that ends with the release of the lock.
LEMMA LockTaken ==
  ASSUME VfsInv, NEW c \in Clients, todo[c] = <<>>, spin = NULL, spin' = c,
         NEW r \in Steps, r[1] \in {"remove", "uncache"}, NEW t \in Steps, t[1] = "unlock",
         NEW m \in Seq(Steps), Len(m) = 2, m[1] = r, m[2] = t,
         NEW x \in Vnodes \cup {NULL}, NEW l, DropThen(l, x, m), Became(c, l)
  PROVE  NamesLocked'
<1>1. TodoType
  BY InvParts
<1>2. Base(c) = 0
  BY <1>1, RestType
<1>3. \A e \in Clients : \A q \in Slots(e) : Planned(e, q)[1] \notin {"remove", "uncache"}
  BY NothingRemoved
<1>4. ASSUME NEW d \in Clients, NEW p \in Slots(d)'
      PROVE  \/ d # c /\ Planned(d, p)'[1] \notin {"remove", "uncache"}
             \/ d = c /\ Planned(d, p)'[1] = "unref"
             \/ d = c /\ p = 2 /\ Planned(d, p)' = r
             \/ d = c /\ p = 1 /\ Planned(d, p)' = t
  <2>1. \/ (d # c \/ p <= Base(c)) /\ p \in Slots(d) /\ Planned(d, p)' = Planned(d, p)
        \/ d = c /\ Planned(d, p)' = <<"unref", x>> /\ x \in Vnodes
        \/ d = c /\ \E j \in 1 .. Len(m) : p = Base(c) + Len(m) + 1 - j /\ Planned(d, p)' = m[j]
    BY ONLY <1>1, c \in Clients, x \in Vnodes \cup {NULL}, m \in Seq(Steps), DropThen(l, x, m), Became(c, l),
            d \in Clients, p \in Slots(d)', TailItems
  <2>2. CASE (d # c \/ p <= Base(c)) /\ p \in Slots(d) /\ Planned(d, p)' = Planned(d, p)
    <3>1. d # c
      BY <1>2, <2>2 DEF Slots
    <3> QED
      BY <1>3, <2>2, <3>1
  <2>3. CASE d = c /\ Planned(d, p)' = <<"unref", x>> /\ x \in Vnodes
    BY <2>3
  <2>4. ASSUME d = c, NEW j \in 1 .. Len(m), p = Base(c) + Len(m) + 1 - j, Planned(d, p)' = m[j]
        PROVE  (p = 2 /\ Planned(d, p)' = r) \/ (p = 1 /\ Planned(d, p)' = t)
    BY <1>2, <2>4
  <2> QED
    BY <2>1, <2>2, <2>3, <2>4
<1>5. ASSUME NEW d \in Clients, NEW p \in Slots(d)'
      PROVE  /\ Planned(d, p)'[1] \in {"remove", "uncache"} => d = c /\ p = 2 /\ Planned(d, p)' = r
             /\ d = c /\ Planned(d, p)'[1] = "unlock" => p = 1
  BY <1>4
<1>6. ASSUME NEW d \in Clients, NEW p \in Slots(d)'
      PROVE  /\ Planned(d, p)'[1] \in {"remove", "uncache"} => spin' = d
             /\ Planned(d, p)'[1] = "unlock" =>
                  \A q \in Slots(d)' : Planned(d, q)'[1] \in {"remove", "uncache"} => q > p
             /\ Planned(d, p)'[1] = "uncache" =>
                  \A q \in Slots(d)' : Planned(d, q)'[1] = "remove" => q > p
  <2>1. Planned(d, p)'[1] \in {"remove", "uncache"} => spin' = d
    BY <1>5
  <2>2. ASSUME Planned(d, p)'[1] = "unlock", NEW q \in Slots(d)', Planned(d, q)'[1] \in {"remove", "uncache"}
        PROVE  q > p
    <3>1. d = c /\ q = 2
      BY <1>5, <2>2
    <3>2. p = 1
      BY <1>5, <2>2, <3>1
    <3> QED
      BY <3>1, <3>2
  <2>3. ASSUME Planned(d, p)'[1] = "uncache", NEW q \in Slots(d)', Planned(d, q)'[1] = "remove"
        PROVE  q > p
    <3>1. Planned(d, p)' = r /\ Planned(d, q)' = r
      BY <1>5, <2>3
    <3> QED
      BY <2>3, <3>1
  <2> QED
    BY <2>1, <2>2, <2>3
<1> QED
  BY <1>6 DEF NamesLocked

\* A removal and the step after it, as one list.
LEMMA JoinedLists ==
  ASSUME NEW x \in Vnodes \cup {NULL}, NEW r \in Steps, NEW t \in Steps
  PROVE  (Unrefs(x) \o <<r>>) \o <<t>> = Unrefs(x) \o Pair(r, t)
<1>1. PICK k \in Seq(Steps) : k = Unrefs(x)
  BY UnrefsList
<1>2. PICK a \in Seq(Steps) : a = Single(r) /\ Len(a) = 1 /\ a[1] = r
  BY ListOfOne
<1>3. PICK b \in Seq(Steps) : b = Single(t) /\ Len(b) = 1 /\ b[1] = t
  BY ListOfOne
<1>4. (k \o a) \o b = k \o (a \o b)
  BY ONLY k \in Seq(Steps), a \in Seq(Steps), b \in Seq(Steps), ConcatAssociative
<1>5. a \o b = Pair(r, t)
  <2>1. PICK p \in Seq(Steps) : p = Pair(r, t) /\ Len(p) = 2 /\ p[1] = r /\ p[2] = t
    BY ListOfTwo
  <2>2. /\ a \o b \in Seq(Steps) /\ Len(a \o b) = 1 + Len(b) /\ (a \o b)[1] = a[1]
        /\ \A i \in 1 .. Len(b) : (a \o b)[1 + i] = b[i]
    BY <1>2, ConcatOne
  <2>3. PICK q \in Seq(Steps) : q = a \o b
    BY <2>2
  <2>4. Len(q) = 2 /\ q[1] = r
    BY <1>2, <1>3, <2>2, <2>3
  <2>5. q[2] = t
    <3>1. 1 \in 1 .. Len(b)
      BY <1>3
    <3>2. q[1 + 1] = b[1]
      BY <2>2, <2>3, <3>1
    <3>3. 1 + 1 = 2
      OBVIOUS
    <3> QED
      BY <1>3, <3>2, <3>3
  <2>6. \A i \in 1 .. Len(p) : p[i] = q[i]
    BY <2>1, <2>4, <2>5
  <2>7a. Len(p) = Len(q)
    BY <2>1, <2>4
  <2>7. p = q
    BY ONLY p \in Seq(Steps), q \in Seq(Steps), <2>6, <2>7a, SeqEqual
  <2> QED
    BY <2>1, <2>3, <2>7
<1> QED
  BY <1>1, <1>2, <1>3, <1>4, <1>5 DEF Single

\* The step that removes key k.
LEMMA RemovalSteps ==
  ASSUME NEW k \in Vnodes \X Names
  PROVE  \E r \in Steps : r = <<"remove", k[1], k[2]>> /\ r[1] = "remove" /\ r[2] = k[1] /\ r[3] = k[2]
<1>1. k[1] \in Vnodes /\ k[2] \in Names
  OBVIOUS
<1>2. PICK r \in Steps : r = <<"remove", k[1], k[2]>>
  BY <1>1, StepsMade
<1> QED
  BY <1>2

\* namecache_remove keeps the invariant.
LEMMA RemoveCallKept ==
  ASSUME VfsInv, NEW c \in Clients, Idle(c), NEW d \in Vnodes, NEW n \in Names, namecache_remove(c, d, n)
  PROVE  VfsInv'
<1>1. TodoType /\ RefType
  BY InvParts
<1>2. todo[c] = <<>> /\ fault = NULL /\ spin = NULL
  BY DEF Idle
<1>3. PICK k \in Vnodes \X Names : k = make_namecache_key(d, n)
  BY DEF make_namecache_key
<1>4. PICK x \in Vnodes : x = namecache[k]
  BY <1>1, <1>3 DEF namecache_remove, RefType
<1>5. PICK r \in Steps : r = <<"remove", k[1], k[2]>> /\ r[1] = "remove" /\ r[2] = k[1] /\ r[3] = k[2]
  BY RemovalSteps
<1>6. PICK t \in Steps : t = <<"unlock">>
  BY StepsMade
<1>7. t[1] = "unlock"
  BY <1>6
<1>8. PICK m \in Seq(Steps) : m = Pair(r, t) /\ Len(m) = 2 /\ m[1] = r /\ m[2] = t
  BY ListOfTwo
<1>9. PICK l : DropThen(l, x, m)
  BY DEF DropThen
<1>10. LinedUp(l, x, m)
  BY <1>9, UnrefThen
<1>11. l \in Seq(Steps)
  BY <1>10 DEF LinedUp
<1>12. Call(c, l)
  <2>1. Call(c, (Unrefs(x) \o <<r>>) \o <<t>>)
    BY <1>3, <1>4, <1>5, <1>6 DEF namecache_remove, namecache_remove_locked
  <2>2. (Unrefs(x) \o <<r>>) \o <<t>> = l
    BY <1>8, <1>9, JoinedLists DEF DropThen
  <2> QED
    BY <2>1, <2>2
<1>13. Became(c, l)
  BY <1>1, <1>2, <1>11, <1>12, CallBecame
<1>14. spin' = c /\ UNCHANGED <<vn, tables, held, lost>> /\ fault' = fault
  BY DEF namecache_remove
<1>15. ~Removing(k)
  <2>1. \A e \in Clients : \A q \in Slots(e) : Planned(e, q)[1] \notin {"remove", "uncache"}
    BY <1>2, NothingRemoved
  <2> QED
    BY <1>1, <2>1, RemovingIs DEF RemovalAt
<1>16. NamesLocked'
  <2>1. r[1] \in {"remove", "uncache"}
    BY <1>5
  <2>2. Len(m) = 2 /\ m[1] = r /\ m[2] = t
    BY <1>8
  <2> QED
    BY <1>2, <1>7, <1>9, <1>13, <1>14, <2>1, <2>2, LockTaken
<1>17. NoFault' /\ spin' \in Clients
  BY <1>2, <1>14 DEF NoFault
<1>18. Len(m) = 2 /\ m[1] = r /\ m[2] = t /\ t[1] \in {"unlock", "uncache"}
  BY <1>7, <1>8
<1>19. r[1] = "remove" /\ r[2] = k[1] /\ r[3] = k[2]
  BY <1>5
<1> QED
  BY <1>2, <1>4, <1>9, <1>11, <1>13, <1>14, <1>15, <1>16, <1>17, <1>18, <1>19, RemovalKept

\* namecache_purge_vnode keeps the invariant.
LEMMA PurgeCallKept ==
  ASSUME VfsInv, NEW c \in Clients, Idle(c), NEW v \in Vnodes, namecache_purge_vnode(c, v)
  PROVE  VfsInv'
<1>1. TodoType /\ RefType
  BY InvParts
<1>2. todo[c] = <<>> /\ fault = NULL /\ spin = NULL
  BY DEF Idle
<1>3. PICK r \in Steps : r = <<"uncache", v>>
  BY StepsMade
<1>4. PICK t \in Steps : t = <<"unlock">>
  BY StepsMade
<1>5. r[1] = "uncache" /\ t[1] = "unlock"
  BY <1>3, <1>4
<1>6. PICK m \in Seq(Steps) : m = Pair(r, t) /\ Len(m) = 2 /\ m[1] = r /\ m[2] = t
  BY ListOfTwo
<1>7. Call(c, m)
  BY <1>3, <1>4, <1>6 DEF namecache_purge_vnode, Pair
<1>8. DropThen(m, NULL, m)
  BY ConcatEmptySeq DEF DropThen, Unrefs
<1>9. Became(c, m)
  BY <1>1, <1>2, <1>7, CallBecame
<1>10. /\ spin' = c /\ fault' = fault /\ UNCHANGED held /\ UNCHANGED vn /\ UNCHANGED lost /\ UNCHANGED namecache
       /\ UNCHANGED <<vfs, leftover, mount_table, vnode_table>>
  BY DEF namecache_purge_vnode, tables
<1>11. NamesLocked'
  <2>1. r[1] \in {"remove", "uncache"} /\ NULL \in Vnodes \cup {NULL}
    BY <1>5
  <2>2. Len(m) = 2 /\ m[1] = r /\ m[2] = t /\ t[1] = "unlock"
    BY <1>5, <1>6
  <2> QED
    BY <1>2, <1>8, <1>9, <1>10, <2>1, <2>2, LockTaken
<1>12. \A i \in 1 .. Len(m) : m[i][1] \in {"uncache", "unlock"}
  <2>1. \A i \in 1 .. Len(m) : m[i] = r \/ m[i] = t
    BY <1>6
  <2> QED
    BY <1>5, <2>1
<1>13. RefType' /\ ParentsUnchanged /\ CountsUp /\ HeldKept(c)
  BY <1>1, <1>10, SameCounts, HeldSame DEF RefType
<1>14. StepsSound'
  <2>1. \A i \in 1 .. Len(m) : m[i][1] \notin {"last", "slab", "parent", "enter"}
    BY <1>12
  <2> QED
    BY <1>9, <1>11, <1>13, <2>1, SoundButNames
<1>15. NoStep(c, m, "parent") /\ NoStep(c, m, "remove")
  BY <1>2, <1>12 DEF NoStep
<1>16. ASSUME NEW u \in Vnodes
       PROVE \E ds, dn, dl, dc :
            MoreSteps(c, m, u, ds) /\ MoreNames(u, dn) /\ MoreLost(u, dl) /\ MoreCount(u, dc) /\ dc = ds + dn + dl
  <2>1. MoreSteps(c, m, u, Bit(u = NULL))
    <3>1. HeadCarried(c, u) = 0 /\ NULL \in Vnodes \cup {NULL}
      BY <1>2, IdleCarries
    <3>2. \A i \in 1 .. Len(m) : m[i][1] \notin {"unref", "enter", "recheck", "insert"}
      BY <1>12
    <3> QED
      BY <1>8, <3>1, <3>2, UnrefThenSteps
  <2>2. Bit(u = NULL) = 0
    BY NotNull DEF Bit
  <2>3. MoreSteps(c, m, u, 0)
    BY <2>1, <2>2
  <2>4. MoreNames(u, 0)
    BY <1>1, <1>9, <1>10, <1>15, NoMoreNames
  <2>5. MoreLost(u, 0)
    BY <1>10, NoMoreLost
  <2>6. MoreCount(u, 0)
    BY <1>10, NoMoreCount
  <2>7. 0 = 0 + 0 + 0
    OBVIOUS
  <2> QED
    BY <2>3, <2>4, <2>5, <2>6, <2>7
<1>17. \A i \in 1 .. Len(m) : m[i][1] \notin FsSteps
  BY <1>12 DEF FsSteps
<1>18. todo[c] # <<>> => Arg(c)[1] \notin FsSteps
  BY <1>2
<1>19. NoFault'
  BY <1>2, <1>10 DEF NoFault
<1> QED
  BY <1>9, <1>10, <1>13, <1>14, <1>15, <1>16, <1>17, <1>18, <1>19, NameStep

\* Inside the locked section nobody removes a name but the client itself, whose
\* removal of the last one is over.
LEMMA UncacheExcludes ==
  ASSUME VfsInv, NEW c \in Clients, At(c, "uncache")
  PROVE  /\ spin = c
         /\ \A d \in Clients : \A p \in Slots(d) :
              /\ Planned(d, p)[1] \in {"remove", "uncache"} => d = c
              /\ Planned(d, p)[1] # "remove"
<1>1. TodoType /\ NamesLocked
  BY InvParts
<1>2. todo[c] # <<>> /\ Arg(c)[1] = "uncache" /\ Planned(c, Base(c) + 1) = Arg(c)
  BY <1>1, AtHead
<1>3. Base(c) + 1 \in Slots(c) /\ Base(c) \in Nat /\ Slots(c) = 1 .. Base(c) + 1
  BY <1>1, <1>2, HeadPlanned
<1>4. spin = c
  BY <1>1, <1>2, <1>3 DEF NamesLocked
<1>5. ASSUME NEW d \in Clients, NEW p \in Slots(d), Planned(d, p)[1] \in {"remove", "uncache"} PROVE d = c
  BY <1>1, <1>4, <1>5 DEF NamesLocked
<1>6. ASSUME NEW d \in Clients, NEW p \in Slots(d), Planned(d, p)[1] = "remove" PROVE FALSE
  <2>1. d = c
    BY <1>5, <1>6
  <2>2. p > Base(c) + 1
    BY <1>1, <1>2, <1>3, <1>6, <2>1 DEF NamesLocked
  <2>3. p \in 1 .. Base(c) + 1
    BY <1>3, <2>1
  <2> QED
    BY <1>3, <2>2, <2>3
<1> QED
  BY <1>4, <1>5, <1>6

\* The next removal of namecache_purge_vnode keeps the order in the section.
LEMMA UncacheLocked ==
  ASSUME VfsInv, NEW c \in Clients, At(c, "uncache"), spin' = spin,
         NEW r \in Steps, r[1] = "remove", NEW t \in Steps, t[1] = "uncache",
         NEW m \in Seq(Steps), Len(m) = 2, m[1] = r, m[2] = t,
         NEW x \in Vnodes \cup {NULL}, NEW l, DropThen(l, x, m), Became(c, l)
  PROVE  NamesLocked'
<1>1. TodoType /\ NamesLocked
  BY InvParts
<1>2. PICK n \in Nat : n = Base(c)
  BY <1>1, RestType
<1>3. /\ spin = c
      /\ \A d \in Clients : \A p \in Slots(d) :
           /\ Planned(d, p)[1] \in {"remove", "uncache"} => d = c
           /\ Planned(d, p)[1] # "remove"
  BY UncacheExcludes
<1>4. ASSUME NEW d \in Clients, NEW p \in Slots(d)'
      PROVE  \/ (d # c \/ p <= n) /\ p \in Slots(d) /\ p \in Nat /\ Planned(d, p)' = Planned(d, p) /\ Planned(d, p)[1] # "remove"
             \/ d = c /\ Planned(d, p)'[1] = "unref"
             \/ d = c /\ p = n + 2 /\ Planned(d, p)'[1] = "remove"
             \/ d = c /\ p = n + 1 /\ Planned(d, p)'[1] = "uncache"
  <2>1. \/ (d # c \/ p <= Base(c)) /\ p \in Slots(d) /\ Planned(d, p)' = Planned(d, p)
        \/ d = c /\ Planned(d, p)' = <<"unref", x>> /\ x \in Vnodes
        \/ d = c /\ \E j \in 1 .. Len(m) : p = Base(c) + Len(m) + 1 - j /\ Planned(d, p)' = m[j]
    BY ONLY <1>1, c \in Clients, x \in Vnodes \cup {NULL}, m \in Seq(Steps), DropThen(l, x, m), Became(c, l),
            d \in Clients, p \in Slots(d)', TailItems
  <2>2. CASE (d # c \/ p <= Base(c)) /\ p \in Slots(d) /\ Planned(d, p)' = Planned(d, p)
    <3>1. p \in Nat
      BY <2>2 DEF Slots
    <3> QED
      BY <1>2, <1>3, <2>2, <3>1
  <2>3. CASE d = c /\ Planned(d, p)' = <<"unref", x>> /\ x \in Vnodes
    BY <2>3
  <2>4. ASSUME d = c, NEW j \in 1 .. Len(m), p = Base(c) + Len(m) + 1 - j, Planned(d, p)' = m[j]
        PROVE  \/ p = n + 2 /\ Planned(d, p)'[1] = "remove"
               \/ p = n + 1 /\ Planned(d, p)'[1] = "uncache"
    BY <1>2, <2>4
  <2> QED
    BY <2>1, <2>2, <2>3, <2>4
<1>5. ASSUME NEW d \in Clients, NEW p \in Slots(d)'
      PROVE  /\ Planned(d, p)'[1] \in {"remove", "uncache"} => spin' = d
             /\ Planned(d, p)'[1] = "unlock" =>
                  \A q \in Slots(d)' : Planned(d, q)'[1] \in {"remove", "uncache"} => q > p
             /\ Planned(d, p)'[1] = "uncache" =>
                  \A q \in Slots(d)' : Planned(d, q)'[1] = "remove" => q > p
  <2>1. Planned(d, p)'[1] \in {"remove", "uncache"} => d = c /\ spin' = d
    BY <1>3, <1>4
  <2>2. ASSUME Planned(d, p)'[1] = "unlock", NEW q \in Slots(d)', Planned(d, q)'[1] \in {"remove", "uncache"}
        PROVE  q > p
    <3>1. d = c
      BY <1>3, <1>4, <2>2
    <3>2. p <= n /\ p \in Slots(c) /\ p \in Nat /\ Planned(c, p)[1] = "unlock"
      BY <1>4, <2>2, <3>1
    <3>3. CASE q = n + 1 \/ q = n + 2
      BY <3>2, <3>3
    <3>4. CASE q \in Slots(d) /\ Planned(d, q)' = Planned(d, q)
      BY <1>1, <2>2, <3>1, <3>2, <3>4 DEF NamesLocked
    <3> QED
      BY <1>4, <2>2, <3>3, <3>4
  <2>3. ASSUME Planned(d, p)'[1] = "uncache", NEW q \in Slots(d)', Planned(d, q)'[1] = "remove"
        PROVE  q > p
    <3>1. d = c
      BY <1>3, <1>4, <2>3
    <3>2. q = n + 2
      BY <1>4, <2>3
    <3>3. p \in Nat /\ p <= n + 1
      BY <1>4, <2>3, <3>1
    <3> QED
      BY <3>2, <3>3
  <2> QED
    BY <2>1, <2>2, <2>3
<1> QED
  BY <1>5 DEF NamesLocked

\* Uncache keeps the invariant.
LEMMA UncacheKept ==
  ASSUME VfsInv, NEW c \in Clients, Uncache(c)
  PROVE  VfsInv'
<1>1. TodoType /\ RefType /\ StepsSound
  BY InvParts
<1>2. /\ At(c, "uncache") /\ UNCHANGED <<vn, tables, held, lost>> /\ UNCHANGED held /\ UNCHANGED vn /\ UNCHANGED lost
      /\ UNCHANGED <<vfs, leftover, mount_table, vnode_table>> /\ UNCHANGED namecache
      /\ spin' = spin /\ fault' = fault /\ fault = NULL
  BY DEF Uncache, At, tables
<1>3. todo[c] # <<>> /\ Arg(c) \in Steps /\ Arg(c)[1] = "uncache" /\ StepFields(Arg(c))
  BY <1>1, <1>2, AtHead
<1>4. PICK v \in Vnodes : v = Arg(c)[2]
  BY <1>3 DEF StepFields
<1>5. NoFault' /\ spin' \in Clients
  BY <1>2, UncacheExcludes DEF NoFault
<1>6. CASE Then(c, << >>)
  <2>1. PICK l \in Seq(Steps) : Became(c, l) /\ Len(l) = 0
    BY <1>1, <1>3, <1>6, ThenNone
  <2>2. RefType' /\ ParentsUnchanged /\ CountsUp /\ HeldKept(c)
    BY <1>1, <1>2, SameCounts, HeldSame DEF RefType
  <2>3. StepsSound'
    <3>1. \A i \in 1 .. Len(l) : l[i][1] \notin TrackedSteps
      BY <2>1
    <3> QED
      BY <1>1, <1>2, <2>1, <2>2, <3>1, StepsPlain
  <2>4. NoStep(c, l, "parent") /\ NoStep(c, l, "remove")
    BY <1>3, <2>1 DEF NoStep
  <2>5. ASSUME NEW u \in Vnodes
        PROVE \E ds, dn, dl, dc :
            MoreSteps(c, l, u, ds) /\ MoreNames(u, dn) /\ MoreLost(u, dl) /\ MoreCount(u, dc) /\ dc = ds + dn + dl
    <3>1. HeadCarried(c, u) = 0
      BY <1>1, <1>3, HeadCarries
    <3>2. MoreSteps(c, l, u, - 0)
      BY <2>1, <3>1, NoNewSteps
    <3>3. MoreNames(u, 0)
      BY <1>1, <1>2, <2>1, <2>4, NoMoreNames
    <3>4. MoreLost(u, 0)
      BY <1>2, NoMoreLost
    <3>5. MoreCount(u, 0)
      BY <1>2, NoMoreCount
    <3>6. 0 = (- 0) + 0 + 0
      OBVIOUS
    <3> QED
      BY <3>2, <3>3, <3>4, <3>5, <3>6
  <2>6. \A i \in 1 .. Len(l) : l[i][1] \notin FsSteps
    BY <2>1
  <2>7. todo[c] # <<>> => Arg(c)[1] \notin FsSteps
    BY <1>3 DEF FsSteps
  <2> QED
    BY <1>2, <1>5, <2>1, <2>2, <2>3, <2>4, <2>5, <2>6, <2>7, NameStep
<1>7. ASSUME NEW k \in EntriesOf(v), Then(c, namecache_remove_locked(k) \o << <<"uncache", v>> >>)
      PROVE  VfsInv'
  <2>1. k \in Vnodes \X Names /\ namecache[k] = v
    BY <1>1, <1>7 DEF EntriesOf, RefType
  <2>2. PICK r \in Steps : r = <<"remove", k[1], k[2]>> /\ r[1] = "remove" /\ r[2] = k[1] /\ r[3] = k[2]
    BY <2>1, RemovalSteps
  <2>3. PICK t \in Steps : t = <<"uncache", v>>
    BY StepsMade
  <2>4. t[1] = "uncache"
    BY <2>3
  <2>5. PICK m \in Seq(Steps) : m = Pair(r, t) /\ Len(m) = 2 /\ m[1] = r /\ m[2] = t
    BY ListOfTwo
  <2>6. PICK l : DropThen(l, v, m)
    BY DEF DropThen
  <2>7. LinedUp(l, v, m)
    BY <2>6, UnrefThen
  <2>8. l \in Seq(Steps)
    BY <2>7 DEF LinedUp
  <2>9. Then(c, l)
    <3>1. Then(c, (Unrefs(v) \o <<r>>) \o <<t>>)
      BY <1>7, <2>1, <2>2, <2>3 DEF namecache_remove_locked
    <3>2. (Unrefs(v) \o <<r>>) \o <<t>> = l
      BY <2>5, <2>6, JoinedLists DEF DropThen
    <3> QED
      BY <3>1, <3>2
  <2>10. Became(c, l)
    BY <1>1, <1>3, <2>8, <2>9, ThenBecame
  <2>11. Len(m) = 2 /\ m[1] = r /\ m[2] = t
    BY <2>5
  <2>12. r[1] = "remove" /\ r[2] = k[1] /\ r[3] = k[2]
    BY <2>2
  <2>13. NamesLocked'
    BY <1>2, <2>4, <2>6, <2>10, <2>11, <2>12, UncacheLocked
  <2>14. ~Removing(k)
    <3>1. \A e \in Clients : \A q \in Slots(e) : Planned(e, q)[1] # "remove"
      BY <1>2, UncacheExcludes
    <3> QED
      BY <1>1, <3>1, RemovingIs DEF RemovalAt
  <2>15. t[1] \in {"unlock", "uncache"} /\ (todo[c] # <<>> => Arg(c)[1] = "uncache")
    BY <1>3, <2>4
  <2> QED
    BY <1>2, <1>5, <2>1, <2>6, <2>8, <2>10, <2>11, <2>12, <2>13, <2>14, <2>15, RemovalKept
<1>8. \/ Then(c, << >>)
      \/ \E k \in EntriesOf(v) : Then(c, namecache_remove_locked(k) \o << <<"uncache", v>> >>)
  BY <1>4 DEF Uncache
<1> QED
  BY <1>6, <1>7, <1>8

-----------------------------------------------------------------------------
(* Reference counts.                                                        *)

\* The only vnode that is given a parent before or after is w.
OnlyParents(c, l, w) ==
  /\ \A i \in 1 .. Len(l) : l[i][1] = "parent" => l[i][2] = w
  /\ todo[c] # <<>> => (Arg(c)[1] = "parent" => Arg(c)[2] = w)

\* Whether a vnode refers to its parent.
LEMMA ParentRefsIs ==
  ASSUME NEW w \in Vnodes, NEW u
  PROVE  /\ w \in ParentRefs(u) <=> vn[w].parent = u /\ ~vn[w].freeing /\ ~Reparented(w)
         /\ w \in ParentRefs(u)' <=> vn'[w].parent = u /\ ~vn'[w].freeing /\ ~Reparented(w)'
BY DEF ParentRefs

\* How the references of children change with one of them.
LEMMA ParentDelta ==
  ASSUME TodoType, NEW c \in Clients, NEW l \in Seq(Steps), Became(c, l), NEW w \in Vnodes, OnlyParents(c, l, w),
         \A x \in Vnodes \ {w} : vn'[x].parent = vn[x].parent /\ vn'[x].freeing = vn[x].freeing, NEW u \in Vnodes,
         NEW a \in {0, 1}, w \in ParentRefs(u) <=> a = 1, NEW b \in {0, 1}, w \in ParentRefs(u)' <=> b = 1
  PROVE  MoreParents(u, b - a)
<1>1. TodoType'
  BY ItemsAfter
<1>2. ASSUME NEW x \in Vnodes \ {w} PROVE Reparented(x)' <=> Reparented(x)
  <2>1. \A d \in Clients : \A p : Is(d, p, "parent", x)' => Is(d, p, "parent", x)
    BY IsAfter DEF OnlyParents
  <2>2. \A d \in Clients : \A p : Is(d, p, "parent", x) => Is(d, p, "parent", x)'
    BY IsKept DEF OnlyParents
  <2> QED
    BY <1>1, <2>1, <2>2, DoingIs, DoingIsAfter DEF Is, Reparented
<1>3. PICK S : S = ParentRefs(u)
  OBVIOUS
<1>4. PICK T : T = ParentRefs(u)'
  OBVIOUS
<1>5. S \ {w} = T \ {w}
  <2>1. \A x \in Vnodes \ {w} : x \in S <=> x \in T
    BY <1>2, <1>3, <1>4, ParentRefsIs
  <2>2. S \subseteq Vnodes /\ T \subseteq Vnodes
    BY <1>3, <1>4 DEF ParentRefs
  <2> QED
    BY <2>1, <2>2
<1>6. IsFiniteSet(S)
  BY <1>3, FiniteRefs
<1>7. Cardinality(S) \in Nat /\ Cardinality(T) = Cardinality(S) - Bit(w \in S) + Bit(w \in T)
  BY ONLY <1>5, <1>6, OneElement
<1>8. Bit(w \in S) = a /\ Bit(w \in T) = b
  BY <1>3, <1>4 DEF Bit
<1>9. Cardinality(T) = Cardinality(S) + (b - a)
  BY <1>7, <1>8
<1> QED
  BY <1>3, <1>4, <1>9 DEF MoreParents

\* A step on a vnode's own fields.
LEMMA ParentStep ==
  ASSUME VfsInv, NEW c \in Clients, NEW l \in Seq(Steps), Became(c, l),
         \A i \in 1 .. Len(l) : l[i][1] \notin FsSteps,
         todo[c] # <<>> => Arg(c)[1] \notin FsSteps, NoStep(c, l, "remove"),
         RefType', StepsSound', NoFault', UNCHANGED <<tables, held, lost>>,
         \A u \in Vnodes : \E ds, dp, dc :
            MoreSteps(c, l, u, ds) /\ MoreParents(u, dp) /\ MoreCount(u, dc) /\ dc = ds + dp
  PROVE  VfsInv'
<1>1. TodoType /\ FsInv
  BY InvParts
<1>2. /\ UNCHANGED vfs /\ UNCHANGED vnode_table /\ UNCHANGED namecache /\ UNCHANGED held /\ UNCHANGED lost
      /\ UNCHANGED <<vfs, leftover, mount_table, vnode_table>>
  BY DEF tables
<1>3. ASSUME NEW u \in Vnodes PROVE Balanced(u)'
  <2>1. PICK ds, dp, dc : MoreSteps(c, l, u, ds) /\ MoreParents(u, dp) /\ MoreCount(u, dc) /\ dc = ds + dp
    OBVIOUS
  <2>3. NoStep(c, l, "mount") /\ NoStep(c, l, "release")
    BY DEF NoStep, FsSteps
  <2>4. MoreHeld(u, 0) /\ MoreTable(u, 0) /\ MoreLost(u, 0)
    BY <1>2, NoMoreHeld, NoMoreTable, NoMoreLost
  <2>5. MoreNames(u, 0) /\ MoreMounts(u, 0)
    BY <1>1, <1>2, <2>3, NoMoreNames, NoMoreMounts
  <2>6. ds \in Int /\ dp \in Int /\ dc \in Int
    BY <2>1 DEF MoreSteps, MoreParents, MoreCount
  <2>7. dc = 0 + ds + 0 + 0 + dp + 0 + 0
    BY <2>1, <2>6
  <2>8. MoreSteps(c, l, u, ds) /\ MoreParents(u, dp) /\ MoreCount(u, dc)
    BY <2>1
  <2> QED
    BY <2>4, <2>5, <2>7, <2>8, Books
<1>4. FsInv'
  BY <1>1, <1>2, FsNothing
<1> QED
  BY <1>3, <1>4, Conclude

\* A step of vnode_unref keeps the rest of StepsSound.
LEMMA SoundButFreed ==
  ASSUME VfsInv, NEW c \in Clients, NEW l \in Seq(Steps), Became(c, l),
         \A i \in 1 .. Len(l) : l[i][1] \in {"unref", "last", "slab"},
         UNCHANGED held, spin' = spin, VnodesSound', FreedOnce'
  PROVE  StepsSound'
<1>1. TodoType /\ ParentsHeld /\ NamesLocked /\ EnterAlone
  BY InvParts
<1>2. HeldKept(c)
  BY HeldSame
<1>3. ParentsHeld'
  <2>1. \A i \in 1 .. Len(l) : l[i][1] # "parent"
    OBVIOUS
  <2> QED
    BY <1>1, <1>2, <2>1, ParentsKept
<1>4. NamesLocked'
  <2>1. \A i \in 1 .. Len(l) : l[i][1] \notin {"remove", "uncache", "unlock"}
    OBVIOUS
  <2> QED
    BY <1>1, <2>1, NamesKept
<1>5. EnterAlone'
  <2>1. \A i \in 1 .. Len(l) : l[i][1] # "enter"
    OBVIOUS
  <2> QED
    BY <1>1, <2>1, EnterKept
<1> QED
  BY <1>3, <1>4, <1>5 DEF StepsSound

\* Client c's step on vnode v was the only one that frees it, and so is the one
\* that takes its place, if any.
Freer(c, v) ==
  \A d \in Clients : \A p : \A op \in {"last", "slab"} : Is(d, p, op, v) => d = c /\ p = Base(c) + 1

\* At most one step of l frees a vnode, v, and v is in the state that step expects.
NewFreer(l, v) ==
  \A i \in 1 .. Len(l) : l[i][1] \in {"last", "slab"} =>
     /\ l[i][2] = v /\ vn'[v].alloc /\ vn'[v].count = 0 /\ (vn'[v].freeing <=> l[i][1] = "slab")
     /\ \A j \in 1 .. Len(l) : l[j][1] \in {"last", "slab"} => i = j

\* The p-th step of client c from the end is a new one, op.
AddedAt(c, l, p, op) == \E i \in 1 .. Len(l) : p = Base(c) + Len(l) + 1 - i /\ l[i][1] = op

\* Freeing goes on in one place.
LEMMA FreedAfter ==
  ASSUME TodoType, NEW c \in Clients, NEW l \in Seq(Steps), Became(c, l), FreedOnce, NEW v \in Vnodes,
         Freer(c, v), NewFreer(l, v), \A w \in Vnodes \ {v} : vn'[w] = vn[w]
  PROVE  FreedOnce'
<1>1. ASSUME NEW d \in Clients, NEW p, NEW op \in {"last", "slab"}, NEW w \in Vnodes, Is(d, p, op, w)'
      PROVE  \/ w # v /\ p \in Slots(d) /\ Is(d, p, op, w)
             \/ /\ w = v /\ d = c /\ vn'[v].alloc /\ vn'[v].count = 0 /\ (vn'[v].freeing <=> op = "slab")
                /\ AddedAt(c, l, p, op)
  <2>1. Base(c) \in Nat
    BY RestType
  <2>2. CASE (d # c \/ p <= Base(c)) /\ Is(d, p, op, w)
    <3>1. p \in Slots(d) /\ p \in Int
      BY <2>2 DEF Is, Slots
    <3>2. w # v
      BY <2>1, <2>2, <3>1 DEF Freer
    <3> QED
      BY <2>2, <3>1, <3>2
  <2>3. ASSUME d = c, NEW i \in 1 .. Len(l), p = Base(c) + Len(l) + 1 - i, l[i][1] = op, l[i][2] = w
        PROVE  /\ w = v /\ vn'[v].alloc /\ vn'[v].count = 0 /\ (vn'[v].freeing <=> op = "slab")
               /\ AddedAt(c, l, p, op)
    BY <2>3 DEF NewFreer, AddedAt
  <2> QED
    BY <1>1, <2>2, <2>3, IsAfter
<1>2. ASSUME NEW d \in Clients, NEW p \in Slots(d)', NEW w \in Vnodes
      PROVE  /\ Is(d, p, "last", w)' => vn'[w].alloc /\ vn'[w].count = 0 /\ ~vn'[w].freeing
             /\ Is(d, p, "slab", w)' => vn'[w].alloc /\ vn'[w].count = 0 /\ vn'[w].freeing
  <2>1. CASE w = v
    BY <1>1, <2>1
  <2>2. CASE w # v
    BY <1>1, <2>2, ZenonT(90) DEF FreedOnce
  <2> QED
    BY <2>1, <2>2
<1>3. ASSUME NEW d \in Clients, NEW e \in Clients, NEW p \in Slots(d)', NEW q \in Slots(e)', NEW w \in Vnodes,
             NEW op \in {"last", "slab"}, Is(d, p, op, w)', Is(e, q, op, w)'
      PROVE  d = e /\ p = q
  <2>1. CASE w # v
    <3>1. p \in Slots(d) /\ Is(d, p, op, w) /\ q \in Slots(e) /\ Is(e, q, op, w)
      BY <1>1, <1>3, <2>1
    <3> QED
      BY <3>1 DEF FreedOnce
  <2>2. CASE w = v
    <3>0. AddedAt(c, l, p, op) /\ AddedAt(c, l, q, op)
      BY <1>1, <1>3, <2>2
    <3>1. PICK i \in 1 .. Len(l) : p = Base(c) + Len(l) + 1 - i /\ l[i][1] = op
      BY <3>0 DEF AddedAt
    <3>2. PICK j \in 1 .. Len(l) : q = Base(c) + Len(l) + 1 - j /\ l[j][1] = op
      BY <3>0 DEF AddedAt
    <3>3. i = j
      BY <3>1, <3>2 DEF NewFreer
    <3>4. d = c /\ e = c
      BY <1>1, <1>3, <2>2
    <3> QED
      BY <3>1, <3>2, <3>3, <3>4
  <2> QED
    BY <2>1, <2>2
<1> QED
  BY <1>2, <1>3 DEF FreedOnce

\* The decrement of vnode_unref on a vnode that has a reference.
LEMMA UnrefEffect ==
  ASSUME VfsInv, NEW v \in Vnodes, vn[v].count > 0, vn[v].alloc, ~vn[v].freeing,
         vn' = [vn EXCEPT ![v].count = @ - 1]
  PROVE  /\ vn' \in [Vnodes -> VnodeType] /\ ParentsUnchanged /\ VnodesSound'
         /\ \A w \in Vnodes \ {v} : vn'[w] = vn[w]
         /\ vn'[v].alloc /\ ~vn'[v].freeing /\ vn'[v].count = vn[v].count - 1
         /\ \A u \in Vnodes : MoreCount(u, 0 - Bit(u = v))
<1>1. vn \in [Vnodes -> VnodeType] /\ VnodesSound
  BY InvParts DEF RefType
<1>2. PICK r \in VnodeType : r = vn[v]
  BY <1>1
<1>3. vn' = [vn EXCEPT ![v] = [r EXCEPT !.count = r.count - 1]]
  BY <1>1, <1>2
<1>4. PICK t : t = [r EXCEPT !.count = r.count - 1]
  OBVIOUS
<1>5. /\ t \in VnodeType /\ t.alloc = r.alloc /\ t.freeing = r.freeing /\ t.parent = r.parent /\ t.count = r.count - 1
      /\ r.count \in Int
  BY <1>4 DEF VnodeType
<1>6. vn' = [vn EXCEPT ![v] = t]
  BY <1>3, <1>4
<1>7. vn'[v] = t /\ \A w \in Vnodes \ {v} : vn'[w] = vn[w]
  BY <1>1, <1>6
<1>8. vn' \in [Vnodes -> VnodeType]
  BY <1>1, <1>5, <1>6
<1>9. ParentsUnchanged
  BY <1>2, <1>5, <1>7 DEF ParentsUnchanged
<1>10. vn'[v].alloc /\ ~vn'[v].freeing /\ vn'[v].count = vn[v].count - 1
  BY <1>2, <1>5, <1>7
<1>11. VnodesSound'
  BY <1>1, <1>7, <1>10 DEF VnodesSound
<1>12. ASSUME NEW u \in Vnodes PROVE MoreCount(u, 0 - Bit(u = v))
  <2>1. CASE u = v
    <3>1. 0 - Bit(u = v) = -1
      BY <2>1 DEF Bit
    <3>2. vn'[u].count = vn[u].count + (-1)
      BY <1>2, <1>5, <1>7, <2>1
    <3> QED
      BY <3>1, <3>2 DEF MoreCount
  <2>2. CASE u # v
    <3>0. Bit(u = v) = 0
      BY ONLY <2>2 DEF Bit
    <3>1. 0 - Bit(u = v) = 0
      BY ONLY <3>0
    <3>2. vn'[u].count = vn[u].count
      BY <1>7, <2>2
    <3>3. MoreCount(u, 0)
      BY <3>2, NoMoreCount
    <3> QED
      BY <3>1, <3>3
  <2> QED
    BY <2>1, <2>2
<1> QED
  BY <1>7, <1>8, <1>9, <1>10, <1>11, <1>12

\* Unref keeps the invariant: the count was positive.
LEMMA UnrefKept ==
  ASSUME VfsInv, NEW c \in Clients, Unref(c)
  PROVE  VfsInv'
<1>1. TodoType /\ RefType /\ FreedOnce
  BY InvParts
<1>2. At(c, "unref") /\ UNCHANGED <<tables, held, lost>> /\ UNCHANGED held /\ spin' = spin
  BY DEF Unref
<1>3. todo[c] # <<>> /\ Arg(c) \in Steps /\ Arg(c)[1] = "unref" /\ StepFields(Arg(c))
  BY <1>1, <1>2, AtHead
<1>4. PICK v \in Vnodes : v = Arg(c)[2]
  BY <1>3 DEF StepFields
<1>5. \A u \in Vnodes : HeadCarried(c, u) = Bit(v = u)
  BY <1>1, <1>3, <1>4, HeadCarries
<1>6. vn[v].count > 0 /\ vn[v].alloc /\ ~vn[v].freeing /\ vn[v] \in VnodeType
  <2>1. HeadCarried(c, v) > 0
    BY <1>5 DEF Bit
  <2> QED
    BY <2>1, Positive
<1>7. vn' = [vn EXCEPT ![v].count = @ - 1]
  BY <1>4 DEF Unref
<1>8. /\ vn' \in [Vnodes -> VnodeType] /\ ParentsUnchanged /\ VnodesSound'
      /\ \A w \in Vnodes \ {v} : vn'[w] = vn[w]
      /\ vn'[v].alloc /\ ~vn'[v].freeing /\ vn'[v].count = vn[v].count - 1
      /\ \A u \in Vnodes : MoreCount(u, 0 - Bit(u = v))
  BY <1>6, <1>7, UnrefEffect
<1>9. NoFault'
  <2>1. vn[v].count # 0
    BY <1>6 DEF VnodeType
  <2>2. fault' = NULL
    BY <1>4, <1>6, <2>1 DEF Unref, UseOf
  <2> QED
    BY <2>2 DEF NoFault
<1>10. RefType'
  BY <1>1, <1>2, <1>8 DEF RefType, tables
<1>11. PICK l \in Seq(Steps) :
         /\ Became(c, l) /\ \A i \in 1 .. Len(l) : i = 1 /\ l[i][1] = "last" /\ l[i][2] = v /\ vn[v].count = 1
  <2>1. CASE vn[v].count = 1
    <3>1. PICK s \in Steps : s = <<"last", v>>
      BY StepsMade
    <3>2. Then(c, <<s>>)
      BY <1>4, <2>1, <3>1 DEF Unref, LastReference
    <3>3. PICK l \in Seq(Steps) : Became(c, l) /\ Len(l) = 1 /\ l[1] = s
      BY <1>1, <1>3, <3>2, ThenOne
    <3>4. \A i \in 1 .. Len(l) : i = 1 /\ l[i] = s
      BY <3>3
    <3>5. s[1] = "last" /\ s[2] = v
      BY <3>1
    <3>6. \A i \in 1 .. Len(l) : i = 1 /\ l[i][1] = "last" /\ l[i][2] = v /\ vn[v].count = 1
      BY <2>1, <3>4, <3>5
    <3> QED
      BY <3>3, <3>6
  <2>2. CASE vn[v].count # 1
    <3>1. Then(c, << >>)
      BY <1>4, <2>2 DEF Unref, LastReference
    <3> QED
      BY <1>1, <1>3, <3>1, ThenNone
  <2> QED
    BY <2>1, <2>2
<1>12. \A i \in 1 .. Len(l) : i = 1 /\ l[i][1] = "last" /\ l[i][2] = v /\ vn[v].count = 1
  BY <1>11
<1>13. FreedOnce'
  <2>1. Freer(c, v)
    <3>1. \A d \in Clients : \A p : \A op \in {"last", "slab"} : ~Is(d, p, op, v)
      BY <1>1, <1>6 DEF FreedOnce, Is
    <3> QED
      BY <3>1 DEF Freer
  <2>2. NewFreer(l, v)
    BY <1>8, <1>12 DEF NewFreer
  <2> QED
    BY <1>1, <1>8, <1>11, <2>1, <2>2, FreedAfter
<1>14. StepsSound'
  <2>1. \A i \in 1 .. Len(l) : l[i][1] \in {"unref", "last", "slab"}
    BY <1>12
  <2> QED
    BY <1>2, <1>8, <1>11, <1>13, <2>1, SoundButFreed
<1>15. NoStep(c, l, "remove") /\ NoStep(c, l, "parent")
  BY <1>3, <1>12 DEF NoStep
<1>16. ASSUME NEW u \in Vnodes
       PROVE \E ds, dp, dc :
            MoreSteps(c, l, u, ds) /\ MoreParents(u, dp) /\ MoreCount(u, dc) /\ dc = ds + dp
  <2>1. PICK b \in {0, 1} : b = Bit(u = v)
    BY DEF Bit
  <2>2. HeadCarried(c, u) = b
    <3>1. Bit(v = u) = Bit(u = v)
      BY DEF Bit
    <3> QED
      BY <1>5, <2>1, <3>1
  <2>3. MoreSteps(c, l, u, 0 - b)
    <3>1. \A i \in 1 .. Len(l) : Carried(l[i], u) = 0
      <4> SUFFICES ASSUME NEW i \in 1 .. Len(l) PROVE Carried(l[i], u) = 0
        OBVIOUS
      <4>1. PICK s \in Steps : s = l[i]
        OBVIOUS
      <4>2. s[1] \notin {"unref", "enter", "recheck", "insert"}
        BY <1>12, <4>1
      <4> QED
        BY <4>1, <4>2, CarriedIs
    <3>2. CarriedAt(l, 1, u) = 0 /\ CarriedAt(l, 2, u) = 0
      BY <3>1 DEF CarriedAt
    <3>3. 0 - b \in Int /\ 0 - b = 0 + 0 - b
      OBVIOUS
    <3> QED
      BY <2>2, <3>1, <3>2, <3>3 DEF MoreSteps
  <2>4. MoreParents(u, 0)
    BY <1>1, <1>8, <1>11, <1>15, NoMoreParents
  <2>5. MoreCount(u, 0 - b)
    BY <1>8, <2>1
  <2>6. 0 - b = (0 - b) + 0
    OBVIOUS
  <2> QED
    BY <2>3, <2>4, <2>5, <2>6
<1>17. \A i \in 1 .. Len(l) : l[i][1] \notin FsSteps
  BY <1>12 DEF FsSteps
<1>18. todo[c] # <<>> => Arg(c)[1] \notin FsSteps
  BY <1>3 DEF FsSteps
<1> QED
  BY <1>2, <1>9, <1>10, <1>11, <1>14, <1>15, <1>16, <1>17, <1>18, ParentStep

\* A vnode that is about to be given a parent is held, so it is not being freed.
LEMMA NotReparented ==
  ASSUME VfsInv, NEW v \in Vnodes, vn[v].count = 0
  PROVE  ~Reparented(v)
<1>1. TodoType /\ ParentsHeld
  BY InvParts
<1>2. ASSUME NEW d \in Clients, NEW p \in Slots(d), Is(d, p, "parent", v) PROVE FALSE
  <2>1. held[d][v] > 0
    BY <1>1, <1>2 DEF ParentsHeld
  <2>2. vn[v].count > 0
    BY <2>1, Positive
  <2> QED
    BY <2>2
<1> QED
  BY <1>1, <1>2, DoingIs DEF Reparented

\* LastUnref keeps the invariant: the reference to the parent will be dropped.
LEMMA LastUnrefKept ==
  ASSUME VfsInv, NEW c \in Clients, LastUnref(c)
  PROVE  VfsInv'
<1>1. TodoType /\ RefType /\ FreedOnce /\ VnodesSound
  BY InvParts
<1>2. At(c, "last") /\ UNCHANGED <<tables, held, lost>> /\ UNCHANGED held /\ spin' = spin
  BY DEF LastUnref
<1>3. /\ todo[c] # <<>> /\ Arg(c) \in Steps /\ Arg(c)[1] = "last" /\ StepFields(Arg(c))
      /\ Is(c, Base(c) + 1, "last", Arg(c)[2])
  BY <1>1, <1>2, AtHead
<1>4. PICK v \in Vnodes : v = Arg(c)[2]
  BY <1>3 DEF StepFields
<1>5. Is(c, Base(c) + 1, "last", v) /\ Base(c) + 1 \in Slots(c)
  BY <1>3, <1>4 DEF Is
<1>6. vn[v].alloc /\ vn[v].count = 0 /\ ~vn[v].freeing
  BY <1>1, <1>5 DEF FreedOnce
<1>7. PICK x \in Vnodes \cup {NULL} : x = vn[v].parent
  BY CountType
<1>8. /\ vn' \in [Vnodes -> VnodeType] /\ VnodesSound' /\ \A w \in Vnodes \ {v} : vn'[w] = vn[w]
      /\ vn'[v].alloc /\ vn'[v].count = 0 /\ vn'[v].freeing
      /\ \A u \in Vnodes : vn'[u].count = vn[u].count
  <2>1. PICK r \in VnodeType : r = vn[v]
    BY CountType
  <2>2. PICK t : t = [r EXCEPT !.freeing = TRUE]
    OBVIOUS
  <2>3. t \in VnodeType /\ t.alloc = r.alloc /\ t.freeing = TRUE /\ t.count = r.count
    BY <2>2 DEF VnodeType
  <2>4. vn' = [vn EXCEPT ![v] = t]
    BY <1>1, <1>4, <2>1, <2>2 DEF LastUnref, RefType
  <2>5. vn'[v] = t /\ \A w \in Vnodes \ {v} : vn'[w] = vn[w]
    BY <1>1, <2>4 DEF RefType
  <2>6. vn' \in [Vnodes -> VnodeType]
    BY <1>1, <2>3, <2>4 DEF RefType
  <2>7. vn'[v].alloc /\ vn'[v].count = 0 /\ vn'[v].freeing
    BY <1>6, <2>1, <2>3, <2>5
  <2>8. VnodesSound'
    BY <1>1, <2>5, <2>7 DEF VnodesSound
  <2>9. \A u \in Vnodes : vn'[u].count = vn[u].count
    BY <2>1, <2>3, <2>5
  <2> QED
    BY <2>5, <2>6, <2>7, <2>8, <2>9
<1>9. NoFault'
  <2>1. fault' = NULL
    BY <1>4, <1>6 DEF LastUnref, Touch, UseOf
  <2> QED
    BY <2>1 DEF NoFault
<1>10. RefType'
  BY <1>1, <1>2, <1>8 DEF RefType, tables
<1>11. PICK s \in Steps : s = <<"slab", v>>
  BY StepsMade
<1>12. s[1] = "slab" /\ s[2] = v
  BY <1>11
<1>13. PICK m \in Seq(Steps) : m = Single(s) /\ Len(m) = 1 /\ m[1] = s
  BY ListOfOne
<1>14. PICK l : DropThen(l, x, m)
  BY DEF DropThen
<1>15. LinedUp(l, x, m)
  BY <1>14, UnrefThen
<1>16. l \in Seq(Steps)
  BY <1>15 DEF LinedUp
<1>17. Became(c, l)
  <2>1. Then(c, l)
    BY <1>4, <1>6, <1>7, <1>11, <1>13, <1>14 DEF LastUnref, Freeing, DropParent, DropThen, Single
  <2> QED
    BY <1>1, <1>3, <1>16, <2>1, ThenBecame
<1>18. \A i \in 1 .. Len(l) : l[i][1] = "unref" \/ (l[i] = s /\ i = Len(l))
  <2>1. \A i \in 1 .. Len(l) : l[i] = <<"unref", x>> \/ \E j \in 1 .. Len(m) : l[i] = m[j] /\ Len(l) - i = Len(m) - j
    BY <1>15 DEF LinedUp
  <2>2. ASSUME NEW i \in 1 .. Len(l), NEW j \in 1 .. Len(m), l[i] = m[j], Len(l) - i = Len(m) - j
        PROVE  l[i] = s /\ i = Len(l)
    <3>1. j = 1 /\ Len(m) = 1
      BY <1>13
    <3>2. PICK h \in Nat : h = Len(l)
      BY <1>15 DEF LinedUp
    <3>3. h - i = 1 - 1 /\ i \in Int
      BY <2>2, <3>1, <3>2
    <3>4. i = h
      BY <3>3
    <3> QED
      BY <1>13, <2>2, <3>1, <3>2, <3>4
  <2> QED
    BY <2>1, <2>2
<1>19. \A i \in 1 .. Len(l) : l[i][1] \in {"unref", "slab"} /\ (l[i][1] = "slab" => i = Len(l) /\ l[i][2] = v)
  BY <1>12, <1>18
<1>20. FreedOnce'
  <2>1. Freer(c, v)
    <3>1. ASSUME NEW d \in Clients, NEW p, Is(d, p, "slab", v) PROVE FALSE
      BY <1>1, <1>6, <3>1 DEF FreedOnce, Is
    <3>2. ASSUME NEW d \in Clients, NEW p, Is(d, p, "last", v) PROVE d = c /\ p = Base(c) + 1
      <4>1. p \in Slots(d)
        BY <3>2 DEF Is
      <4> QED
        BY <1>1, <1>5, <3>2, <4>1 DEF FreedOnce
    <3> QED
      BY <3>1, <3>2 DEF Freer
  <2>2. NewFreer(l, v)
    BY <1>8, <1>19 DEF NewFreer
  <2> QED
    BY <1>1, <1>8, <1>16, <1>17, <2>1, <2>2, FreedAfter
<1>21. StepsSound'
  <2>1. \A i \in 1 .. Len(l) : l[i][1] \in {"unref", "last", "slab"}
    BY <1>19
  <2> QED
    BY <1>2, <1>8, <1>16, <1>17, <1>20, <2>1, SoundButFreed
<1>22. NoStep(c, l, "remove") /\ OnlyParents(c, l, v)
  BY <1>3, <1>19 DEF NoStep, OnlyParents
<1>23. ~Reparented(v)
  BY <1>6, NotReparented
<1>24. \A w \in Vnodes \ {v} : vn'[w].parent = vn[w].parent /\ vn'[w].freeing = vn[w].freeing
  BY <1>8
<1>25. ASSUME NEW u \in Vnodes
       PROVE \E ds, dp, dc :
            MoreSteps(c, l, u, ds) /\ MoreParents(u, dp) /\ MoreCount(u, dc) /\ dc = ds + dp
  <2>1. PICK b \in {0, 1} : b = Bit(u = x)
    BY DEF Bit
  <2>2. HeadCarried(c, u) = 0
    BY <1>1, <1>3, HeadCarries
  <2>3. MoreSteps(c, l, u, b)
    <3>1. \A i \in 1 .. Len(m) : m[i][1] \notin {"unref", "enter", "recheck", "insert"}
      BY <1>12, <1>13
    <3>2. MoreSteps(c, l, u, Bit(u = x))
      BY <1>14, <2>2, <3>1, UnrefThenSteps
    <3> QED
      BY <2>1, <3>2
  <2>4. v \in ParentRefs(u) <=> b = 1
    BY <1>6, <1>7, <1>23, <2>1, ParentRefsIs DEF Bit
  <2>5. 0 \in {0, 1} /\ (v \in ParentRefs(u)' <=> 0 = 1)
    BY <1>8, ParentRefsIs
  <2>6. MoreParents(u, 0 - b)
    BY <1>1, <1>16, <1>17, <1>22, <1>24, <2>4, <2>5, ParentDelta
  <2>7. MoreCount(u, 0)
    BY <1>8, NoMoreCount
  <2>8. 0 = b + (0 - b)
    OBVIOUS
  <2> QED
    BY <2>3, <2>6, <2>7, <2>8
<1>26. \A i \in 1 .. Len(l) : l[i][1] \notin FsSteps
  BY <1>19 DEF FsSteps
<1>27. todo[c] # <<>> => Arg(c)[1] \notin FsSteps
  BY <1>3 DEF FsSteps
<1> QED
  BY <1>2, <1>9, <1>10, <1>16, <1>17, <1>21, <1>22, <1>25, <1>26, <1>27, ParentStep

\* SlabFree keeps the invariant: nobody refers to the vnode.
LEMMA SlabFreeKept ==
  ASSUME VfsInv, NEW c \in Clients, SlabFree(c)
  PROVE  VfsInv'
<1>1. TodoType /\ RefType /\ FreedOnce /\ VnodesSound
  BY InvParts
<1>2. At(c, "slab") /\ UNCHANGED <<tables, held, lost>> /\ UNCHANGED held /\ spin' = spin /\ Then(c, << >>)
  BY DEF SlabFree
<1>3. /\ todo[c] # <<>> /\ Arg(c) \in Steps /\ Arg(c)[1] = "slab" /\ StepFields(Arg(c))
      /\ Is(c, Base(c) + 1, "slab", Arg(c)[2])
  BY <1>1, <1>2, AtHead
<1>4. PICK v \in Vnodes : v = Arg(c)[2]
  BY <1>3 DEF StepFields
<1>5. Is(c, Base(c) + 1, "slab", v) /\ Base(c) + 1 \in Slots(c)
  BY <1>3, <1>4 DEF Is
<1>6. vn[v].alloc /\ vn[v].count = 0 /\ vn[v].freeing
  BY <1>1, <1>5 DEF FreedOnce
<1>7. PICK l \in Seq(Steps) : Became(c, l) /\ Len(l) = 0
  BY <1>1, <1>2, <1>3, ThenNone
<1>8. /\ vn' \in [Vnodes -> VnodeType] /\ VnodesSound' /\ \A w \in Vnodes \ {v} : vn'[w] = vn[w]
      /\ vn'[v] = Blank /\ vn'[v].parent = NULL /\ \A u \in Vnodes : vn'[u].count = vn[u].count
  <2>1. Blank \in VnodeType /\ Blank.count = 0 /\ Blank.parent = NULL /\ ~Blank.freeing /\ ~Blank.alloc
    BY DEF Blank, VnodeType
  <2>2. vn' = [vn EXCEPT ![v] = Blank]
    BY <1>4 DEF SlabFree
  <2>3. vn'[v] = Blank /\ \A w \in Vnodes \ {v} : vn'[w] = vn[w]
    BY <1>1, <2>2 DEF RefType
  <2>4. vn' \in [Vnodes -> VnodeType]
    BY <1>1, <2>1, <2>2 DEF RefType
  <2>5. VnodesSound'
    BY <1>1, <2>1, <2>3 DEF VnodesSound
  <2>6. \A u \in Vnodes : vn'[u].count = vn[u].count
    BY <1>6, <2>1, <2>3
  <2> QED
    BY <2>1, <2>3, <2>4, <2>5, <2>6
<1>9. NoFault'
  <2>1. fault' = NULL
    BY <1>4, <1>6 DEF SlabFree, Touch, UseOf
  <2> QED
    BY <2>1 DEF NoFault
<1>10. RefType'
  BY <1>1, <1>2, <1>8 DEF RefType, tables
<1>11. FreedOnce'
  <2>1. Freer(c, v)
    <3>1. ASSUME NEW d \in Clients, NEW p, Is(d, p, "last", v) PROVE FALSE
      BY <1>1, <1>6, <3>1 DEF FreedOnce, Is
    <3>2. ASSUME NEW d \in Clients, NEW p, Is(d, p, "slab", v) PROVE d = c /\ p = Base(c) + 1
      <4>1. p \in Slots(d)
        BY <3>2 DEF Is
      <4> QED
        BY <1>1, <1>5, <3>2, <4>1 DEF FreedOnce
    <3> QED
      BY <3>1, <3>2 DEF Freer
  <2>2. NewFreer(l, v)
    BY <1>7 DEF NewFreer
  <2> QED
    BY <1>1, <1>7, <1>8, <2>1, <2>2, FreedAfter
<1>12. StepsSound'
  <2>1. \A i \in 1 .. Len(l) : l[i][1] \in {"unref", "last", "slab"}
    BY <1>7
  <2> QED
    BY <1>2, <1>7, <1>8, <1>11, <2>1, SoundButFreed
<1>13. NoStep(c, l, "remove") /\ OnlyParents(c, l, v)
  BY <1>3, <1>7 DEF NoStep, OnlyParents
<1>14. \A w \in Vnodes \ {v} : vn'[w].parent = vn[w].parent /\ vn'[w].freeing = vn[w].freeing
  BY <1>8
<1>15. ASSUME NEW u \in Vnodes
       PROVE \E ds, dp, dc :
            MoreSteps(c, l, u, ds) /\ MoreParents(u, dp) /\ MoreCount(u, dc) /\ dc = ds + dp
  <2>1. HeadCarried(c, u) = 0
    BY <1>1, <1>3, HeadCarries
  <2>2. MoreSteps(c, l, u, - 0)
    BY <1>7, <2>1, NoNewSteps
  <2>3. 0 \in {0, 1} /\ (v \in ParentRefs(u) <=> 0 = 1)
    BY <1>6, ParentRefsIs
  <2>4. v \in ParentRefs(u)' <=> 0 = 1
    BY <1>8, NotNull, ParentRefsIs
  <2>5. MoreParents(u, 0 - 0)
    BY <1>1, <1>7, <1>13, <1>14, <2>3, <2>4, ParentDelta
  <2>6. MoreCount(u, 0)
    BY <1>8, NoMoreCount
  <2>7. 0 = (- 0) + (0 - 0)
    OBVIOUS
  <2> QED
    BY <2>2, <2>5, <2>6, <2>7
<1>16. \A i \in 1 .. Len(l) : l[i][1] \notin FsSteps
  BY <1>7
<1>17. todo[c] # <<>> => Arg(c)[1] \notin FsSteps
  BY <1>3 DEF FsSteps
<1> QED
  BY <1>2, <1>7, <1>9, <1>10, <1>12, <1>13, <1>15, <1>16, <1>17, ParentStep

\* vnode_set_parent keeps the invariant: the old parent will be dropped.
LEMMA SetParentCallKept ==
  ASSUME VfsInv, NEW c \in Clients, Idle(c), NEW v \in Vnodes, NEW p \in Vnodes \cup {NULL},
         vnode_set_parent(c, v, p)
  PROVE  VfsInv'
<1>1. TodoType /\ RefType /\ FreedOnce /\ VnodesSound /\ ParentsHeld /\ NamesLocked /\ EnterAlone
  BY InvParts
<1>2. todo[c] = <<>> /\ fault = NULL
  BY DEF Idle
<1>3. /\ UNCHANGED <<tables, held, lost>> /\ UNCHANGED held /\ UNCHANGED vn /\ spin' = spin /\ fault' = fault
      /\ held[c][v] > 0 /\ (p # NULL => held[c][p] > 0) /\ ~Reparented(v)
  BY DEF vnode_set_parent
<1>4. vn[v].count > 0 /\ vn[v].alloc /\ ~vn[v].freeing
  BY <1>3, Positive
<1>5. PICK x \in Vnodes \cup {NULL} : x = vn[v].parent
  BY CountType
<1>6. PICK s \in Steps : s = <<"parent", v, p>>
  BY StepsMade
<1>7. s[1] = "parent" /\ s[2] = v /\ s[3] = p
  BY <1>6
<1>8. PICK m \in Seq(Steps) : m = Single(s) /\ Len(m) = 1 /\ m[1] = s
  BY ListOfOne
<1>9. PICK l : DropThen(l, x, m)
  BY DEF DropThen
<1>10. LinedUp(l, x, m)
  BY <1>9, UnrefThen
<1>11. l \in Seq(Steps)
  BY <1>10 DEF LinedUp
<1>12. Became(c, l)
  <2>1. Call(c, l)
    BY <1>5, <1>6, <1>8, <1>9 DEF vnode_set_parent, DropParent, DropThen, Single
  <2> QED
    BY <1>1, <1>2, <1>11, <2>1, CallBecame
<1>13. \A i \in 1 .. Len(l) : l[i][1] \in {"unref", "parent"} /\ (l[i][1] = "parent" => l[i] = s)
  <2>1. \A i \in 1 .. Len(l) : l[i] = <<"unref", x>> \/ \E j \in 1 .. Len(m) : l[i] = m[j]
    BY <1>10 DEF LinedUp
  <2>2. \A j \in 1 .. Len(m) : m[j] = s
    BY <1>8
  <2> QED
    BY <1>7, <2>1, <2>2
<1>14. RefType' /\ CountsUp /\ HeldKept(c) /\ TodoType'
  BY <1>1, <1>3, <1>11, <1>12, SameCounts, HeldSame, ItemsAfter DEF RefType, tables
<1>15. Base(c) = 0
  BY <1>1, <1>2, RestType
<1>16. ASSUME NEW d \in Clients, NEW q \in Slots(d)'
       PROVE  \/ d # c /\ q \in Slots(d) /\ Planned(d, q)' = Planned(d, q)
              \/ d = c /\ Planned(d, q)'[1] = "unref"
              \/ d = c /\ q = 1 /\ Planned(d, q)' = s
  <2>1. \/ (d # c \/ q <= Base(c)) /\ q \in Slots(d) /\ Planned(d, q)' = Planned(d, q)
        \/ d = c /\ Planned(d, q)' = <<"unref", x>> /\ x \in Vnodes
        \/ d = c /\ \E j \in 1 .. Len(m) : q = Base(c) + Len(m) + 1 - j /\ Planned(d, q)' = m[j]
    <3>1. TodoType
      BY <1>1
    <3> QED
      BY ONLY <3>1, c \in Clients, x \in Vnodes \cup {NULL}, m \in Seq(Steps), <1>9, <1>12,
              d \in Clients, q \in Slots(d)', TailItems, SMTT(60)
  <2>2. CASE (d # c \/ q <= Base(c)) /\ q \in Slots(d) /\ Planned(d, q)' = Planned(d, q)
    <3>1. d # c
      BY <1>15, <2>2 DEF Slots
    <3> QED
      BY <2>2, <3>1
  <2>3. CASE d = c /\ Planned(d, q)' = <<"unref", x>> /\ x \in Vnodes
    BY <2>3
  <2>4. ASSUME d = c, NEW j \in 1 .. Len(m), q = Base(c) + Len(m) + 1 - j, Planned(d, q)' = m[j]
        PROVE  q = 1 /\ Planned(d, q)' = s
    BY <1>8, <1>15, <2>4
  <2> QED
    BY <2>1, <2>2, <2>3, <2>4
<1>17. ParentsHeld'
  <2>1. ASSUME NEW d \in Clients, NEW q \in Slots(d)', NEW w \in Vnodes, Is(d, q, "parent", w)'
        PROVE  \/ w # v /\ d # c /\ q \in Slots(d) /\ Is(d, q, "parent", w) /\ Planned(d, q)' = Planned(d, q)
               \/ w = v /\ d = c /\ q = 1 /\ Planned(d, q)' = s
    <3>1. Planned(d, q)'[1] = "parent" /\ Planned(d, q)'[2] = w
      BY <2>1 DEF Is
    <3>2. CASE d # c /\ q \in Slots(d) /\ Planned(d, q)' = Planned(d, q)
      <4>1. Is(d, q, "parent", w)
        BY <3>1, <3>2 DEF Is
      <4>2. w # v
        <5>1. Reparented(w)
          BY <1>1, <3>2, <4>1, DoingIs DEF Reparented
        <5> QED
          BY <1>3, <5>1
      <4> QED
        BY <3>2, <4>1, <4>2
    <3>3. CASE d = c /\ q = 1 /\ Planned(d, q)' = s
      BY <1>7, <3>1, <3>3
    <3> QED
      BY <1>16, <3>1, <3>2, <3>3
  <2>2. ASSUME NEW d \in Clients, NEW q \in Slots(d)', NEW w \in Vnodes, Is(d, q, "parent", w)'
        PROVE  held'[d][w] > 0 /\ (Planned(d, q)'[3] # NULL => held'[d][Planned(d, q)'[3]] > 0)
    <3>1. CASE d # c /\ q \in Slots(d) /\ Is(d, q, "parent", w) /\ Planned(d, q)' = Planned(d, q)
      BY <1>1, <1>3, <3>1 DEF ParentsHeld
    <3>2. CASE w = v /\ d = c /\ Planned(d, q)' = s
      BY <1>3, <1>7, <3>2
    <3> QED
      BY <2>1, <2>2, <3>1, <3>2
  <2>3. ASSUME NEW d \in Clients, NEW e \in Clients, NEW q \in Slots(d)', NEW r \in Slots(e)', NEW w \in Vnodes,
               Is(d, q, "parent", w)', Is(e, r, "parent", w)'
        PROVE  d = e /\ q = r
    <3>1. CASE w = v
      BY <2>1, <2>3, <3>1
    <3>2. CASE w # v
      <4>1. q \in Slots(d) /\ Is(d, q, "parent", w) /\ r \in Slots(e) /\ Is(e, r, "parent", w)
        BY <2>1, <2>3, <3>2
      <4> QED
        BY <1>1, <4>1 DEF ParentsHeld
    <3> QED
      BY <3>1, <3>2
  <2> QED
    BY <2>2, <2>3 DEF ParentsHeld
<1>18. StepsSound'
  <2>1. VnodesSound'
    BY <1>1, <1>14, VnodesKept
  <2>2. FreedOnce'
    <3>1. \A i \in 1 .. Len(l) : l[i][1] \notin {"last", "slab"}
      BY <1>13
    <3> QED
      BY <1>1, <1>11, <1>12, <1>14, <3>1, LastKept
  <2>4. NamesLocked'
    <3>1. \A i \in 1 .. Len(l) : l[i][1] \notin {"remove", "uncache", "unlock"}
      BY <1>13
    <3> QED
      BY <1>1, <1>3, <1>11, <1>12, <3>1, NamesKept
  <2>5. EnterAlone'
    <3>1. \A i \in 1 .. Len(l) : l[i][1] # "enter"
      BY <1>13
    <3> QED
      BY <1>1, <1>11, <1>12, <3>1, EnterKept
  <2> QED
    BY <1>17, <2>1, <2>2, <2>4, <2>5 DEF StepsSound
<1>19. NoStep(c, l, "remove") /\ OnlyParents(c, l, v)
  BY <1>2, <1>7, <1>13 DEF NoStep, OnlyParents
<1>20. Reparented(v)'
  <2>1. 1 \in 1 .. Len(m)
    BY <1>8
  <2>2. PICK q \in Slots(c)' : Planned(c, q)' = m[1]
    BY <1>1, <1>9, <1>12, <2>1, NewItem
  <2>3. Is(c, q, "parent", v)'
    BY <1>7, <1>8, <2>2 DEF Is
  <2> QED
    BY <1>14, <2>3, DoingIsAfter DEF Is, Reparented
<1>21. ASSUME NEW u \in Vnodes
       PROVE \E ds, dp, dc :
            MoreSteps(c, l, u, ds) /\ MoreParents(u, dp) /\ MoreCount(u, dc) /\ dc = ds + dp
  <2>1. PICK b \in {0, 1} : b = Bit(u = x)
    BY DEF Bit
  <2>2. HeadCarried(c, u) = 0
    BY <1>2, IdleCarries
  <2>3. MoreSteps(c, l, u, b)
    <3>1. \A i \in 1 .. Len(m) : m[i][1] \notin {"unref", "enter", "recheck", "insert"}
      BY <1>7, <1>8
    <3>2. MoreSteps(c, l, u, Bit(u = x))
      BY <1>9, <2>2, <3>1, UnrefThenSteps
    <3> QED
      BY <2>1, <3>2
  <2>4. v \in ParentRefs(u) <=> b = 1
    BY <1>3, <1>4, <1>5, <2>1, ParentRefsIs DEF Bit
  <2>5. 0 \in {0, 1} /\ (v \in ParentRefs(u)' <=> 0 = 1)
    BY <1>20, ParentRefsIs
  <2>6. \A w \in Vnodes \ {v} : vn'[w].parent = vn[w].parent /\ vn'[w].freeing = vn[w].freeing
    BY <1>3
  <2>7. MoreParents(u, 0 - b)
    BY <1>1, <1>11, <1>12, <1>19, <2>4, <2>5, <2>6, ParentDelta
  <2>8. MoreCount(u, 0)
    BY <1>3, NoMoreCount
  <2>9. 0 = b + (0 - b)
    OBVIOUS
  <2> QED
    BY <2>3, <2>7, <2>8, <2>9
<1>22. \A i \in 1 .. Len(l) : l[i][1] \notin FsSteps
  BY <1>13 DEF FsSteps
<1>23. todo[c] # <<>> => Arg(c)[1] \notin FsSteps
  BY <1>2
<1>24. NoFault'
  BY <1>2, <1>3 DEF NoFault
<1> QED
  BY <1>3, <1>11, <1>12, <1>14, <1>18, <1>19, <1>21, <1>22, <1>23, <1>24, ParentStep

\* The vnodes after the reference that SetParent takes, if any.
Referred(p) == IF p = NULL THEN vn ELSE vnode_ref(vn, p)

\* What that does to each vnode.
LEMMA ReferredIs ==
  ASSUME VfsInv, NEW p \in Vnodes \cup {NULL}
  PROVE  /\ Referred(p) \in [Vnodes -> VnodeType]
         /\ \A u \in Vnodes :
              /\ Referred(p)[u].count = vn[u].count + Bit(u = p)
              /\ Referred(p)[u].alloc = vn[u].alloc /\ Referred(p)[u].freeing = vn[u].freeing
              /\ Referred(p)[u].parent = vn[u].parent
              /\ (u # p => Referred(p)[u] = vn[u])
<1>1. vn \in [Vnodes -> VnodeType]
  BY InvParts DEF RefType
<1>2. CASE p = NULL
  <2>1. Referred(p) = vn
    BY <1>2 DEF Referred
  <2>2. \A u \in Vnodes : Bit(u = p) = 0
    BY <1>2, NotNull DEF Bit
  <2>3. \A u \in Vnodes : vn[u].count \in Int
    BY CountType
  <2>4. \A u \in Vnodes : vn[u].count = vn[u].count + Bit(u = p)
    BY <2>2, <2>3
  <2> QED
    BY <1>1, <2>1, <2>4
<1>3. CASE p # NULL
  <2>1. p \in Vnodes
    BY <1>3
  <2>2. PICK r \in VnodeType : r = vn[p]
    BY <1>1, <2>1
  <2>3. PICK t : t = [r EXCEPT !.count = r.count + 1]
    OBVIOUS
  <2>4. /\ t \in VnodeType /\ t.alloc = r.alloc /\ t.freeing = r.freeing /\ t.parent = r.parent /\ t.count = r.count + 1
        /\ r.count \in Int
    BY <2>3 DEF VnodeType
  <2>5. PICK z : z = Referred(p)
    OBVIOUS
  <2>6. z = [vn EXCEPT ![p] = t]
    BY <1>1, <1>3, <2>1, <2>2, <2>3, <2>5 DEF Referred, vnode_ref
  <2>7. z \in [Vnodes -> VnodeType] /\ z[p] = t /\ \A u \in Vnodes : u # p => z[u] = vn[u]
    BY <1>1, <2>1, <2>4, <2>6
  <2>8. \A u \in Vnodes : z[u].count = vn[u].count + Bit(u = p)
    <3>1. \A u \in Vnodes : vn[u].count \in Int
      BY CountType
    <3>2. Bit(p = p) = 1 /\ \A u \in Vnodes : u # p => Bit(u = p) = 0
      BY DEF Bit
    <3>3. z[p].count = vn[p].count + Bit(p = p)
      BY <2>2, <2>4, <2>7, <3>2
    <3>4. \A u \in Vnodes : u # p => z[u].count = vn[u].count + Bit(u = p)
      BY <2>7, <3>1, <3>2
    <3> QED
      BY <3>3, <3>4
  <2>9. \A u \in Vnodes : z[u].alloc = vn[u].alloc /\ z[u].freeing = vn[u].freeing /\ z[u].parent = vn[u].parent
    BY <2>2, <2>4, <2>7
  <2> QED
    BY <2>5, <2>7, <2>8, <2>9
<1> QED
  BY <1>2, <1>3

\* What SetParent does to each vnode.
LEMMA ParentEffect ==
  ASSUME VfsInv, NEW v \in Vnodes, NEW p \in Vnodes \cup {NULL},
         vn[v].count > 0, vn[v].alloc, ~vn[v].freeing,
         p # NULL => vn[p].count > 0 /\ vn[p].alloc /\ ~vn[p].freeing,
         vn' = [Referred(p) EXCEPT ![v].parent = p]
  PROVE  /\ vn' \in [Vnodes -> VnodeType] /\ CountsUp /\ vn'[v].parent = p /\ ~vn'[v].freeing
         /\ \A w \in Vnodes \ {v} : vn'[w].parent = vn[w].parent /\ vn'[w].freeing = vn[w].freeing
         /\ \A u \in Vnodes : MoreCount(u, Bit(u = p))
<1>1. PICK z : z = Referred(p)
  OBVIOUS
<1>2. /\ z \in [Vnodes -> VnodeType]
      /\ \A u \in Vnodes :
           /\ z[u].count = vn[u].count + Bit(u = p)
           /\ z[u].alloc = vn[u].alloc /\ z[u].freeing = vn[u].freeing
           /\ z[u].parent = vn[u].parent
           /\ (u # p => z[u] = vn[u])
  BY <1>1, ReferredIs
<1>3. PICK r \in VnodeType : r = z[v]
  BY <1>2
<1>4. PICK t : t = [r EXCEPT !.parent = p]
  OBVIOUS
<1>5. t \in VnodeType /\ t.alloc = r.alloc /\ t.freeing = r.freeing /\ t.parent = p /\ t.count = r.count
  BY <1>4 DEF VnodeType
<1>6. vn' = [z EXCEPT ![v] = t]
  BY <1>1, <1>2, <1>3, <1>4
<1>7. vn' \in [Vnodes -> VnodeType] /\ vn'[v] = t /\ \A w \in Vnodes \ {v} : vn'[w] = z[w]
  BY <1>2, <1>5, <1>6, ZenonT(90)
<1>8. \A u \in Vnodes : /\ vn'[u].count = vn[u].count + Bit(u = p)
                        /\ vn'[u].alloc = vn[u].alloc /\ vn'[u].freeing = vn[u].freeing
  <2>1. \A u \in Vnodes : vn'[u].count = z[u].count /\ vn'[u].alloc = z[u].alloc /\ vn'[u].freeing = z[u].freeing
    BY <1>3, <1>5, <1>7
  <2> QED
    BY <1>2, <2>1
<1>9. ASSUME NEW u \in Vnodes PROVE MoreCount(u, Bit(u = p))
  <2>1. Bit(u = p) \in Int
    BY DEF Bit
  <2> QED
    BY <1>8, <2>1 DEF MoreCount
<1>10. CountsUp
  <2>1. ASSUME NEW w \in Vnodes
        PROVE  \/ vn'[w] = vn[w]
               \/ /\ vn[w].count > 0 \/ ~vn[w].alloc
                  /\ vn'[w].count > 0 /\ vn'[w].alloc /\ ~vn'[w].freeing
    <3>1. CASE w # v /\ w # p
      BY <1>2, <1>7, <3>1
    <3>2. CASE w = v \/ w = p
      <4>1. vn[w].count > 0 /\ vn[w].alloc /\ ~vn[w].freeing
        BY <3>2, NotNull
      <4>2. PICK b \in {0, 1} : b = Bit(w = p)
        BY DEF Bit
      <4>3. PICK k \in Int : k = vn[w].count
        BY CountType
      <4>4. vn'[w].count = k + b /\ k > 0
        BY <1>8, <4>1, <4>2, <4>3
      <4>5. vn'[w].count > 0
        BY <4>4
      <4> QED
        BY <1>8, <4>1, <4>5
    <3> QED
      BY <3>1, <3>2
  <2> QED
    BY <2>1 DEF CountsUp
<1>11. \A w \in Vnodes \ {v} : vn'[w].parent = vn[w].parent /\ vn'[w].freeing = vn[w].freeing
  BY <1>2, <1>7
<1>12. vn'[v].parent = p /\ ~vn'[v].freeing
  BY <1>2, <1>3, <1>5, <1>7
<1> QED
  BY <1>7, <1>9, <1>10, <1>11, <1>12

\* SetParent keeps the invariant.
LEMMA SetParentKept ==
  ASSUME VfsInv, NEW c \in Clients, SetParent(c)
  PROVE  VfsInv'
<1>1. TodoType /\ RefType /\ StepsSound /\ ParentsHeld
  BY InvParts
<1>2. At(c, "parent") /\ UNCHANGED <<tables, held, lost>> /\ UNCHANGED held /\ spin' = spin /\ Then(c, << >>)
  BY DEF SetParent
<1>3. /\ todo[c] # <<>> /\ Arg(c) \in Steps /\ Arg(c)[1] = "parent" /\ StepFields(Arg(c))
      /\ Is(c, Base(c) + 1, "parent", Arg(c)[2]) /\ Planned(c, Base(c) + 1) = Arg(c)
  BY <1>1, <1>2, AtHead
<1>4. PICK v \in Vnodes : v = Arg(c)[2]
  BY <1>3 DEF StepFields
<1>5. PICK p \in Vnodes \cup {NULL} : p = Arg(c)[3]
  BY <1>3 DEF StepFields
<1>6. Is(c, Base(c) + 1, "parent", v) /\ Base(c) + 1 \in Slots(c) /\ Planned(c, Base(c) + 1)[3] = p
  BY <1>3, <1>4, <1>5 DEF Is
<1>7. held[c][v] > 0 /\ (p # NULL => held[c][p] > 0)
  BY <1>1, <1>6 DEF ParentsHeld
<1>8. vn[v].count > 0 /\ vn[v].alloc /\ ~vn[v].freeing
  BY <1>7, Positive
<1>9. p # NULL => vn[p].count > 0 /\ vn[p].alloc /\ ~vn[p].freeing
  <2>1. ASSUME p # NULL PROVE vn[p].count > 0 /\ vn[p].alloc /\ ~vn[p].freeing
    <3>1. p \in Vnodes /\ held[c][p] > 0
      BY <1>7, <2>1
    <3> QED
      BY <3>1, Positive
  <2> QED
    BY <2>1
<1>10. vn' = [Referred(p) EXCEPT ![v].parent = p]
  BY <1>4, <1>5 DEF SetParent, Referred
<1>11. /\ vn' \in [Vnodes -> VnodeType] /\ CountsUp /\ vn'[v].parent = p /\ ~vn'[v].freeing
       /\ \A w \in Vnodes \ {v} : vn'[w].parent = vn[w].parent /\ vn'[w].freeing = vn[w].freeing
       /\ \A u \in Vnodes : MoreCount(u, Bit(u = p))
  BY <1>8, <1>9, <1>10, ParentEffect
<1>12. PICK l \in Seq(Steps) : Became(c, l) /\ Len(l) = 0
  BY <1>1, <1>2, <1>3, ThenNone
<1>13. NoFault'
  <2>1. fault' = NULL
    BY <1>4, <1>8 DEF SetParent, Touch, UseOf
  <2> QED
    BY <2>1 DEF NoFault
<1>14. RefType' /\ HeldKept(c) /\ TodoType'
  BY <1>1, <1>2, <1>11, <1>12, HeldSame, ItemsAfter DEF RefType, tables
<1>15. StepsSound'
  <2>1. \A i \in 1 .. Len(l) : l[i][1] \notin TrackedSteps
    BY <1>12
  <2> QED
    BY <1>1, <1>2, <1>11, <1>12, <1>14, <2>1, StepsPlain
<1>16. NoStep(c, l, "remove") /\ OnlyParents(c, l, v)
  BY <1>3, <1>4, <1>12 DEF NoStep, OnlyParents
<1>17. Reparented(v)
  BY <1>1, <1>6, DoingIs DEF Reparented
<1>18. ~Reparented(v)'
  <2>1. ASSUME NEW d \in Clients, NEW q \in Slots(d)', Is(d, q, "parent", v)' PROVE FALSE
    <3>1. (d # c \/ q <= Base(c)) /\ Is(d, q, "parent", v)
      <4>1. \A i \in 1 .. Len(l) : l[i][1] # Planned(d, q)'[1]
        BY <1>12
      <4>2. (d # c \/ q <= Base(c)) /\ q \in Slots(d) /\ Planned(d, q)' = Planned(d, q)
        BY <1>1, <1>12, <4>1, OldItem
      <4> QED
        BY <2>1, <4>2 DEF Is
    <3>2. q \in Slots(d)
      BY <3>1 DEF Is
    <3>3. d = c /\ q = Base(c) + 1
      BY <1>1, <1>6, <3>1, <3>2 DEF ParentsHeld
    <3>4. Base(c) \in Nat
      BY <1>1, RestType
    <3> QED
      BY <3>1, <3>3, <3>4
  <2> QED
    BY <1>14, <2>1, DoingIsAfter DEF Reparented
<1>19. ASSUME NEW u \in Vnodes
       PROVE \E ds, dp, dc :
            MoreSteps(c, l, u, ds) /\ MoreParents(u, dp) /\ MoreCount(u, dc) /\ dc = ds + dp
  <2>1. PICK b \in {0, 1} : b = Bit(u = p)
    BY DEF Bit
  <2>2. HeadCarried(c, u) = 0
    BY <1>1, <1>3, HeadCarries
  <2>3. MoreSteps(c, l, u, - 0)
    BY <1>12, <2>2, NoNewSteps
  <2>4. 0 \in {0, 1} /\ (v \in ParentRefs(u) <=> 0 = 1)
    BY <1>17, ParentRefsIs
  <2>5. v \in ParentRefs(u)' <=> b = 1
    BY <1>11, <1>18, <2>1, ParentRefsIs DEF Bit
  <2>6. MoreParents(u, b - 0)
    BY <1>1, <1>11, <1>12, <1>16, <2>4, <2>5, ParentDelta
  <2>7. MoreCount(u, b)
    BY <1>11, <2>1
  <2>8. b = (- 0) + (b - 0)
    OBVIOUS
  <2> QED
    BY <2>3, <2>6, <2>7, <2>8
<1>20. \A i \in 1 .. Len(l) : l[i][1] \notin FsSteps
  BY <1>12
<1>21. todo[c] # <<>> => Arg(c)[1] \notin FsSteps
  BY <1>3 DEF FsSteps
<1> QED
  BY <1>2, <1>12, <1>13, <1>14, <1>15, <1>16, <1>19, <1>20, <1>21, ParentStep

-----------------------------------------------------------------------------
(* The theorems.                                                            *)

\* The root vnode is one.
LEMMA RootVnodeType == RootVnode \in Vnodes /\ RootVnode # NULL
<1>1. RootVnode \in Vnodes
  BY VnodesAssumption, LeastExists DEF RootVnode
<1> QED
  BY <1>1, NotNull

\* At first nobody is inside a call.
LEMMA NothingToDo ==
  ASSUME Init
  PROVE  /\ TodoType /\ \A c \in Clients : Slots(c) = {}
         /\ \A c \in Clients : \A p, op, x : ~Is(c, p, op, x)
         /\ \A op, x : ~Doing(op, x)
         /\ \A k : ~Removing(k)
<1>1. TodoType
  <2>1. Nil \in Seq(Steps)
    BY NilList
  <2>2. todo = [c \in Clients |-> Nil]
    BY DEF Init, Nil
  <2> QED
    BY <2>1, <2>2 DEF TodoType
<1>2. \A c \in Clients : Slots(c) = {}
  <2>1. \A c \in Clients : todo[c] = << >>
    BY DEF Init
  <2>2. \A c \in Clients : Len(todo[c]) = 0
    BY <2>1
  <2> QED
    BY <2>2 DEF Slots
<1>3. \A c \in Clients : \A p, op, x : ~Is(c, p, op, x)
  BY <1>2 DEF Is
<1>4. \A op, x : ~Doing(op, x)
  BY <1>1, <1>3, DoingIs
<1>5. \A k : ~Removing(k)
  BY <1>1, <1>2, RemovingIs DEF RemovalAt
<1> QED
  BY <1>1, <1>2, <1>3, <1>4, <1>5

\* The initial state satisfies the invariant of filesystems.
LEMMA InitFs ==
  ASSUME Init
  PROVE  FsInv
<1>1. TodoType /\ (\A c \in Clients : Slots(c) = {}) /\ \A op, x : ~Doing(op, x)
  BY NothingToDo
<1>2. vnode_table = [k \in Filesystems \X Nodeids |-> IF k = <<RootFs, Root>> THEN RootVnode ELSE NULL]
  BY DEF Init
<1>3. mount_table = [p \in Paths |-> IF p = RootPath THEN RootFs ELSE NULL]
  BY DEF Init
<1>4. vfs = [f \in Filesystems |->
              IF f = RootFs THEN [NewVfs EXCEPT !.mounted = TRUE, !.path = RootPath] ELSE NewVfs]
  BY DEF Init
<1>5. PICK r, z : r = [NewVfs EXCEPT !.mounted = TRUE, !.path = RootPath] /\ z = NewVfs
  OBVIOUS
<1>6. /\ r \in [mounted : BOOLEAN, covered : Vnodes \cup {NULL}, path : Paths \cup {NULL}]
      /\ z \in [mounted : BOOLEAN, covered : Vnodes \cup {NULL}, path : Paths \cup {NULL}]
      /\ r.mounted /\ r.path = RootPath
  BY <1>5, RootAssumption DEF NewVfs
<1>7. FsType
  <2>1. vnode_table \in [Filesystems \X Nodeids -> Vnodes \cup {NULL}]
    BY <1>2, RootVnodeType
  <2>2. mount_table \in [Paths -> Filesystems \cup {NULL}]
    BY <1>3, RootAssumption
  <2>3. vfs \in [Filesystems -> [mounted : BOOLEAN, covered : Vnodes \cup {NULL}, path : Paths \cup {NULL}]]
    BY <1>4, <1>5, <1>6
  <2> QED
    BY <1>1, <2>1, <2>2, <2>3 DEF FsType
<1>8. vfs[RootFs] = r
  BY <1>4, <1>5, RootAssumption
<1>9. MountsListed
  <2>1. ASSUME NEW p \in Paths, mount_table[p] # NULL
        PROVE  vfs[mount_table[p]].path = p /\ Usable(mount_table[p])
    <3>1. p = RootPath /\ mount_table[p] = RootFs
      BY <1>3, <2>1
    <3> QED
      BY <1>1, <1>6, <1>8, <3>1 DEF Usable
  <2> QED
    BY <2>1 DEF MountsListed
<1>10. ASSUME NEW f \in Filesystems PROVE FsSound(f)
  <2>1. NoneUnmounted(f)
    <3>1. CASE f = RootFs
      BY <1>6, <1>8, <3>1 DEF NoneUnmounted
    <3>2. CASE f # RootFs
      <4>1. \A id \in Nodeids : LookedUp(f, id) = NULL
        BY <1>2, <3>2 DEF LookedUp, create_vnode_key
      <4> QED
        BY <4>1 DEF NoneUnmounted, Entries
    <3> QED
      BY <3>1, <3>2
  <2> QED
    BY <1>1, <2>1 DEF FsSound, ReleaseOwns, MountOwns, PurgeBeforeRelease, MountedInUse, EntriesPurged
<1> QED
  BY <1>7, <1>9, <1>10 DEF FsInv

\* The initial state satisfies the rest, but for the counts.
LEMMA InitTypes ==
  ASSUME Init
  PROVE  RefType /\ StepsSound /\ NoFault
<1>1. TodoType /\ \A c \in Clients : Slots(c) = {}
  BY NothingToDo
<1>2. PICK n \in Nat : n = 1 + Cardinality(Clients)
  <2>1. Cardinality(Clients) \in Nat
    BY FiniteAssumption, FS_CardinalityType
  <2> QED
    BY <2>1
<1>3. PICK r, z : r = [Blank EXCEPT !.alloc = TRUE, !.count = n] /\ z = Blank
  OBVIOUS
<1>4. r \in VnodeType /\ z \in VnodeType /\ r.alloc /\ ~r.freeing /\ ~z.freeing
  <2>1. r = [alloc |-> TRUE, count |-> n, freeing |-> FALSE, parent |-> NULL]
    BY <1>3 DEF Blank
  <2>2. z = [alloc |-> FALSE, count |-> 0, freeing |-> FALSE, parent |-> NULL]
    BY <1>3 DEF Blank
  <2>3. r \in VnodeType
    BY <2>1 DEF VnodeType
  <2>4. z \in VnodeType
    BY <2>2 DEF VnodeType
  <2>5. r.alloc = TRUE /\ r.freeing = FALSE
    BY <2>1
  <2>6. z.freeing = FALSE
    BY <2>2
  <2> QED
    BY <2>3, <2>4, <2>5, <2>6
<1>5. vn = [v \in Vnodes |-> IF v = RootVnode THEN r ELSE z]
  BY <1>2, <1>3 DEF Init
<1>6. RefType
  <2>1. vn \in [Vnodes -> VnodeType]
    BY <1>4, <1>5
  <2>2. namecache \in [Vnodes \X Names -> Vnodes \cup {NULL}]
    BY DEF Init
  <2>3. held \in [Clients -> [Vnodes -> Nat]]
    BY DEF Init
  <2>4. lost \in [Vnodes -> Nat] /\ spin \in Clients \cup {NULL}
    BY DEF Init
  <2> QED
    BY <2>1, <2>2, <2>3, <2>4 DEF RefType
<1>7. VnodesSound
  BY <1>3, <1>4, <1>5 DEF VnodesSound
<1>8. FreedOnce /\ ParentsHeld /\ NamesLocked /\ EnterAlone
  BY <1>1 DEF FreedOnce, ParentsHeld, NamesLocked, EnterAlone
<1>9. NoFault
  BY DEF Init, NoFault
<1> QED
  BY <1>6, <1>7, <1>8, <1>9 DEF StepsSound

\* The initial counts are right: every client and the table refer to the root.
LEMMA InitBooks ==
  ASSUME Init, NEW u \in Vnodes
  PROVE  Balanced(u)
<1>1. TodoType /\ (\A c \in Clients : Slots(c) = {}) /\ \A op, x : ~Doing(op, x)
  BY NothingToDo
<1>2. StepRefs(u) = {}
  <2>1. PICK S : S = StepRefs(u)
    OBVIOUS
  <2>2. S = UNION { UNION { {<<c, p>>} \X (1 .. Carried(Planned(c, p), u)) : p \in Slots(c) } : c \in Clients }
    BY <1>1, <2>1, StepRefsIs
  <2>3. \A x \in S : FALSE
    BY <1>1, <2>2
  <2> QED
    BY <2>1, <2>3
<1>3. NameRefs(u) = {}
  BY NotNull DEF NameRefs, Init
<1>4. MountRefs(u) = {}
  <2>1. \A f \in Filesystems : vfs[f].covered = NULL
    BY DEF Init, NewVfs
  <2> QED
    BY <2>1, NotNull DEF MountRefs
<1>5. ParentRefs(u) = {}
  <2>1. \A v \in Vnodes : vn[v].parent = NULL
    BY DEF Init, Blank
  <2> QED
    BY <2>1, NotNull DEF ParentRefs
<1>6. Cardinality({}) = 0 /\ IsFiniteSet({})
  BY FS_EmptySet
<1>7. lost[u] = 0
  BY DEF Init
<1>8. Cardinality(Clients) \in Nat
  BY FiniteAssumption, FS_CardinalityType
<1>9. PICK H, T : H = HeldRefs(u) /\ T = TableRefs(u)
  OBVIOUS
<1>10. CASE u = RootVnode
  <2>1. H = Clients \X {1}
    <3>1. \A d \in Clients : held[d][u] = 1
      BY <1>10 DEF Init
    <3>2. \A x : x \in H <=> \E d \in Clients : \E j \in 1 .. 1 : x = <<d, j>>
      BY <1>9, <3>1, HeldRefsIs
    <3>3. \A x : x \in H <=> x \in Clients \X {1}
      BY <3>2
    <3> QED
      BY <3>3
  <2>2. IsFiniteSet(H) /\ Cardinality(H) = Cardinality(Clients)
    <3>1. IsFiniteSet({1}) /\ Cardinality({1}) = 1
      BY FS_Singleton
    <3>2. IsFiniteSet(Clients \X {1}) /\ Cardinality(Clients \X {1}) = Cardinality(Clients) * Cardinality({1})
      BY <3>1, FiniteAssumption, FS_Product
    <3>3. Cardinality(Clients) * 1 = Cardinality(Clients)
      BY <1>8
    <3> QED
      BY <2>1, <3>1, <3>2, <3>3
  <2>3. T = {<<RootFs, Root>>}
    <3>1. \A k \in Filesystems \X Nodeids : vnode_table[k] = u <=> k = <<RootFs, Root>>
      BY <1>10, RootVnodeType DEF Init
    <3>2. \A k : k \in T <=> k = <<RootFs, Root>>
      BY <1>9, <3>1, RootAssumption DEF TableRefs
    <3> QED
      BY <3>2
  <2>4. Cardinality(T) = 1
    BY <2>3, FS_Singleton
  <2>5. vn[u].count = 1 + Cardinality(Clients)
    BY <1>10 DEF Init, Blank
  <2>6. Owners(u) = Cardinality(Clients) + 0 + 1 + 0 + 0 + 0
    BY <1>2, <1>3, <1>4, <1>5, <1>6, <1>9, <2>2, <2>4 DEF Owners
  <2>7. Owners(u) + lost[u] = vn[u].count
    BY <1>7, <1>8, <2>5, <2>6
  <2> QED
    BY <1>2, <1>6, <1>9, <2>2, <2>7 DEF Balanced
<1>11. CASE u # RootVnode
  <2>1. H = {}
    <3>1. \A d \in Clients : held[d][u] = 0
      BY <1>11 DEF Init
    <3>2. \A x : x \in H <=> \E d \in Clients : \E j \in 1 .. 0 : x = <<d, j>>
      BY <1>9, <3>1, HeldRefsIs
    <3> QED
      BY <3>2
  <2>2. T = {}
    <3>1. \A k \in Filesystems \X Nodeids : vnode_table[k] # u
      BY <1>11, NotNull DEF Init
    <3> QED
      BY <1>9, <3>1 DEF TableRefs
  <2>3. vn[u].count = 0
    BY <1>11 DEF Init, Blank
  <2>4. Owners(u) = 0 + 0 + 0 + 0 + 0 + 0
    BY <1>2, <1>3, <1>4, <1>5, <1>6, <1>9, <2>1, <2>2 DEF Owners
  <2>5. Owners(u) + lost[u] = vn[u].count
    BY <1>7, <2>3, <2>4
  <2> QED
    BY <1>2, <1>6, <1>9, <2>1, <2>5 DEF Balanced
<1> QED
  BY <1>10, <1>11

\* The initial state satisfies the invariant.
LEMMA InitInv ==
  ASSUME Init
  PROVE  VfsInv
BY InitFs, InitTypes, InitBooks DEF VfsInv, RefsCounted

\* Stuttering keeps the invariant.
LEMMA StutterKept ==
  ASSUME VfsInv, UNCHANGED vars
  PROVE  VfsInv'
<1>1. /\ vn' = vn /\ vnode_table' = vnode_table /\ mount_table' = mount_table /\ namecache' = namecache
      /\ vfs' = vfs /\ leftover' = leftover /\ held' = held /\ lost' = lost /\ todo' = todo /\ spin' = spin
      /\ fault' = fault
  BY DEF vars, tables
<1>2. \A c, p : Slots(c)' = Slots(c) /\ Planned(c, p)' = Planned(c, p)
  BY <1>1 DEF Slots, Planned
<1>3. \A c, p, op, x : Is(c, p, op, x)' <=> Is(c, p, op, x)
  BY <1>2 DEF Is
<1>4. Pending' = Pending
  BY <1>1 DEF Pending
<1>5. (\A op, x : Doing(op, x)' <=> Doing(op, x)) /\ (\A k : Removing(k)' <=> Removing(k))
  BY <1>4 DEF Doing, Removing
<1>6. FsInv'
  <2>1. FsType /\ MountsListed /\ \A f \in Filesystems : FsSound(f)
    BY DEF VfsInv, FsInv
  <2>2. FsType'
    BY <1>1, <2>1 DEF FsType, TodoType
  <2>3. MountsListed'
    BY <1>1, <1>5, <2>1 DEF MountsListed, Usable
  <2>4. ASSUME NEW f \in Filesystems PROVE FsSound(f)'
    <3>1. Entries(f)' = Entries(f)
      BY <1>1, EntriesKept
    <3>2. FsSound(f)
      BY <2>1
    <3>3. \A d \in Clients : \A p : \A op \in FsSteps :
            (Is(d, p, op, f)' <=> Is(d, p, op, f)) /\ (Is(d, p, op, f) => Planned(d, p)' = Planned(d, p))
      BY <1>2, <1>3
    <3>4. vfs'[f] = vfs[f] /\ (f \in leftover => f \in leftover')
      BY <1>1
    <3>5. \A id \in Entries(f)' : id \in Entries(f) \/ ~Late(f) \/ f \in leftover'
      BY <3>1
    <3>6. TodoType
      BY <2>1 DEF FsType
    <3> QED
      BY <3>2, <3>3, <3>4, <3>5, <3>6, FsOther
  <2> QED
    BY <2>2, <2>3, <2>4 DEF FsInv
<1>7. RefType'
  BY <1>1 DEF VfsInv, RefType
<1>8. StepsSound'
  <2>1. VnodesSound /\ FreedOnce /\ ParentsHeld /\ NamesLocked /\ EnterAlone
    BY InvParts
  <2>2. VnodesSound'
    BY <1>1, <2>1 DEF VnodesSound
  <2>3. FreedOnce'
    BY <1>1, <1>2, <1>3, <2>1 DEF FreedOnce
  <2>4. ParentsHeld'
    BY <1>1, <1>2, <1>3, <2>1 DEF ParentsHeld
  <2>5. NamesLocked'
    BY <1>1, <1>2, <2>1 DEF NamesLocked
  <2>6. EnterAlone'
    BY <1>1, <1>2, <2>1 DEF EnterAlone
  <2> QED
    BY <2>2, <2>3, <2>4, <2>5, <2>6 DEF StepsSound
<1>9. ASSUME NEW u \in Vnodes PROVE Balanced(u)'
  <2>1. HeldRefs(u)' = HeldRefs(u)
    BY <1>1, SameHeld
  <2>2. StepRefs(u)' = StepRefs(u)
    BY <1>1 DEF StepRefs, Planned
  <2>3. TableRefs(u)' = TableRefs(u)
    BY <1>1, SameTable
  <2>4. NameRefs(u)' = NameRefs(u)
    BY <1>1, <1>5 DEF NameRefs
  <2>5. ParentRefs(u)' = ParentRefs(u)
    BY <1>1, <1>5 DEF ParentRefs, Reparented
  <2>6. MountRefs(u)' = MountRefs(u)
    BY <1>1, <1>5 DEF MountRefs, Usable
  <2>7. Owners(u)' = Owners(u)
    BY <2>1, <2>2, <2>3, <2>4, <2>5, <2>6 DEF Owners
  <2>8. Balanced(u)
    BY DEF VfsInv, RefsCounted
  <2> QED
    BY <1>1, <2>1, <2>2, <2>7, <2>8 DEF Balanced
<1>10. NoFault'
  BY <1>1 DEF VfsInv, NoFault
<1> QED
  BY <1>6, <1>7, <1>8, <1>9, <1>10, Conclude

\* Every step of a client inside a call keeps the invariant.
LEMMA StepKept ==
  ASSUME VfsInv, NEW c \in Clients, Step(c)
  PROVE  VfsInv'
<1>1. CASE Unref(c) \/ LastUnref(c) \/ SlabFree(c) \/ SetParent(c)
  BY <1>1, UnrefKept, LastUnrefKept, SlabFreeKept, SetParentKept
<1>2. CASE Vget(c) \/ Recheck(c) \/ vnode_cache_insert(c)
  BY <1>2, VgetKept, RecheckKept, InsertKept
<1>3. CASE Purge(c) \/ Collect(c) \/ Drop(c)
  BY <1>3, PurgeKept, CollectKept, DropKept
<1>4. CASE Mounted(c) \/ Unlock(c) \/ Release(c)
  BY <1>4, MountedKept, UnlockKept, ReleaseKept
<1>5. CASE Enter(c) \/ Uncache(c) \/ RemoveName(c)
  BY <1>5, EnterStepKept, UncacheKept, RemoveNameKept
<1>6. CASE RootRef(c) \/ RootOf(c)
  BY <1>6, RootRefKept, RootOfKept
<1> QED
  BY <1>1, <1>2, <1>3, <1>4, <1>5, <1>6 DEF Step

\* Every call keeps the invariant.
LEMMA OperationKept ==
  ASSUME VfsInv, NEW c \in Clients, Idle(c), Operation(c)
  PROVE  VfsInv'
<1>1. ASSUME NEW v \in Vnodes, vnode_put(c, v) \/ namecache_purge_vnode(c, v) PROVE VfsInv'
  BY <1>1, PutKept, PurgeCallKept
<1>2. ASSUME NEW v \in Vnodes, NEW p \in Vnodes \cup {NULL}, vnode_set_parent(c, v, p) PROVE VfsInv'
  BY <1>2, SetParentCallKept
<1>3. ASSUME NEW f \in Filesystems, NEW id \in Nodeids,
             vnode_get(c, f, id) \/ create(c, f, id) \/ vnode_cache_remove(c, f, id)
      PROVE  VfsInv'
  BY <1>3, GetKept, CreateKept, CacheRemoveKept
<1>4. ASSUME NEW f \in Filesystems, NEW v \in Vnodes \cup {NULL}, NEW p \in Paths, vfs_mount_fs(c, f, v, p)
      PROVE  VfsInv'
  BY <1>4, MountKept
<1>5. ASSUME NEW f \in Filesystems, vfs_root_vnode(c, f) \/ vfs_unmount_fs(c, f) PROVE VfsInv'
  BY <1>5, RootKept, UnmountKept
<1>6. ASSUME namei_get_root_vnode(c) PROVE VfsInv'
  BY <1>6, NameiKept
<1>7. ASSUME NEW d \in Vnodes, NEW n \in Names, namecache_lookup(c, d, n) \/ namecache_remove(c, d, n) PROVE VfsInv'
  BY <1>7, LookupKept, RemoveCallKept
<1>8. ASSUME NEW d \in Vnodes, NEW n \in Names, NEW v \in Vnodes, namecache_enter(c, d, n, v) PROVE VfsInv'
  BY <1>8, EnterCallKept
<1> QED
  BY <1>1, <1>2, <1>3, <1>4, <1>5, <1>6, <1>7, <1>8 DEF Operation

\* The invariant holds in every reachable state, for any number of clients,
\* vnodes, filesystems and names.
THEOREM VfsInductive == Spec => []VfsInv
<1>1. Init => VfsInv
  BY InitInv
<1>2. VfsInv /\ [Next]_vars => VfsInv'
  <2> SUFFICES ASSUME VfsInv, [Next]_vars PROVE VfsInv'
    OBVIOUS
  <2>1. CASE Next
    <3>1. PICK c \in Clients : Step(c) \/ (Idle(c) /\ Operation(c))
      BY <2>1 DEF Next
    <3> QED
      BY <3>1, StepKept, OperationKept
  <2>2. CASE UNCHANGED vars
    BY <2>2, StutterKept
  <2> QED
    BY <2>1, <2>2
<1> QED
  BY <1>1, <1>2, PTL DEF Spec

\* vnode_ref, vnode_unref and their callers keep v_count equal to the references
\* that somebody owns plus the ones that are lost, in any interleaving, also of
\* calls with the unmount of their filesystem, up to the first of UnmountFaults:
\* no vnode is freed twice or while somebody refers to it, and only the late
\* reference of vfs_root_vnode can reach one that was freed.
THEOREM ReferencesAccounted == Spec => []RefsAccounted
<1>1. VfsInv => RefsAccounted
  <2> SUFFICES ASSUME VfsInv PROVE RefsAccounted
    OBVIOUS
  <2>1. fault \in {NULL} \cup UnmountFaults
    BY DEF VfsInv, NoFault
  <2>2. ASSUME NEW v \in Vnodes PROVE Owners(v) + lost[v] = vn[v].count /\ (vn[v].count > 0 => vn[v].alloc)
    <3>1. Owners(v) + lost[v] = vn[v].count
      BY DEF VfsInv, RefsCounted, Balanced
    <3>2. ASSUME ~vn[v].alloc PROVE ~(vn[v].count > 0)
      <4>1. vn[v] = Blank
        BY <3>2, InvParts DEF VnodesSound
      <4>2. Blank.count = 0
        BY DEF Blank
      <4> QED
        BY <4>1, <4>2
    <3> QED
      BY <3>1, <3>2
  <2> QED
    BY <2>1, <2>2 DEF RefsAccounted
<1> QED
  BY <1>1, VfsInductive, PTL

\* Once vfs_unmount_fs has returned, no vnode of that filesystem's address is left
\* in the table, unless vfs_purge_vnodes could not allocate its array or a call on
\* the filesystem made an entry after vfs_purge_vnodes had collected them.
THEOREM PurgesComplete == Spec => []PurgeComplete
<1>1. VfsInv => PurgeComplete
  BY DEF VfsInv, FsInv, FsSound, NoneUnmounted, PurgeComplete
<1> QED
  BY <1>1, VfsInductive, PTL

\* The mount table lists mounted filesystems only, and the vnode that one of them
\* covers is never freed.
THEOREM MountsLive == Spec => []MountTableLive
<1>1. VfsInv => MountTableLive
  <2> SUFFICES ASSUME VfsInv PROVE MountTableLive
    OBVIOUS
  <2>1. MountsListed /\ FsType
    BY InvParts DEF FsInv
  <2>2. \A p \in Paths : vfs_from_path(p) # NULL => Usable(vfs_from_path(p))
    BY <2>1 DEF MountsListed, vfs_from_path
  <2>3. ASSUME NEW v \in Vnodes, vfs_find_mounted_on_vnode(v) # {} PROVE vn[v].alloc /\ ~vn[v].freeing
    <3>1. PICK f : f \in vfs_for_each /\ vfs[f].covered = v
      BY <2>3 DEF vfs_find_mounted_on_vnode
    <3>2. PICK p \in Paths : f = mount_table[p] /\ f # NULL
      BY <3>1 DEF vfs_for_each
    <3>3. f \in Filesystems /\ Usable(f)
      BY <2>1, <3>2 DEF MountsListed, FsType
    <3>4. f \in MountRefs(v)
      BY <3>1, <3>3, MountRefsIs
    <3> QED
      BY <3>4, Positive
  <2> QED
    BY <2>2, <2>3 DEF MountTableLive
<1> QED
  BY <1>1, VfsInductive, PTL
=============================================================================
