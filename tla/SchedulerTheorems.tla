-------------------------- MODULE SchedulerTheorems -------------------------
(***************************************************************************)
(* What follows from the inductive invariant: the thread table is exact,    *)
(* thread_create's search for a slot succeeds whenever its count allows it  *)
(* to search, what a step may never do, the stack in the TSS, and that the  *)
(* scheduler implements ThreadLifecycle; then the ready queue, which is     *)
(* exact as long as nobody terminates, blocks or unblocks another thread.   *)
(***************************************************************************)
EXTENDS SchedulerProofs

Occupied == { i \in Slots : table[i] # NULL }

\* thread_count counts the occupied slots.
CountSound == thread_count = Cardinality(Occupied)

\* The slots, and any part of them, are finitely many.
LEMMA SlotsFinite ==
  /\ IsFiniteSet(Slots) /\ Cardinality(Slots) = MAX_THREADS
  /\ \A S \in SUBSET Slots : IsFiniteSet(S)
<1>1. 0 \in Int /\ MAX_THREADS - 1 \in Int /\ MAX_THREADS \in Nat \ {0}
  BY MaxThreadsAssumption
<1>2. IsFiniteSet(Slots) /\ Cardinality(Slots) = MAX_THREADS
  BY <1>1, FS_Interval DEF Slots
<1> QED
  BY <1>2, FS_Subset

\* The state after boot counts the kernel thread and the booted ones.
LEMMA CountInit == Init => CountSound
<1> SUFFICES ASSUME Init PROVE CountSound
  OBVIOUS
<1> DEFINE n == Len(Booted)
<1>0. n \in Nat /\ MAX_THREADS \in Nat \ {0} /\ MaxTid \in Nat
      /\ n < MAX_THREADS /\ n \leq MaxTid
  BY BootedLength, BootedAssumption, MaxThreadsAssumption, MaxTidAssumption
<1>1. /\ table = [i \in Slots |-> IF i \leq n THEN i ELSE NULL]
      /\ thread_count = n + 1
  BY DEF Init, BootState
<1> HIDE DEF n
<1>2. \A i \in Slots : i \leq n => i # NULL
  BY <1>0, NullAssumption, ThreadsAssumption DEF Slots
<1>3. Occupied = { i \in Slots : i \leq n }
  BY <1>1, <1>2 DEF Occupied
<1>4. { i \in Slots : i \leq n } = 0 .. n
  BY <1>0 DEF Slots
<1>5. Cardinality(0 .. n) = n + 1
  BY <1>0, FS_Interval
<1> QED
  BY <1>1, <1>3, <1>4, <1>5 DEF CountSound

\* thread_create counts the slot it fills and clean_up the one it empties.
LEMMA CountStep ==
  ASSUME IInv, CountSound, [Next]_vars
  PROVE  CountSound'
<1>0. table \in [Slots -> ThreadOrNull] /\ IsFiniteSet(Occupied) /\ NULL \notin Threads
  BY SlotsFinite, NullAssumption DEF IInv, TypeOK, Occupied
<1>1. CASE UNCHANGED <<mem, table, next_tid, thread_count>>
  BY <1>1 DEF CountSound, Occupied
<1>2. ASSUME NEW t \in Threads, CreateBody(t)
      PROVE  CountSound'
  <2>1. CASE UNCHANGED <<table, thread_count>>
    BY <2>1 DEF CountSound, Occupied
  <2>2. ASSUME next_tid \in Threads, NEW i \in Slots, table[i] = NULL,
               table' = [table EXCEPT ![i] = next_tid], thread_count' = thread_count + 1
        PROVE  CountSound'
    <3>1. Occupied' = Occupied \cup {i} /\ i \notin Occupied
      BY <1>0, <2>2 DEF Occupied
    <3>2. Cardinality(Occupied') = Cardinality(Occupied) + 1
      BY <1>0, <3>1, FS_AddElement
    <3> QED
      BY <2>2, <3>2 DEF CountSound
  <2> QED
    BY <1>2, <2>1, <2>2, CreateCases
<1>3. ASSUME NEW i \in Slots, CleanOne(i)
      PROVE  CountSound'
  <2>1. table[i] # NULL /\ table' = [table EXCEPT ![i] = NULL] /\ thread_count' = thread_count - 1
    BY <1>3 DEF CleanOne, Termed, Emptied
  <2>2. Occupied' = Occupied \ {i} /\ i \in Occupied
    BY <1>0, <2>1 DEF Occupied
  <2>3. Cardinality(Occupied') = Cardinality(Occupied) - 1
    BY <1>0, <2>2, FS_RemoveElement
  <2> QED
    BY <2>1, <2>3 DEF CountSound
<1> QED
  BY <1>1, <1>2, <1>3, TableFrame

\* The table holds exactly the allocated threads, each of them once, and
\* thread_count is their number.
THEOREM TableExactHolds == Spec => []TableExact
<1>1. Init => CountSound
  BY CountInit
<1>2. IInv /\ CountSound /\ [Next]_vars => CountSound'
  BY CountStep
<1>3. IInv /\ CountSound => TableExact
  <2> SUFFICES ASSUME IInv, CountSound PROVE TableExact
    OBVIOUS
  <2>1. \A i \in Slots : table[i] # NULL => table[i] \in Threads /\ mem[table[i]] = "live"
    BY DEF IInv, TypeOK, ThreadOrNull, TableSound
  <2>2. \A t \in Threads : mem[t] = "live" => t # NULL /\ \E i \in Slots : table[i] = t
    BY NullAssumption DEF IInv, TableSound
  <2>3. { table[i] : i \in Slots } \ {NULL} = { t \in Threads : mem[t] = "live" }
    BY <2>1, <2>2
  <2> QED
    BY <2>3 DEF TableExact, IInv, TableSound, CountSound, Occupied
<1> QED
  BY <1>1, <1>2, <1>3, Invariance, PTL DEF Spec

\* thread_create never fails to find a slot once it has passed its test of
\* thread_count.
THEOREM SlotForEveryThreadHolds == Spec => []SlotForEveryThread
<1>1. Init => CountSound
  BY CountInit
<1>2. IInv /\ CountSound /\ [Next]_vars => CountSound'
  BY CountStep
<1>3. IInv /\ CountSound => SlotForEveryThread
  <2> SUFFICES ASSUME IInv, CountSound, thread_count < MAX_THREADS
               PROVE  \E i \in Slots : i # 0 /\ table[i] = NULL
    BY DEF SlotForEveryThread, HasRoom
  <2>1. Occupied # Slots
    BY SlotsFinite, MaxThreadsAssumption DEF CountSound
  <2>2. PICK i \in Slots : table[i] = NULL
    BY <2>1 DEF Occupied
  <2>3. table[0] # NULL
    BY ThreadsAssumption, MaxTidAssumption, NullAssumption DEF IInv, TableSound
  <2> QED
    BY <2>2, <2>3
<1> QED
  BY <1>1, <1>2, <1>3, Invariance, PTL DEF Spec

-----------------------------------------------------------------------------
(* What a step may never do.                                                *)

\* No step brings back a thread that was freed.
THEOREM TidsUsedOnceHolds == Spec => TidsUsedOnce
<1> DEFINE A == \A t \in Threads : mem[t] = "freed" => mem'[t] = "freed"
<1>1. ASSUME IInv, Next PROVE A
  <2>0. mem \in [Threads -> {"unborn", "live", "freed"}]
    BY <1>1 DEF IInv, TypeOK
  <2>1. CASE UNCHANGED mem
    BY <2>1
  <2>2. ASSUME NEW t \in Threads, CreateBody(t)
        PROVE  A
    <3>1. next_tid \in Threads => mem[next_tid] = "unborn"
      BY <1>1, ThreadsAssumption, MaxTidAssumption DEF IInv, TableSound
    <3> QED
      BY <2>0, <2>2, <3>1, CreateCases
  <2>3. ASSUME NEW i \in Slots, CleanOne(i)
        PROVE  A
    BY <2>0, <2>3 DEF CleanOne
  <2> QED
    BY <1>1, <2>1, <2>2, <2>3, TableFrame
<1>2. IInv /\ [Next]_vars => [A]_vars
  BY <1>1
<1> QED
  BY <1>2, Invariance, PTL DEF Spec, TidsUsedOnce

\* A ring-3 thread runs with its own kernel stack in tss.rsp0: only the
\* dispatch moves either, and it moves both.
THEOREM UserStackInTssHolds == Spec => []UserStackInTss
<1>1. Init => UserStackInTss
  BY Ring3Assumption DEF Init, BootState, UserStackInTss
<1>2. ASSUME IInv, UserStackInTss, Next PROVE UserStackInTss'
  <2>1. CASE PickDispatch
    BY <2>1 DEF PickDispatch, NewRsp0, UserStackInTss
  <2>2. CASE TimerIrq \/ \E t \in Threads : SoftIrq(t)
    BY <2>2 DEF TimerIrq, SoftIrq, TickEnter, UserStackInTss
  <2>3. CASE CleanDone
    <3>1. irq = "clean" /\ UNCHANGED <<run, rsp0>>
      BY <2>3 DEF CleanDone, Cleaning
    <3> QED
      BY <1>2, <3>1 DEF UserStackInTss
  <2>4. ASSUME NEW t \in Threads, ExitClear(t)
        PROVE  UserStackInTss'
    BY <1>2, <2>4 DEF ExitClear, UserStackInTss
  <2>5. CASE UNCHANGED <<run, irq, rsp0>>
    BY <1>2, <2>5 DEF UserStackInTss
  <2>6. rsp0' = rsp0 \/ PickDispatch
    <3> USE DEF cpuVars
    <3>1. ASSUME NEW t \in Threads, Call(t) \/ Step(t)
          PROVE  UNCHANGED rsp0
      BY <3>1 DEF Call, Step, SpinSave, acquire_mutex, release_mutex, CreateBody, CreateLink,
         ExitCall, ExitMark, ExitClear, PexitFound, PexitMark, TermBody, TermRemove,
         BlockRemove, RemoveFromQueue, BlockFind, UnblockFind, Find, BlockMark,
         Unreachable, UnblockCheck, UnblockMark, UnblockNext, UnblockLink, SoftIrq, TickEnter
    <3>2. ASSUME Tick, ~PickDispatch PROVE UNCHANGED rsp0
      BY <3>2 DEF Tick, TimerIrq, TickEnter, PickZombie, PickBad, PickCooldown,
         CleanContended, CleanOne, CleanDone
    <3> QED
      BY <1>2, <3>1, <3>2 DEF Next
  <2> QED
    BY <1>2, <2>1, <2>2, <2>3, <2>4, <2>5, <2>6, CpuFrame
<1>3. IInv /\ UserStackInTss /\ [Next]_vars => UserStackInTss'
  BY <1>2 DEF UserStackInTss, vars, cpuVars
<1> QED
  BY <1>1, <1>3, Invariance, PTL DEF Spec

-----------------------------------------------------------------------------
(* The life cycle.                                                          *)

\* No thread calls thread_block or thread_unblock of its own.
NobodyBlocks == {"block", "unblock"} \cap Calls = {}

\* Where a step of a thread can take its label.
LEMMA LabelClasses ==
  ASSUME NEW l \in Labels
  PROVE  /\ l \in DOMAIN Acquires =>
              LET d == Acquires[l][2] IN
              /\ d \in BlockLabels <=> l \in BlockLabels
              /\ d \in UnblockLabels <=> l \in UnblockLabels
              /\ d \notin LeavingLabels /\ d # "block_int" /\ l \notin LeavingLabels
              /\ l \in BlockLabels => Acquires[l][1] = "thread_mutex"
         /\ l \in DOMAIN Releases =>
              LET d == Releases[l][2] IN
              /\ d \in BlockLabels <=> l \in BlockLabels
              /\ d \in UnblockLabels <=> l \in UnblockLabels
              /\ d \in LeavingLabels <=> l \in LeavingLabels
              /\ d # "block_int" /\ l # "block_int"
              /\ l \in BlockLabels => Releases[l][1] = "thread_mutex"
  BY DEF Acquires, Releases, BlockLabels, UnblockLabels, LeavingLabels

\* A step of the thread on the CPU that leaves the states alone, and takes the
\* label to one of the same class.
LEMMA QuietStep ==
  ASSUME TypeOK, LifeInv, NEW t \in Threads, fault = "none", irq = "none", run = t,
         UNCHANGED <<tstate, run, irq>>,
         \A u \in Threads : mem'[u] = "unborn" => mem[u] = "unborn",
         \A u \in Threads : u # t => pc'[u] = pc[u],
         \A m \in Mutexes : mutex[m].waiters = <<>> => mutex'[m].waiters = <<>>,
         pc'[t] \notin UnblockLabels,
         fault' = "none" =>
           /\ pc'[t] \in BlockLabels <=> pc[t] \in BlockLabels
           /\ pc[t] \in LeavingLabels => pc'[t] \in LeavingLabels \cup BlockLabels
           /\ pc'[t] \in LeavingLabels => pc[t] \in LeavingLabels
           /\ pc'[t] \in BlockLabels \ {"block_int"} => arg'[t] = t
  PROVE  LifeInv'
<1>1. UnbornReady'
  BY DEF LifeInv, UnbornReady
<1>2. WaitingSound'
  BY DEF LifeInv, WaitingSound
<1>3. RunningSound'
  BY DEF LifeInv, RunningSound
<1> QED
  BY <1>1, <1>2, <1>3 DEF LifeInv

\* Code of a thread other than the acquisition and the release of a mutex.
LEMMA CodeQuiet ==
  ASSUME NobodyBlocks, IInv, LifeInv, NEW t \in Threads, Call(t) \/ Step(t),
         ~acquire_mutex(t), ~release_mutex(t), ~ExitMark(t), ~TermBody(t), ~SoftIrq(t)
  PROVE  LifeInv'
<1>0. /\ fault = "none" /\ irq = "none" /\ run = t /\ Next
  BY Enabling DEF Next
<1>1. /\ TypeOK /\ pc \in [Threads -> Labels] /\ tstate \in [Threads -> States]
      /\ arg \in [Threads -> ThreadOrNull]
      /\ mem \in [Threads -> {"unborn", "live", "freed"}]
  BY DEF IInv, TypeOK
<1>2. \A u \in Threads : u # t => pc'[u] = pc[u]
  BY <1>0, <1>1, PcFrame
<1>3. UNCHANGED mutex
  BY <1>0, MutexFrame DEF acquire_mutex, release_mutex, At
<1>4. pc[t] \notin UnblockLabels
  BY DEF LifeInv
<1>5. pc[t] \in BlockLabels => tstate[t] = "BLOCKED" /\ (pc[t] # "block_int" => arg[t] = t)
  BY <1>0 DEF LifeInv, WaitingSound
<1>6. mem[t] = "live"
  BY <1>0 DEF IInv, CpuSound
<1>7. UNCHANGED <<tstate, run, irq>>
  <2>1. CASE BlockMark(t)
    <3>1. pc[t] = "block_mark"
      BY <2>1 DEF BlockMark, At
    <3>2. arg[t] = t /\ tstate[t] = "BLOCKED"
      BY <1>5, <3>1 DEF BlockLabels
    <3> QED
      BY <1>1, <2>1, <3>2 DEF BlockMark, cpuVars
  <2>2. ASSUME ~BlockMark(t) PROVE UNCHANGED <<tstate, run, irq>>
    BY <1>4, <2>2 DEF Call, Step, SpinSave, CreateBody, CreateLink, ExitCall, ExitClear,
       PexitFound, PexitMark, TermRemove, BlockRemove, RemoveFromQueue, BlockFind, UnblockFind,
       Find, Unreachable, UnblockCheck, UnblockMark, UnblockNext, UnblockLink, At,
       UnblockLabels, threadVars, cpuVars
  <2> QED
    BY <2>1, <2>2
<1>8. \A u \in Threads : mem'[u] = "unborn" => mem[u] = "unborn"
  <2>1. CASE CreateBody(t)
    BY <1>1, <2>1, CreateCases
  <2>2. CASE UNCHANGED mem
    BY <2>2
  <2> QED
    BY <2>1, <2>2 DEF Call, Step, SpinSave, CreateLink, ExitCall, ExitClear,
       PexitFound, PexitMark, TermRemove, BlockRemove, RemoveFromQueue, BlockFind, UnblockFind,
       Find, BlockMark, Unreachable, UnblockCheck, UnblockMark, UnblockNext, UnblockLink, threadVars
<1>9. /\ pc'[t] \notin UnblockLabels
      /\ fault' = "none" =>
           /\ pc'[t] \in BlockLabels <=> pc[t] \in BlockLabels
           /\ pc[t] \in LeavingLabels => pc'[t] \in LeavingLabels \cup BlockLabels
           /\ pc'[t] \in LeavingLabels => pc[t] \in LeavingLabels
           /\ pc'[t] \in BlockLabels \ {"block_int"} => arg'[t] = t
  <2> USE DEF At, Goto, UnblockLabels, BlockLabels, LeavingLabels
  <2>1. CASE BlockFind(t)
    <3>1. thread_from_tid(t) = t
      BY <1>6 DEF IInv, TableSound, thread_from_tid
    <3>2. t # NULL
      BY NullAssumption
    <3> QED
      BY <1>1, <1>5, <2>1, <3>1, <3>2 DEF BlockFind, Find
  <2>2. CASE SpinSave(t) \/ CreateBody(t) \/ CreateLink(t) \/ ExitCall(t) \/ ExitClear(t)
             \/ PexitFound(t) \/ PexitMark(t) \/ TermRemove(t) \/ BlockRemove(t) \/ BlockMark(t)
             \/ Unreachable(t)
    BY <1>1, <1>4, <1>5, <2>2 DEF SpinSave, CreateBody, CreateLink, ExitCall, ExitClear,
       PexitFound, PexitMark, TermRemove, BlockRemove, RemoveFromQueue, BlockMark, Unreachable,
       codeVars
  <2>3. CASE Call(t)
    BY <1>1, <2>3 DEF Call, NobodyBlocks
  <2>4. ~(UnblockFind(t) \/ UnblockCheck(t) \/ UnblockMark(t) \/ UnblockNext(t) \/ UnblockLink(t))
    BY <1>4 DEF UnblockFind, Find, UnblockCheck, UnblockMark, UnblockNext, UnblockLink
  <2> QED
    BY <2>1, <2>2, <2>3, <2>4 DEF Step
<1> QED
  BY <1>0, <1>1, <1>2, <1>3, <1>7, <1>8, <1>9, QuietStep

\* acquire_mutex: a thread that has to wait was running, and is the one on
\* the CPU.
LEMMA AcquireLife ==
  ASSUME IInv, LifeInv, NEW t \in Threads, acquire_mutex(t)
  PROVE  /\ LifeInv'
         /\ \/ UNCHANGED tstate
            \/ tstate[t] = "RUNNING" /\ tstate' = [tstate EXCEPT ![t] = "BLOCKED"]
<1>0. fault = "none" /\ irq = "none" /\ run = t /\ Next /\ (Call(t) \/ Step(t))
  BY DEF acquire_mutex, At, Next, Step
<1>1. /\ TypeOK /\ pc \in [Threads -> Labels] /\ tstate \in [Threads -> States]
      /\ arg \in [Threads -> ThreadOrNull] /\ mutex \in [Mutexes -> MutexRecords]
  BY DEF IInv, TypeOK
<1>2. \A u \in Threads : u # t => pc'[u] = pc[u]
  BY <1>0, <1>1, PcFrame
<1>3. UNCHANGED <<run, irq, mem>> /\ pc[t] \in DOMAIN Acquires /\ pc[t] \notin UnblockLabels
  BY DEF acquire_mutex, cpuVars, At, LifeInv
<1>4. pc[t] \in BlockLabels => tstate[t] = "BLOCKED" /\ (pc[t] # "block_int" => arg[t] = t)
  BY <1>0 DEF LifeInv, WaitingSound
<1> DEFINE m == Acquires[pc[t]][1]
<1>5. m \in Mutexes
  BY <1>3, AcquireLabels
<1>6. CASE Unlocked(m)
  <2>1. /\ UNCHANGED <<tstate, arg, fault>> /\ pc' = [pc EXCEPT ![t] = Acquires[pc[t]][2]]
        /\ mutex' = [mutex EXCEPT ![m].locked = TRUE, ![m].owner = cur]
    BY <1>6 DEF acquire_mutex, Goto
  <2>2. \A n \in Mutexes : mutex[n].waiters = <<>> => mutex'[n].waiters = <<>>
    BY <1>1, <1>5, <2>1 DEF MutexRecords
  <2>3. pc[t] # "block_int"
    BY <1>3 DEF Acquires
  <2> QED
    BY <1>0, <1>1, <1>2, <1>3, <1>4, <2>1, <2>2, <2>3, LabelClasses, QuietStep
<1>7. CASE ~Unlocked(m)
  <2>1. /\ tstate' = [tstate EXCEPT ![t] = "BLOCKED"] /\ pc' = [pc EXCEPT ![t] = "block_lock"]
        /\ arg' = [arg EXCEPT ![t] = t]
        /\ fault' = IF m = "thread_mutex" THEN "recursion" ELSE "none"
    BY <1>7 DEF acquire_mutex, Goto
  <2>2. pc[t] \in BlockLabels \/ tstate[t] = "RUNNING"
    BY <1>0, <1>1, <1>3, LabelClasses DEF LifeInv, RunningSound
  <2>3. UNCHANGED tstate \/ tstate[t] = "RUNNING"
    BY <1>1, <1>4, <2>1, <2>2
  <2>4. mem[t] = "live"
    BY <1>0 DEF IInv, CpuSound
  <2>5. UnbornReady'
    BY <1>1, <1>3, <2>1, <2>4 DEF LifeInv, UnbornReady
  <2>6. WaitingSound'
    BY <1>0, <1>1, <1>2, <1>3, <2>1 DEF LifeInv, WaitingSound
  <2>7. RunningSound'
    BY <1>0, <1>1, <1>3, <2>1 DEF LifeInv, RunningSound, BlockLabels
  <2>8. \A u \in Threads : pc'[u] \notin UnblockLabels
    BY <1>1, <1>2, <2>1 DEF LifeInv, UnblockLabels
  <2> QED
    BY <2>1, <2>3, <2>5, <2>6, <2>7, <2>8 DEF LifeInv
<1> QED
  BY <1>6, <1>7

\* release_mutex: nobody is woken, because nobody waits.
LEMMA ReleaseLife ==
  ASSUME IInv, LifeInv, NEW t \in Threads, release_mutex(t)
  PROVE  LifeInv' /\ UNCHANGED <<tstate, rq>>
<1>0. fault = "none" /\ irq = "none" /\ run = t /\ Next /\ (Call(t) \/ Step(t))
  BY DEF release_mutex, At, Next, Step
<1>1. /\ TypeOK /\ pc \in [Threads -> Labels] /\ mutex \in [Mutexes -> MutexRecords]
  BY DEF IInv, TypeOK
<1>2. \A u \in Threads : u # t => pc'[u] = pc[u]
  BY <1>0, <1>1, PcFrame
<1>3. UNCHANGED <<run, irq, mem, arg>> /\ pc[t] \in DOMAIN Releases /\ pc[t] \notin UnblockLabels
  BY DEF release_mutex, cpuVars, At, LifeInv
<1> DEFINE m == Releases[pc[t]][1]
<1>4. m \in Mutexes /\ pc' = [pc EXCEPT ![t] = Releases[pc[t]][2]]
  BY <1>3, ReleaseLabels DEF release_mutex, Goto
<1>5. mutex[m].waiters = <<>>
  <2>1. CASE pc[t] \in BlockLabels
    BY <1>0, <1>1, <1>3, <2>1, LabelClasses DEF IInv, MutexSound
  <2>2. CASE pc[t] \notin BlockLabels
    BY <1>0, <1>4, <2>2 DEF LifeInv, RunningSound
  <2> QED
    BY <2>1, <2>2
<1>6. UNCHANGED <<tstate, rq>> /\ (mutex' = mutex \/ mutex' = [mutex EXCEPT ![m] = FreeMutex])
  BY <1>5 DEF release_mutex
<1>7. \A n \in Mutexes : mutex[n].waiters = <<>> => mutex'[n].waiters = <<>>
  BY <1>1, <1>4, <1>6 DEF FreeMutex
<1>8. pc[t] \in BlockLabels => arg[t] = t
  BY <1>0, <1>1, <1>3, LabelClasses DEF LifeInv, WaitingSound
<1> QED
  BY <1>0, <1>1, <1>2, <1>3, <1>4, <1>6, <1>7, <1>8, LabelClasses, QuietStep

\* The other steps that write a state: thread_exit and thread_terminate mark
\* a thread, the tick puts the interrupted one back and dispatches another.
LEMMA MarkLife ==
  ASSUME IInv, LifeInv, NEW t \in Threads, ExitMark(t) \/ TermBody(t)
  PROVE  /\ LifeInv'
         /\ \/ UNCHANGED tstate
            \/ \E a \in Threads :
                 /\ a # 0 /\ mem[a] = "live" /\ tstate' = [tstate EXCEPT ![a] = "TERMED"]
<1>0. fault = "none" /\ irq = "none" /\ run = t /\ Next /\ (Call(t) \/ Step(t))
  BY DEF ExitMark, TermBody, At, Next, Step
<1>1. /\ TypeOK /\ pc \in [Threads -> Labels] /\ tstate \in [Threads -> States]
      /\ mem[t] = "live" /\ UNCHANGED <<mem, run, irq, arg, mutex>>
  BY <1>0 DEF IInv, TypeOK, CpuSound, ExitMark, TermBody, cpuVars, lockVars
<1>2. \A u \in Threads : u # t => pc'[u] = pc[u]
  BY <1>0, <1>1, PcFrame
<1>3. \A u \in Threads : pc[u] \in BlockLabels => u = t
  BY <1>0 DEF LifeInv, WaitingSound
<1>4. CASE ExitMark(t)
  <2>1. /\ tstate' = [tstate EXCEPT ![t] = "TERMED"] /\ pc' = [pc EXCEPT ![t] = "exit_unlock"]
        /\ pc[t] = "exit_mark"
    BY <1>4 DEF ExitMark, Goto, At
  <2>2. t # 0
    BY <2>1 DEF IInv, KernelThreadStays
  <2>3. LifeInv'
    BY <1>0, <1>1, <1>2, <1>3, <2>1 DEF LifeInv, UnbornReady, WaitingSound, RunningSound,
       BlockLabels, UnblockLabels, LeavingLabels
  <2> QED
    BY <1>1, <2>1, <2>2, <2>3
<1>5. CASE TermBody(t)
  <2> DEFINE a == thread_from_tid(arg[t])
  <2>1. pc[t] = "term_body" /\ arg[t] # 0 /\ cur = t
    BY <1>0, <1>5 DEF TermBody, At, IInv, KernelThreadStays, CpuSound
  <2>2. CASE UNCHANGED tstate
    <3>1. pc'[t] \in {"term_fail", "term_self", "term_unlock"} \/ fault' # "none"
      BY <1>1, <1>5 DEF TermBody, Goto
    <3>2. pc'[t] \in {"term_fail", "term_self", "term_unlock", "term_body"}
      BY <1>1, <1>5, <2>1 DEF TermBody, Goto
    <3> QED
      BY <1>0, <1>1, <1>2, <2>1, <2>2, <3>1, <3>2, QuietStep
         DEF BlockLabels, UnblockLabels, LeavingLabels
  <2>3. CASE tstate' # tstate
    <3>1. /\ a # NULL /\ a # t /\ tstate' = [tstate EXCEPT ![a] = "TERMED"]
          /\ \/ pc' = [pc EXCEPT ![t] = "term_unlock"]
             \/ fault' # "none" /\ pc' = pc
      BY <1>5, <2>1, <2>3 DEF TermBody, Goto
    <3>2. a = arg[t] /\ \E i \in Slots : table[i] = a
      BY <3>1 DEF thread_from_tid
    <3>3. a \in Threads /\ mem[a] = "live" /\ a # 0
      BY <2>1, <3>1, <3>2 DEF IInv, TypeOK, ThreadOrNull, TableSound
    <3> HIDE DEF a
    <3>4. UnbornReady'
      BY <1>1, <3>1, <3>3 DEF LifeInv, UnbornReady
    <3>5. WaitingSound'
      BY <1>0, <1>1, <1>2, <1>3, <2>1, <3>1 DEF LifeInv, WaitingSound, BlockLabels
    <3>6. RunningSound'
      BY <1>0, <1>1, <2>1, <3>1, <3>3 DEF LifeInv, RunningSound, BlockLabels, LeavingLabels
    <3>7. \A u \in Threads : pc'[u] \notin UnblockLabels
      BY <1>1, <1>2, <3>1 DEF LifeInv, UnblockLabels
    <3> QED
      BY <1>1, <3>1, <3>3, <3>4, <3>5, <3>6, <3>7 DEF LifeInv
  <2> QED
    BY <2>2, <2>3
<1> QED
  BY <1>4, <1>5

\* No tick happens while the thread on the CPU waits, except the one that
\* stops the kernel.
LEMMA TickLife ==
  ASSUME IInv, LifeInv, Tick \/ \E t \in Threads : SoftIrq(t)
  PROVE  LifeInv'
<1>0. fault = "none" /\ Next
  BY Enabling DEF Next, Step
<1>1. /\ TypeOK /\ pc \in [Threads -> Labels] /\ tstate \in [Threads -> States]
      /\ run \in Threads /\ mem \in [Threads -> {"unborn", "live", "freed"}]
  BY DEF IInv, TypeOK
<1>2. \A u \in Threads : pc[u] \in BlockLabels => irq = "none" /\ run = u /\ tstate[u] = "BLOCKED"
  BY <1>0 DEF LifeInv, WaitingSound
<1>3. CASE TimerIrq \/ \E t \in Threads : SoftIrq(t)
  <2>1. TickEnter /\ irq = "none" /\ UNCHANGED mutex
    BY <1>3 DEF TimerIrq, SoftIrq, At, TickEnter, lockVars
  <2>2. mem[run] = "live" /\ (cur = run \/ pc[run] = "exit_int")
    BY <2>1 DEF IInv, CpuSound
  <2>3. pc' = pc \/ (pc' = [pc EXCEPT ![run] = "unreachable"] /\ pc[run] \in {"block_int", "exit_int"})
    BY <1>3 DEF TimerIrq, SoftIrq, At, Goto
  <2>4. /\ \A u \in Threads : u # cur => tstate'[u] = tstate[u]
        /\ UNCHANGED <<run, mem>> /\ irq' = "pick"
        /\ cur \in Threads => \/ tstate'[cur] = "READY"
                              \/ tstate' = tstate /\ fault' = "spin"
        /\ cur \in Threads /\ tstate[cur] = "BLOCKED" => fault' = "spin"
    BY <1>1, <2>1, TickEnterStates DEF States
  <2>5. cur \in Threads \cup {NULL} /\ NULL \notin Threads
    BY <1>1, NullAssumption DEF TypeOK, ThreadOrNull
  <2>6. UnbornReady'
    BY <1>1, <2>4, <2>5 DEF LifeInv, UnbornReady
  <2>7. pc[run] \in BlockLabels => fault' = "spin"
    BY <1>1, <1>2, <2>2, <2>4 DEF BlockLabels
  <2>8. WaitingSound'
    BY <1>1, <1>2, <2>3, <2>7 DEF WaitingSound, BlockLabels
  <2>9. RunningSound'
    BY <1>0, <1>1, <2>1, <2>3, <2>4, <2>7 DEF LifeInv, RunningSound, BlockLabels
  <2>10. \A u \in Threads : pc'[u] \notin UnblockLabels
    BY <1>1, <2>3 DEF LifeInv, UnblockLabels
  <2> QED
    BY <2>6, <2>8, <2>9, <2>10 DEF LifeInv
<1>4. ASSUME Tick, ~TimerIrq
      PROVE  LifeInv'
  <2>1. irq # "none" /\ UNCHANGED <<pc, arg, mutex>>
    BY <1>4 DEF Tick, PickZombie, PickBad, PickCooldown, PickDispatch, CleanContended, CleanOne,
       CleanDone, Picking, Runnable, Cleaning, lockVars, codeVars
  <2>2. \A u \in Threads : pc[u] \notin BlockLabels
    BY <1>2, <2>1
  <2>3. \A m \in Mutexes : mutex[m].waiters = <<>>
    BY <1>0, <1>1, <2>2 DEF LifeInv, RunningSound
  <2>4. CASE PickDispatch
    <3>1. Candidate \in Threads /\ mem[Candidate] = "live"
      BY <1>1, <2>4, RunnableType DEF PickDispatch
    <3> QED
      BY <1>1, <2>1, <2>2, <2>3, <2>4, <3>1
         DEF PickDispatch, LifeInv, UnbornReady, WaitingSound, RunningSound
  <2>5. CASE CleanDone
    <3>1. irq = "clean" /\ UNCHANGED <<tstate, run, mem>>
      BY <2>5 DEF CleanDone, Cleaning, threadVars
    <3>2. tstate[run] = "RUNNING"
      BY <3>1 DEF IInv, CpuSound
    <3> QED
      BY <1>1, <2>1, <2>2, <2>3, <3>1, <3>2 DEF LifeInv, UnbornReady, WaitingSound, RunningSound
  <2>6. ASSUME ~PickDispatch, ~CleanDone
        PROVE  LifeInv'
    <3>1. UNCHANGED <<tstate, run, irq>>
      BY <1>4, <2>6 DEF Tick, PickZombie, PickBad, PickCooldown, CleanContended, CleanOne,
         threadVars, cpuVars
    <3>2. \A u \in Threads : mem'[u] = "unborn" => mem[u] = "unborn"
      BY <1>1, <1>4, <2>6 DEF Tick, PickZombie, PickBad, PickCooldown, CleanContended, CleanOne,
         threadVars
    <3> QED
      BY <2>1, <2>2, <2>3, <3>1, <3>2 DEF LifeInv, UnbornReady, WaitingSound, RunningSound
  <2> QED
    BY <2>4, <2>5, <2>6
<1> QED
  BY <1>3, <1>4

\* LifeInv is inductive relative to IInv.
LEMMA LifeStep ==
  ASSUME NobodyBlocks, IInv, LifeInv, [Next]_vars
  PROVE  LifeInv'
<1>1. CASE UNCHANGED vars
  BY <1>1 DEF vars, threadVars, lockVars, cpuVars, codeVars, LifeInv, UnbornReady,
     WaitingSound, RunningSound
<1> QED
  BY <1>1, CodeQuiet, AcquireLife, ReleaseLife, MarkLife, TickLife DEF Next

\* After boot nobody waits and the kernel thread runs.
LEMMA LifeInit == Init => LifeInv
<1> SUFFICES ASSUME Init PROVE LifeInv
  OBVIOUS
<1>1. /\ pc = [t \in Threads |-> "user"] /\ run = 0 /\ 0 \in Threads
      /\ tstate = [t \in Threads |-> IF t = 0 THEN "RUNNING" ELSE "READY"]
      /\ mem[0] = "live"
      /\ mutex = [m \in Mutexes |-> FreeMutex]
  BY ThreadsAssumption, MaxTidAssumption DEF Init, BootState
<1> QED
  BY <1>1 DEF LifeInv, UnbornReady, WaitingSound, RunningSound, BlockLabels, UnblockLabels, FreeMutex

\* The status of a thread under the mapping.
LEMMA StatusAt ==
  ASSUME TypeOK
  PROVE  /\ DOMAIN Status = Threads
         /\ \A t \in Threads :
              /\ mem[t] = "unborn" => Status[t] = "absent"
              /\ mem[t] = "freed" => Status[t] = "reclaimed"
              /\ mem[t] = "live" => 
                   /\ tstate[t] = "READY" => Status[t] = "ready"
                   /\ tstate[t] = "RUNNING" => Status[t] = "running"
                   /\ tstate[t] = "BLOCKED" => Status[t] = "blocked"
                   /\ tstate[t] = "TERMED" => Status[t] = "dead"
  BY DEF Status

\* A step that writes the state or the memory of one thread only moves that
\* thread's status.
LEMMA StatusFrame ==
  ASSUME NEW a \in Threads,
         \A t \in Threads : t # a => mem'[t] = mem[t] /\ tstate'[t] = tstate[t]
  PROVE  Status' = [Status EXCEPT ![a] = Status'[a]]
<1> DEFINE S(m, s) ==
     CASE m = "unborn" -> "absent"
       [] m = "freed"  -> "reclaimed"
       [] OTHER -> CASE s = "READY"   -> "ready"
                     [] s = "RUNNING" -> "running"
                     [] s = "BLOCKED" -> "blocked"
                     [] s = "TERMED"  -> "dead"
<1>1. Status = [t \in Threads |-> S(mem[t], tstate[t])]
  BY DEF Status
<1>2. Status' = [t \in Threads |-> S(mem'[t], tstate'[t])]
  BY DEF Status
<1> HIDE DEF S
<1>3. [Status EXCEPT ![a] = Status'[a]] = 
        [t \in Threads |-> IF t = a THEN Status'[a] ELSE S(mem[t], tstate[t])]
  BY <1>1
<1> QED
  BY <1>2, <1>3

\* Every step of the scheduler is a step of the life cycle, or none.
LEMMA LifecycleStep ==
  ASSUME IInv, IInv', LifeInv, LifeInv', [Next]_vars
  PROVE  [Lifecycle!Next]_Status
<1>0. /\ TypeOK /\ tstate \in [Threads -> States]
      /\ mem \in [Threads -> {"unborn", "live", "freed"}]
      /\ TypeOK' /\ NULL \notin Threads
  BY NullAssumption DEF IInv, TypeOK
<1>1. CASE UNCHANGED <<mem, tstate>>
  BY <1>1 DEF Status
<1> USE DEF Lifecycle!Next, Lifecycle!Move
<1>2. ASSUME NEW t \in Threads, CreateBody(t)
      PROVE  [Lifecycle!Next]_Status
  <2>1. UNCHANGED tstate
    BY <1>2 DEF CreateBody
  <2>2. CASE UNCHANGED mem
    BY <1>1, <2>1, <2>2
  <2>3. ASSUME next_tid \in Threads,
               mem' = [mem EXCEPT ![next_tid] = "freed"] \/ mem' = [mem EXCEPT ![next_tid] = "live"]
        PROVE  [Lifecycle!Next]_Status
    <3>1. mem[next_tid] = "unborn" /\ tstate[next_tid] = "READY"
      BY <2>3, ThreadsAssumption, MaxTidAssumption DEF IInv, TableSound, LifeInv, UnbornReady
    <3>2. Status[next_tid] = "absent"
      BY <1>0, <2>3, <3>1, StatusAt
    <3>3. Status'[next_tid] \in {"ready", "reclaimed"}
      BY <1>0, <2>1, <2>3, <3>1 DEF Status
    <3>4. Status' = [Status EXCEPT ![next_tid] = Status'[next_tid]]
      BY <1>0, <2>1, <2>3, StatusFrame
    <3> QED
      BY <2>3, <3>2, <3>3, <3>4 DEF Lifecycle!Create, Lifecycle!Fail
  <2> QED
    BY <1>2, <2>2, <2>3, CreateCases
<1>3. ASSUME NEW i \in Slots, CleanOne(i)
      PROVE  [Lifecycle!Next]_Status
  <2> DEFINE a == table[i]
  <2>1. a # NULL /\ tstate[a] = "TERMED" /\ mem' = [mem EXCEPT ![a] = "freed"] /\ UNCHANGED tstate
    BY <1>3 DEF CleanOne, Termed
  <2>2. a \in Threads /\ mem[a] = "live"
    BY <2>1 DEF IInv, TypeOK, ThreadOrNull, TableSound
  <2> HIDE DEF a
  <2>3. Status[a] = "dead"
    BY <1>0, <2>1, <2>2, StatusAt
  <2>4. Status'[a] = "reclaimed"
    BY <1>0, <2>1, <2>2 DEF Status
  <2>5. Status' = [Status EXCEPT ![a] = Status'[a]]
    BY <1>0, <2>1, <2>2, StatusFrame
  <2> QED
    BY <2>2, <2>3, <2>4, <2>5 DEF Lifecycle!Reclaim
<1>4. ASSUME NEW a \in Threads, NEW s \in States, UNCHANGED mem, mem[a] = "live",
             tstate' = [tstate EXCEPT ![a] = s],
             \/ tstate[a] = s
             \/ tstate[a] = "RUNNING" /\ s \in {"BLOCKED", "READY"}
             \/ a # 0 /\ s = "TERMED"
             \/ tstate[a] = "READY" /\ s = "RUNNING" /\ \A u \in Threads : tstate[u] # "RUNNING"
      PROVE  [Lifecycle!Next]_Status
  <2>1. Status' = [Status EXCEPT ![a] = Status'[a]]
    BY <1>0, <1>4, StatusFrame
  <2>2. CASE tstate[a] = s
    BY <1>0, <1>1, <1>4, <2>2
  <2>3. CASE tstate[a] = "RUNNING" /\ s \in {"BLOCKED", "READY"}
    <3>1. Status[a] = "running" /\ Status'[a] \in {"blocked", "ready"}
      BY <1>0, <1>4, <2>3 DEF Status
    <3> QED
      BY <2>1, <3>1 DEF Lifecycle!Preempt, Lifecycle!Wait
  <2>4. CASE tstate[a] # s /\ a # 0 /\ s = "TERMED"
    <3>1. Status[a] \in {"ready", "blocked", "running"} /\ Status'[a] = "dead"
      BY <1>0, <1>4, <2>4 DEF Status, States
    <3> QED
      BY <2>1, <2>4, <3>1 DEF Lifecycle!Exit, Lifecycle!Terminate
  <2>5. CASE tstate[a] = "READY" /\ s = "RUNNING" /\ \A u \in Threads : tstate[u] # "RUNNING"
    <3>1. Status[a] = "ready" /\ Status'[a] = "running"
      BY <1>0, <1>4, <2>5 DEF Status
    <3>2. Lifecycle!CpuFree
      BY <1>0, <2>5 DEF Lifecycle!CpuFree, Status, States
    <3> QED
      BY <2>1, <3>1, <3>2 DEF Lifecycle!Dispatch
  <2> QED
    BY <1>4, <2>2, <2>3, <2>4, <2>5
<1>5. ASSUME NEW t \in Threads, acquire_mutex(t)
      PROVE  [Lifecycle!Next]_Status
  <2>1. mem[t] = "live" /\ UNCHANGED mem
    BY <1>5 DEF acquire_mutex, At, IInv, CpuSound
  <2> QED
    BY <1>1, <1>4, <1>5, <2>1, AcquireLife DEF States
<1>6. ASSUME NEW t \in Threads, release_mutex(t)
      PROVE  [Lifecycle!Next]_Status
  BY <1>1, <1>6, ReleaseLife DEF release_mutex
<1>7. ASSUME NEW t \in Threads, ExitMark(t) \/ TermBody(t)
      PROVE  [Lifecycle!Next]_Status
  <2>1. UNCHANGED mem
    BY <1>7 DEF ExitMark, TermBody
  <2> QED
    BY <1>1, <1>4, <1>7, <2>1, MarkLife DEF States
<1>8. ASSUME TickEnter, irq = "none"
      PROVE  [Lifecycle!Next]_Status
  <2>1. CASE UNCHANGED tstate
    BY <1>1, <1>8, <2>1 DEF TickEnter
  <2>2. CASE tstate' # tstate
    <3>1. /\ cur # NULL /\ tstate[cur] \in {"RUNNING", "READY"}
          /\ tstate' = [tstate EXCEPT ![cur] = "READY"] /\ UNCHANGED mem
      BY <1>8, <2>2 DEF TickEnter, Preempted
    <3>2. cur \in Threads
      BY <3>1 DEF IInv, TypeOK, ThreadOrNull
    <3>3. CASE mem[cur] # "live"
      <4>1. Status'[cur] = Status[cur]
        BY <1>0, <3>1, <3>2, <3>3 DEF Status
      <4>2. Status' = [Status EXCEPT ![cur] = Status'[cur]]
        BY <1>0, <3>1, <3>2, StatusFrame
      <4> QED
        BY <3>2, <4>1, <4>2 DEF Status
    <3> QED
      BY <1>4, <3>1, <3>2, <3>3 DEF States
  <2> QED
    BY <2>1, <2>2
<1>9. CASE PickDispatch
  <2>1. /\ Candidate \in Threads /\ mem[Candidate] = "live"
        /\ tstate[Candidate] \in {"READY", "RUNNING"}
    BY <1>0, <1>9, RunnableType DEF PickDispatch
  <2>2. \A u \in Threads : tstate[u] # "RUNNING"
    BY <1>9 DEF PickDispatch, Runnable, Picking, IInv, OneRunning
  <2>3. tstate' = [tstate EXCEPT ![Candidate] = "RUNNING"] /\ UNCHANGED mem
    BY <1>9 DEF PickDispatch
  <2> QED
    BY <1>4, <2>1, <2>2, <2>3 DEF States
<1>10. ASSUME NEW t \in Threads, BlockMark(t) \/ UnblockMark(t)
       PROVE  [Lifecycle!Next]_Status
  <2>1. fault = "none" /\ UNCHANGED mem /\ pc[t] \in {"block_mark", "unblock_mark"}
    BY <1>10 DEF BlockMark, UnblockMark, At
  <2>2. pc[t] = "block_mark" /\ arg[t] = t /\ tstate[t] = "BLOCKED"
    BY <2>1 DEF LifeInv, WaitingSound, BlockLabels, UnblockLabels
  <2>3. UNCHANGED tstate
    BY <1>0, <1>10, <2>2 DEF BlockMark, UnblockMark, At
  <2> QED
    BY <1>1, <2>1, <2>3
<1>11. CASE Next /\ UNCHANGED tstate
  BY <1>1, <1>2, <1>3, <1>11, TableFrame
<1>12. CASE TimerIrq \/ \E t \in Threads : SoftIrq(t)
  BY <1>8, <1>12 DEF TimerIrq, SoftIrq, At
<1>13. CASE UNCHANGED vars
  BY <1>1, <1>13 DEF vars, threadVars
<1> QED
  BY <1>5, <1>6, <1>7, <1>9, <1>10, <1>11, <1>12, <1>13, StateFrame

\* The scheduler implements the life cycle its API promises: thread_create,
\* thread_exit, thread_terminate, process_exit, the mutexes, scheduler_tick
\* and clean_up only move a thread along it.  thread_block and thread_unblock
\* do not (they write the state of a thread found earlier), hence the
\* hypothesis.
THEOREM LifecycleHolds == NobodyBlocks => (Spec => LifecycleSpec)
<1> SUFFICES ASSUME NobodyBlocks PROVE Spec => LifecycleSpec
  OBVIOUS
<1>1. Init => Lifecycle!Init
  <2> SUFFICES ASSUME Init PROVE Lifecycle!Init
    OBVIOUS
  <2>1. /\ tstate = [t \in Threads |-> IF t = 0 THEN "RUNNING" ELSE "READY"]
        /\ mem[0] = "live" /\ 0 \in Threads
        /\ \A t \in Threads : mem[t] \in {"live", "unborn"}
    BY ThreadsAssumption, MaxTidAssumption DEF Init, BootState
  <2>2. \A t \in Threads : /\ Status[t] \in {"absent", "ready", "running"}
                           /\ Status[t] = "running" <=> t = 0
    BY <2>1 DEF Status
  <2>3. Status \in [Threads -> {"absent", "ready", "running"}]
    BY <2>1 DEF Status
  <2>4. { t \in Threads : Status[t] = "running" } = {0}
    BY <2>1, <2>2
  <2> QED
    BY <2>3, <2>4 DEF Lifecycle!Init
<1>2. Init => LifeInv
  BY LifeInit
<1>3. IInv /\ LifeInv /\ [Next]_vars => LifeInv'
  BY LifeStep
<1>4. IInv /\ LifeInv /\ IInv' /\ LifeInv' /\ [Next]_vars => [Lifecycle!Next]_Status
  BY LifecycleStep
<1> QED
  BY <1>1, <1>2, <1>3, <1>4, Invariance, PTL DEF Spec, LifecycleSpec, Lifecycle!Spec

-----------------------------------------------------------------------------
(* Reachability in the list, without induction: Reach is the least set      *)
(* that holds the head and is closed under "next".                          *)

\* Reach holds the head and is closed.
LEMMA ReachClosed ==
  ASSUME NEW q \in Queues
  PROVE  /\ Reach(q) \subseteq Threads
         /\ q.ready_head = NULL => Reach(q) = {}
         /\ q.ready_head # NULL => q.ready_head \in Reach(q)
         /\ \A u \in Reach(q) : q.next[u] \in Reach(q) \cup {NULL}
<1>1. q.ready_head \in Threads \cup {NULL} /\ q.next \in [Threads -> Threads \cup {NULL}]
  BY DEF Queues, ThreadOrNull
<1>2. ASSUME NEW u \in Reach(q), q.next[u] # NULL
      PROVE  q.next[u] \in Reach(q)
  <2>1. q.ready_head # NULL /\ u \in From(q, q.ready_head)
    BY <1>2 DEF Reach
  <2>2. q.next[u] \in Threads
    BY <1>1, <1>2, <2>1 DEF From
  <2>3. ASSUME NEW S \in SUBSET Threads, q.ready_head \in S,
               \A v \in S : q.next[v] \in S \cup {NULL}
        PROVE  q.next[u] \in S
    BY <1>2, <2>1, <2>3 DEF From
  <2> QED
    BY <2>1, <2>2, <2>3 DEF Reach, From
<1> QED
  BY <1>1, <1>2 DEF Reach, From

\* Reach is the least such set.
LEMMA ReachLeast ==
  ASSUME NEW q \in Queues, q.ready_head # NULL,
         NEW S \in SUBSET Threads, q.ready_head \in S,
         \A u \in S : q.next[u] \in S \cup {NULL}
  PROVE  Reach(q) \subseteq S
  BY DEF Reach, From

\* t->next = NULL of a thread off the list changes nothing of the list.
LEMMA UnlinkReach ==
  ASSUME NEW q \in Queues, NEW t \in Threads, t \notin Reach(q)
  PROVE  /\ unlink_next(q, t) \in Queues
         /\ Reach(unlink_next(q, t)) = Reach(q)
         /\ ListSound(q) => ListSound(unlink_next(q, t))
<1> DEFINE r == unlink_next(q, t)
<1>1. /\ r \in Queues /\ r.ready_head = q.ready_head /\ r.ready_tail = q.ready_tail
      /\ r.next = [q.next EXCEPT ![t] = NULL]
      /\ q.next \in [Threads -> ThreadOrNull]
  BY DEF unlink_next, Queues, ThreadOrNull
<1> HIDE DEF r
<1>2. \A u \in Threads : u # t => r.next[u] = q.next[u]
  BY <1>1
<1>3. CASE q.ready_head = NULL
  BY <1>1, <1>3 DEF Reach, ListSound, r
<1>4. CASE q.ready_head # NULL
  <2>1. Reach(r) \subseteq Reach(q)
    <3>1. \A u \in Reach(q) : r.next[u] \in Reach(q) \cup {NULL}
      BY <1>2, ReachClosed
    <3> QED
      BY <1>1, <1>4, <3>1, ReachClosed, ReachLeast
  <2>2. Reach(q) \subseteq Reach(r)
    <3> DEFINE S == Reach(r)
    <3>1. S \in SUBSET Threads /\ q.ready_head \in S
      BY <1>1, <1>4, ReachClosed
    <3>2. \A u \in S : u \in Threads /\ u # t
      BY <2>1, ReachClosed
    <3>3. \A u \in S : q.next[u] \in S \cup {NULL}
      BY <1>1, <1>2, <3>2, ReachClosed
    <3> QED
      BY <1>4, <3>1, <3>3, ReachLeast
  <2>3. Reach(r) = Reach(q) /\ \A u \in Reach(q) : r.next[u] = q.next[u]
    BY <1>2, <2>1, <2>2, ReachClosed
  <2> QED
    BY <1>1, <2>3 DEF ListSound, r
<1> QED
  BY <1>3, <1>4

\* Appending a thread that is off the list and ends in NULL.
LEMMA LinkReach ==
  ASSUME NEW q \in Queues, ListSound(q), NEW t \in Threads, t \notin Reach(q), q.next[t] = NULL
  PROVE  /\ link_ready_tail(q, t) \in Queues
         /\ Reach(link_ready_tail(q, t)) = Reach(q) \cup {t}
         /\ ListSound(link_ready_tail(q, t))
         /\ \A u \in Threads \ Reach(q) : link_ready_tail(q, t).next[u] = q.next[u]
<1> DEFINE r == link_ready_tail(q, t)
<1>0. /\ q.ready_head \in ThreadOrNull /\ q.ready_tail \in ThreadOrNull
      /\ q.next \in [Threads -> ThreadOrNull] /\ t # NULL /\ NULL \notin Threads
  BY NullAssumption DEF Queues
<1>1. CASE q.ready_head = NULL
  <2>1. /\ r \in Queues /\ r.ready_head = t /\ r.ready_tail = t /\ r.next = q.next
    BY <1>0, <1>1 DEF link_ready_tail, Queues, ThreadOrNull
  <2> HIDE DEF r
  <2>2. {t} \in SUBSET Threads /\ \A u \in {t} : r.next[u] \in {t} \cup {NULL}
    BY <2>1
  <2>3. Reach(r) = {t}
    <3>1. t \in Reach(r)
      BY <1>0, <2>1, ReachClosed
    <3>2. Reach(r) \subseteq {t}
      BY <1>0, <2>1, <2>2, ReachLeast
    <3> QED
      BY <3>1, <3>2
  <2>4. Reach(q) = {}
    BY <1>1 DEF Reach
  <2> QED
    BY <1>0, <2>1, <2>3, <2>4 DEF ListSound, r
<1>2. CASE q.ready_head # NULL
  <2> DEFINE l == q.ready_tail
  <2>1. l \in Reach(q) /\ l \in Threads /\ l # t /\ q.next[l] = NULL
    BY <1>2, ReachClosed DEF ListSound
  <2>2. /\ r \in Queues /\ r.ready_head = q.ready_head /\ r.ready_tail = t
        /\ r.next = [q.next EXCEPT ![l] = t]
    BY <1>0, <1>2, <2>1 DEF link_ready_tail, Queues, ThreadOrNull
  <2>3. /\ \A u \in Threads : u # l => r.next[u] = q.next[u]
        /\ r.next[l] = t
    BY <1>0, <2>1, <2>2
  <2> HIDE DEF r, l
  <2>4. Reach(r) \subseteq Reach(q) \cup {t}
    <3>1. \A u \in Reach(q) \cup {t} : r.next[u] \in (Reach(q) \cup {t}) \cup {NULL}
      BY <2>1, <2>3, ReachClosed
    <3>2. r.ready_head \in Reach(q) \cup {t} /\ r.ready_head # NULL
      BY <1>2, <2>2, ReachClosed
    <3>3. Reach(q) \cup {t} \in SUBSET Threads
      BY ReachClosed
    <3> QED
      BY <2>2, <3>1, <3>2, <3>3, ReachLeast
  <2>5. Reach(q) \subseteq Reach(r)
    <3>1. Reach(r) \in SUBSET Threads /\ q.ready_head \in Reach(r)
      BY <1>2, <2>2, ReachClosed
    <3>2. \A u \in Reach(r) : q.next[u] \in Reach(r) \cup {NULL}
      BY <2>1, <2>2, <2>3, <3>1, ReachClosed
    <3> QED
      BY <1>2, <3>1, <3>2, ReachLeast
  <2>6. t \in Reach(r)
    BY <1>0, <2>1, <2>2, <2>3, <2>5, ReachClosed
  <2>7. Reach(r) = Reach(q) \cup {t}
    BY <2>4, <2>5, <2>6
  <2>8. \A u \in Reach(r) : r.next[u] # r.ready_head /\ (r.next[u] = NULL <=> u = r.ready_tail)
    <3>1. t # q.ready_head /\ r.next[t] = NULL /\ r.next[l] = t
      BY <1>2, <2>1, <2>3, ReachClosed
    <3>2. \A u \in Reach(q) : u # l => r.next[u] # q.ready_head /\ r.next[u] # NULL
      BY <2>3, ReachClosed DEF ListSound, l
    <3> QED
      BY <1>0, <1>2, <2>2, <2>7, <3>1, <3>2
  <2>9. \A u, v \in Reach(r) : r.next[u] = r.next[v] /\ r.next[u] # NULL => u = v
    <3>1. \A u \in Reach(q) : u # l => r.next[u] # t /\ r.next[u] = q.next[u]
      BY <1>0, <2>3, ReachClosed
    <3>2. r.next[t] = NULL
      BY <2>1, <2>3
    <3> QED
      BY <2>3, <2>7, <3>1, <3>2 DEF ListSound
  <2>10. ListSound(r)
    BY <1>0, <1>2, <2>2, <2>7, <2>8, <2>9 DEF ListSound
  <2> QED
    BY <2>1, <2>2, <2>3, <2>7, <2>10 DEF r
<1> QED
  BY <1>1, <1>2

\* enqueue_ready_tail of a thread that is off the list.
LEMMA EnqueueReach ==
  ASSUME NEW q \in Queues, ListSound(q), NEW t \in Threads, t \notin Reach(q)
  PROVE  /\ enqueue_ready_tail(q, t) \in Queues
         /\ Reach(enqueue_ready_tail(q, t)) = Reach(q) \cup {t}
         /\ ListSound(enqueue_ready_tail(q, t))
         /\ \A u \in Threads \ Reach(q) :
              enqueue_ready_tail(q, t).next[u] = IF u = t THEN NULL ELSE q.next[u]
<1> DEFINE r == unlink_next(q, t)
<1>1. r \in Queues /\ Reach(r) = Reach(q) /\ ListSound(r)
  BY UnlinkReach
<1>2. r.next = [q.next EXCEPT ![t] = NULL] /\ q.next \in [Threads -> ThreadOrNull]
  BY DEF unlink_next, Queues
<1>3. \A u \in Threads : r.next[u] = IF u = t THEN NULL ELSE q.next[u]
  BY <1>2
<1> HIDE DEF r
<1>4. enqueue_ready_tail(q, t) = link_ready_tail(r, t)
  BY DEF enqueue_ready_tail, r
<1> QED
  BY <1>1, <1>3, <1>4, LinkReach

\* dequeue_ready_head takes the head, and nothing else, off the list.
LEMMA DequeueReach ==
  ASSUME NEW q \in Queues, ListSound(q), q.ready_head # NULL
  PROVE  /\ dequeue_ready_head(q) \in Queues
         /\ Reach(dequeue_ready_head(q)) = Reach(q) \ {q.ready_head}
         /\ ListSound(dequeue_ready_head(q))
         /\ \A u \in Threads \ Reach(q) : dequeue_ready_head(q).next[u] = q.next[u]
<1> DEFINE r == dequeue_ready_head(q)
           t == q.ready_head
           h == q.next[t]
<1>0. /\ q.ready_tail \in ThreadOrNull /\ q.next \in [Threads -> ThreadOrNull]
      /\ t \in Threads /\ t \in Reach(q) /\ h \in Reach(q) \cup {NULL}
      /\ Reach(q) \subseteq Threads /\ NULL \notin Threads
  BY NullAssumption, ReachClosed DEF Queues, ThreadOrNull
<1>1. /\ r \in Queues /\ r.ready_head = h
      /\ r.ready_tail = IF h = NULL THEN NULL ELSE q.ready_tail
      /\ r.next = [q.next EXCEPT ![t] = NULL]
  BY <1>0 DEF dequeue_ready_head, Queues, ThreadOrNull
<1>2. \A u \in Threads : r.next[u] = IF u = t THEN NULL ELSE q.next[u]
  BY <1>0, <1>1
<1>3. \A u \in Reach(q) : q.next[u] # t /\ (q.next[u] = NULL <=> u = q.ready_tail)
  BY DEF ListSound
<1>4. \A u, v \in Reach(q) : q.next[u] = q.next[v] /\ q.next[u] # NULL => u = v
  BY DEF ListSound
<1>5. h # t /\ (h = NULL <=> t = q.ready_tail)
  BY <1>0, <1>3
<1>6. q.ready_tail \in Reach(q)
  BY DEF ListSound
<1> HIDE DEF r, h, t
<1>7. CASE h = NULL
  <2>1. Reach(r) = {}
    BY <1>1, <1>7 DEF Reach
  <2>2. Reach(q) \subseteq {t}
    <3>1. \A u \in {t} : q.next[u] \in {t} \cup {NULL}
      BY <1>7 DEF h
    <3>2. {t} \in SUBSET Threads /\ q.ready_head \in {t}
      BY <1>0 DEF t
    <3> QED
      BY <3>1, <3>2, ReachLeast
  <2>3. ListSound(r)
    BY <1>1, <1>7, <2>1 DEF ListSound
  <2> QED
    BY <1>0, <1>1, <1>2, <2>1, <2>2, <2>3 DEF r, t
<1>8. CASE h # NULL
  <2>1. h \in Reach(q) \ {t}
    BY <1>0, <1>5, <1>8
  <2>2. Reach(r) \subseteq Reach(q) \ {t}
    <3>1. \A u \in Reach(q) \ {t} : r.next[u] \in (Reach(q) \ {t}) \cup {NULL}
      BY <1>0, <1>2, <1>3, ReachClosed
    <3>2. Reach(q) \ {t} \in SUBSET Threads
      BY <1>0
    <3> QED
      BY <1>1, <1>8, <2>1, <3>1, <3>2, ReachLeast
  <2>3. Reach(q) \subseteq Reach(r) \cup {t}
    <3>1. Reach(r) \in SUBSET Threads /\ h \in Reach(r) /\ \A u \in Reach(r) : r.next[u] \in Reach(r) \cup {NULL}
      BY <1>1, <1>8, ReachClosed
    <3>2. \A u \in Reach(r) \cup {t} : q.next[u] \in (Reach(r) \cup {t}) \cup {NULL}
      <4>1. q.next[t] = h
        BY DEF h
      <4> QED
        BY <1>0, <1>2, <3>1, <4>1
    <3>3. Reach(r) \cup {t} \in SUBSET Threads /\ q.ready_head \in Reach(r) \cup {t}
      BY <1>0, <3>1 DEF t
    <3> QED
      BY <3>2, <3>3, ReachLeast
  <2>4. Reach(r) = Reach(q) \ {t}
    BY <2>2, <2>3
  <2>5. \A u \in Reach(r) : r.next[u] = q.next[u] /\ u # t /\ u \in Reach(q)
    BY <1>0, <1>2, <2>4
  <2>6. \A u \in Reach(r) : r.next[u] # h
    <3>1. q.next[t] = h
      BY DEF h
    <3> QED
      BY <1>0, <1>4, <1>8, <2>5, <3>1
  <2>7. r.ready_tail = q.ready_tail /\ q.ready_tail # t
    BY <1>1, <1>5, <1>8
  <2>8. q.ready_tail \in Threads /\ q.ready_tail # NULL
    BY <1>0, <1>6
  <2>9. ListSound(r)
    BY <1>1, <1>3, <1>4, <1>6, <1>8, <2>4, <2>5, <2>6, <2>7, <2>8 DEF ListSound
  <2>10. \A u \in Threads \ Reach(q) : r.next[u] = q.next[u]
    BY <1>0, <1>2
  <2> QED
    BY <1>1, <2>4, <2>9, <2>10 DEF r, t
<1> QED
  BY <1>7, <1>8

-----------------------------------------------------------------------------
(* The queue of the scheduler.                                              *)

\* Nobody terminates, blocks or unblocks another thread, and the first thread
\* booted is the idle thread, whose code is a loop that halts.
OnlyCreateAndLeave ==
  Calls \subseteq {"create", "exit", "process_exit"} /\ Booted # <<>> /\ 1 \notin Callers

\* The idle thread has the tid 1 and the slot 1.
LEMMA IdleExists ==
  ASSUME OnlyCreateAndLeave
  PROVE  /\ Len(Booted) \in Nat \ {0} /\ 1 \in Threads /\ 1 \in Slots /\ NobodyBlocks
<1>1. Len(Booted) \in Nat
  BY BootedLength
<1>2. Len(Booted) # 0
  BY BootedAssumption DEF OnlyCreateAndLeave
<1> QED
  BY <1>1, <1>2, BootedAssumption, MaxThreadsAssumption, MaxTidAssumption, ThreadsAssumption
     DEF OnlyCreateAndLeave, NobodyBlocks, Slots

\* Which labels lead to the labels of thread_terminate, of thread_create's last
\* part, and to the interrupt of thread_exit.
LEMMA QueueLabels ==
  ASSUME NEW l \in Labels
  PROVE  /\ l \in DOMAIN Acquires =>
              LET d == Acquires[l][2] IN
              /\ d \in TermLabels => l \in TermLabels
              /\ d \notin CreateLabels /\ l \notin CreateLabels /\ d # "exit_int" /\ l # "user"
         /\ l \in DOMAIN Releases =>
              LET d == Releases[l][2] IN
              /\ d \in TermLabels => l \in TermLabels
              /\ d \in CreateLabels <=> l \in CreateLabels
              /\ d # "exit_int" /\ l # "user"
  BY DEF Acquires, Releases, TermLabels, CreateLabels

\* The idle thread does not move, and the others stay out of thread_terminate.
LEMMA IdleCode ==
  ASSUME OnlyCreateAndLeave, IInv, LifeInv, IdleStays, NEW t \in Threads, Call(t) \/ Step(t)
  PROVE  /\ t # 1
         /\ ~TermBody(t) /\ ~TermRemove(t) /\ ~UnblockFind(t) /\ ~UnblockCheck(t)
         /\ ~UnblockMark(t) /\ ~UnblockNext(t) /\ ~UnblockLink(t)
         /\ pc'[t] \notin TermLabels
         /\ pc'[t] = "exit_int" => pc[t] = "exit_int" \/ ExitClear(t)
<1>1. pc \in [Threads -> Labels] /\ pc[t] \notin TermLabels /\ pc[t] \notin UnblockLabels
  BY DEF IInv, TypeOK, IdleStays, LifeInv
<1>2. t # 1
  <2> SUFFICES ASSUME t = 1 PROVE FALSE
    OBVIOUS
  <2>1. pc[t] = "user" /\ t \notin Callers
    BY DEF IdleStays, OnlyCreateAndLeave
  <2>2. "user" \notin DOMAIN Acquires /\ "user" \notin DOMAIN Releases
    BY DEF Acquires, Releases
  <2>3. ~SpinSave(t) /\ ~acquire_mutex(t) /\ ~release_mutex(t)
    BY <2>1, <2>2 DEF SpinSave, acquire_mutex, release_mutex, At, SchedLabels
  <2> QED
    BY <2>1, <2>3 DEF Call, Step, CreateBody, CreateLink, ExitCall, ExitMark, ExitClear,
       PexitFound, PexitMark, TermBody, TermRemove, BlockRemove, RemoveFromQueue, BlockFind,
       UnblockFind, Find, BlockMark, Unreachable, UnblockCheck, UnblockMark, UnblockNext,
       UnblockLink, SoftIrq, At
<1>3. /\ ~TermBody(t) /\ ~TermRemove(t) /\ ~UnblockFind(t) /\ ~UnblockCheck(t)
      /\ ~UnblockMark(t) /\ ~UnblockNext(t) /\ ~UnblockLink(t)
  BY <1>1 DEF TermBody, TermRemove, RemoveFromQueue, UnblockFind, Find, UnblockCheck,
     UnblockMark, UnblockNext, UnblockLink, At, TermLabels, UnblockLabels
<1>4. CASE acquire_mutex(t)
  <2>1. /\ pc[t] \in DOMAIN Acquires
        /\ \/ pc' = [pc EXCEPT ![t] = Acquires[pc[t]][2]]
           \/ pc' = [pc EXCEPT ![t] = "block_lock"]
    BY <1>4 DEF acquire_mutex, Goto, At
  <2> QED
    BY <1>1, <1>2, <1>3, <2>1, QueueLabels DEF TermLabels
<1>5. CASE release_mutex(t)
  <2>1. pc[t] \in DOMAIN Releases /\ pc' = [pc EXCEPT ![t] = Releases[pc[t]][2]]
    BY <1>5 DEF release_mutex, Goto, At
  <2> QED
    BY <1>1, <1>2, <1>3, <2>1, QueueLabels
<1>6. CASE Call(t)
  BY <1>1, <1>2, <1>3, <1>6 DEF Call, Goto, OnlyCreateAndLeave, TermLabels
<1>7. ASSUME ~acquire_mutex(t), ~release_mutex(t), ~Call(t)
      PROVE  /\ pc'[t] \notin TermLabels
             /\ pc'[t] = "exit_int" => pc[t] = "exit_int" \/ ExitClear(t)
  BY <1>1, <1>3, <1>7 DEF Step, SpinSave, CreateBody, CreateLink, ExitCall, ExitMark,
     PexitFound, PexitMark, BlockRemove, RemoveFromQueue, BlockFind, ExitClear,
     Find, BlockMark, Unreachable, SoftIrq, At, Goto, TermLabels, codeVars
<1> QED
  BY <1>2, <1>3, <1>4, <1>5, <1>6, <1>7

\* The idle thread's part of the invariant.
LEMMA IdleStep ==
  ASSUME OnlyCreateAndLeave, IInv, LifeInv, IdleStays, Next, fault' = "none"
  PROVE  IdleStays'
<1>0. /\ TypeOK /\ pc \in [Threads -> Labels] /\ tstate \in [Threads -> States]
      /\ table \in [Slots -> ThreadOrNull] /\ run \in Threads
      /\ 1 \in Threads /\ 1 \in Slots /\ NULL \notin Threads /\ fault = "none"
  BY IdleExists, NullAssumption, Enabling DEF IInv, TypeOK
<1>1. table'[1] = 1
  <2>1. ASSUME NEW t \in Threads, CreateBody(t)
        PROVE  table'[1] = 1
    BY <1>0, <2>1, CreateCases DEF IdleStays
  <2>2. ASSUME NEW i \in Slots, CleanOne(i)
        PROVE  table'[1] = 1
    <3>1. i # 1
      BY <2>2 DEF CleanOne, Termed, IdleStays
    <3> QED
      BY <1>0, <2>2, <3>1 DEF CleanOne, Emptied, IdleStays
  <2> QED
    BY <2>1, <2>2, TableFrame DEF IdleStays
<1>2. pc'[1] = "user" /\ \A t \in Threads : pc'[t] \notin TermLabels
  <2>1. CASE Tick
    BY <1>0, <2>1, PcFrame DEF IdleStays
  <2>2. ASSUME NEW t \in Threads, Call(t) \/ Step(t)
        PROVE  pc'[1] = "user" /\ \A u \in Threads : pc'[u] \notin TermLabels
    BY <1>0, <2>2, PcFrame, IdleCode DEF IdleStays
  <2> QED
    BY <2>1, <2>2 DEF Next
<1>3. tstate'[1] \in {"READY", "RUNNING"}
  <2>0. CASE UNCHANGED tstate
    BY <2>0 DEF IdleStays
  <2>1. ASSUME NEW t \in Threads, \/ acquire_mutex(t) \/ release_mutex(t) \/ ExitMark(t)
                                  \/ TermBody(t) \/ BlockMark(t) \/ UnblockMark(t)
        PROVE  tstate'[1] \in {"READY", "RUNNING"}
    <3>1. Step(t)
      BY <2>1 DEF Step
    <3>2. t # 1 /\ ~TermBody(t) /\ ~UnblockMark(t)
      BY <3>1, IdleCode
    <3>3. CASE acquire_mutex(t)
      BY <1>0, <3>2, <3>3, AcquireLife DEF IdleStays
    <3>4. CASE release_mutex(t)
      BY <3>4, ReleaseLife DEF IdleStays
    <3>5. CASE ExitMark(t)
      BY <1>0, <3>2, <3>5 DEF ExitMark, IdleStays
    <3>6. CASE BlockMark(t)
      <4>1. pc[t] = "block_mark"
        BY <3>6 DEF BlockMark, At
      <4>2. arg[t] = t
        BY <1>0, <4>1 DEF LifeInv, WaitingSound, BlockLabels
      <4> QED
        BY <1>0, <3>2, <3>6, <4>2 DEF BlockMark, IdleStays
    <3> QED
      BY <2>1, <3>2, <3>3, <3>4, <3>5, <3>6
  <2>2. CASE TimerIrq \/ \E t \in Threads : SoftIrq(t)
    <3>1. TickEnter
      BY <2>2 DEF TimerIrq, SoftIrq
    <3> QED
      BY <1>0, <3>1, TickEnterStates DEF IdleStays
  <2>3. CASE PickDispatch
    BY <1>0, <2>3 DEF PickDispatch, IdleStays
  <2> QED
    BY <2>0, <2>1, <2>2, <2>3, StateFrame
<1>4. irq' = "none" /\ pc'[run'] = "exit_int" => cur' = NULL
  <2>1. ASSUME NEW t \in Threads, ExitClear(t)
        PROVE  cur' = NULL
    BY <2>1 DEF ExitClear
  <2>2. CASE TimerIrq \/ \E t \in Threads : SoftIrq(t)
    BY <2>2 DEF TimerIrq, SoftIrq, TickEnter
  <2>3. CASE PickDispatch
    BY <2>3 DEF PickDispatch
  <2>4. CASE CleanDone
    <3>1. irq = "clean" /\ UNCHANGED <<run, pc>>
      BY <2>4 DEF CleanDone, Cleaning, codeVars
    <3>2. tstate[run] = "RUNNING" /\ mem[run] = "live"
      BY <3>1 DEF IInv, CpuSound
    <3>3. pc[run] # "exit_int"
      BY <1>0, <3>2 DEF IInv, LeavingSound
    <3> QED
      BY <3>1, <3>3
  <2>5. CASE UNCHANGED <<cur, run, irq>>
    <3> SUFFICES ASSUME irq = "none", pc'[run] = "exit_int"
                 PROVE  cur' = NULL
      BY <2>5
    <3>1. CASE Tick
      BY <1>0, <2>5, <3>1, PcFrame DEF IdleStays
    <3>2. ASSUME NEW t \in Threads, Call(t) \/ Step(t)
          PROVE  cur' = NULL
      BY <1>0, <2>1, <2>5, <3>2, PcFrame, IdleCode DEF IdleStays
    <3> QED
      BY <3>1, <3>2 DEF Next
  <2> QED
    BY <2>1, <2>2, <2>3, <2>4, <2>5, CpuFrame
<1> QED
  BY <1>1, <1>2, <1>3, <1>4 DEF IdleStays

\* The parts of the invariant about the list and the threads on it.
QueueParts == ListSound(rq) /\ QueueHolds /\ UnlinkedSound

\* A step that leaves the list alone, makes no thread ready or unready, and
\* leaves thread_create where it is.
LEMMA QuietQueue ==
  ASSUME TypeOK, QueueParts, Reach(rq') = Reach(rq), ListSound(rq'),
         \A u \in Threads : rq'.next[u] = rq.next[u] \/ rq'.next[u] = NULL,
         \A u \in Threads : tstate'[u] = "READY" <=> tstate[u] = "READY",
         \A u \in Threads : mem[u] = "live" /\ tstate[u] = "READY" => mem'[u] = "live",
         \A u \in Threads : mem'[u] # mem[u] => mem'[u] = "freed",
         zombie => zombie',
         \A u \in Threads : pc'[u] \in CreateLabels <=> pc[u] \in CreateLabels,
         \A u \in Threads : pc[u] \in CreateLabels => arg'[u] = arg[u]
  PROVE  QueueParts'
<1>0. mem \in [Threads -> {"unborn", "live", "freed"}] /\ Reach(rq) \subseteq Threads
  BY ReachClosed DEF TypeOK
<1>1. \A x \in Threads : Unlinked(x)' <=> Unlinked(x)
  BY DEF Unlinked, CreateLabels
<1>2. QueueHolds'
  BY <1>0, <1>1 DEF QueueParts, QueueHolds
<1>3. UnlinkedSound'
  BY <1>0 DEF QueueParts, UnlinkedSound
<1> QED
  BY <1>2, <1>3 DEF QueueParts

\* The code of a thread, but for the steps that fill the queue.
LEMMA QueueCode ==
  ASSUME OnlyCreateAndLeave, IInv, LifeInv, QueueParts, IdleStays, fault' = "none",
         NEW t \in Threads, Call(t) \/ Step(t), ~CreateBody(t), ~CreateLink(t), ~SoftIrq(t)
  PROVE  QueueParts'
<1>0. /\ TypeOK /\ pc \in [Threads -> Labels] /\ tstate \in [Threads -> States]
      /\ rq \in Queues /\ run = t /\ irq = "none" /\ fault = "none"
      /\ arg \in [Threads -> ThreadOrNull] /\ mutex \in [Mutexes -> MutexRecords]
      /\ mem[t] = "live" /\ Next
  BY Enabling DEF IInv, TypeOK, CpuSound, Next
<1>1. /\ \A u \in Threads : u # t => pc'[u] = pc[u]
      /\ UNCHANGED mem
      /\ zombie => zombie'
  <2>1. UNCHANGED mem
    BY <1>0, TableFrame DEF CreateBody, CleanOne, Cleaning, At
  <2>2. zombie => zombie'
    BY DEF Call, Step, SpinSave, acquire_mutex, release_mutex, CreateLink,
       ExitCall, ExitMark, ExitClear, PexitFound, PexitMark, TermBody, TermRemove,
       BlockRemove, RemoveFromQueue, BlockFind, UnblockFind, Find, BlockMark,
       Unreachable, UnblockCheck, UnblockMark, UnblockNext, UnblockLink, kernelVars
  <2> QED
    BY <1>0, <2>1, <2>2, PcFrame
<1>2. t \notin Reach(rq) \/ tstate[t] = "READY"
  BY DEF QueueParts, QueueHolds
<1>3. /\ ~TermBody(t) /\ ~TermRemove(t) /\ ~UnblockFind(t) /\ ~UnblockCheck(t)
      /\ ~UnblockMark(t) /\ ~UnblockNext(t) /\ ~UnblockLink(t)
  BY IdleCode
<1>4. \A u \in Threads : u # t => arg'[u] = arg[u]
  BY <1>0, <1>3 DEF Call, Step, SpinSave, acquire_mutex, release_mutex,
     ExitCall, ExitMark, ExitClear, PexitFound, PexitMark, BlockRemove, RemoveFromQueue,
     BlockFind, Find, BlockMark, Unreachable, codeVars
<1>5. CASE acquire_mutex(t)
  <2> DEFINE m == Acquires[pc[t]][1]
  <2>1. pc[t] \in DOMAIN Acquires /\ m \in Mutexes
    BY <1>5, AcquireLabels DEF acquire_mutex, At
  <2>2. CASE Unlocked(m)
    <3>1. UNCHANGED <<rq, tstate, arg>> /\ pc' = [pc EXCEPT ![t] = Acquires[pc[t]][2]]
      BY <1>5, <2>2 DEF acquire_mutex, Goto
    <3> QED
      BY <1>0, <1>1, <2>1, <3>1, QueueLabels, QuietQueue DEF QueueParts
  <2>3. CASE ~Unlocked(m)
    <3>1. m # "thread_mutex"
      BY <1>5, <2>3 DEF acquire_mutex
    <3>2. pc[t] \notin BlockLabels \cup LeavingLabels
      BY <1>0, <2>1, <3>1, LabelClasses
    <3>3. mutex[m].waiters = <<>> /\ tstate[t] = "RUNNING"
      BY <1>0, <2>1, <3>2 DEF LifeInv, RunningSound
    <3>4. /\ rq' = unlink_next(rq, t) /\ tstate' = [tstate EXCEPT ![t] = "BLOCKED"]
          /\ pc' = [pc EXCEPT ![t] = "block_lock"]
      BY <1>5, <2>3, <3>3 DEF acquire_mutex, Goto
    <3>5. t \notin Reach(rq)
      BY <1>2, <3>3
    <3>6. /\ Reach(rq') = Reach(rq) /\ ListSound(rq')
      BY <1>0, <3>4, <3>5, UnlinkReach DEF QueueParts
    <3>7. \A u \in Threads : rq'.next[u] = rq.next[u] \/ rq'.next[u] = NULL
      BY <1>0, <3>4 DEF unlink_next, Queues
    <3>8. \A u \in Threads : tstate'[u] = "READY" <=> tstate[u] = "READY"
      BY <1>0, <3>3, <3>4
    <3>9. /\ \A u \in Threads : pc'[u] \in CreateLabels <=> pc[u] \in CreateLabels
          /\ \A u \in Threads : pc[u] \in CreateLabels => arg'[u] = arg[u]
      BY <1>0, <1>1, <1>4, <2>1, <3>4, QueueLabels DEF CreateLabels
    <3> QED
      BY <1>0, <1>1, <3>6, <3>7, <3>8, <3>9, QuietQueue
  <2> QED
    BY <2>2, <2>3
<1>6. CASE release_mutex(t)
  <2>1. /\ pc[t] \in DOMAIN Releases /\ pc' = [pc EXCEPT ![t] = Releases[pc[t]][2]]
        /\ UNCHANGED <<arg>>
    BY <1>6 DEF release_mutex, At, Goto
  <2>2. UNCHANGED <<rq, tstate>>
    BY <1>6, ReleaseLife
  <2> QED
    BY <1>0, <1>1, <2>1, <2>2, QueueLabels, QuietQueue DEF QueueParts
<1>7. CASE ExitMark(t)
  <2>1. tstate[t] = "RUNNING"
    BY <1>0, <1>7 DEF ExitMark, At, LifeInv, RunningSound, LeavingLabels, BlockLabels
  <2>2. UNCHANGED <<rq, arg>> /\ tstate' = [tstate EXCEPT ![t] = "TERMED"]
        /\ pc[t] = "exit_mark" /\ pc' = [pc EXCEPT ![t] = "exit_unlock"]
    BY <1>7 DEF ExitMark, At, Goto
  <2> QED
    BY <1>0, <1>1, <2>1, <2>2, QuietQueue DEF QueueParts, CreateLabels
<1>8. ASSUME BlockMark(t) \/ BlockRemove(t) \/ BlockFind(t)
      PROVE  QueueParts'
  <2>1. pc[t] \in BlockLabels \ {"block_int"}
    BY <1>8 DEF BlockMark, BlockRemove, RemoveFromQueue, BlockFind, Find, At, BlockLabels
  <2>2. arg[t] = t /\ tstate[t] = "BLOCKED"
    BY <1>0, <2>1 DEF LifeInv, WaitingSound
  <2>3. UNCHANGED rq
    BY <1>2, <1>8, <2>2 DEF BlockMark, BlockRemove, RemoveFromQueue, remove_from_ready_queue,
       BlockFind, Find
  <2>4. UNCHANGED tstate
    BY <1>0, <1>8, <2>2 DEF BlockMark, BlockRemove, RemoveFromQueue, BlockFind, Find, threadVars
  <2>5. pc'[t] \notin CreateLabels /\ pc[t] \notin CreateLabels
    BY <1>0, <1>8, <2>1 DEF BlockMark, BlockRemove, RemoveFromQueue, BlockFind, Find, Goto,
       BlockLabels, CreateLabels
  <2> QED
    BY <1>0, <1>1, <1>4, <2>3, <2>4, <2>5, QuietQueue DEF QueueParts
<1>9. ASSUME \/ Call(t) \/ SpinSave(t) \/ ExitCall(t) \/ ExitClear(t)
             \/ PexitFound(t) \/ PexitMark(t) \/ Unreachable(t)
      PROVE  QueueParts'
  <2>1. UNCHANGED <<rq, tstate>>
    BY <1>9 DEF Call, SpinSave, ExitCall, ExitClear, PexitFound, PexitMark, Unreachable, threadVars
  <2>2. \/ UNCHANGED <<pc, arg>>
        \/ pc'[t] \notin CreateLabels /\ pc[t] \notin CreateLabels
    BY <1>0, <1>9 DEF Call, SpinSave, ExitCall, ExitClear, PexitFound, PexitMark, Unreachable,
       At, Goto, CreateLabels, codeVars
  <2> QED
    BY <1>0, <1>1, <1>4, <2>1, <2>2, QuietQueue DEF QueueParts
<1> QED
  BY <1>3, <1>5, <1>6, <1>7, <1>8, <1>9 DEF Step

\* thread_create enters a thread that no list holds, and links it later.
LEMMA QueueCreate ==
  ASSUME IInv, LifeInv, QueueParts, IdleStays, fault' = "none", NEW t \in Threads, CreateBody(t),
         OnlyCreateAndLeave
  PROVE  QueueParts'
<1>0. /\ TypeOK /\ pc \in [Threads -> Labels] /\ pc[t] = "create_body"
      /\ arg \in [Threads -> ThreadOrNull]
      /\ UNCHANGED <<rq, tstate, zombie>> /\ fault = "none"
      /\ mem \in [Threads -> {"unborn", "live", "freed"}]
      /\ Reach(rq) \subseteq Threads
  BY ReachClosed DEF IInv, TypeOK, CreateBody, At
<1>1. /\ next_tid \in Threads => mem[next_tid] = "unborn" /\ tstate[next_tid] = "READY"
      /\ next_tid # 1
  <2>1. next_tid \in Nat /\ next_tid > 1
    BY <1>0, IdleExists, ThreadsAssumption, MaxTidAssumption, NullAssumption
       DEF IdleStays, IInv, TypeOK, TableSound
  <2> QED
    BY <2>1, ThreadsAssumption, MaxTidAssumption DEF IInv, TableSound, LifeInv, UnbornReady
<1>2. CASE /\ pc' = [pc EXCEPT ![t] = "create_fail"] /\ UNCHANGED arg
           /\ \/ UNCHANGED mem
              \/ next_tid \in Threads /\ mem' = [mem EXCEPT ![next_tid] = "freed"]
  <2>1. \A u \in Threads : mem[u] = "live" => mem'[u] = "live"
    BY <1>0, <1>1, <1>2
  <2>2. \A u \in Threads : mem'[u] # mem[u] => mem'[u] = "freed"
    BY <1>0, <1>2
  <2>3. \A u \in Threads : pc'[u] \in CreateLabels <=> pc[u] \in CreateLabels
    BY <1>0, <1>2 DEF CreateLabels
  <2> QED
    BY <1>0, <1>2, <2>1, <2>2, <2>3, QuietQueue DEF QueueParts
<1>3. CASE /\ next_tid \in Threads /\ mem' = [mem EXCEPT ![next_tid] = "live"]
           /\ arg' = [arg EXCEPT ![t] = next_tid] /\ pc' = [pc EXCEPT ![t] = "create_unlock"]
  <2>0. PICK n \in Threads : n = next_tid
    BY <1>3
  <2>1. \A x \in Threads : x # n => (Unlinked(x)' <=> Unlinked(x))
    BY <1>0, <1>3, <2>0 DEF Unlinked
  <2>2. Unlinked(n)'
    BY <1>0, <1>3, <2>0 DEF Unlinked
  <2>3. n \notin Reach(rq) /\ rq.next[n] = NULL
    BY <1>1, <2>0 DEF QueueParts, QueueHolds, UnlinkedSound
  <2>4. QueueHolds'
    BY <1>0, <1>3, <2>0, <2>1, <2>2, <2>3 DEF QueueParts, QueueHolds
  <2>5. \A u \in Threads : pc[u] \in CreateLabels => arg[u] # n
    BY <1>1, <2>0 DEF QueueParts, UnlinkedSound
  <2>6. UnlinkedSound'
    BY <1>0, <1>1, <1>3, <2>0, <2>3, <2>5 DEF QueueParts, UnlinkedSound, CreateLabels
  <2> QED
    BY <1>0, <2>4, <2>6 DEF QueueParts
<1> QED
  BY <1>2, <1>3 DEF CreateBody, Goto

\* thread_create's last step.
LEMMA QueueLink ==
  ASSUME IInv, QueueParts, fault' = "none", NEW t \in Threads, CreateLink(t)
  PROVE  QueueParts'
<1> DEFINE a == arg[t]
<1>0. /\ TypeOK /\ pc \in [Threads -> Labels] /\ pc[t] = "create_link" /\ rq \in Queues
      /\ arg \in [Threads -> ThreadOrNull] /\ rq' = link_ready_tail(rq, a)
      /\ UNCHANGED <<tstate, zombie, mem>> /\ arg' = [arg EXCEPT ![t] = NULL]
      /\ pc' = [pc EXCEPT ![t] = "user"]
      /\ Reach(rq) \subseteq Threads
  BY ReachClosed DEF IInv, TypeOK, CreateLink, At, Goto, threadVars, kernelVars
<1>1. /\ a \in Threads \ {1} /\ mem[a] = "live" /\ tstate[a] = "READY"
      /\ a \notin Reach(rq) /\ rq.next[a] = NULL
  BY <1>0 DEF QueueParts, UnlinkedSound, CreateLabels
<1> HIDE DEF a
<1>2. /\ Reach(rq') = Reach(rq) \cup {a} /\ ListSound(rq')
      /\ \A u \in Threads \ Reach(rq) : rq'.next[u] = rq.next[u]
  BY <1>0, <1>1, LinkReach DEF QueueParts
<1>3. \A u \in Threads : /\ pc'[u] \in CreateLabels <=> (pc[u] \in CreateLabels /\ u # t)
                         /\ u # t => arg'[u] = arg[u]
  BY <1>0 DEF CreateLabels
<1>4. \A u \in Threads : pc'[u] \in CreateLabels => arg[u] # a
  BY <1>0, <1>3 DEF QueueParts, UnlinkedSound, CreateLabels, a
<1>5. \A x \in Threads : x # a => (Unlinked(x)' <=> Unlinked(x))
  BY <1>0, <1>3 DEF Unlinked, CreateLabels, a
<1>6. QueueHolds'
  BY <1>0, <1>1, <1>2, <1>5 DEF QueueParts, QueueHolds
<1>7. UnlinkedSound'
  <2>1. \A u \in Threads : mem[u] = "unborn" => u \notin Reach(rq)
    BY <1>0 DEF QueueParts, QueueHolds
  <2> QED
    BY <1>0, <1>1, <1>2, <1>3, <1>4, <2>1 DEF QueueParts, UnlinkedSound
<1> QED
  BY <1>2, <1>6, <1>7 DEF QueueParts

\* A tick puts the interrupted thread, which no list holds, at the tail.
LEMMA QueueEnter ==
  ASSUME IInv, LifeInv, QueueParts, IdleStays, fault = "none", fault' = "none",
         irq = "none", TickEnter,
         \/ UNCHANGED pc
         \/ pc' = [pc EXCEPT ![run] = "unreachable"] /\ pc[run] \in {"block_int", "exit_int"}
  PROVE  QueueParts'
<1>0. /\ TypeOK /\ pc \in [Threads -> Labels] /\ tstate \in [Threads -> States]
      /\ rq \in Queues /\ run \in Threads /\ UNCHANGED <<arg, mem, zombie>>
      /\ Reach(rq) \subseteq Threads /\ cur \in Threads \cup {NULL} /\ NULL \notin Threads
  BY NullAssumption, ReachClosed DEF IInv, TypeOK, ThreadOrNull, TickEnter, kernelVars
<1>1. \A u \in Threads : pc'[u] \in CreateLabels <=> pc[u] \in CreateLabels
  BY <1>0 DEF CreateLabels
<1>2. CASE cur = NULL
  BY <1>0, <1>1, <1>2, QuietQueue DEF TickEnter, QueueParts
<1>3. CASE cur # NULL
  <2>1. cur = run
    BY <1>3 DEF IInv, CpuSound, IdleStays
  <2>2. tstate[run] \in {"RUNNING", "READY"} /\ rq' = Requeued /\ tstate' = Preempted
    BY <1>3, <2>1 DEF TickEnter
  <2>3. tstate[run] = "RUNNING" /\ mem[run] = "live"
    BY <1>0, <2>2 DEF IInv, CpuSound, LeavingSound, LifeInv, WaitingSound, RunningSound,
       LeavingLabels
  <2>4. run \notin Reach(rq)
    BY <2>3 DEF QueueParts, QueueHolds
  <2>5. rq' = enqueue_ready_tail(rq, run) /\ tstate' = [tstate EXCEPT ![run] = "READY"]
    BY <2>1, <2>2 DEF Requeued, Preempted
  <2>6. /\ Reach(rq') = Reach(rq) \cup {run} /\ ListSound(rq')
        /\ \A u \in Threads \ Reach(rq) : rq'.next[u] = IF u = run THEN NULL ELSE rq.next[u]
    BY <1>0, <2>4, <2>5, EnqueueReach DEF QueueParts
  <2>7. \A x \in Threads : Unlinked(x)' <=> Unlinked(x)
    BY <1>0, <1>1 DEF Unlinked, CreateLabels
  <2>8. QueueHolds'
    BY <1>0, <2>3, <2>5, <2>6, <2>7 DEF QueueParts, QueueHolds
  <2>9. \A u \in Threads : pc[u] \in CreateLabels => arg[u] # run
    BY <2>3 DEF QueueParts, UnlinkedSound
  <2>10. \A u \in Threads : mem[u] = "unborn" => u \notin Reach(rq)
    BY DEF QueueParts, QueueHolds
  <2>11. UnlinkedSound'
    BY <1>0, <1>1, <2>5, <2>6, <2>9, <2>10 DEF QueueParts, UnlinkedSound
  <2> QED
    BY <2>6, <2>8, <2>11 DEF QueueParts
<1> QED
  BY <1>2, <1>3

\* While scheduler_tick chooses, the idle thread is ready: it is what the scan
\* of the table finds when the queue is empty.
LEMMA FallbackIsIdle ==
  ASSUME OnlyCreateAndLeave, IInv, IdleStays, irq = "pick"
  PROVE  Fallback = 1 /\ tstate[1] = "READY" /\ mem[1] = "live"
<1>0. 1 \in Threads /\ 1 \in Slots /\ NULL \notin Threads /\ MAX_THREADS \in Nat
  BY IdleExists, NullAssumption, MaxThreadsAssumption
<1>1. tstate[1] = "READY" /\ mem[1] = "live" /\ table[1] = 1
  BY <1>0 DEF IdleStays, IInv, OneRunning, TableSound
<1> DEFINE ready == { i \in Slots \ {0} : table[i] # NULL /\ tstate[table[i]] = "READY" }
<1>2. 1 \in ready /\ \A j \in ready : j \in Nat /\ 1 \leq j
  BY <1>0, <1>1 DEF Slots
<1>3. (CHOOSE i \in ready : \A j \in ready : i \leq j) = 1
  <2>1. \A i \in ready : (\A j \in ready : i \leq j) => i = 1
    BY <1>2
  <2> HIDE DEF ready
  <2> QED
    BY <1>2, <2>1
<1>4. Fallback = table[CHOOSE i \in ready : \A j \in ready : i \leq j]
  BY <1>2 DEF Fallback
<1> QED
  BY <1>1, <1>3, <1>4

\* The choice of the next thread.
LEMMA QueuePick ==
  ASSUME OnlyCreateAndLeave, IInv, LifeInv, QueueParts, IdleStays, fault' = "none",
         PickZombie \/ PickCooldown \/ PickDispatch
  PROVE  QueueParts'
<1> DEFINE c == Candidate
           d == Dequeued
<1>0. /\ TypeOK /\ tstate \in [Threads -> States] /\ rq \in Queues
      /\ Reach(rq) \subseteq Threads /\ NULL \notin Threads
      /\ irq = "pick" /\ UNCHANGED <<pc, arg, mem, zombie>>
  BY NullAssumption, ReachClosed DEF IInv, TypeOK, PickZombie, PickCooldown, PickDispatch,
     Runnable, Picking, threadVars, kernelVars, codeVars
<1>1. /\ c \in Threads /\ tstate[c] = "READY" /\ mem[c] = "live"
      /\ d \in Queues /\ Reach(d) = Reach(rq) \ {c} /\ ListSound(d)
      /\ \A u \in Threads \ Reach(rq) : d.next[u] = rq.next[u]
      /\ \A u \in Threads : pc[u] \in CreateLabels => arg[u] # c
  <2>1. CASE rq.ready_head # NULL
    <3>1. c = rq.ready_head /\ d = dequeue_ready_head(rq)
      BY <2>1 DEF Candidate, Dequeued
    <3>2. c \in Reach(rq) /\ c \in Threads
      BY <1>0, <2>1, <3>1, ReachClosed
    <3> QED
      BY <1>0, <2>1, <3>1, <3>2, DequeueReach DEF QueueParts, QueueHolds, UnlinkedSound
  <2>2. CASE rq.ready_head = NULL
    <3>1. c = 1 /\ d = rq /\ Reach(rq) = {}
      BY <1>0, <2>2, FallbackIsIdle DEF Candidate, Dequeued, Reach
    <3> QED
      BY <1>0, <3>1, FallbackIsIdle, IdleExists DEF QueueParts, UnlinkedSound
  <2> QED
    BY <2>1, <2>2
<1> HIDE DEF c, d
<1>2. \A x \in Threads : Unlinked(x)' <=> Unlinked(x)
  BY <1>0 DEF Unlinked
<1>3. \A u \in Threads : mem[u] = "unborn" => u \notin Reach(rq) /\ u # c
  BY <1>1 DEF QueueParts, QueueHolds
<1>4. CASE PickZombie
  <2>1. rq' = d /\ zombie /\ c \in KernelOwned /\ UNCHANGED tstate
    BY <1>4 DEF PickZombie, Dropped, Candidate, c, d, threadVars
  <2> QED
    BY <1>0, <1>1, <1>2, <1>3, <2>1 DEF QueueParts, QueueHolds, UnlinkedSound
<1>5. CASE PickDispatch
  <2>1. rq' = d /\ tstate' = [tstate EXCEPT ![c] = "RUNNING"]
    BY <1>5 DEF PickDispatch, c, d
  <2> QED
    BY <1>0, <1>1, <1>2, <1>3, <2>1 DEF QueueParts, QueueHolds, UnlinkedSound
<1>6. CASE PickCooldown
  <2>1. rq' = enqueue_ready_tail(d, c) /\ UNCHANGED tstate
    BY <1>6 DEF PickCooldown, c, d
  <2>2. /\ Reach(rq') = Reach(d) \cup {c} /\ ListSound(rq')
        /\ \A u \in Threads \ Reach(d) : rq'.next[u] = IF u = c THEN NULL ELSE d.next[u]
    BY <1>1, <2>1, EnqueueReach
  <2> QED
    BY <1>0, <1>1, <1>2, <1>3, <2>1, <2>2 DEF QueueParts, QueueHolds, UnlinkedSound
<1> QED
  BY <1>4, <1>5, <1>6

\* clean_up finds no thread it reclaims on the list.
LEMMA QueueClean ==
  ASSUME IInv, QueueParts, NEW i \in Slots, CleanOne(i)
  PROVE  QueueParts'
<1> DEFINE a == table[i]
<1>0. /\ TypeOK /\ a # NULL /\ tstate[a] = "TERMED" /\ mem' = [mem EXCEPT ![a] = "freed"]
      /\ rq' = remove_from_ready_queue(rq, a) /\ UNCHANGED <<tstate, zombie, pc, arg>>
      /\ mem \in [Threads -> {"unborn", "live", "freed"}]
  BY DEF IInv, TypeOK, CleanOne, Termed, codeVars
<1>1. a \notin Reach(rq)
  BY <1>0 DEF QueueParts, QueueHolds
<1>2. rq' = rq
  BY <1>0, <1>1 DEF remove_from_ready_queue
<1> HIDE DEF a
<1> QED
  BY <1>0, <1>2, QuietQueue DEF QueueParts

\* QueueInv is inductive relative to IInv and LifeInv.
LEMMA QueueStep ==
  ASSUME OnlyCreateAndLeave, IInv, LifeInv, QueueInv, [Next]_vars
  PROVE  QueueInv'
<1>1. CASE UNCHANGED vars
  <2>1. UNCHANGED <<rq, tstate, mem, zombie, pc, arg, table, run, irq, cur, fault>>
    BY <1>1 DEF vars, threadVars, kernelVars, cpuVars, codeVars
  <2>2. QueueParts => QueueParts'
    BY <2>1, QuietQueue DEF QueueParts, IInv
  <2>3. IdleStays => IdleStays'
    BY <2>1 DEF IdleStays
  <2> QED
    BY <2>1, <2>2, <2>3 DEF QueueInv, QueueParts
<1>2. CASE Next
  <2> SUFFICES ASSUME fault' = "none" PROVE QueueParts' /\ IdleStays'
    BY DEF QueueInv, QueueParts
  <2>1. fault = "none" /\ QueueParts /\ IdleStays
    BY <1>2, Enabling DEF QueueInv, QueueParts
  <2>2. IdleStays'
    BY <1>2, <2>1, IdleStep
  <2>3. CASE TimerIrq \/ \E t \in Threads : SoftIrq(t)
    BY <2>1, <2>2, <2>3, QueueEnter DEF TimerIrq, SoftIrq, At, Goto
  <2>4. CASE CleanDone \/ PickBad \/ CleanContended
    <3>1. UNCHANGED <<rq, tstate, mem, zombie, pc, arg>>
      BY <2>4 DEF CleanDone, PickBad, CleanContended, threadVars, kernelVars, codeVars
    <3> QED
      BY <2>1, <2>2, <3>1, QuietQueue DEF QueueParts, IInv
  <2> QED
    BY <1>2, <2>1, <2>2, <2>3, <2>4, QueueCode, QueueCreate, QueueLink, QueuePick, QueueClean
       DEF Next, Tick
<1> QED
  BY <1>1, <1>2

\* The queue after boot: the booted threads in order.
LEMMA QueueInit == ASSUME OnlyCreateAndLeave, Init PROVE QueueInv
<1> DEFINE n == Len(Booted)
<1>0. /\ n \in Nat \ {0} /\ 1 \in Threads /\ 1 \in Slots /\ n < MAX_THREADS /\ n \leq MaxTid
      /\ MaxTid \in Nat /\ NULL \notin Threads /\ Threads = 0 .. MaxTid
  BY IdleExists, BootedAssumption, MaxTidAssumption, NullAssumption, ThreadsAssumption
<1>1. { Booted[i] : i \in DOMAIN Booted } = 1 .. n
  BY <1>0, BootedAssumption
<1>2. /\ rq = [ready_head |-> 1, ready_tail |-> n,
               next |-> [t \in Threads |-> IF t \in 1 .. n - 1 THEN t + 1 ELSE NULL]]
      /\ tstate = [t \in Threads |-> IF t = 0 THEN "RUNNING" ELSE "READY"]
      /\ mem = [t \in Threads |-> IF t \in {0} \cup (1 .. n) THEN "live" ELSE "unborn"]
      /\ table = [i \in Slots |-> IF i \leq n THEN i ELSE NULL]
      /\ pc = [t \in Threads |-> "user"]
      /\ run = 0
  BY <1>0, <1>1 DEF Init, BootState
<1> HIDE DEF n
<1>3. rq \in Queues
  BY <1>0, <1>2 DEF Queues, ThreadOrNull
<1>4. /\ \A u \in 1 .. n : u \in Threads /\ rq.next[u] = IF u < n THEN u + 1 ELSE NULL
      /\ \A u \in Threads \ (1 .. n) : rq.next[u] = NULL
      /\ rq.ready_head = 1 /\ rq.ready_tail = n /\ 1 \in 1 .. n /\ 1 # NULL /\ n # NULL
  BY <1>0, <1>2
<1>5. Reach(rq) = 1 .. n
  <2>1. Reach(rq) \subseteq 1 .. n
    <3>1. \A u \in 1 .. n : rq.next[u] \in (1 .. n) \cup {NULL}
      BY <1>0, <1>4
    <3>2. 1 .. n \in SUBSET Threads
      BY <1>4
    <3> QED
      BY <1>3, <1>4, <3>1, <3>2, ReachLeast
  <2>2. 1 .. n \subseteq Reach(rq)
    <3> DEFINE Missing == (1 .. n) \ Reach(rq)
    <3> SUFFICES ASSUME Missing # {} PROVE FALSE
      OBVIOUS
    <3>1. Missing \in SUBSET Slots
      BY <1>0, MaxThreadsAssumption DEF Slots
    <3>2. PICK k \in Missing : \A j \in Missing : k \leq j
      BY <3>1, FirstSlot
    <3>3. k # 1 /\ k \in 1 .. n
      BY <1>3, <1>4, ReachClosed
    <3>4. k - 1 \in 1 .. n /\ k - 1 \notin Missing /\ rq.next[k - 1] = k
      BY <1>0, <1>4, <3>2, <3>3
    <3>5. k \in Threads /\ k # NULL
      BY <1>0, <1>4, <3>3
    <3> QED
      BY <1>3, <3>4, <3>5, ReachClosed
  <2> QED
    BY <2>1, <2>2
<1>6. ListSound(rq)
  <2>1. \A u \in 1 .. n : u \in Nat /\ u # NULL
    BY <1>0, <1>4
  <2>2. \A u \in 1 .. n : rq.next[u] # 1 /\ (rq.next[u] = NULL <=> u = n)
    BY <1>0, <1>4, <2>1
  <2>3. \A u, v \in 1 .. n : rq.next[u] = rq.next[v] /\ rq.next[u] # NULL => u = v
    BY <1>0, <1>4
  <2>4. n \in 1 .. n
    BY <1>0
  <2> QED
    BY <1>4, <1>5, <2>2, <2>3, <2>4 DEF ListSound
<1>7. QueueHolds
  <2>1. \A t \in 1 .. n : tstate[t] = "READY" /\ mem[t] = "live"
    BY <1>0, <1>2, <1>4
  <2>2. \A t \in Threads : tstate[t] = "READY" /\ mem[t] = "live" => t \in 1 .. n
    BY <1>2
  <2> QED
    BY <1>5, <2>1, <2>2 DEF QueueHolds
<1>8. UnlinkedSound
  BY <1>0, <1>2, <1>4 DEF UnlinkedSound, CreateLabels
<1>9. IdleStays
  BY <1>0, <1>2 DEF IdleStays, TermLabels
<1> QED
  BY <1>6, <1>7, <1>8, <1>9 DEF QueueInv

\* The ready queue is exact: an acyclic list from ready_head to ready_tail that
\* holds every ready thread, but one that thread_create is about to link or
\* that was dropped with its process, and no other.
THEOREM QueueExactHolds == OnlyCreateAndLeave => (Spec => []QueueExact)
<1> SUFFICES ASSUME OnlyCreateAndLeave PROVE Spec => []QueueExact
  OBVIOUS
<1>1. Init => LifeInv /\ QueueInv
  BY LifeInit, QueueInit
<1>2. IInv /\ LifeInv /\ QueueInv /\ [Next]_vars => LifeInv' /\ QueueInv'
  BY IdleExists, LifeStep, QueueStep
<1>3. IInv /\ QueueInv => QueueExact
  <2> SUFFICES ASSUME IInv, QueueInv, fault = "none"
               PROVE  /\ ~Cyclic(rq)
                      /\ rq.ready_head = NULL <=> rq.ready_tail = NULL
                      /\ rq.ready_tail # NULL => rq.ready_tail \in Reach(rq) /\ rq.next[rq.ready_tail] = NULL
                      /\ QueueHolds
    BY DEF QueueExact, QueueHolds
  <2> QED
    BY DEF QueueInv, ListSound, Cyclic
<1> QED
  BY <1>1, <1>2, <1>3, Invariance, PTL DEF Spec
=============================================================================
