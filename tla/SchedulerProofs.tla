--------------------------- MODULE SchedulerProofs --------------------------
(***************************************************************************)
(* Proofs about Scheduler, for every number of threads and table slots,     *)
(* every priority and ownership, and every set of calls: its types, then    *)
(* the inductive invariant IInv of SchedulerProps, preserved by every step, *)
(* and what follows from it: one running thread, a scheduler that always    *)
(* finds a thread, mutual exclusion, and a CPU that never executes a        *)
(* reclaimed thread.                                                        *)
(***************************************************************************)
EXTENDS SchedulerProps, TLAPS, WellFoundedInduction, SequenceTheorems, FiniteSetTheorems

-----------------------------------------------------------------------------
(* The operations on the queue return queues.                               *)

\* Appending to the queue and clearing a thread's "next" write thread pointers
\* only.
LEMMA LinkType ==
  ASSUME NEW q \in Queues, NEW t \in ThreadOrNull
  PROVE  /\ link_ready_tail(q, t) \in Queues
         /\ unlink_next(q, t) \in Queues
         /\ enqueue_ready_tail(q, t) \in Queues
<1>1. \A r \in Queues : link_ready_tail(r, t) \in Queues
  BY DEF Queues, ThreadOrNull, link_ready_tail
<1>2. unlink_next(q, t) \in Queues
  BY DEF Queues, ThreadOrNull, unlink_next
<1> QED
  BY <1>1, <1>2 DEF enqueue_ready_tail

\* Taking the head off the queue leaves a queue.
LEMMA DequeueType ==
  ASSUME NEW q \in Queues, q.ready_head # NULL
  PROVE  dequeue_ready_head(q) \in Queues
BY DEF Queues, ThreadOrNull, dequeue_ready_head

\* The thread before t in the queue is a thread, or NULL.
LEMMA PrevType ==
  ASSUME NEW q, NEW t
  PROVE  Prev(q, t) \in ThreadOrNull
<1> DEFINE before == { u \in Reach(q) : q.next[u] = t }
           first  == { u \in before : u \notin From(q, t) }
<1>1. CASE t = q.ready_head \/ before = {}
  BY <1>1 DEF Prev, ThreadOrNull
<1>2. CASE ~(t = q.ready_head \/ before = {})
  <2>1. \E u \in before : first = {} \/ u \in first
    BY <1>2
  <2>2. Prev(q, t) \in before
    BY <1>2, <2>1 DEF Prev
  <2> QED
    BY <2>2 DEF Reach, From, ThreadOrNull
<1> QED
  BY <1>1, <1>2

\* Removing a thread from the queue leaves a queue.
LEMMA RemoveType ==
  ASSUME NEW q \in Queues, NEW t \in ThreadOrNull
  PROVE  remove_from_ready_queue(q, t) \in Queues
<1>1. CASE t \notin Reach(q)
  BY <1>1 DEF remove_from_ready_queue
<1>2. CASE t \in Reach(q)
  <2>1. t \in Threads
    BY <1>2 DEF Reach, From
  <2>2. q.next[t] \in ThreadOrNull
    BY <2>1 DEF Queues
  <2>3. Prev(q, t) \in ThreadOrNull
    BY PrevType
  <2> DEFINE nx == [u \in Threads |-> IF u = t THEN NULL
                                       ELSE IF u = Prev(q, t) THEN q.next[t]
                                       ELSE q.next[u]]
  <2>4. nx \in [Threads -> ThreadOrNull]
    BY <2>2 DEF Queues, ThreadOrNull
  <2>5. remove_from_ready_queue(q, t) =
          [ready_head |-> IF Prev(q, t) = NULL THEN q.next[t] ELSE q.ready_head,
           ready_tail |-> IF t = q.ready_tail THEN Prev(q, t) ELSE q.ready_tail,
           next       |-> nx]
    BY <1>2 DEF remove_from_ready_queue
  <2> HIDE DEF nx
  <2> QED
    BY <2>2, <2>3, <2>4, <2>5 DEF Queues
<1> QED
  BY <1>1, <1>2

\* A found thread is a thread, and so is the one the scheduler looks at.
LEMMA FindType ==
  ASSUME TypeOK, NEW t \in ThreadOrNull
  PROVE  thread_from_tid(t) \in ThreadOrNull
BY DEF thread_from_tid, ThreadOrNull

\* A search of the queue ends in one of the known ways.
LEMMA SearchFaultType ==
  ASSUME NEW t
  PROVE  SearchFault(t) \in Faults
BY DEF SearchFault, Faults

-----------------------------------------------------------------------------
(* The tables of labels.                                                    *)

\* A thread that acquires a mutex goes on inside a section of that mutex and
\* of no other.
LEMMA AcquireLabels ==
  ASSUME NEW l \in DOMAIN Acquires
  PROVE  /\ Acquires[l][1] \in Mutexes
         /\ Acquires[l][2] \in Labels
         /\ \A m \in Mutexes : Acquires[l][2] \in Section(m) <=> m = Acquires[l][1]
<1>1. /\ Acquires[l][1] \in Mutexes
      /\ \A m \in Mutexes : Acquires[l][2] \in Section(m) <=> m = Acquires[l][1]
  BY DEF Acquires, Mutexes, Section
<1>2. Acquires[l][2] \in PlainLabels \cup DOMAIN Releases
  BY DEF Acquires, Releases, PlainLabels
<1> QED
  BY <1>1, <1>2 DEF Labels

\* A thread that releases a mutex is inside a section of it, and goes on
\* inside none.
LEMMA ReleaseLabels ==
  ASSUME NEW l \in DOMAIN Releases
  PROVE  /\ Releases[l][1] \in Mutexes
         /\ Releases[l][2] \in Labels
         /\ l \in Section(Releases[l][1])
         /\ \A m \in Mutexes : Releases[l][2] \notin Section(m)
<1>1. /\ Releases[l][1] \in Mutexes
      /\ l \in Section(Releases[l][1])
      /\ \A m \in Mutexes : Releases[l][2] \notin Section(m)
  BY DEF Releases, Mutexes, Section
<1>2. Releases[l][2] \in PlainLabels \cup SchedLabels \cup DOMAIN Acquires
  BY DEF Acquires, Releases, PlainLabels, SchedLabels
<1> QED
  BY <1>1, <1>2 DEF Labels

\* Every label that acquires a spinlock names one of the locks.
LEMMA LockOfType ==
  ASSUME NEW l
  PROVE  LockOf(l) \in Locks
BY AcquireLabels, ReleaseLabels DEF LockOf, Locks

\* A stride is positive.
LEMMA StrideType ==
  ASSUME NEW t \in Threads
  PROVE  priority_to_stride(Priority[t]) \in Nat \ {0}
<1>1. Priority[t] \in Priorities
  BY PriorityAssumption
<1>2. \A p \in Priorities : priority_to_stride(p) \in Nat \ {0}
  BY DEF Priorities, priority_to_stride
<1> QED
  BY <1>1, <1>2

\* A set of slots has a first one.
LEMMA FirstSlot ==
  ASSUME NEW S \in SUBSET Slots, S # {}
  PROVE  \E i \in S : \A j \in S : i \leq j
<1>1. S \subseteq Nat
  BY MaxThreadsAssumption DEF Slots
<1>2. PICK i \in S : \A j \in S : ~(<<j, i>> \in OpToRel(<, Nat))
  BY <1>1, WFMin, NatLessThanWellFounded
<1>3. ASSUME NEW j \in S PROVE i \leq j
  <2>1. ~(<<j, i>> \in { x \in Nat \X Nat : x[1] < x[2] })
    BY <1>2 DEF OpToRel
  <2>2. i \in Nat /\ j \in Nat
    BY <1>1
  <2> QED
    BY <2>1, <2>2
<1> QED
  BY <1>3

\* What scheduler_tick looks at is a thread or NULL, and is only NULL when
\* slot 0 of the table is.
LEMMA CandidateType ==
  ASSUME TypeOK
  PROVE  /\ Candidate \in ThreadOrNull
         /\ table[0] # NULL => Candidate # NULL
<1> DEFINE ready == { i \in Slots \ {0} : table[i] # NULL /\ tstate[table[i]] = "READY" }
           first == CHOOSE i \in ready : \A j \in ready : i \leq j
<1>1. Fallback = IF ready = {} THEN table[0] ELSE table[first]
  BY DEF Fallback
<1>2. ASSUME ready # {} PROVE first \in ready
  <2>1. \E i \in ready : \A j \in ready : i \leq j
    BY <1>2, FirstSlot
  <2> QED
    BY <2>1
<1> HIDE DEF first
<1>3. 0 \in Slots
  BY MaxThreadsAssumption DEF Slots
<1>4. Fallback \in ThreadOrNull /\ (table[0] # NULL => Fallback # NULL)
  BY <1>1, <1>2, <1>3 DEF TypeOK
<1>5. rq.ready_head \in ThreadOrNull
  BY DEF TypeOK, Queues
<1> QED
  BY <1>4, <1>5 DEF Candidate

-----------------------------------------------------------------------------
(* Type correctness.                                                        *)

\* The number of booted threads is a number.
LEMMA BootedLength == Len(Booted) \in Nat
<1>1. Booted \in Seq(Nat)
  BY BootedAssumption
<1> QED
  BY <1>1

\* The state after boot is well typed.
LEMMA TypeInit == Init => TypeOK
<1> SUFFICES ASSUME Init PROVE TypeOK
  OBVIOUS
<1> USE DEF Init, BootState
<1>1. \A t \in Threads : cooldown[t] < priority_to_stride(Priority[t])
  <2> SUFFICES ASSUME NEW t \in Threads
               PROVE  cooldown[t] < priority_to_stride(Priority[t])
    OBVIOUS
  <2>1. cooldown[t] = 0
    OBVIOUS
  <2>2. priority_to_stride(Priority[t]) \in Nat \ {0}
    BY StrideType
  <2> QED
    BY <2>1, <2>2
<1>2. Len(Booted) \in Nat
  BY BootedLength
<1>3. rq \in Queues
  BY <1>2, BootedAssumption, ThreadsAssumption, MaxTidAssumption DEF Queues, ThreadOrNull
<1>4. table \in [Slots -> ThreadOrNull]
  BY <1>2, BootedAssumption, ThreadsAssumption, MaxTidAssumption, MaxThreadsAssumption
     DEF Slots, ThreadOrNull
<1>5. mutex \in [Mutexes -> MutexRecords]
  BY DEF FreeMutex, ThreadOrNull, MutexRecords
<1>6. pc \in [Threads -> Labels]
  BY DEF Labels, PlainLabels
<1>7. run \in Threads /\ cur \in ThreadOrNull
  BY ThreadsAssumption, MaxTidAssumption DEF ThreadOrNull
<1>8. /\ tstate \in [Threads -> States]
      /\ cooldown \in [Threads -> Nat]
      /\ thread_count \in Int /\ next_tid \in Nat
  BY <1>2 DEF States
<1>9. /\ sif \in [Threads -> BOOLEAN]
      /\ mem \in [Threads -> {"unborn", "live", "freed"}]
      /\ had \in [Locks -> BOOLEAN]
      /\ zombie \in BOOLEAN /\ rsp0 \in ThreadOrNull /\ iflag \in BOOLEAN
      /\ irq \in {"none", "pick", "clean"}
      /\ arg \in [Threads -> ThreadOrNull]
      /\ win \in [Threads -> BOOLEAN]
      /\ calls \in Nat /\ fault \in Faults
  BY DEF Faults, ThreadOrNull
<1> QED
  BY <1>1, <1>3, <1>4, <1>5, <1>6, <1>7, <1>8, <1>9 DEF TypeOK

\* Calling an operation moves the thread to the label it starts at.
LEMMA CallType ==
  ASSUME NEW t \in Threads, Call(t), pc \in [Threads -> Labels],
         arg \in [Threads -> ThreadOrNull], calls \in Nat
  PROVE  /\ pc' \in [Threads -> Labels]
         /\ arg' \in [Threads -> ThreadOrNull]
         /\ calls' \in Nat
<1>1. PICK l \in {"create_lock", "exit_call", "pexit_tlock", "term_lock",
                  "block_lock", "unblock_lock"} : Goto(t, l)
  BY DEF Call
<1>2. l \in Labels
  BY DEF Labels, PlainLabels, Acquires
<1>3. pc' \in [Threads -> Labels]
  BY <1>1, <1>2 DEF Goto
<1>4. arg' \in [Threads -> ThreadOrNull]
  BY DEF Call, ThreadOrNull
<1>5. calls' \in Nat
  BY DEF Call
<1> QED
  BY <1>3, <1>4, <1>5

\* Taking, waiting for and releasing a mutex keep its record well typed.
LEMMA MutexType ==
  ASSUME NEW mx \in [Mutexes -> MutexRecords], NEW m \in Mutexes,
         NEW t \in ThreadOrNull, NEW w \in Seq(Threads)
  PROVE  /\ [mx EXCEPT ![m].locked = TRUE, ![m].owner = t] \in [Mutexes -> MutexRecords]
         /\ [mx EXCEPT ![m].waiters = w] \in [Mutexes -> MutexRecords]
         /\ [mx EXCEPT ![m] = [FreeMutex EXCEPT !.waiters = w]] \in [Mutexes -> MutexRecords]
<1>1. [mx EXCEPT ![m].locked = TRUE, ![m].owner = t] \in [Mutexes -> MutexRecords]
  BY DEF MutexRecords
<1>2. [mx EXCEPT ![m].waiters = w] \in [Mutexes -> MutexRecords]
  BY DEF MutexRecords
<1>3. [FreeMutex EXCEPT !.waiters = w] \in MutexRecords
  BY DEF MutexRecords, FreeMutex, ThreadOrNull
<1> QED
  BY <1>1, <1>2, <1>3

\* scheduler_tick's first part keeps the types of all it changes.
LEMMA TickEnterType ==
  ASSUME TypeOK, TickEnter
  PROVE  /\ rq' \in Queues
         /\ tstate' \in [Threads -> States]
         /\ sif' \in [Threads -> BOOLEAN]
         /\ iflag' \in BOOLEAN
         /\ irq' = "pick"
         /\ fault' \in Faults
         /\ UNCHANGED <<cooldown, mem, kernelVars, lockVars, cur, run, rsp0, arg, win, calls>>
<1> USE DEF TickEnter, TypeOK
<1>1. rq' \in Queues
  BY LinkType DEF Requeued
<1>2. tstate' \in [Threads -> States]
  BY DEF Preempted, States, ThreadOrNull
<1>3. sif' \in [Threads -> BOOLEAN]
  BY DEF ThreadOrNull
<1>4. fault' \in Faults
  BY DEF LinkFault, Faults
<1> QED
  BY <1>1, <1>2, <1>3, <1>4

\* The thread scheduler_tick may run is a thread.
LEMMA RunnableType ==
  ASSUME TypeOK, Runnable
  PROVE  /\ Candidate \in Threads
         /\ Candidate # NULL /\ mem[Candidate] = "live"
         /\ tstate[Candidate] \in {"READY", "RUNNING"}
         /\ Dequeued \in Queues
<1>1. Candidate # NULL /\ mem[Candidate] = "live"
  BY DEF Runnable, PickFault, Dangling
<1>2. Candidate \in ThreadOrNull
  BY CandidateType
<1>3. tstate[Candidate] \in {"READY", "RUNNING"}
  BY <1>1, <1>2 DEF Runnable, PickFault, TypeOK, States, ThreadOrNull
<1>4. Dequeued \in Queues
  BY DequeueType DEF Dequeued, TypeOK
<1> QED
  BY <1>1, <1>2, <1>3, <1>4 DEF ThreadOrNull

\* The step of a thread, and the step of a tick, keep the types.
LEMMA TypeStep ==
  ASSUME TypeOK, [Next]_vars
  PROVE  TypeOK'
<1> USE DEF TypeOK, ThreadOrNull, States, Faults, vars, threadVars, kernelVars,
            lockVars, cpuVars, codeVars, At, Goto
<1>1. CASE UNCHANGED vars
  BY <1>1
<1>2. ASSUME NEW t \in Threads, Call(t)
      PROVE  TypeOK'
  BY <1>2, CallType DEF Call
<1>3. ASSUME NEW t \in Threads, SpinSave(t)
      PROVE  TypeOK'
  BY <1>3, LockOfType DEF SpinSave
<1>4. ASSUME NEW t \in Threads, acquire_mutex(t)
      PROVE  TypeOK'
  <2> DEFINE m == Acquires[pc[t]][1]
             w == mutex[m].waiters
  <2>1. pc[t] \in DOMAIN Acquires
    BY <1>4 DEF acquire_mutex
  <2>2. m \in Mutexes /\ Acquires[pc[t]][2] \in Labels
    BY <2>1, AcquireLabels
  <2>3. iflag' \in BOOLEAN /\ win' \in [Threads -> BOOLEAN]
    BY <1>4, <2>2 DEF acquire_mutex, SpinRelease, Locks
  <2>4. CASE Unlocked(m)
    <3>1. mutex' = [mutex EXCEPT ![m].locked = TRUE, ![m].owner = cur]
      BY <1>4, <2>4 DEF acquire_mutex
    <3>2. mutex' \in [Mutexes -> MutexRecords]
      BY <2>2, <3>1, MutexType, EmptySeq
    <3>3. pc' \in [Threads -> Labels] /\ UNCHANGED <<rq, tstate, arg, fault>>
      BY <1>4, <2>2, <2>4 DEF acquire_mutex
    <3> QED
      BY <1>4, <2>3, <3>2, <3>3 DEF acquire_mutex
  <2>5. CASE ~Unlocked(m)
    <3>1. w \in Seq(Threads)
      BY <2>2 DEF MutexRecords
    <3>2. mutex' = [mutex EXCEPT ![m].waiters = Append(w, t)]
      BY <1>4, <2>5 DEF acquire_mutex
    <3>3. mutex' \in [Mutexes -> MutexRecords]
      BY <2>2, <3>1, <3>2, MutexType, AppendProperties
    <3>4. rq' \in Queues
      <4> DEFINE q == unlink_next(rq, t)
      <4>1. rq' = IF w = <<>> THEN q ELSE [q EXCEPT !.next[w[Len(w)]] = t]
        BY <1>4, <2>5 DEF acquire_mutex
      <4>2. q \in Queues
        BY LinkType
      <4> HIDE DEF q
      <4> QED
        BY <4>1, <4>2 DEF Queues
    <3>5. pc' \in [Threads -> Labels]
      <4>1. Goto(t, "block_lock")
        BY <1>4, <2>5 DEF acquire_mutex
      <4>2. "block_lock" \in Labels
        BY DEF Labels, Acquires
      <4> QED
        BY <4>1, <4>2
    <3>6. /\ tstate' = [tstate EXCEPT ![t] = "BLOCKED"]
          /\ arg' = [arg EXCEPT ![t] = t]
          /\ fault' \in {"recursion", "none"}
      BY <1>4, <2>5 DEF acquire_mutex
    <3> QED
      BY <1>4, <2>3, <3>3, <3>4, <3>5, <3>6 DEF acquire_mutex
  <2> QED
    BY <2>4, <2>5
<1>5. ASSUME NEW t \in Threads, release_mutex(t)
      PROVE  TypeOK'
  <2> DEFINE m == Releases[pc[t]][1]
             w == mutex[m].waiters
  <2>1. pc[t] \in DOMAIN Releases
    BY <1>5 DEF release_mutex
  <2>2. m \in Mutexes /\ Releases[pc[t]][2] \in Labels
    BY <2>1, ReleaseLabels
  <2>3. /\ iflag' \in BOOLEAN /\ win' \in [Threads -> BOOLEAN]
        /\ pc' \in [Threads -> Labels]
    BY <1>5, <2>2 DEF release_mutex, SpinRelease, Locks
  <2>4. CASE mutex[m].owner # cur
    BY <1>5, <2>3, <2>4 DEF release_mutex
  <2>5. CASE mutex[m].owner = cur /\ w = <<>>
    <3>1. mutex' = [mutex EXCEPT ![m] = FreeMutex] /\ UNCHANGED <<had, rq, tstate, fault>>
      BY <1>5, <2>5 DEF release_mutex
    <3>2. FreeMutex \in MutexRecords
      BY DEF FreeMutex, MutexRecords
    <3> QED
      BY <1>5, <2>3, <3>1, <3>2 DEF release_mutex
  <2>6. CASE mutex[m].owner = cur /\ w # <<>>
    <3>1. w \in Seq(Threads) /\ w[1] \in Threads /\ Tail(w) \in Seq(Threads)
      BY <2>2, <2>6 DEF MutexRecords
    <3>2. mutex' = [mutex EXCEPT ![m] = [FreeMutex EXCEPT !.waiters = Tail(w)]]
      BY <1>5, <2>6 DEF release_mutex
    <3>3. mutex' \in [Mutexes -> MutexRecords]
      BY <2>2, <3>1, <3>2, MutexType
    <3>4. rq' \in Queues
      <4>1. rq' = rq \/ rq' = enqueue_ready_tail(rq, w[1])
        BY <1>5, <2>6 DEF release_mutex
      <4> QED
        BY <3>1, <4>1, LinkType
    <3>5. /\ tstate' \in [Threads -> States]
          /\ had' \in [Locks -> BOOLEAN]
          /\ fault' \in Faults
      BY <1>5, <2>6, <3>1, SearchFaultType DEF release_mutex, LinkFault
    <3> QED
      BY <1>5, <2>3, <3>3, <3>4, <3>5 DEF release_mutex
  <2> QED
    BY <2>4, <2>5, <2>6
<1>6. ASSUME NEW t \in Threads, CreateBody(t)
      PROVE  TypeOK'
  <2>1. /\ thread_count' \in {thread_count, thread_count + 1}
        /\ next_tid' \in {next_tid, next_tid + 1}
        /\ fault' \in {fault, "recursion"}
    BY <1>6 DEF CreateBody, NewTid
  <2>5. \/ mem' = mem
        \/ next_tid \in Threads /\ mem' = [mem EXCEPT ![next_tid] = "freed"]
        \/ next_tid \in Threads /\ mem' = [mem EXCEPT ![next_tid] = "live"]
    BY <1>6 DEF CreateBody
  <2>6. mem' \in [Threads -> {"unborn", "live", "freed"}]
    BY <2>5
  <2>2. pc' \in [Threads -> Labels]
    BY <1>6 DEF CreateBody, Labels, Releases
  <2>7. \/ table' = table /\ arg' = arg
        \/ \E i \in Slots : /\ next_tid \in Threads
                            /\ table' = [table EXCEPT ![i] = next_tid]
                            /\ arg' = [arg EXCEPT ![t] = next_tid]
    BY <1>6 DEF CreateBody
  <2>3. table' \in [Slots -> ThreadOrNull] /\ arg' \in [Threads -> ThreadOrNull]
    BY <2>7
  <2>4. had' \in [Locks -> BOOLEAN]
    BY <1>6 DEF CreateBody
  <2> QED
    BY <1>6, <2>1, <2>2, <2>3, <2>4, <2>6 DEF CreateBody
<1>7. ASSUME NEW t \in Threads, CreateLink(t)
      PROVE  TypeOK'
  <2>1. rq' \in Queues
    BY <1>7, LinkType DEF CreateLink
  <2>2. pc' \in [Threads -> Labels] /\ arg' \in [Threads -> ThreadOrNull]
    BY <1>7 DEF CreateLink, Labels, PlainLabels
  <2>3. iflag' \in BOOLEAN /\ win' \in [Threads -> BOOLEAN] /\ fault' \in Faults
    BY <1>7 DEF CreateLink, SpinRelease, LinkFault, Locks
  <2> QED
    BY <1>7, <2>1, <2>2, <2>3 DEF CreateLink
<1>8. ASSUME NEW t \in Threads, ExitCall(t)
      PROVE  TypeOK'
  BY <1>8 DEF ExitCall, Labels, Acquires
<1>9. ASSUME NEW t \in Threads, ExitMark(t)
      PROVE  TypeOK'
  BY <1>9 DEF ExitMark, Labels, Releases
<1>10. ASSUME NEW t \in Threads, ExitClear(t)
       PROVE  TypeOK'
  BY <1>10 DEF ExitClear, Labels, PlainLabels
<1>11. ASSUME NEW t \in Threads, PexitFound(t)
       PROVE  TypeOK'
  BY <1>11 DEF PexitFound, Labels, Acquires
<1>12. ASSUME NEW t \in Threads, PexitMark(t)
       PROVE  TypeOK'
  BY <1>12 DEF PexitMark, Labels, Releases
<1>13. ASSUME NEW t \in Threads, TermBody(t)
       PROVE  TypeOK'
  <2>1. thread_from_tid(arg[t]) \in ThreadOrNull
    BY FindType
  <2>2. rq' \in Queues
    BY <1>13, <2>1, LinkType DEF TermBody
  <2>3. tstate' \in [Threads -> States] /\ fault' \in Faults
    BY <1>13, <2>1 DEF TermBody
  <2>4. pc' \in [Threads -> Labels]
    BY <1>13 DEF TermBody, Labels, Releases
  <2>5. had' \in [Locks -> BOOLEAN]
    BY <1>13 DEF TermBody
  <2> QED
    BY <1>13, <2>2, <2>3, <2>4, <2>5 DEF TermBody
<1>14. ASSUME NEW t \in Threads, TermRemove(t) \/ BlockRemove(t)
       PROVE  TypeOK'
  <2> USE DEF TermRemove, BlockRemove, RemoveFromQueue
  <2>1. rq' \in Queues
    BY <1>14, RemoveType
  <2>2. fault' \in Faults
    BY <1>14, SearchFaultType
  <2>3. pc' \in [Threads -> Labels] /\ arg' \in [Threads -> ThreadOrNull]
    BY <1>14 DEF Labels, PlainLabels
  <2>4. iflag' \in BOOLEAN /\ win' \in [Threads -> BOOLEAN]
    BY <1>14 DEF SpinRelease, Locks
  <2> QED
    BY <1>14, <2>1, <2>2, <2>3, <2>4
<1>15. ASSUME NEW t \in Threads, BlockFind(t) \/ UnblockFind(t)
       PROVE  TypeOK'
  <2> USE DEF BlockFind, UnblockFind, Find
  <2>1. thread_from_tid(arg[t]) \in ThreadOrNull
    BY FindType
  <2>2. arg' \in [Threads -> ThreadOrNull]
    BY <1>15, <2>1
  <2>3. pc' \in [Threads -> Labels]
    BY <1>15 DEF Labels, Releases
  <2> QED
    BY <1>15, <2>2, <2>3
<1>16. ASSUME NEW t \in Threads, BlockMark(t)
       PROVE  TypeOK'
  BY <1>16 DEF BlockMark, Labels, SchedLabels
<1>17. ASSUME NEW t \in Threads, Unreachable(t)
       PROVE  TypeOK'
  BY <1>17 DEF Unreachable
<1>18. ASSUME NEW t \in Threads, UnblockCheck(t)
       PROVE  TypeOK'
  BY <1>18 DEF UnblockCheck, Labels, PlainLabels
<1>19. ASSUME NEW t \in Threads, UnblockMark(t)
       PROVE  TypeOK'
  BY <1>19 DEF UnblockMark, Labels, PlainLabels
<1>20. ASSUME NEW t \in Threads, UnblockNext(t)
       PROVE  TypeOK'
  <2>1. rq' \in Queues
    BY <1>20, LinkType DEF UnblockNext
  <2>2. pc' \in [Threads -> Labels]
    BY <1>20 DEF UnblockNext, Labels, SchedLabels
  <2>3. fault' \in Faults
    BY <1>20 DEF UnblockNext
  <2> QED
    BY <1>20, <2>1, <2>2, <2>3 DEF UnblockNext
<1>21. ASSUME NEW t \in Threads, UnblockLink(t)
       PROVE  TypeOK'
  <2>1. rq' \in Queues
    BY <1>21, LinkType DEF UnblockLink
  <2>2. pc' \in [Threads -> Labels] /\ arg' \in [Threads -> ThreadOrNull]
    BY <1>21 DEF UnblockLink, Labels, PlainLabels
  <2>3. iflag' \in BOOLEAN /\ win' \in [Threads -> BOOLEAN] /\ fault' \in Faults
    BY <1>21 DEF UnblockLink, SpinRelease, LinkFault, Locks
  <2> QED
    BY <1>21, <2>1, <2>2, <2>3 DEF UnblockLink
<1>22. ASSUME NEW t \in Threads, SoftIrq(t)
       PROVE  TypeOK'
  <2>1. pc' \in [Threads -> Labels]
    BY <1>22 DEF SoftIrq, Labels, PlainLabels
  <2> QED
    BY <1>22, <2>1, TickEnterType DEF SoftIrq
<1>23. CASE TimerIrq
  BY <1>23, TickEnterType DEF TimerIrq
<1>24. CASE PickZombie
  BY <1>24, DequeueType DEF PickZombie, Dropped, Dequeued
<1>25. CASE PickBad
  <2>1. PickFault \in Faults
    BY DEF PickFault
  <2> QED
    BY <1>25, <2>1 DEF PickBad
<1>26. CASE PickCooldown
  <2> DEFINE c == Candidate
  <2>1. c \in Threads /\ Dequeued \in Queues
    BY <1>26, RunnableType DEF PickCooldown
  <2>2. rq' \in Queues
    BY <1>26, <2>1, LinkType DEF PickCooldown
  <2>3. fault' \in Faults
    BY <1>26 DEF PickCooldown
  <2>4. cooldown' = [cooldown EXCEPT ![c] = @ - 1] /\ cooldown[c] > 0
    BY <1>26 DEF PickCooldown, Cooled
  <2>5. cooldown' \in [Threads -> Nat]
    BY <2>1, <2>4
  <2>6. \A t \in Threads : cooldown'[t] < priority_to_stride(Priority[t])
    BY <2>1, <2>4, StrideType
  <2> QED
    BY <1>26, <2>2, <2>3, <2>5, <2>6 DEF PickCooldown
<1>27. CASE PickDispatch
  <2> DEFINE c == Candidate
             s == priority_to_stride(Priority[c])
  <2>1. c \in Threads /\ Dequeued \in Queues
    BY <1>27, RunnableType DEF PickDispatch
  <2>2. cooldown' = [cooldown EXCEPT ![c] = s - 1] /\ s \in Nat \ {0}
    BY <1>27, <2>1, StrideType DEF PickDispatch, Recharged
  <2>3. cooldown' \in [Threads -> Nat]
    BY <2>1, <2>2
  <2>4. \A t \in Threads : cooldown'[t] < priority_to_stride(Priority[t])
    BY <2>1, <2>2, StrideType
  <2>5. /\ tstate' \in [Threads -> States]
        /\ cur' \in ThreadOrNull /\ run' \in Threads /\ rsp0' \in ThreadOrNull
        /\ rq' \in Queues /\ irq' = "clean"
    BY <1>27, <2>1 DEF PickDispatch, NewRsp0
  <2> QED
    BY <1>27, <2>3, <2>4, <2>5 DEF PickDispatch
<1>28. CASE CleanContended
  BY <1>28 DEF CleanContended
<1>29. ASSUME NEW i \in Slots, CleanOne(i)
       PROVE  TypeOK'
  <2>1. rq' \in Queues
    BY <1>29, RemoveType DEF CleanOne
  <2>2. fault' \in Faults
    BY <1>29, SearchFaultType DEF CleanOne
  <2>3. /\ mem' \in [Threads -> {"unborn", "live", "freed"}]
        /\ table' \in [Slots -> ThreadOrNull]
    BY <1>29 DEF CleanOne, Emptied
  <2>4. had' \in [Locks -> BOOLEAN]
    BY <1>29 DEF CleanOne
  <2>5. thread_count' \in Int
    BY <1>29 DEF CleanOne
  <2> QED
    BY <1>29, <2>1, <2>2, <2>3, <2>4, <2>5 DEF CleanOne
<1>30. CASE CleanDone
  BY <1>30 DEF CleanDone, Cleaning, context_switch, Locks
<1> QED
  BY <1>1, <1>2, <1>3, <1>4, <1>5, <1>6, <1>7, <1>8, <1>9, <1>10, <1>11, <1>12,
     <1>13, <1>14, <1>15, <1>16, <1>17, <1>18, <1>19, <1>20, <1>21, <1>22, <1>23,
     <1>24, <1>25, <1>26, <1>27, <1>28, <1>29, <1>30 DEF Next, Tick, Step

\* Every variable of the scheduler keeps the C type it is declared with, and
\* no cooldown ever reaches its thread's stride.
THEOREM TypeCorrect == Spec => []TypeOK
<1>1. Init => TypeOK
  BY TypeInit
<1>2. TypeOK /\ [Next]_vars => TypeOK'
  BY TypeStep
<1> QED
  BY <1>1, <1>2, PTL DEF Spec

-----------------------------------------------------------------------------
(* Which step changes what.                                                 *)

\* Only thread_create and clean_up allocate, free or enter threads.
LEMMA TableFrame ==
  ASSUME [Next]_vars
  PROVE  \/ UNCHANGED <<mem, table, next_tid, thread_count>>
         \/ \E t \in Threads : CreateBody(t)
         \/ \E i \in Slots : CleanOne(i)
<1> USE DEF threadVars, kernelVars, vars
<1>1. ASSUME NEW t \in Threads, Call(t) \/ Step(t), ~CreateBody(t)
      PROVE  UNCHANGED <<mem, table, next_tid, thread_count>>
  BY <1>1 DEF Call, Step, SpinSave, acquire_mutex, release_mutex, CreateLink,
     ExitCall, ExitMark, ExitClear, PexitFound, PexitMark, TermBody, TermRemove,
     BlockRemove, RemoveFromQueue, BlockFind, UnblockFind, Find, BlockMark,
     Unreachable, UnblockCheck, UnblockMark, UnblockNext, UnblockLink, SoftIrq, TickEnter
<1>2. ASSUME Tick
      PROVE  \/ UNCHANGED <<mem, table, next_tid, thread_count>>
             \/ \E i \in Slots : CleanOne(i)
  BY <1>2 DEF Tick, TimerIrq, TickEnter, PickZombie, PickBad, PickCooldown,
     PickDispatch, CleanContended, CleanDone
<1> QED
  BY <1>1, <1>2 DEF Next

\* Only acquire_mutex and release_mutex write a mutex.
LEMMA MutexFrame ==
  ASSUME [Next]_vars
  PROVE  \/ UNCHANGED mutex
         \/ \E t \in Threads : acquire_mutex(t) \/ release_mutex(t)
<1> USE DEF lockVars, vars
<1>1. ASSUME NEW t \in Threads, Call(t) \/ Step(t), ~acquire_mutex(t), ~release_mutex(t)
      PROVE  UNCHANGED mutex
  BY <1>1 DEF Call, Step, SpinSave, CreateBody, CreateLink, ExitCall, ExitMark,
     ExitClear, PexitFound, PexitMark, TermBody, TermRemove, BlockRemove,
     RemoveFromQueue, BlockFind, UnblockFind, Find, BlockMark, Unreachable,
     UnblockCheck, UnblockMark, UnblockNext, UnblockLink, SoftIrq, TickEnter
<1>2. ASSUME Tick PROVE UNCHANGED mutex
  BY <1>2 DEF Tick, TimerIrq, TickEnter, PickZombie, PickBad, PickCooldown,
     PickDispatch, CleanContended, CleanDone, CleanOne
<1> QED
  BY <1>1, <1>2 DEF Next

\* Nothing happens once the kernel has stopped, and the code of threads and
\* the interrupt take turns.
LEMMA Enabling ==
  ASSUME Next
  PROVE  /\ fault = "none"
         /\ \A t \in Threads : Call(t) \/ Step(t) => irq = "none" /\ run = t
<1> USE DEF At
<1>1. ASSUME NEW t \in Threads, Call(t) \/ Step(t)
      PROVE  fault = "none" /\ irq = "none" /\ run = t
  BY <1>1 DEF Call, Step, SpinSave, acquire_mutex, release_mutex, CreateBody, CreateLink,
     ExitCall, ExitMark, ExitClear, PexitFound, PexitMark, TermBody, TermRemove,
     BlockRemove, RemoveFromQueue, BlockFind, UnblockFind, Find, BlockMark,
     Unreachable, UnblockCheck, UnblockMark, UnblockNext, UnblockLink, SoftIrq
<1>2. ASSUME Tick PROVE fault = "none"
  BY <1>2 DEF Tick, TimerIrq, PickZombie, PickBad, PickCooldown, PickDispatch,
     CleanContended, CleanDone, CleanOne, Picking, Runnable, Cleaning
<1> QED
  BY <1>1, <1>2 DEF Next

\* A step of a thread moves that thread's label and no other; a tick moves
\* none.
LEMMA PcFrame ==
  ASSUME Next, pc \in [Threads -> Labels]
  PROVE  /\ Tick => UNCHANGED pc
         /\ \A t \in Threads : Call(t) \/ Step(t) =>
              \A u \in Threads : u # t => pc'[u] = pc[u]
<1> USE DEF codeVars
<1>1. ASSUME NEW t \in Threads, Call(t) \/ Step(t)
      PROVE  \A u \in Threads : u # t => pc'[u] = pc[u]
  BY <1>1 DEF Call, Step, SpinSave, acquire_mutex, release_mutex, CreateBody, CreateLink,
     ExitCall, ExitMark, ExitClear, PexitFound, PexitMark, TermBody, TermRemove,
     BlockRemove, RemoveFromQueue, BlockFind, UnblockFind, Find, BlockMark,
     Unreachable, UnblockCheck, UnblockMark, UnblockNext, UnblockLink, SoftIrq, Goto
<1>2. ASSUME Tick PROVE UNCHANGED pc
  BY <1>2 DEF Tick, TimerIrq, PickZombie, PickBad, PickCooldown, PickDispatch,
     CleanContended, CleanDone, CleanOne
<1> QED
  BY <1>1, <1>2 DEF Next

\* Which steps move kernel->current_thread, the CPU or the interrupt.
LEMMA CpuFrame ==
  ASSUME Next
  PROVE  \/ UNCHANGED <<cur, run, irq>>
         \/ \E t \in Threads : ExitClear(t) \/ SoftIrq(t)
         \/ TimerIrq \/ PickDispatch \/ CleanDone
<1> USE DEF cpuVars
<1>1. ASSUME NEW t \in Threads, Call(t) \/ Step(t), ~ExitClear(t), ~SoftIrq(t)
      PROVE  UNCHANGED <<cur, run, irq>>
  BY <1>1 DEF Call, Step, SpinSave, acquire_mutex, release_mutex, CreateBody, CreateLink,
     ExitCall, ExitMark, PexitFound, PexitMark, TermBody, TermRemove,
     BlockRemove, RemoveFromQueue, BlockFind, UnblockFind, Find, BlockMark,
     Unreachable, UnblockCheck, UnblockMark, UnblockNext, UnblockLink
<1>2. ASSUME Tick, ~TimerIrq, ~PickDispatch, ~CleanDone
      PROVE  UNCHANGED <<cur, run, irq>>
  BY <1>2 DEF Tick, PickZombie, PickBad, PickCooldown, CleanContended, CleanOne
<1> QED
  BY <1>1, <1>2 DEF Next

\* Which steps write a thread's state.
LEMMA StateFrame ==
  ASSUME Next
  PROVE  \/ UNCHANGED tstate
         \/ \E t \in Threads : \/ acquire_mutex(t) \/ release_mutex(t) \/ ExitMark(t)
                               \/ TermBody(t) \/ BlockMark(t) \/ UnblockMark(t)
                               \/ SoftIrq(t)
         \/ TimerIrq \/ PickDispatch
<1> USE DEF threadVars
<1>1. ASSUME NEW t \in Threads, Call(t) \/ Step(t),
             ~acquire_mutex(t), ~release_mutex(t), ~ExitMark(t), ~TermBody(t),
             ~BlockMark(t), ~UnblockMark(t), ~SoftIrq(t)
      PROVE  UNCHANGED tstate
  BY <1>1 DEF Call, Step, SpinSave, CreateBody, CreateLink,
     ExitCall, ExitClear, PexitFound, PexitMark, TermRemove,
     BlockRemove, RemoveFromQueue, BlockFind, UnblockFind, Find,
     Unreachable, UnblockCheck, UnblockNext, UnblockLink
<1>2. ASSUME Tick, ~TimerIrq, ~PickDispatch
      PROVE  UNCHANGED tstate
  BY <1>2 DEF Tick, PickZombie, PickBad, PickCooldown, CleanContended, CleanOne, CleanDone
<1> QED
  BY <1>1, <1>2 DEF Next

\* What scheduler_tick does to the states of the threads on entry.
LEMMA TickEnterStates ==
  ASSUME TypeOK, TickEnter
  PROVE  /\ \A t \in Threads : t # cur => tstate'[t] = tstate[t]
         /\ cur \in Threads /\ tstate[cur] \in {"RUNNING", "READY"} => tstate'[cur] = "READY"
         /\ cur \in Threads /\ tstate[cur] \notin {"RUNNING", "READY"}
              => tstate' = tstate /\ fault' = "spin"
         /\ irq' = "pick" /\ UNCHANGED <<cur, run, mem>>
<1>1. tstate \in [Threads -> States] /\ cur \in Threads \cup {NULL}
  BY DEF TypeOK, ThreadOrNull
<1>2. cur \in Threads => cur # NULL
  BY NullAssumption
<1> QED
  BY <1>1, <1>2 DEF TickEnter, Preempted

-----------------------------------------------------------------------------
(* One running thread.                                                      *)

\* No step but the scheduler's dispatch makes a thread run, and the scheduler
\* only dispatches when nothing runs.
LEMMA OneRunningStep ==
  ASSUME TypeOK, OneRunning, CpuSound, LeavingSound, Next
  PROVE  OneRunning'
<1> USE DEF OneRunning
<1>1. ASSUME NEW t \in Threads, \/ acquire_mutex(t) \/ release_mutex(t) \/ ExitMark(t)
                                \/ TermBody(t) \/ BlockMark(t) \/ UnblockMark(t)
      PROVE  OneRunning'
  <2>1. tstate \in [Threads -> States]
    BY DEF TypeOK
  <2>2. \A u \in Threads : tstate'[u] = "RUNNING" => tstate[u] = "RUNNING"
    BY <1>1, <2>1 DEF acquire_mutex, release_mutex, ExitMark, TermBody, BlockMark, UnblockMark
  <2>3. UNCHANGED <<cur, irq>>
    BY <1>1 DEF acquire_mutex, release_mutex, ExitMark, TermBody, BlockMark,
       UnblockMark, cpuVars
  <2> QED
    BY <2>2, <2>3
<1>2. CASE TimerIrq \/ \E t \in Threads : SoftIrq(t)
  <2>1. TickEnter
    BY <1>2 DEF TimerIrq, SoftIrq
  <2> QED
    BY <2>1, TickEnterStates DEF TypeOK, States
<1>3. ASSUME NEW t \in Threads, ExitClear(t)
      PROVE  OneRunning'
  <2>1. fault = "none" /\ irq = "none" /\ run = t /\ pc[t] = "exit_clear"
    BY <1>3 DEF ExitClear, At
  <2>2. cur = t /\ tstate[t] = "TERMED"
    BY <2>1 DEF CpuSound, LeavingSound
  <2>3. \A u \in Threads : tstate[u] # "RUNNING"
    BY <2>2
  <2> QED
    BY <1>3, <2>3 DEF ExitClear, threadVars
<1>4. CASE PickDispatch
  <2>1. Candidate \in Threads /\ irq = "pick"
    BY <1>4, RunnableType DEF PickDispatch, Runnable, Picking
  <2>2. tstate' = [tstate EXCEPT ![Candidate] = "RUNNING"] /\ cur' = Candidate /\ irq' = "clean"
    BY <1>4 DEF PickDispatch
  <2>3. tstate \in [Threads -> States]
    BY DEF TypeOK
  <2> QED
    BY <2>1, <2>2, <2>3
<1>5. CASE CleanDone
  BY <1>5 DEF CleanDone, threadVars
<1>6. CASE UNCHANGED tstate /\ UNCHANGED <<cur, run, irq>>
  BY <1>6
<1> QED
  BY <1>1, <1>2, <1>3, <1>4, <1>5, <1>6, StateFrame, CpuFrame

-----------------------------------------------------------------------------
(* The thread table.                                                        *)

\* What thread_create does: nothing, a tid used up, or a fresh thread in a
\* free slot.
LEMMA CreateCases ==
  ASSUME NEW t \in Threads, CreateBody(t)
  PROVE  \/ UNCHANGED <<mem, table, thread_count, next_tid>>
         \/ /\ next_tid \in Threads /\ next_tid' = next_tid + 1
            /\ mem' = [mem EXCEPT ![next_tid] = "freed"]
            /\ UNCHANGED <<table, thread_count>>
         \/ /\ next_tid \in Threads /\ next_tid' = next_tid + 1
            /\ UNCHANGED <<mem, table, thread_count>> /\ fault' = "recursion"
         \/ /\ next_tid \in Threads /\ next_tid' = next_tid + 1
            /\ mem' = [mem EXCEPT ![next_tid] = "live"]
            /\ \E i \in Slots : /\ i # 0 /\ table[i] = NULL
                                /\ table' = [table EXCEPT ![i] = next_tid]
                                /\ thread_count' = thread_count + 1
BY DEF CreateBody, FreeSlot, NewTid

\* Entering a fresh thread in a free slot keeps the table sound.
LEMMA TableAdd ==
  ASSUME TypeOK, TableSound, next_tid \in Threads,
         NEW i \in Slots, i # 0, table[i] = NULL,
         table' = [table EXCEPT ![i] = next_tid],
         mem' = [mem EXCEPT ![next_tid] = "live"],
         next_tid' = next_tid + 1
  PROVE  TableSound'
<1> DEFINE n == next_tid
<1>1. /\ table \in [Slots -> ThreadOrNull]
      /\ mem \in [Threads -> {"unborn", "live", "freed"}]
      /\ n \in Nat /\ Threads \subseteq Nat /\ 0 \in Slots
  BY ThreadsAssumption, MaxTidAssumption, MaxThreadsAssumption DEF TypeOK, Slots
<1>2. \A j \in Slots : table[j] # NULL => table[j] \in Threads
  BY <1>1 DEF ThreadOrNull
<1>3. \A j \in Slots : table[j] # NULL => table[j] # n
  BY <1>1, <1>2 DEF TableSound
<1>4. n # NULL
  BY NullAssumption
<1>5. table'[0] = 0 /\ next_tid' # 0
  BY <1>1 DEF TableSound
<1>6. ASSUME NEW j \in Slots, table'[j] # NULL
      PROVE  mem'[table'[j]] = "live" /\ table'[j] < next_tid'
  <2>1. CASE j = i
    BY <1>1, <2>1
  <2>2. CASE j # i
    <3>1. table'[j] = table[j] /\ table[j] \in Nat /\ table[j] \in Threads
      BY <1>1, <1>2, <1>6, <2>2
    <3>2. table[j] < n /\ mem[table[j]] = "live" /\ table[j] # n
      BY <1>3, <1>6, <3>1 DEF TableSound
    <3> QED
      BY <1>1, <3>1, <3>2
  <2> QED
    BY <2>1, <2>2
<1>7. ASSUME NEW j \in Slots, NEW k \in Slots, table'[j] # NULL, table'[j] = table'[k]
      PROVE  j = k
  BY <1>1, <1>3, <1>4, <1>7 DEF TableSound
<1>8. ASSUME NEW u \in Threads, mem'[u] = "live"
      PROVE  \E j \in Slots : table'[j] = u
  <2>1. CASE u = n
    BY <1>1, <2>1
  <2>2. CASE u # n
    <3>1. mem[u] = "live"
      BY <1>1, <1>8, <2>2
    <3>2. PICK j \in Slots : table[j] = u
      BY <3>1 DEF TableSound
    <3>3. j # i
      BY <3>2, NullAssumption
    <3> QED
      BY <1>1, <3>2, <3>3
  <2> QED
    BY <2>1, <2>2
<1>9. ASSUME NEW u \in Threads, u >= next_tid'
      PROVE  mem'[u] = "unborn"
  <2>1. u # n /\ u >= n
    BY <1>1, <1>9
  <2> QED
    BY <1>1, <2>1 DEF TableSound
<1> QED
  BY <1>5, <1>6, <1>7, <1>8, <1>9 DEF TableSound

\* thread_create and clean_up keep the table sound.
LEMMA TableSoundStep ==
  ASSUME TypeOK, TableSound, KernelThreadStays, Next
  PROVE  TableSound'
<1>0. /\ table \in [Slots -> ThreadOrNull]
      /\ mem \in [Threads -> {"unborn", "live", "freed"}]
      /\ next_tid \in Nat /\ Threads \subseteq Nat /\ 0 \in Slots /\ 0 \in Threads
  BY ThreadsAssumption, MaxTidAssumption, MaxThreadsAssumption DEF TypeOK, Slots
<1>00. \A i \in Slots : table[i] # NULL => table[i] \in Threads
  BY <1>0 DEF ThreadOrNull
<1>1. CASE UNCHANGED <<mem, table, next_tid, thread_count>>
  BY <1>1 DEF TableSound
<1>2. ASSUME NEW t \in Threads, CreateBody(t)
      PROVE  TableSound'
  <2>1. CASE /\ next_tid \in Threads /\ next_tid' = next_tid + 1
             /\ mem' = [mem EXCEPT ![next_tid] = "freed"]
             /\ UNCHANGED <<table, thread_count>>
    <3>1. \A i \in Slots : table[i] # NULL => mem'[table[i]] = "live" /\ table[i] < next_tid'
      <4> SUFFICES ASSUME NEW i \in Slots, table[i] # NULL
                   PROVE  mem'[table[i]] = "live" /\ table[i] < next_tid'
        OBVIOUS
      <4>1. table[i] \in Threads /\ table[i] \in Nat
        BY <1>0, <1>00
      <4>2. table[i] < next_tid /\ mem[table[i]] = "live"
        BY DEF TableSound
      <4> QED
        BY <1>0, <2>1, <4>1, <4>2
    <3>2. \A u \in Threads : mem'[u] = "live" => mem[u] = "live"
      BY <1>0, <2>1
    <3>3. \A u \in Threads : u >= next_tid' => mem'[u] = "unborn"
      BY <1>0, <2>1 DEF TableSound
    <3> QED
      BY <1>0, <2>1, <3>1, <3>2, <3>3 DEF TableSound
  <2>2. CASE /\ next_tid \in Threads /\ next_tid' = next_tid + 1
             /\ UNCHANGED <<mem, table, thread_count>>
    <3>1. \A i \in Slots : table[i] # NULL => table[i] < next_tid'
      <4> SUFFICES ASSUME NEW i \in Slots, table[i] # NULL
                   PROVE  table[i] < next_tid'
        OBVIOUS
      <4>1. table[i] \in Nat
        BY <1>0, <1>00
      <4>2. table[i] < next_tid
        BY DEF TableSound
      <4> QED
        BY <1>0, <2>2, <4>1, <4>2
    <3>2. \A u \in Threads : u >= next_tid' => mem[u] = "unborn"
      BY <1>0, <2>2 DEF TableSound
    <3> QED
      BY <1>0, <2>2, <3>1, <3>2 DEF TableSound
  <2>3. CASE /\ next_tid \in Threads /\ next_tid' = next_tid + 1
             /\ mem' = [mem EXCEPT ![next_tid] = "live"]
             /\ \E i \in Slots : /\ i # 0 /\ table[i] = NULL
                                 /\ table' = [table EXCEPT ![i] = next_tid]
    BY <2>3, TableAdd
  <2> QED
    BY <1>1, <1>2, <2>1, <2>2, <2>3, CreateCases
<1>3. ASSUME NEW i \in Slots, CleanOne(i)
      PROVE  TableSound'
  <2> DEFINE a == table[i]
  <2>1. /\ a # NULL /\ tstate[a] = "TERMED"
        /\ mem' = [mem EXCEPT ![a] = "freed"]
        /\ table' = [table EXCEPT ![i] = NULL]
        /\ UNCHANGED next_tid
    BY <1>3 DEF CleanOne, Termed, Emptied
  <2>2. a \in Threads /\ a # 0 /\ i # 0
    BY <1>00, <2>1 DEF KernelThreadStays, TableSound
  <2>3. \A j \in Slots : table'[j] # NULL => j # i /\ table'[j] = table[j] /\ table[j] # a
    BY <1>0, <2>1 DEF TableSound
  <2>4. \A j \in Slots : table'[j] # NULL => mem'[table'[j]] = "live" /\ table'[j] < next_tid'
    BY <1>0, <1>00, <2>1, <2>3 DEF TableSound
  <2>5. \A j, k \in Slots : table'[j] # NULL /\ table'[j] = table'[k] => j = k
    BY <2>3 DEF TableSound
  <2>6. ASSUME NEW u \in Threads, mem'[u] = "live"
        PROVE  \E j \in Slots : table'[j] = u
    <3>1. mem[u] = "live" /\ u # a
      BY <1>0, <2>1, <2>2, <2>6
    <3>2. PICK j \in Slots : table[j] = u
      BY <3>1 DEF TableSound
    <3> QED
      BY <1>0, <2>1, <3>1, <3>2
  <2>7. \A u \in Threads : u >= next_tid' => mem'[u] = "unborn"
    <3>1. mem[a] = "live"
      BY <2>1 DEF TableSound
    <3> QED
      BY <1>0, <2>1, <3>1 DEF TableSound
  <2>8. table'[0] = 0 /\ next_tid' # 0
    BY <1>0, <2>1, <2>2 DEF TableSound
  <2> QED
    BY <2>4, <2>5, <2>6, <2>7, <2>8 DEF TableSound
<1> QED
  BY <1>1, <1>2, <1>3, TableFrame

\* A thread that is about to exist has not run.
LEMMA UnbornIdleStep ==
  ASSUME TypeOK, TableSound, UnbornIdle, CpuSound, Next
  PROVE  UnbornIdle'
<1>1. ASSUME NEW u \in Threads, mem'[u] = "unborn"
      PROVE  mem[u] = "unborn"
  <2>1. mem \in [Threads -> {"unborn", "live", "freed"}]
    BY DEF TypeOK
  <2>2. CASE UNCHANGED mem
    BY <1>1, <2>2
  <2>3. ASSUME NEW t \in Threads, CreateBody(t)
        PROVE  mem[u] = "unborn"
    BY <1>1, <2>1, <2>3, CreateCases
  <2>4. ASSUME NEW i \in Slots, CleanOne(i)
        PROVE  mem[u] = "unborn"
    BY <1>1, <2>1, <2>4 DEF CleanOne
  <2> QED
    BY <2>2, <2>3, <2>4, TableFrame
<1>2. ASSUME NEW u \in Threads, mem[u] = "unborn"
      PROVE  pc'[u] = pc[u]
  <2>1. CASE Tick
    BY <2>1, PcFrame DEF TypeOK
  <2>2. ASSUME NEW t \in Threads, Call(t) \/ Step(t)
        PROVE  pc'[u] = pc[u]
    <3>1. mem[t] = "live"
      BY <2>2, Enabling DEF CpuSound
    <3> QED
      BY <1>2, <2>2, <3>1, PcFrame DEF TypeOK
  <2> QED
    BY <2>1, <2>2 DEF Next
<1> QED
  BY <1>1, <1>2 DEF UnbornIdle

-----------------------------------------------------------------------------
(* The kernel thread stays.                                                 *)

ExitLabels == {"exit_plock", "exit_punlock", "exit_lock", "exit_mark",
               "exit_unlock", "exit_clear", "exit_int"}

\* thread_exit past its test of the kernel thread is entered from thread_exit
\* only, and the body of thread_terminate from its own lock.
LEMMA LabelOrigins ==
  /\ \A l \in DOMAIN Acquires :
       /\ Acquires[l][2] \in ExitLabels => l \in ExitLabels
       /\ Acquires[l][2] # "term_lock"
       /\ Acquires[l][2] = "term_body" => l = "term_lock"
       /\ Acquires[l][2] \notin {"exit_unlock", "exit_clear", "exit_int"}
  /\ \A l \in DOMAIN Releases :
       /\ Releases[l][2] \in ExitLabels => l \in ExitLabels
       /\ Releases[l][2] \notin {"term_lock", "term_body"}
       /\ Releases[l][2] \in {"exit_unlock", "exit_clear", "exit_int"} => l = "exit_unlock"
<1>1. ASSUME NEW l \in DOMAIN Acquires
      PROVE  /\ Acquires[l][2] \in ExitLabels => l \in ExitLabels
             /\ Acquires[l][2] # "term_lock"
             /\ Acquires[l][2] = "term_body" => l = "term_lock"
             /\ Acquires[l][2] \notin {"exit_unlock", "exit_clear", "exit_int"}
  BY DEF Acquires, ExitLabels
<1>2. ASSUME NEW l \in DOMAIN Releases
      PROVE  /\ Releases[l][2] \in ExitLabels => l \in ExitLabels
             /\ Releases[l][2] \notin {"term_lock", "term_body"}
             /\ Releases[l][2] \in {"exit_unlock", "exit_clear", "exit_int"} => l = "exit_unlock"
  BY DEF Releases, ExitLabels
<1> QED
  BY <1>1, <1>2

\* Where a step of t leaves t and the argument of its call.
LEMMA KernelLabels ==
  ASSUME TypeOK, KernelThreadStays, NEW t \in Threads, Call(t) \/ Step(t)
  PROVE  /\ t = 0 => pc'[t] \notin ExitLabels
         /\ pc'[t] \in {"term_lock", "term_body"} => arg'[t] # 0
         /\ \A u \in Threads : u # t => arg'[u] = arg[u]
<1> USE DEF At, Goto, codeVars
<1>0. /\ pc \in [Threads -> Labels] /\ arg \in [Threads -> ThreadOrNull]
      /\ t = 0 => pc[t] \notin ExitLabels
      /\ pc[t] \in {"term_lock", "term_body"} => arg[t] # 0
  BY DEF TypeOK, KernelThreadStays, ExitLabels
<1>1. CASE Call(t)
  BY <1>0, <1>1 DEF Call, ExitLabels
<1>2. CASE acquire_mutex(t)
  <2>1. /\ pc[t] \in DOMAIN Acquires
        /\ \/ pc' = [pc EXCEPT ![t] = Acquires[pc[t]][2]] /\ UNCHANGED arg
           \/ pc' = [pc EXCEPT ![t] = "block_lock"] /\ arg' = [arg EXCEPT ![t] = t]
    BY <1>2 DEF acquire_mutex
  <2>2. "block_lock" \notin ExitLabels
    BY DEF ExitLabels
  <2> QED
    BY <1>0, <2>1, <2>2, LabelOrigins
<1>3. CASE release_mutex(t)
  <2>1. /\ pc[t] \in DOMAIN Releases /\ UNCHANGED arg
        /\ pc' = [pc EXCEPT ![t] = Releases[pc[t]][2]]
    BY <1>3 DEF release_mutex
  <2> QED
    BY <1>0, <2>1, LabelOrigins
<1>4. CASE SpinSave(t) \/ Unreachable(t)
  BY <1>0, <1>4 DEF SpinSave, Unreachable
<1>5. CASE CreateBody(t) \/ CreateLink(t) \/ PexitFound(t) \/ PexitMark(t)
  BY <1>0, <1>5 DEF CreateBody, CreateLink, PexitFound, PexitMark, ExitLabels
<1>6. CASE ExitCall(t) \/ ExitMark(t) \/ ExitClear(t)
  BY <1>0, <1>6 DEF ExitCall, ExitMark, ExitClear, ExitLabels, IsKernelThread
<1>7. CASE TermBody(t) \/ TermRemove(t)
  BY <1>0, <1>7 DEF TermBody, TermRemove, RemoveFromQueue, ExitLabels
<1>8. CASE BlockFind(t) \/ BlockMark(t) \/ BlockRemove(t) \/ UnblockFind(t) \/ UnblockCheck(t)
  BY <1>0, <1>8 DEF BlockFind, BlockMark, BlockRemove, UnblockFind, UnblockCheck,
     Find, RemoveFromQueue, ExitLabels
<1>9. CASE UnblockMark(t) \/ UnblockNext(t) \/ UnblockLink(t) \/ SoftIrq(t)
  BY <1>0, <1>9 DEF UnblockMark, UnblockNext, UnblockLink, SoftIrq, TickEnter, ExitLabels
<1> QED
  BY <1>1, <1>2, <1>3, <1>4, <1>5, <1>6, <1>7, <1>8, <1>9 DEF Step

\* Nothing marks the kernel thread terminated.
LEMMA KernelThreadStaysStep ==
  ASSUME TypeOK, KernelThreadStays, Next
  PROVE  KernelThreadStays'
<1>0. /\ 0 \in Threads /\ tstate \in [Threads -> States] /\ pc \in [Threads -> Labels]
      /\ tstate[0] # "TERMED" /\ pc[0] \notin ExitLabels
      /\ \A t \in Threads : pc[t] \in {"term_lock", "term_body"} => arg[t] # 0
  BY ThreadsAssumption, MaxTidAssumption DEF TypeOK, KernelThreadStays, ExitLabels
<1>1. tstate'[0] # "TERMED"
  <2>1. CASE UNCHANGED tstate
    BY <1>0, <2>1
  <2>2. ASSUME NEW t \in Threads, acquire_mutex(t) \/ release_mutex(t) \/ BlockMark(t) \/ UnblockMark(t)
        PROVE  tstate'[0] # "TERMED"
    BY <1>0, <2>2 DEF acquire_mutex, release_mutex, BlockMark, UnblockMark
  <2>3. ASSUME NEW t \in Threads, ExitMark(t)
        PROVE  tstate'[0] # "TERMED"
    BY <1>0, <2>3 DEF ExitMark, At, ExitLabels
  <2>4. ASSUME NEW t \in Threads, TermBody(t)
        PROVE  tstate'[0] # "TERMED"
    <3>1. arg[t] # 0
      BY <1>0, <2>4 DEF TermBody, At
    <3>2. thread_from_tid(arg[t]) # NULL => thread_from_tid(arg[t]) # 0
      BY <3>1 DEF thread_from_tid
    <3> QED
      BY <1>0, <2>4, <3>2 DEF TermBody
  <2>5. CASE TimerIrq \/ \E t \in Threads : SoftIrq(t)
    <3>1. TickEnter
      BY <2>5 DEF TimerIrq, SoftIrq
    <3> QED
      BY <1>0, <3>1, TickEnterStates
  <2>6. CASE PickDispatch
    BY <1>0, <2>6 DEF PickDispatch
  <2> QED
    BY <2>1, <2>2, <2>3, <2>4, <2>5, <2>6, StateFrame
<1>2. CASE Tick
  <2>1. UNCHANGED <<pc, arg>>
    BY <1>2 DEF Tick, TimerIrq, TickEnter, PickZombie, PickBad, PickCooldown,
       PickDispatch, CleanContended, CleanDone, CleanOne, codeVars
  <2> QED
    BY <1>0, <1>1, <2>1 DEF KernelThreadStays, ExitLabels
<1>3. ASSUME NEW t \in Threads, Call(t) \/ Step(t)
      PROVE  KernelThreadStays'
  <2>1. \A u \in Threads : u # t => pc'[u] = pc[u] /\ arg'[u] = arg[u]
    BY <1>0, <1>3, PcFrame, KernelLabels
  <2>2. pc'[0] \notin ExitLabels
    BY <1>0, <1>3, <2>1, KernelLabels
  <2>3. \A u \in Threads : pc'[u] \in {"term_lock", "term_body"} => arg'[u] # 0
    BY <1>0, <1>3, <2>1, KernelLabels
  <2> QED
    BY <1>1, <2>2, <2>3 DEF KernelThreadStays, ExitLabels
<1> QED
  BY <1>2, <1>3 DEF Next

-----------------------------------------------------------------------------
(* The thread on the CPU.                                                   *)

\* The thread on the CPU stays allocated and kernel->current_thread keeps
\* pointing to it: clean_up frees terminated threads, and the one just
\* dispatched is running.
LEMMA CpuSoundStep ==
  ASSUME TypeOK, TableSound, CpuSound, Next
  PROVE  CpuSound'
<1>0. /\ mem \in [Threads -> {"unborn", "live", "freed"}]
      /\ pc \in [Threads -> Labels]
      /\ tstate \in [Threads -> States]
      /\ table \in [Slots -> ThreadOrNull] /\ run \in Threads
  BY DEF TypeOK
<1>1. CASE TimerIrq \/ \E t \in Threads : SoftIrq(t)
  BY <1>1 DEF TimerIrq, SoftIrq, TickEnter, CpuSound
<1>2. CASE PickDispatch
  <2>1. Candidate \in Threads /\ mem[Candidate] = "live"
    BY <1>2, RunnableType DEF PickDispatch
  <2> QED
    BY <1>0, <1>2, <2>1 DEF PickDispatch, CpuSound
<1>3. CASE CleanDone
  BY <1>3 DEF CleanDone, Cleaning, CpuSound, threadVars
<1>4. ASSUME NEW t \in Threads, ExitClear(t)
      PROVE  CpuSound'
  BY <1>0, <1>4 DEF ExitClear, CpuSound, threadVars, At, Goto
<1>5. ASSUME NEW i \in Slots, CleanOne(i)
      PROVE  CpuSound'
  <2>1. irq = "clean" /\ tstate[table[i]] = "TERMED" /\ mem' = [mem EXCEPT ![table[i]] = "freed"]
    BY <1>5 DEF CleanOne, Cleaning, Termed
  <2>2. run # table[i]
    BY <2>1 DEF CpuSound
  <2>3. mem'[run] = "live"
    BY <1>0, <2>1, <2>2 DEF CpuSound
  <2> QED
    BY <1>5, <2>1, <2>3 DEF CleanOne, CpuSound, cpuVars
<1>6. ASSUME Tick, ~TimerIrq, ~PickDispatch, ~CleanDone, \A i \in Slots : ~CleanOne(i)
      PROVE  CpuSound'
  <2>1. UNCHANGED <<mem, tstate, cur, run, irq, pc>>
    BY <1>6 DEF Tick, PickZombie, PickBad, PickCooldown, CleanContended, threadVars,
       cpuVars, codeVars
  <2> QED
    BY <2>1 DEF CpuSound
<1>7. ASSUME NEW t \in Threads, Call(t) \/ Step(t), ~ExitClear(t), ~SoftIrq(t)
      PROVE  CpuSound'
  <2>1. irq = "none" /\ run = t /\ mem[t] = "live"
    BY <1>7, Enabling DEF CpuSound
  <2>2. UNCHANGED <<cur, run, irq>>
    BY <1>7 DEF Call, Step, SpinSave, acquire_mutex, release_mutex, CreateBody, CreateLink,
       ExitCall, ExitMark, PexitFound, PexitMark, TermBody, TermRemove,
       BlockRemove, RemoveFromQueue, BlockFind, UnblockFind, Find, BlockMark,
       Unreachable, UnblockCheck, UnblockMark, UnblockNext, UnblockLink, cpuVars
  <2>3. mem'[t] = "live"
    <3>1. CASE CreateBody(t)
      <4>1. next_tid \in Threads => next_tid # t
        <5>1. next_tid \in Threads => next_tid >= next_tid
          BY ThreadsAssumption, MaxTidAssumption
        <5> QED
          BY <2>1, <5>1 DEF TableSound
      <4> QED
        BY <1>0, <2>1, <3>1, <4>1, CreateCases
    <3>2. CASE ~CreateBody(t)
      <4>1. UNCHANGED mem
        BY <1>7, <3>2 DEF Call, Step, SpinSave, acquire_mutex, release_mutex, CreateLink,
           ExitCall, ExitMark, PexitFound, PexitMark, TermBody, TermRemove,
           BlockRemove, RemoveFromQueue, BlockFind, UnblockFind, Find, BlockMark,
           Unreachable, UnblockCheck, UnblockMark, UnblockNext, UnblockLink, threadVars
      <4> QED
        BY <2>1, <4>1
    <3> QED
      BY <3>1, <3>2
  <2>4. pc[t] # "exit_int"
    <3>1. "exit_int" \notin DOMAIN Acquires /\ "exit_int" \notin DOMAIN Releases
          /\ "exit_int" \notin SchedLabels
      BY DEF Acquires, Releases, SchedLabels
    <3> QED
      BY <1>7, <3>1 DEF Call, Step, SpinSave, acquire_mutex, release_mutex, CreateBody,
         CreateLink, ExitCall, ExitMark, PexitFound, PexitMark, TermBody, TermRemove,
         BlockRemove, RemoveFromQueue, BlockFind, UnblockFind, Find, BlockMark,
         Unreachable, UnblockCheck, UnblockMark, UnblockNext, UnblockLink, At
  <2> QED
    BY <2>1, <2>2, <2>3, <2>4 DEF CpuSound
<1> QED
  BY <1>1, <1>2, <1>3, <1>4, <1>5, <1>6, <1>7 DEF Next

-----------------------------------------------------------------------------
(* Mutexes.                                                                 *)

\* A thread enters and leaves the sections of a mutex by acquire_mutex and
\* release_mutex only.
LEMMA SectionFrame ==
  ASSUME TypeOK, Next, NEW u \in Threads, NEW m \in Mutexes,
         \A t \in Threads : ~acquire_mutex(t) /\ ~release_mutex(t),
         pc'[u] \in Section(m)
  PROVE  pc[u] \in Section(m)
<1>0. pc \in [Threads -> Labels]
  BY DEF TypeOK
<1>1. CASE pc'[u] = pc[u]
  BY <1>1
<1>2. CASE Tick
  BY <1>0, <1>2, PcFrame
<1>3. ASSUME Call(u) \/ Step(u) PROVE pc[u] \in Section(m)
  <2> USE DEF At, Goto, Section, Mutexes
  <2>1. CASE Call(u)
    BY <1>0, <2>1 DEF Call
  <2>2. CASE SpinSave(u) \/ Unreachable(u)
    BY <2>2 DEF SpinSave, Unreachable, codeVars
  <2>3. CASE CreateBody(u)
    BY <1>0, <2>3 DEF CreateBody
  <2>4. CASE CreateLink(u) \/ PexitFound(u) \/ PexitMark(u)
    BY <1>0, <2>4 DEF CreateLink, PexitFound, PexitMark
  <2>5. CASE ExitCall(u) \/ ExitMark(u) \/ ExitClear(u)
    BY <1>0, <2>5 DEF ExitCall, ExitMark, ExitClear
  <2>6. CASE TermBody(u)
    BY <1>0, <2>6 DEF TermBody
  <2>7. CASE TermRemove(u) \/ BlockRemove(u)
    BY <1>0, <2>7 DEF TermRemove, BlockRemove, RemoveFromQueue
  <2>8. CASE BlockFind(u) \/ UnblockFind(u)
    BY <1>0, <2>8 DEF BlockFind, UnblockFind, Find
  <2>9. CASE BlockMark(u) \/ UnblockCheck(u) \/ UnblockMark(u)
    BY <1>0, <2>9 DEF BlockMark, UnblockCheck, UnblockMark
  <2>10. CASE UnblockNext(u) \/ UnblockLink(u) \/ SoftIrq(u)
    BY <1>0, <2>10 DEF UnblockNext, UnblockLink, SoftIrq
  <2> QED
    BY <1>3, <2>1, <2>2, <2>3, <2>4, <2>5, <2>6, <2>7, <2>8, <2>9, <2>10 DEF Step
<1> QED
  BY <1>0, <1>1, <1>2, <1>3, PcFrame DEF Next

\* The record of a mutex after one of its fields, or all of it, was written.
LEMMA MutexWrite ==
  ASSUME NEW mx \in [Mutexes -> MutexRecords], NEW m \in Mutexes, NEW x, NEW r
  PROVE  /\ \A n \in Mutexes : n # m =>
              /\ [mx EXCEPT ![m].locked = TRUE, ![m].owner = x][n] = mx[n]
              /\ [mx EXCEPT ![m].waiters = x][n] = mx[n]
              /\ [mx EXCEPT ![m] = r][n] = mx[n]
         /\ [mx EXCEPT ![m].locked = TRUE, ![m].owner = x][m].locked
         /\ [mx EXCEPT ![m].locked = TRUE, ![m].owner = x][m].owner = x
         /\ [mx EXCEPT ![m].locked = TRUE, ![m].owner = x][m].waiters = mx[m].waiters
         /\ [mx EXCEPT ![m].waiters = x][m].locked = mx[m].locked
         /\ [mx EXCEPT ![m].waiters = x][m].owner = mx[m].owner
         /\ [mx EXCEPT ![m] = r][m] = r
BY DEF MutexRecords

\* acquire_mutex records the thread it lets in, release_mutex lets go of a
\* mutex no other thread is inside of, and a thread that waits for
\* thread_mutex does not survive it.
LEMMA MutexSoundStep ==
  ASSUME TypeOK, CpuSound, MutexSound, Next
  PROVE  MutexSound'
<1>0. /\ pc \in [Threads -> Labels] /\ mutex \in [Mutexes -> MutexRecords]
      /\ "thread_mutex" \in Mutexes /\ fault = "none"
  BY Enabling DEF TypeOK, Mutexes
<1>1. CASE UNCHANGED mutex /\ \A t \in Threads : ~acquire_mutex(t) /\ ~release_mutex(t)
  BY <1>0, <1>1, SectionFrame DEF MutexSound
<1>2. ASSUME NEW t \in Threads, acquire_mutex(t)
      PROVE  MutexSound'
  <2> DEFINE l == pc[t]
             m == Acquires[l][1]
             w == mutex[m].waiters
  <2>1. l \in DOMAIN Acquires /\ irq = "none" /\ run = t
    BY <1>2 DEF acquire_mutex, At
  <2>2. m \in Mutexes /\ \A n \in Mutexes : Acquires[l][2] \in Section(n) <=> n = m
    BY <2>1, AcquireLabels
  <2>3. cur = t
    <3>1. "exit_int" \notin DOMAIN Acquires
      BY DEF Acquires
    <3> QED
      BY <2>1, <3>1 DEF CpuSound
  <2>4. CASE Unlocked(m)
    <3>1. /\ mutex' = [mutex EXCEPT ![m].locked = TRUE, ![m].owner = t]
          /\ pc' = [pc EXCEPT ![t] = Acquires[l][2]]
          /\ UNCHANGED fault
      BY <1>2, <2>3, <2>4 DEF acquire_mutex, Goto
    <3>2. ~mutex[m].locked
      BY <2>4 DEF Unlocked
    <3>3. /\ \A n \in Mutexes : n # m => mutex'[n] = mutex[n]
          /\ mutex'[m].locked /\ mutex'[m].owner = t
          /\ mutex'[m].waiters = mutex[m].waiters
      BY <1>0, <2>2, <3>1, MutexWrite
    <3>4. mutex'["thread_mutex"].waiters = mutex["thread_mutex"].waiters
      BY <1>0, <3>3
    <3>5. ASSUME NEW n \in Mutexes, NEW u \in Threads, pc'[u] \in Section(n)
          PROVE  mutex'[n].locked /\ mutex'[n].owner = u
      <4>1. CASE u = t
        BY <1>0, <2>2, <3>1, <3>3, <3>5, <4>1
      <4>2. CASE u # t
        <5>1. pc[u] \in Section(n)
          BY <1>0, <3>1, <3>5, <4>2
        <5>2. mutex[n].locked /\ mutex[n].owner = u /\ n # m
          BY <3>2, <5>1 DEF MutexSound
        <5> QED
          BY <3>3, <5>2
      <4> QED
        BY <4>1, <4>2
    <3> QED
      BY <1>0, <3>4, <3>5 DEF MutexSound
  <2>5. CASE ~Unlocked(m)
    <3>1. /\ mutex' = [mutex EXCEPT ![m].waiters = Append(w, t)]
          /\ pc' = [pc EXCEPT ![t] = "block_lock"]
          /\ fault' = IF m = "thread_mutex" THEN "recursion" ELSE "none"
      BY <1>2, <2>5 DEF acquire_mutex, Goto
    <3>2. \A n \in Mutexes : "block_lock" \notin Section(n)
      BY DEF Section, Mutexes
    <3>3. /\ \A n \in Mutexes : n # m => mutex'[n] = mutex[n]
          /\ mutex'[m].locked = mutex[m].locked /\ mutex'[m].owner = mutex[m].owner
      BY <1>0, <2>2, <3>1, MutexWrite
    <3>4. \A n \in Mutexes, u \in Threads : pc'[u] \in Section(n) => pc[u] \in Section(n)
      BY <1>0, <3>1, <3>2
    <3>5. \A n \in Mutexes, u \in Threads :
            pc'[u] \in Section(n) => mutex'[n].locked /\ mutex'[n].owner = u
      BY <3>3, <3>4 DEF MutexSound
    <3>6. fault' = "none" => mutex'["thread_mutex"].waiters = <<>>
      BY <1>0, <3>1, <3>3 DEF MutexSound
    <3> QED
      BY <3>5, <3>6 DEF MutexSound
  <2> QED
    BY <2>4, <2>5
<1>3. ASSUME NEW t \in Threads, release_mutex(t)
      PROVE  MutexSound'
  <2> DEFINE l == pc[t]
             m == Releases[l][1]
             w == mutex[m].waiters
  <2>1. l \in DOMAIN Releases /\ irq = "none" /\ run = t
    BY <1>3 DEF release_mutex, At
  <2>2. /\ m \in Mutexes /\ l \in Section(m)
        /\ \A n \in Mutexes : Releases[l][2] \notin Section(n)
    BY <2>1, ReleaseLabels
  <2>3. cur = t
    <3>1. "exit_int" \notin DOMAIN Releases
      BY DEF Releases
    <3> QED
      BY <2>1, <3>1 DEF CpuSound
  <2>4. mutex[m].owner = t
    BY <2>2 DEF MutexSound
  <2>5. pc' = [pc EXCEPT ![t] = Releases[l][2]]
    BY <1>3 DEF release_mutex, Goto
  <2>6. PICK r : mutex' = [mutex EXCEPT ![m] = r] /\ (w = <<>> => r = FreeMutex)
    BY <1>3, <2>3, <2>4 DEF release_mutex
  <2>7. \A n \in Mutexes : n # m => mutex'[n] = mutex[n]
    BY <1>0, <2>2, <2>6, MutexWrite
  <2>8. mutex'[m] = r
    BY <1>0, <2>2, <2>6, MutexWrite
  <2>9. ASSUME NEW n \in Mutexes, NEW u \in Threads, pc'[u] \in Section(n)
        PROVE  mutex'[n].locked /\ mutex'[n].owner = u
    <3>1. u # t /\ pc[u] \in Section(n)
      BY <1>0, <2>2, <2>5, <2>9
    <3>2. mutex[n].locked /\ mutex[n].owner = u
      BY <3>1 DEF MutexSound
    <3>3. n # m
      BY <2>4, <3>1, <3>2
    <3> QED
      BY <2>7, <3>2, <3>3
  <2>10. mutex'["thread_mutex"].waiters = <<>>
    <3>1. mutex["thread_mutex"].waiters = <<>>
      BY <1>0 DEF MutexSound
    <3>2. CASE m = "thread_mutex"
      BY <2>6, <2>8, <3>1, <3>2 DEF FreeMutex
    <3>3. CASE m # "thread_mutex"
      BY <1>0, <2>7, <3>1, <3>3
    <3> QED
      BY <3>2, <3>3
  <2> QED
    BY <2>9, <2>10 DEF MutexSound
<1> QED
  BY <1>1, <1>2, <1>3, MutexFrame

-----------------------------------------------------------------------------
(* A thread that leaves.                                                    *)

\* A thread past its mark in thread_exit stays terminated and on the CPU until
\* the tick that reclaims it: release_mutex wakes nobody, no other thread
\* runs, the scheduler does not pick it, and clean_up does not miss it.
LEMMA LeavingSoundStep ==
  ASSUME TypeOK, TableSound, UnbornIdle, LeavingSound, CpuSound, MutexSound, Next
  PROVE  LeavingSound'
<1>0. /\ pc \in [Threads -> Labels] /\ tstate \in [Threads -> States]
      /\ mem \in [Threads -> {"unborn", "live", "freed"}] /\ fault = "none"
  BY Enabling DEF TypeOK
<1>1. \A u \in Threads : pc[u] \in LeavingLabels /\ mem[u] = "live"
                           => tstate[u] = "TERMED" /\ (irq = "none" => run = u)
  BY <1>0 DEF LeavingSound, LeavingLabels
<1>2. SUFFICES ASSUME NEW u \in Threads, pc'[u] \in LeavingLabels, mem'[u] = "live", fault' = "none"
               PROVE  tstate'[u] = "TERMED" /\ (irq' = "none" => run' = u)
  BY DEF LeavingSound, LeavingLabels
<1>3. mem[u] = "live" \/ mem[u] = "unborn"
  <2>1. CASE UNCHANGED mem
    BY <1>2, <2>1
  <2>2. ASSUME NEW t \in Threads, CreateBody(t)
        PROVE  mem[u] = "live" \/ mem[u] = "unborn"
    <3>1. next_tid \in Threads => mem[next_tid] = "unborn"
      BY ThreadsAssumption, MaxTidAssumption DEF TableSound
    <3> QED
      BY <1>0, <1>2, <2>2, <3>1, CreateCases
  <2>3. ASSUME NEW i \in Slots, CleanOne(i)
        PROVE  mem[u] = "live" \/ mem[u] = "unborn"
    BY <1>0, <1>2, <2>3 DEF CleanOne
  <2> QED
    BY <2>1, <2>2, <2>3, TableFrame
<1>4. CASE Tick
  <2>1. pc'[u] = pc[u]
    BY <1>0, <1>4, PcFrame
  <2>2. mem[u] = "live"
    BY <1>2, <1>3, <2>1 DEF UnbornIdle, LeavingLabels
  <2>3. tstate[u] = "TERMED"
    BY <1>1, <1>2, <2>1, <2>2
  <2>4. CASE TimerIrq
    <3>1. TickEnter
      BY <2>4 DEF TimerIrq
    <3> QED
      BY <1>2, <2>3, <3>1, TickEnterStates
  <2>5. CASE PickDispatch
    <3>1. Candidate \in Threads /\ tstate[Candidate] \in {"READY", "RUNNING"}
      BY <2>5, RunnableType DEF PickDispatch
    <3> QED
      BY <1>0, <2>3, <2>5, <3>1 DEF PickDispatch
  <2>6. CASE CleanDone
    <3>1. \E i \in Slots : table[i] = u
      BY <2>2 DEF TableSound
    <3>2. u # NULL
      BY NullAssumption
    <3> QED
      BY <2>3, <2>6, <3>1, <3>2 DEF CleanDone, Termed
  <2>7. CASE UNCHANGED <<tstate, cur, run, irq>>
    BY <1>1, <1>2, <2>1, <2>2, <2>7
  <2> QED
    BY <1>4, <2>4, <2>5, <2>6, <2>7 DEF Tick, PickZombie, PickBad, PickCooldown,
       CleanContended, CleanOne, threadVars, cpuVars
<1>5. ASSUME NEW t \in Threads, Call(t) \/ Step(t)
      PROVE  tstate'[u] = "TERMED" /\ (irq' = "none" => run' = u)
  <2>1. irq = "none" /\ run = t /\ mem[t] = "live"
    BY <1>5, Enabling DEF CpuSound
  <2>2. u = t
    <3> SUFFICES ASSUME u # t PROVE FALSE
      OBVIOUS
    <3>1. pc'[u] = pc[u]
      BY <1>0, <1>5, PcFrame
    <3>2. mem[u] = "live"
      BY <1>2, <1>3, <3>1 DEF UnbornIdle, LeavingLabels
    <3> QED
      BY <1>1, <1>2, <2>1, <3>1, <3>2
  <2>3. CASE ExitMark(t)
    BY <1>0, <2>1, <2>2, <2>3 DEF ExitMark, cpuVars
  <2>4. CASE ExitClear(t)
    <3>1. pc[t] \in LeavingLabels
      BY <2>4 DEF ExitClear, At, LeavingLabels
    <3> QED
      BY <1>1, <2>1, <2>2, <2>4, <3>1 DEF ExitClear, threadVars
  <2>5. CASE SpinSave(t)
    <3>1. UNCHANGED <<pc, tstate, run, irq>>
      BY <2>5 DEF SpinSave, threadVars, cpuVars
    <3> QED
      BY <1>1, <1>2, <2>1, <2>2, <3>1
  <2>6. CASE release_mutex(t)
    <3>1. pc[t] \in DOMAIN Releases /\ pc' = [pc EXCEPT ![t] = Releases[pc[t]][2]]
      BY <2>6 DEF release_mutex, Goto, At
    <3>2. pc[t] = "exit_unlock"
      BY <1>0, <1>2, <2>2, <3>1, LabelOrigins DEF LeavingLabels
    <3>3. Releases[pc[t]][1] = "thread_mutex" /\ mutex["thread_mutex"].waiters = <<>>
      BY <1>0, <3>2 DEF Releases, MutexSound
    <3>4. UNCHANGED tstate
      BY <2>6, <3>3 DEF release_mutex
    <3>5. UNCHANGED <<run, irq>>
      BY <2>6 DEF release_mutex, cpuVars
    <3> QED
      BY <1>1, <2>1, <2>2, <3>2, <3>4, <3>5 DEF LeavingLabels
  <2>7. CASE acquire_mutex(t)
    <3>1. /\ pc[t] \in DOMAIN Acquires
          /\ \/ pc' = [pc EXCEPT ![t] = Acquires[pc[t]][2]]
             \/ pc' = [pc EXCEPT ![t] = "block_lock"]
      BY <2>7 DEF acquire_mutex, Goto, At
    <3>2. pc'[t] \notin LeavingLabels
      BY <1>0, <3>1, LabelOrigins DEF LeavingLabels
    <3> QED
      BY <1>2, <2>2, <3>2
  <2>8. ASSUME ~ExitMark(t), ~ExitClear(t), ~SpinSave(t), ~release_mutex(t), ~acquire_mutex(t)
        PROVE  FALSE
    <3>1. pc'[t] \notin LeavingLabels
      BY <1>0, <1>2, <1>5, <2>8
         DEF Call, Step, CreateBody, CreateLink, ExitCall, PexitFound, PexitMark, TermBody,
         TermRemove, BlockRemove, RemoveFromQueue, BlockFind, UnblockFind, Find, BlockMark,
         Unreachable, UnblockCheck, UnblockMark, UnblockNext, UnblockLink, SoftIrq,
         At, Goto, LeavingLabels, codeVars
    <3> QED
      BY <1>2, <2>2, <3>1
  <2> QED
    BY <2>3, <2>4, <2>5, <2>6, <2>7, <2>8
<1> QED
  BY <1>4, <1>5 DEF Next

-----------------------------------------------------------------------------
(* The invariant, and what it implies.                                      *)

\* The table after boot holds the kernel thread and the booted ones, each in
\* the slot of its tid.
LEMMA TableInit == Init => TableSound
<1> SUFFICES ASSUME Init PROVE TableSound
  OBVIOUS
<1> DEFINE n == Len(Booted)
<1>0. n \in Nat /\ MAX_THREADS \in Nat \ {0} /\ MaxTid \in Nat
      /\ n < MAX_THREADS /\ n \leq MaxTid
  BY BootedLength, BootedAssumption, MaxThreadsAssumption, MaxTidAssumption
<1>1. /\ table = [i \in Slots |-> IF i \leq n THEN i ELSE NULL]
      /\ next_tid = n + 1
      /\ mem = [t \in Threads |-> IF t \in {0} \cup { Booted[i] : i \in DOMAIN Booted }
                                   THEN "live" ELSE "unborn"]
  BY DEF Init, BootState
<1>2. { Booted[i] : i \in DOMAIN Booted } = 1 .. n
  <2>1. DOMAIN Booted = 1 .. n
    BY BootedAssumption
  <2>2. \A i \in 1 .. n : Booted[i] = i
    BY BootedAssumption
  <2> QED
    BY <2>1, <2>2
<1>3. mem = [t \in Threads |-> IF t \leq n THEN "live" ELSE "unborn"]
  <2>1. \A t \in Threads : t \in {0} \cup 1 .. n <=> t \leq n
    BY <1>0, ThreadsAssumption
  <2> QED
    BY <1>1, <1>2, <2>1
<1> HIDE DEF n
<1>4. \A i \in Slots : table[i] # NULL => i \leq n /\ table[i] = i
  BY <1>1
<1>5. \A i \in Slots : i \leq n => i \in Threads
  BY <1>0, ThreadsAssumption DEF Slots
<1>6. \A t \in Threads : t \leq n => t \in Slots
  BY <1>0, ThreadsAssumption DEF Slots
<1>7. table[0] = 0 /\ next_tid # 0
  BY <1>0, <1>1 DEF Slots
<1>8. \A i \in Slots : table[i] # NULL => mem[table[i]] = "live" /\ table[i] < next_tid
  <2> SUFFICES ASSUME NEW i \in Slots, table[i] # NULL
               PROVE  mem[table[i]] = "live" /\ table[i] < next_tid
    OBVIOUS
  <2>1. i \in Nat /\ i \leq n /\ table[i] = i /\ i \in Threads
    BY <1>0, <1>4, <1>5 DEF Slots
  <2> QED
    BY <1>0, <1>1, <1>3, <2>1
<1>9. \A t \in Threads : mem[t] = "live" => \E i \in Slots : table[i] = t
  BY <1>1, <1>3, <1>6
<1>10. \A t \in Threads : t >= next_tid => mem[t] = "unborn"
  BY <1>0, <1>1, <1>3, ThreadsAssumption
<1> QED
  BY <1>4, <1>7, <1>8, <1>9, <1>10 DEF TableSound

\* The invariant holds after boot.
LEMMA InvInit == Init => IInv
<1> SUFFICES ASSUME Init PROVE IInv
  OBVIOUS
<1>1. TypeOK
  BY TypeInit
<1>2. TableSound
  BY TableInit
<1>3. 0 \in Threads
  BY ThreadsAssumption, MaxTidAssumption
<1>4. OneRunning
  BY DEF Init, BootState, OneRunning
<1>5. UnbornIdle /\ KernelThreadStays /\ LeavingSound
  BY <1>3 DEF Init, BootState, UnbornIdle, KernelThreadStays, LeavingSound
<1>6. CpuSound
  BY <1>3 DEF Init, BootState, CpuSound
<1>7. MutexSound
  <2>1. \A m \in Mutexes : "user" \notin Section(m)
    BY DEF Mutexes, Section
  <2> QED
    BY <2>1 DEF Init, BootState, MutexSound, FreeMutex, Mutexes
<1> QED
  BY <1>1, <1>2, <1>4, <1>5, <1>6, <1>7 DEF IInv

\* Every step preserves the invariant.
LEMMA InvStep == IInv /\ [Next]_vars => IInv'
<1>1. ASSUME IInv, Next PROVE IInv'
  <2>1. TypeOK'
    BY <1>1, TypeStep DEF IInv
  <2>2. OneRunning'
    BY <1>1, OneRunningStep DEF IInv
  <2>3. TableSound' /\ UnbornIdle'
    BY <1>1, TableSoundStep, UnbornIdleStep DEF IInv
  <2>4. KernelThreadStays'
    BY <1>1, KernelThreadStaysStep DEF IInv
  <2>5. LeavingSound'
    BY <1>1, LeavingSoundStep DEF IInv
  <2>6. CpuSound' /\ MutexSound'
    BY <1>1, CpuSoundStep, MutexSoundStep DEF IInv
  <2> QED
    BY <2>1, <2>2, <2>3, <2>4, <2>5, <2>6 DEF IInv
<1>2. ASSUME IInv, UNCHANGED vars PROVE IInv'
  BY <1>2 DEF IInv, TypeOK, OneRunning, TableSound, UnbornIdle, KernelThreadStays,
     LeavingSound, CpuSound, MutexSound, vars, threadVars, kernelVars, lockVars,
     cpuVars, codeVars
<1> QED
  BY <1>1, <1>2

\* IInv is an invariant of the scheduler.
THEOREM Invariance == Spec => []IInv
BY InvInit, InvStep, PTL DEF Spec

\* At most one thread is marked THREAD_RUNNING, and it is
\* kernel->current_thread.
THEOREM OneRunningHolds == Spec => []OneRunning
<1>1. IInv => OneRunning
  BY DEF IInv
<1> QED
  BY <1>1, Invariance, PTL

\* Whatever the threads do, scheduler_tick finds a thread to run: the kernel
\* thread survives in slot 0.
THEOREM SchedulerAlwaysFindsThread == Spec => []SchedulerFindsThread
<1>1. IInv => SchedulerFindsThread
  <2> SUFFICES ASSUME IInv PROVE SchedulerFindsThread
    OBVIOUS
  <2>1. 0 \in Threads /\ 0 \in Slots /\ 0 # NULL
    BY ThreadsAssumption, MaxTidAssumption, MaxThreadsAssumption, NullAssumption DEF Slots
  <2>2. table[0] = 0 /\ tstate[0] # "TERMED" /\ mem[0] = "live"
    BY <2>1 DEF IInv, TableSound, KernelThreadStays
  <2>3. Candidate # NULL
    BY <2>1, <2>2, CandidateType DEF IInv
  <2> QED
    BY <2>2, <2>3 DEF SchedulerFindsThread
<1> QED
  BY <1>1, Invariance, PTL

\* No two threads are inside sections of the same mutex.
THEOREM MutualExclusionHolds == Spec => []MutualExclusion
<1>1. IInv => MutualExclusion
  BY DEF IInv, MutexSound, MutualExclusion
<1> QED
  BY <1>1, Invariance, PTL

\* The CPU never executes the code of a thread that was reclaimed.
THEOREM CpuRunsLiveThreadHolds == Spec => []CpuRunsLiveThread
<1>1. IInv => CpuRunsLiveThread
  <2> SUFFICES ASSUME IInv, irq # "pick"
               PROVE  mem[run] = "live" /\ \E i \in Slots : table[i] = run
    BY DEF CpuRunsLiveThread
  <2>1. mem[run] = "live" /\ run \in Threads
    BY DEF IInv, CpuSound, TypeOK
  <2> QED
    BY <2>1 DEF IInv, TableSound
<1> QED
  BY <1>1, Invariance, PTL
=============================================================================
