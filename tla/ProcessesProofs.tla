--------------------------- MODULE ProcessesProofs --------------------------
(***************************************************************************)
(* The process table never names a freed process, and process_wait returns  *)
(* what a process_exit stored, whatever the threads that create, exit, wait *)
(* for and clean up processes do in between.                                *)
(***************************************************************************)
EXTENDS Processes, TLAPS

\* The initial state, which holds the kernel process only.
LEMMA ProcessStart ==
  ASSUME ProcessConstants, ProcessInit
  PROVE  ProcessInv
<1>1. 0 \in Slots
  BY DEF ProcessConstants, Slots
<1>2. New(0, 0, "PROC_RUNNING") \in ProcessRecords /\ New(0, 0, "PROC_RUNNING") # NULL
  BY DEF New, ProcessRecords, ProcessConstants
<1>3. ProcessTypes
  BY <1>2 DEF ProcessInit, ProcessTypes
<1>4. TableSound
  BY <1>1, <1>2 DEF ProcessInit, TableSound, ProcessConstants, New
<1>5. ExitedSound
  BY <1>2 DEF ProcessInit, ExitedSound, Collectable, New
<1>6. LocalSound /\ ResultsSound
  BY DEF ProcessInit, LocalSound, LocalAt, ResultsSound, CollectLabels
<1> QED
  BY <1>3, <1>4, <1>5, <1>6 DEF ProcessInv

\* A step that leaves the table, the processes and the histories alone.
LEMMA LocalStep ==
  ASSUME ProcessInv, NEW t \in Threads, UNCHANGED tables,
         NEW l, NEW r,
         \/ UNCHANGED <<pc, local>>
         \/ LocalAt(l, r) /\ pc' = [pc EXCEPT ![t] = l] /\ local' = [local EXCEPT ![t] = r]
  PROVE  ProcessInv'
<1> USE DEF tables
<1>1. ProcessTypes'
  BY DEF ProcessInv, ProcessTypes
<1>2. TableSound' /\ ExitedSound' /\ ResultsSound'
  BY DEF ProcessInv, TableSound, ExitedSound, Collectable, ResultsSound
<1>3. \A u \in Threads : LocalAt(pc'[u], local'[u])
  BY DEF ProcessInv, ProcessTypes, LocalSound
<1>4. LocalSound'
  BY <1>3 DEF LocalSound, LocalAt
<1> QED
  BY <1>1, <1>2, <1>4 DEF ProcessInv

\* The slot that process_from_pid or process_wait finds is the first one, and
\* it holds the kernel process.
LEMMA FoundSlots ==
  ASSUME ProcessConstants, ProcessInv, NEW S \in SUBSET Slots, \A s \in S : process_table[s] # NULL,
         S # {}
  PROVE  First(S) = 0 /\ process_table[0] = Kernel
<1>1. S = {0} /\ process_table[0] = Kernel
  BY DEF ProcessInv, ProcessTypes, TableSound
<1>2. First({0}) = 0
  BY DEF First
<1> QED
  BY <1>1, <1>2

\* No pid is found but the kernel's.
LEMMA FoundKernel ==
  ASSUME ProcessConstants, ProcessInv, NEW pid
  PROVE  Found(pid) \in {Kernel, NULL} /\ (Found(pid) # NULL => pid = 0 /\ Found(pid) = Kernel)
<1> DEFINE slots == { s \in Slots : process_table[s] # NULL /\ process[process_table[s]].pid = pid }
<1>1. CASE slots = {}
  BY <1>1 DEF Found
<1>2. CASE slots # {}
  <2>1. First(slots) = 0 /\ process_table[0] = Kernel
    BY <1>2, FoundSlots
  <2>2. Found(pid) = Kernel
    BY <1>2, <2>1 DEF Found
  <2>3. process[Kernel].pid = pid
    BY <1>2, <2>1 DEF ProcessInv, ProcessTypes, TableSound
  <2> QED
    BY <2>1, <2>2, <2>3 DEF ProcessInv, TableSound
<1> QED
  BY <1>1, <1>2

\* The steps that only move a thread along.
LEMMA MoveStep ==
  ASSUME ProcessConstants, ProcessInv, NEW t \in Threads,
         \/ process_create(t) \/ CreateFails(t) \/ CreateThread(t) \/ CreateUndo(t)
         \/ process_exit(t) \/ ExitFind(t) \/ ExitLock(t) \/ ExitWake(t) \/ ExitThread(t)
         \/ process_terminate(t) \/ Terminate(t) \/ process_wait(t) \/ WaitLock(t)
         \/ CleanupLock(t) \/ UseFreed(t)
  PROVE  ProcessInv'
<1>0. LocalAt(pc[t], local[t]) /\ local = [u \in Threads |-> local[u]]
  BY DEF ProcessInv, LocalSound, ProcessTypes
<1>00. local = [local EXCEPT ![t] = local[t]]
  BY <1>0
<1>1. CASE CreateFails(t) \/ ExitThread(t) \/ Terminate(t)
  <2>1. /\ UNCHANGED tables /\ local' = [local EXCEPT ![t] = NULL]
        /\ pc' = [pc EXCEPT ![t] = "idle"] \/ pc' = [pc EXCEPT ![t] = "gone"]
    BY <1>1 DEF CreateFails, ExitThread, Terminate, Release
  <2>2. LocalAt("idle", NULL) /\ LocalAt("gone", NULL)
    BY DEF LocalAt, CollectLabels
  <2> QED
    BY <2>1, <2>2, LocalStep
<1>2. CASE CreateThread(t)
  <2>1. /\ UNCHANGED tables
        /\ \/ UNCHANGED <<pc, local>>
           \/ pc' = [pc EXCEPT ![t] = "idle"] /\ local' = [local EXCEPT ![t] = NULL]
    BY <1>2 DEF CreateThread
  <2>2. LocalAt("idle", NULL)
    BY DEF LocalAt, CollectLabels
  <2> QED
    BY <2>1, <2>2, LocalStep
<1>3. CASE CreateUndo(t)
  <2>1. /\ UNCHANGED tables /\ pc[t] = "create_thread" /\ UNCHANGED local
        /\ UNCHANGED pc \/ pc' = [pc EXCEPT ![t] = "create_undo"]
    BY <1>3 DEF CreateUndo, Acquire, At
  <2>2. LocalAt("create_undo", local[t])
    BY <1>0, <2>1 DEF LocalAt, CollectLabels
  <2> QED
    BY <1>00, <2>1, <2>2, LocalStep
<1>4. ASSUME NEW l, NEW args, Enter(t, l, args), LocalAt(l, args), LocalAt("idle", args)
      PROVE  ProcessInv'
  <2>1. /\ UNCHANGED tables /\ pc[t] = "idle" /\ local' = [local EXCEPT ![t] = args]
        /\ UNCHANGED pc \/ pc' = [pc EXCEPT ![t] = l]
    BY <1>4 DEF Enter, Acquire, At
  <2>2. UNCHANGED pc => pc' = [pc EXCEPT ![t] = "idle"]
    BY <2>1 DEF ProcessInv, ProcessTypes
  <2> QED
    BY <1>4, <2>1, <2>2, LocalStep
<1>5. CASE process_create(t) \/ process_terminate(t)
  <2>1. LocalAt("create", NULL) /\ LocalAt("terminate", NULL) /\ LocalAt("idle", NULL)
    BY DEF LocalAt, CollectLabels
  <2> QED
    BY <1>4, <1>5, <2>1 DEF process_create, process_terminate
<1>6. CASE process_exit(t)
  <2>1. PICK code \in Codes : Enter(t, "exit_find", [code |-> code])
    BY <1>6 DEF process_exit
  <2>2. LocalAt("exit_find", [code |-> code]) /\ LocalAt("idle", [code |-> code])
    BY DEF LocalAt, CollectLabels
  <2> QED
    BY <1>4, <2>1, <2>2
<1>7. CASE process_wait(t)
  <2>1. PICK pid \in {-1, 0, 1} : Enter(t, "wait_find", [pid |-> pid])
    BY <1>7 DEF process_wait
  <2>2. LocalAt("wait_find", [pid |-> pid]) /\ LocalAt("idle", [pid |-> pid])
    BY DEF LocalAt, CollectLabels
  <2> QED
    BY <1>4, <2>1, <2>2
<1>8. CASE ExitFind(t)
  <2> DEFINE r == [code |-> local[t].code, p |-> Found(Owner[t])]
  <2>1. /\ UNCHANGED tables /\ pc[t] = "exit_find"
        /\ local' = [local EXCEPT ![t] = r] /\ pc' = [pc EXCEPT ![t] = "exit_lock"]
    BY <1>8 DEF ExitFind, Release, At
  <2>2. Found(Owner[t]) \in {Kernel, NULL}
    BY FoundKernel
  <2>3. LocalAt("exit_lock", r)
    BY <1>0, <2>1, <2>2 DEF LocalAt, CollectLabels
  <2> QED
    BY <2>1, <2>3, LocalStep
<1>9. CASE ExitLock(t)
  <2>1. /\ UNCHANGED tables /\ pc[t] = "exit_lock" /\ UNCHANGED local
        /\ \/ UNCHANGED pc
           \/ local[t].p # NULL /\ pc' = [pc EXCEPT ![t] = "exit_store"]
    BY <1>9 DEF ExitLock, Acquire, At
  <2>2. local[t].p # NULL => LocalAt("exit_store", local[t])
    BY <1>0, <2>1 DEF LocalAt, CollectLabels
  <2> QED
    BY <1>00, <2>1, <2>2, LocalStep
<1>10. CASE ExitWake(t)
  <2>1. /\ UNCHANGED tables /\ UNCHANGED local
        /\ UNCHANGED pc \/ pc' = [pc EXCEPT ![t] = "exit_gone"]
    BY <1>10 DEF ExitWake, Acquire
  <2>2. LocalAt("exit_gone", local[t])
    BY DEF LocalAt, CollectLabels
  <2> QED
    BY <1>00, <2>1, <2>2, LocalStep
<1>11. CASE WaitLock(t)
  <2>1. /\ UNCHANGED tables /\ pc[t] = "wait_lock" /\ UNCHANGED local
        /\ UNCHANGED pc \/ pc' = [pc EXCEPT ![t] = "wait_check"]
    BY <1>11 DEF WaitLock, Acquire, At
  <2>2. LocalAt("wait_check", local[t])
    BY <1>0, <2>1 DEF LocalAt, CollectLabels
  <2> QED
    BY <1>00, <2>1, <2>2, LocalStep
<1>12. CASE CleanupLock(t)
  <2>1. /\ UNCHANGED tables /\ pc[t] = "cleanup_lock" /\ UNCHANGED local
        /\ UNCHANGED pc \/ pc' = [pc EXCEPT ![t] = "cleanup"]
    BY <1>12 DEF CleanupLock, Acquire, At
  <2>2. LocalAt("cleanup", local[t])
    BY <1>0, <2>1 DEF LocalAt, CollectLabels
  <2> QED
    BY <1>00, <2>1, <2>2, LocalStep
<1>13. CASE UseFreed(t)
  BY <1>13, LocalStep DEF UseFreed, tables
<1> QED
  BY <1>1, <1>2, <1>3, <1>5, <1>6, <1>7, <1>8, <1>9, <1>10, <1>11, <1>12, <1>13

\* process_create: a free slot, and an object that is not the kernel process
\* while the table names it.
LEMMA CreateObjectStep ==
  ASSUME ProcessConstants, ProcessInv, NEW t \in Threads, CreateObject(t)
  PROVE  ProcessInv'
<1>1. PICK p \in Objects :
        /\ process[p] = NULL
        /\ process' = [process EXCEPT ![p] = New(next_pid, Owner[t], "PROC_READY")]
        /\ Release(t, TableLock, "create_thread", [p |-> p, slot |-> First(FreeSlots)])
  BY DEF CreateObject
<1> DEFINE r == [p |-> p, slot |-> First(FreeSlots)]
<1>2. /\ local' = [local EXCEPT ![t] = r] /\ pc' = [pc EXCEPT ![t] = "create_thread"]
      /\ UNCHANGED <<process_table, exits, results>> /\ next_pid' = next_pid + 1
  BY <1>1 DEF CreateObject, Release
<1>3. First(FreeSlots) \in FreeSlots
  <2>1. FreeSlots \in SUBSET Slots /\ 1 \in FreeSlots /\ \A s \in Slots : s \in Nat /\ (s # 0 => 1 \leq s)
    BY DEF FreeSlots, ProcessInv, TableSound, ProcessConstants, Slots
  <2>2. CASE 0 \in FreeSlots
    <3>1. \A s \in FreeSlots : 0 \leq s
      BY <2>1
    <3> QED
      BY <2>2, <3>1 DEF First
  <2>3. CASE 0 \notin FreeSlots
    <3>1. \A s \in FreeSlots : 1 \leq s
      BY <2>1, <2>3
    <3> QED
      BY <2>1, <3>1 DEF First
  <2> QED
    BY <2>2, <2>3
<1>4. New(next_pid, Owner[t], "PROC_READY") \in ProcessRecords
  BY DEF New, ProcessRecords, ProcessConstants, ProcessInv, ProcessTypes
<1>5. process_table[0] = Kernel => p # Kernel /\ First(FreeSlots) # 0
  BY <1>1, <1>3 DEF ProcessInv, TableSound, FreeSlots, ProcessConstants
<1>6. ProcessTypes'
  <2>1. process' \in [Objects -> ProcessRecords \cup {NULL}]
    BY <1>1, <1>4 DEF ProcessInv, ProcessTypes
  <2>2. process_table' \in [Slots -> {Kernel, NULL}] /\ results' = [u \in Threads |-> results'[u]] /\ next_pid' \in Nat
    BY <1>2 DEF ProcessInv, ProcessTypes
  <2>3. pc' = [u \in Threads |-> pc'[u]]
    BY <1>2 DEF ProcessInv, ProcessTypes
  <2>4. local' = [u \in Threads |-> local'[u]]
    <3> HIDE DEF r
    <3> QED
      BY <1>2 DEF ProcessInv, ProcessTypes
  <2> QED
    BY <2>1, <2>2, <2>3, <2>4 DEF ProcessTypes
<1>7. TableSound'
  BY <1>1, <1>2, <1>5 DEF ProcessInv, ProcessTypes, TableSound, ProcessConstants
<1>8. ExitedSound'
  BY <1>1, <1>2 DEF ProcessInv, ProcessTypes, ExitedSound, Collectable, New
<1>9. LocalAt("create_thread", r)
  BY <1>3, <1>5 DEF LocalAt, CollectLabels, FreeSlots
<1>10. LocalSound'
  BY <1>2, <1>9 DEF ProcessInv, ProcessTypes, LocalSound, LocalAt
<1>11. ResultsSound'
  BY <1>2 DEF ProcessInv, ResultsSound
<1> QED
  BY <1>6, <1>7, <1>8, <1>10, <1>11 DEF ProcessInv

\* process_create gives its slot and its object back: neither is the kernel
\* process' while the table names it.
LEMMA CreateFreeStep ==
  ASSUME ProcessConstants, ProcessInv, NEW t \in Threads, CreateFree(t)
  PROVE  ProcessInv'
<1> DEFINE p == local[t].p
           s == local[t].slot
<1>1. /\ process_table' = [process_table EXCEPT ![s] = NULL] /\ process' = [process EXCEPT ![p] = NULL]
      /\ local' = [local EXCEPT ![t] = NULL] /\ pc' = [pc EXCEPT ![t] = "idle"]
      /\ UNCHANGED <<next_pid, exits, results>> /\ pc[t] = "create_undo"
  BY DEF CreateFree, Release, At
<1>2. /\ p \in Objects /\ s \in Slots
      /\ process_table[0] = Kernel => s # 0 /\ p # Kernel
  BY <1>1 DEF ProcessInv, LocalSound, LocalAt
<1> HIDE DEF p, s
<1>3. process_table'[0] = process_table[0]
  BY <1>1, <1>2 DEF ProcessInv, ProcessTypes, ProcessConstants
<1>4. ProcessTypes'
  BY <1>1, <1>2 DEF ProcessInv, ProcessTypes
<1>5. TableSound'
  BY <1>1, <1>2, <1>3 DEF ProcessInv, ProcessTypes, TableSound
<1>6. ExitedSound'
  BY <1>1, <1>2 DEF ProcessInv, ProcessTypes, ExitedSound, Collectable
<1>7. LocalAt("idle", NULL)
  BY DEF LocalAt, CollectLabels
<1>8. LocalSound'
  BY <1>1, <1>3, <1>7 DEF ProcessInv, ProcessTypes, LocalSound, LocalAt
<1>9. ResultsSound'
  BY <1>1 DEF ProcessInv, ResultsSound
<1> QED
  BY <1>4, <1>5, <1>6, <1>8, <1>9 DEF ProcessInv

\* process_exit stores the code and makes its process a zombie.
LEMMA ExitStoreStep ==
  ASSUME ProcessConstants, ProcessInv, NEW t \in Threads, ExitStore(t)
  PROVE  ProcessInv'
<1> DEFINE c == local[t].code
<1>1. pc[t] = "exit_store" /\ local[t].p = Kernel /\ c \in Codes
  BY DEF ExitStore, At, ProcessInv, LocalSound, LocalAt
<1>2. /\ process' = [process EXCEPT ![Kernel].exit_code = c, ![Kernel].state = "PROC_ZOMBIE"]
      /\ exits' = exits \cup {c} /\ UNCHANGED <<process_table, next_pid, results>>
      /\ local' = [local EXCEPT ![t] = local[t]] /\ pc' = [pc EXCEPT ![t] = "exit_wake"]
      /\ process[Kernel] # NULL
  BY <1>1 DEF ExitStore, Release, At, Touched, ProcessConstants
<1> HIDE DEF c
<1>3. process \in [Objects -> ProcessRecords \cup {NULL}] /\ Kernel \in Objects
  BY DEF ProcessInv, ProcessTypes, ProcessConstants
<1>4. process[Kernel] \in ProcessRecords
  BY <1>2, <1>3
<1>5. [process[Kernel] EXCEPT !.exit_code = c, !.state = "PROC_ZOMBIE"] \in ProcessRecords
  BY <1>1, <1>4 DEF ProcessRecords
<1>6. /\ process'[Kernel] = [process[Kernel] EXCEPT !.exit_code = c, !.state = "PROC_ZOMBIE"]
      /\ \A q \in Objects : q # Kernel => process'[q] = process[q]
      /\ process' \in [Objects -> ProcessRecords \cup {NULL}]
  BY <1>2, <1>3, <1>5
<1>7. process'[Kernel] # NULL /\ process'[Kernel].exit_code = c /\ process'[Kernel].pid = process[Kernel].pid
  BY <1>4, <1>5, <1>6 DEF ProcessRecords, ProcessConstants
<1>8. ProcessTypes'
  BY <1>2, <1>6 DEF ProcessInv, ProcessTypes
<1>9. TableSound'
  BY <1>2, <1>7 DEF ProcessInv, TableSound
<1>10. ExitedSound'
  BY <1>2, <1>6, <1>7 DEF ProcessInv, ExitedSound, Collectable
<1>11. LocalSound'
  BY <1>2 DEF ProcessInv, ProcessTypes, LocalSound, LocalAt, CollectLabels
<1>12. ResultsSound'
  BY <1>2 DEF ProcessInv, ResultsSound
<1> QED
  BY <1>8, <1>9, <1>10, <1>11, <1>12 DEF ProcessInv

\* process_wait finds a child, which is the kernel process, or none.
LEMMA WaitFindStep ==
  ASSUME ProcessConstants, ProcessInv, NEW t \in Threads, WaitFind(t)
  PROVE  ProcessInv'
<1> DEFINE pid == local[t].pid
           slots == Children(t, pid)
           r == [pid |-> pid, index |-> First(slots), child |-> process_table[First(slots)]]
<1>1. CASE slots = {}
  <2>1. /\ UNCHANGED <<process_table, process, next_pid, exits>>
        /\ results' = [results EXCEPT ![t] = -ECHILD]
        /\ local' = [local EXCEPT ![t] = NULL] /\ pc' = [pc EXCEPT ![t] = "idle"]
    BY <1>1 DEF WaitFind, Release
  <2>2. ProcessTypes' /\ ResultsSound'
    BY <2>1 DEF ProcessInv, ProcessTypes, ResultsSound
  <2>3. TableSound' /\ ExitedSound'
    BY <2>1 DEF ProcessInv, TableSound, ExitedSound, Collectable
  <2>4. LocalSound'
    BY <2>1 DEF ProcessInv, ProcessTypes, LocalSound, LocalAt, CollectLabels
  <2> QED
    BY <2>2, <2>3, <2>4 DEF ProcessInv
<1>2. CASE slots # {}
  <2>1. /\ UNCHANGED tables
        /\ local' = [local EXCEPT ![t] = r] /\ pc' = [pc EXCEPT ![t] = "wait_lock"]
    BY <1>2 DEF WaitFind, Release, tables
  <2>2. slots \in SUBSET Slots /\ \A s \in slots : process_table[s] # NULL
    BY DEF Children
  <2>3. First(slots) = 0 /\ process_table[0] = Kernel
    BY <1>2, <2>2, FoundSlots
  <2>4. LocalAt("wait_lock", r)
    BY <2>3 DEF LocalAt, CollectLabels
  <2> QED
    BY <2>1, <2>4, LocalStep
<1> QED
  BY <1>1, <1>2

\* process_wait marks a child that exited.
LEMMA WaitCheckStep ==
  ASSUME ProcessConstants, ProcessInv, NEW t \in Threads, WaitCheck(t)
  PROVE  ProcessInv'
<1>1. pc[t] = "wait_check" /\ local[t].child = Kernel /\ local[t].index = 0
  BY DEF WaitCheck, At, ProcessInv, LocalSound, LocalAt
<1>2. CASE ~Collectable(Kernel)
  <2>1. UNCHANGED tables /\ UNCHANGED <<pc, local>>
    BY <1>1, <1>2 DEF WaitCheck, tables
  <2> QED
    BY <2>1, LocalStep
<1>3. CASE Collectable(Kernel)
  <2> DEFINE r == [pid |-> local[t].pid, index |-> local[t].index, child |-> Kernel,
                   code |-> process[Kernel].exit_code]
  <2>1. /\ process' = [process EXCEPT ![Kernel].state = "PROC_EXITED"]
        /\ local' = [local EXCEPT ![t] = r] /\ pc' = [pc EXCEPT ![t] = "cleanup_lock"]
        /\ UNCHANGED <<process_table, next_pid, exits, results>>
        /\ process[Kernel] # NULL
    BY <1>1, <1>3 DEF WaitCheck, Release, At, Touched, ProcessConstants
  <2>2. process \in [Objects -> ProcessRecords \cup {NULL}] /\ Kernel \in Objects
    BY DEF ProcessInv, ProcessTypes, ProcessConstants
  <2>3. process[Kernel] \in ProcessRecords
    BY <2>1, <2>2
  <2>4. [process[Kernel] EXCEPT !.state = "PROC_EXITED"] \in ProcessRecords
    BY <2>3 DEF ProcessRecords
  <2>5. /\ process'[Kernel] = [process[Kernel] EXCEPT !.state = "PROC_EXITED"]
        /\ \A q \in Objects : q # Kernel => process'[q] = process[q]
        /\ process' \in [Objects -> ProcessRecords \cup {NULL}]
    BY <2>1, <2>2, <2>4
  <2>6. /\ process'[Kernel] # NULL /\ process'[Kernel].exit_code = process[Kernel].exit_code
        /\ process'[Kernel].pid = process[Kernel].pid
    BY <2>3, <2>4, <2>5 DEF ProcessRecords, ProcessConstants
  <2>7. process[Kernel].exit_code \in exits
    BY <1>3, <2>1, <2>2 DEF ProcessInv, ExitedSound
  <2>8. ProcessTypes' /\ ResultsSound'
    BY <2>1, <2>5 DEF ProcessInv, ProcessTypes, ResultsSound
  <2>9. TableSound'
    BY <2>1, <2>6 DEF ProcessInv, TableSound
  <2>10. ExitedSound'
    BY <2>1, <2>5, <2>6, <2>7 DEF ProcessInv, ExitedSound, Collectable
  <2>11. LocalAt("cleanup_lock", r)
    BY <1>1, <2>7 DEF LocalAt, CollectLabels
  <2>12. LocalSound'
    BY <2>1, <2>11 DEF ProcessInv, ProcessTypes, LocalSound, LocalAt
  <2> QED
    BY <2>8, <2>9, <2>10, <2>12 DEF ProcessInv
<1> QED
  BY <1>2, <1>3

\* process_cleanup empties the slot first and frees the process afterwards.
LEMMA CleanupStep ==
  ASSUME ProcessConstants, ProcessInv, NEW t \in Threads, Cleanup(t) \/ CleanupFree(t)
  PROVE  ProcessInv'
<1>0. pc[t] \in CollectLabels /\ local[t].child = Kernel /\ local[t].index = 0 /\ local[t].code \in exits
  BY DEF Cleanup, CleanupFree, At, ProcessInv, LocalSound, LocalAt, CollectLabels
<1>1. CASE Cleanup(t)
  <2>1. /\ process_table' = [s \in Slots |-> IF s \in Emptied(t) THEN NULL ELSE process_table[s]]
        /\ local' = [local EXCEPT ![t] = local[t]] /\ pc' = [pc EXCEPT ![t] = "cleanup_free"]
        /\ UNCHANGED <<process, next_pid, exits, results>>
    BY <1>1 DEF Cleanup, Release
  <2>2. process_table'[0] = NULL /\ 0 \in Slots /\ Kernel # NULL
    BY <1>0, <2>1 DEF Emptied, ProcessInv, ProcessTypes, ProcessConstants, Slots
  <2>3. ProcessTypes' /\ ResultsSound'
    BY <2>1 DEF ProcessInv, ProcessTypes, ResultsSound
  <2>4. TableSound'
    BY <1>0, <2>1, <2>2 DEF ProcessInv, ProcessTypes, TableSound
  <2>5. ExitedSound'
    BY <2>1 DEF ProcessInv, ExitedSound, Collectable
  <2>6. LocalSound'
    BY <1>0, <2>1, <2>2 DEF ProcessInv, ProcessTypes, LocalSound, LocalAt, CollectLabels
  <2> QED
    BY <2>3, <2>4, <2>5, <2>6 DEF ProcessInv
<1>2. CASE CleanupFree(t)
  <2>1. /\ process' = [process EXCEPT ![Kernel] = NULL] /\ results' = [results EXCEPT ![t] = local[t].code]
        /\ local' = [local EXCEPT ![t] = NULL] /\ pc' = [pc EXCEPT ![t] = "idle"]
        /\ UNCHANGED <<process_table, next_pid, exits>> /\ pc[t] = "cleanup_free"
    BY <1>0, <1>2 DEF CleanupFree, At
  <2>2. process_table[0] = NULL /\ Kernel # NULL
    BY <2>1 DEF ProcessInv, LocalSound, LocalAt, ProcessConstants
  <2>3. ProcessTypes'
    BY <2>1 DEF ProcessInv, ProcessTypes, ProcessConstants
  <2>4. ResultsSound'
    BY <1>0, <2>1 DEF ProcessInv, ProcessTypes, ResultsSound
  <2>5. TableSound'
    BY <2>1, <2>2 DEF ProcessInv, TableSound
  <2>6. ExitedSound'
    BY <2>1 DEF ProcessInv, ProcessTypes, ExitedSound, Collectable, ProcessConstants
  <2>7. LocalSound'
    BY <2>1 DEF ProcessInv, ProcessTypes, LocalSound, LocalAt, CollectLabels
  <2> QED
    BY <2>3, <2>4, <2>5, <2>6, <2>7 DEF ProcessInv
<1> QED
  BY <1>1, <1>2

\* ProcessInv is inductive.
LEMMA ProcessStep ==
  ASSUME ProcessConstants, ProcessInv, [ProcessNext]_processVars
  PROVE  ProcessInv'
<1>1. CASE UNCHANGED processVars
  BY <1>1 DEF processVars, ProcessInv, ProcessTypes, TableSound, ExitedSound, Collectable,
     LocalSound, LocalAt, ResultsSound
<1>2. CASE ProcessNext
  BY <1>2, MoveStep, CreateObjectStep, CreateFreeStep, ExitStoreStep, WaitFindStep, WaitCheckStep,
     CleanupStep DEF ProcessNext
<1> QED
  BY <1>1, <1>2

\* A process is freed only after it has left the table, the kernel process goes
\* only after some process_exit, and process_wait delivers a code that a
\* process_exit stored; for any number of slots, objects and threads.
THEOREM CollectedExitedHolds == ProcessSpec => []CollectedExited
<1> USE ProcessAssumption
<1>1. ProcessInit => ProcessInv
  BY ProcessStart
<1>2. ProcessInv /\ [ProcessNext]_processVars => ProcessInv'
  BY ProcessStep
<1>3. ProcessInv => CollectedExited
  <2> SUFFICES ASSUME ProcessInv PROVE CollectedExited
    OBVIOUS
  <2>1. \A s \in Slots : process_table[s] # NULL => process[process_table[s]] # NULL
    BY DEF ProcessInv, ProcessTypes, TableSound
  <2>2. \A pid \in 1 .. MaxPid : Found(pid) = NULL
    BY FoundKernel DEF ProcessConstants
  <2> QED
    BY <2>1, <2>2 DEF CollectedExited, ProcessInv, TableSound, ResultsSound
<1> QED
  BY <1>1, <1>2, <1>3, PTL DEF ProcessSpec
=============================================================================
