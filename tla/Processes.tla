----------------------------- MODULE Processes ------------------------------
(***************************************************************************)
(* The process table of process.c: process_create, process_exit,           *)
(* process_terminate and process_wait, called by threads that may be        *)
(* preempted anywhere.  Module Scheduler shows what a wait comes to: a      *)
(* thread that finds a mutex taken, or blocks in process_wait, stops the    *)
(* kernel at the next tick.  Here it is the fault "wait", and so is what    *)
(* else ends the kernel: hcf and the use of a process that was freed.       *)
(***************************************************************************)
EXTENDS Integers, Null

CONSTANTS
  Threads,    \* the calling threads,
  Owner,      \* and the o_pid of each
  Objects,    \* bound: the process_t the heap has room for
  Kernel,     \* the one of the kernel process
  MAX_PROCS,
  MaxPid,     \* bound: the pids given out
  Codes       \* bound: the exit codes

VARIABLES
  process_table, \* slot -> process or NULL
  process,       \* the process_t of each object, or NULL while free
  next_pid,
  holder,        \* who holds process_table_lock and each process' lock, or NULL
  pc, local,     \* where each thread is, and the locals of its call
  exits,         \* history: the codes stored by process_exit
  results,       \* history: the last result of process_wait of each thread
  fault          \* NULL, or how the kernel ended

processVars == <<process_table, process, next_pid, holder, pc, local, exits, results, fault>>

Slots == 0 .. MAX_PROCS - 1
TableLock == "process_table_lock"
ECHILD == 10

ProcessRecords ==
  [pid : Nat, ppid : Nat, state : {"PROC_READY", "PROC_RUNNING", "PROC_ZOMBIE", "PROC_EXITED"},
   exit_code : Codes \cup {0}]

\* What the theorems assume of the constants: there is a slot besides the one
\* of the kernel process, and NULL is no process.
ProcessConstants ==
  /\ MAX_PROCS \in Nat /\ MAX_PROCS >= 2 /\ MaxPid \in Nat
  /\ Owner \in [Threads -> Nat]
  /\ Kernel \in Objects /\ NULL \notin Objects /\ NULL \notin ProcessRecords

ASSUME ProcessAssumption == ProcessConstants

-----------------------------------------------------------------------------
(* Faulty variants of definitions below, named by what is wrong with them.  *)

whatever_state(p) == TRUE

-----------------------------------------------------------------------------
New(pid, ppid, state) ==
  [pid |-> pid, ppid |-> ppid, state |-> state, exit_code |-> 0]

\* init_processes.
ProcessInit ==
  /\ process_table = [s \in Slots |-> IF s = 0 THEN Kernel ELSE NULL]
  /\ process = [p \in Objects |-> IF p = Kernel THEN New(0, 0, "PROC_RUNNING") ELSE NULL]
  /\ next_pid = 0
  /\ holder = [l \in Objects \cup {TableLock} |-> NULL]
  /\ pc = [t \in Threads |-> "idle"]
  /\ local = [t \in Threads |-> NULL]
  /\ exits = {} /\ results = [t \in Threads |-> NULL]
  /\ fault = NULL

tables == <<process_table, process, next_pid, exits, results>>

\* Thread t takes lock l and goes on at label, or waits for it.
Acquire(t, l, label) ==
  IF holder[l] # NULL THEN fault' = "wait" /\ UNCHANGED <<holder, pc>>
  ELSE /\ holder' = [holder EXCEPT ![l] = t]
       /\ pc' = [pc EXCEPT ![t] = label]
       /\ UNCHANGED fault

\* Thread t gives lock l back and goes on at label with these locals.
Release(t, l, label, locals) ==
  /\ holder' = [holder EXCEPT ![l] = NULL]
  /\ pc' = [pc EXCEPT ![t] = label]
  /\ local' = [local EXCEPT ![t] = locals]
  /\ UNCHANGED fault

\* The process the next step of t reads or writes, if any.
Touched(t) ==
  CASE pc[t] \in {"exit_lock", "exit_store", "exit_wake", "exit_gone"} -> local[t].p
    [] pc[t] \in {"wait_lock", "wait_check", "cleanup_free"} -> local[t].child
    [] OTHER -> NULL

At(t, label) ==
  /\ fault = NULL
  /\ pc[t] = label
  /\ Touched(t) # NULL => process[Touched(t)] # NULL

\* The step of t uses, or frees once more, a process that was freed.
UseFreed(t) ==
  /\ fault = NULL
  /\ Touched(t) # NULL /\ process[Touched(t)] = NULL
  /\ fault' = "freed"
  /\ UNCHANGED <<process_table, process, next_pid, holder, pc, local, exits, results>>

\* The entry of a call: process_table_lock is taken.
Enter(t, label, args) ==
  /\ At(t, "idle")
  /\ local' = [local EXCEPT ![t] = args]
  /\ Acquire(t, TableLock, label)
  /\ UNCHANGED tables

First(S) == CHOOSE s \in S : \A r \in S : s \leq r

\* process_from_pid between lock and unlock.
Found(pid) ==
  LET slots == { s \in Slots : process_table[s] # NULL /\ process[process_table[s]].pid = pid }
  IN IF slots = {} THEN NULL ELSE process_table[First(slots)]

-----------------------------------------------------------------------------
(* process_create.                                                          *)

FreeSlots == { s \in Slots : process_table[s] = NULL }

process_create(t) == next_pid < MaxPid /\ Enter(t, "create", NULL)

\* A slot, an object and a pid.  The slot is not filled, so that there is
\* always a free one.
CreateObject(t) ==
  /\ At(t, "create")
  /\ \E p \in Objects :
       /\ process[p] = NULL
       /\ process' = [process EXCEPT ![p] = New(next_pid, Owner[t], "PROC_READY")]
       /\ Release(t, TableLock, "create_thread", [p |-> p, slot |-> First(FreeSlots)])
  /\ next_pid' = next_pid + 1
  /\ UNCHANGED <<process_table, exits, results>>

\* kmalloc fails.
CreateFails(t) ==
  /\ At(t, "create")
  /\ \A p \in Objects : process[p] # NULL
  /\ Release(t, TableLock, "idle", NULL)
  /\ UNCHANGED tables

\* thread_create looks the new pid up, the first one being the kernel's, and
\* takes the lock of the process it finds.  The caller gets the process.
CreateThread(t) ==
  /\ At(t, "create_thread")
  /\ LET p == Found(process[local[t].p].pid)
         waits == holder[TableLock] # NULL \/ (p # NULL /\ holder[p] # NULL)
     IN IF waits THEN fault' = "wait" /\ UNCHANGED <<pc, local>>
        ELSE /\ pc' = [pc EXCEPT ![t] = "idle"]
             /\ local' = [local EXCEPT ![t] = NULL]
             /\ UNCHANGED fault
  /\ UNCHANGED <<tables, holder>>

\* thread_create returns NULL: the slot is cleared and the process freed.
CreateUndo(t) ==
  /\ At(t, "create_thread")
  /\ Acquire(t, TableLock, "create_undo")
  /\ UNCHANGED <<tables, local>>

CreateFree(t) ==
  /\ At(t, "create_undo")
  /\ process_table' = [process_table EXCEPT ![local[t].slot] = NULL]
  /\ process' = [process EXCEPT ![local[t].p] = NULL]
  /\ Release(t, TableLock, "idle", NULL)
  /\ UNCHANGED <<next_pid, exits, results>>

-----------------------------------------------------------------------------
(* process_exit and process_terminate.                                      *)

process_exit(t) == \E code \in Codes : Enter(t, "exit_find", [code |-> code])

ExitFind(t) ==
  /\ At(t, "exit_find")
  /\ Release(t, TableLock, "exit_lock", [code |-> local[t].code, p |-> Found(Owner[t])])
  /\ UNCHANGED tables

\* No process: hcf.
ExitLock(t) ==
  /\ At(t, "exit_lock")
  /\ IF local[t].p = NULL THEN fault' = "hcf" /\ UNCHANGED <<holder, pc>>
     ELSE Acquire(t, local[t].p, "exit_store")
  /\ UNCHANGED <<tables, local>>

ExitStore(t) ==
  /\ At(t, "exit_store")
  /\ process' = [process EXCEPT ![local[t].p].exit_code = local[t].code, ![local[t].p].state = "PROC_ZOMBIE"]
  /\ exits' = exits \cup {local[t].code}
  /\ Release(t, local[t].p, "exit_wake", local[t])
  /\ UNCHANGED <<process_table, next_pid, results>>

\* wake_waiters takes the lock again and finds no one: who waits has stopped
\* the kernel.
ExitWake(t) ==
  /\ At(t, "exit_wake")
  /\ Acquire(t, local[t].p, "exit_gone")
  /\ UNCHANGED <<tables, local>>

\* thread_exit.
ExitThread(t) ==
  /\ At(t, "exit_gone")
  /\ Release(t, local[t].p, "gone", NULL)
  /\ UNCHANGED tables

\* process_terminate refuses pid 0 without looking, and no other is found.
process_terminate(t) == Enter(t, "terminate", NULL)

Terminate(t) ==
  /\ At(t, "terminate")
  /\ Release(t, TableLock, "idle", NULL)
  /\ UNCHANGED tables

-----------------------------------------------------------------------------
(* process_wait.                                                            *)

process_wait(t) == \E pid \in {-1, 0, 1} : Enter(t, "wait_find", [pid |-> pid])

\* The slots of the children of t's process that match; the kernel process is
\* its own parent.
Children(t, pid) ==
  { s \in Slots : /\ process_table[s] # NULL
                  /\ process[process_table[s]].ppid = Owner[t]
                  /\ pid # -1 => process[process_table[s]].pid = pid }

WaitFind(t) ==
  /\ At(t, "wait_find")
  /\ LET pid == local[t].pid
         slots == Children(t, pid)
     IN \/ /\ slots = {}
           /\ results' = [results EXCEPT ![t] = -ECHILD]
           /\ Release(t, TableLock, "idle", NULL)
        \/ /\ slots # {}
           /\ Release(t, TableLock, "wait_lock",
                      [pid |-> pid, index |-> First(slots), child |-> process_table[First(slots)]])
           /\ UNCHANGED results
  /\ UNCHANGED <<process_table, process, next_pid, exits>>

WaitLock(t) ==
  /\ At(t, "wait_lock")
  /\ Acquire(t, local[t].child, "wait_check")
  /\ UNCHANGED <<tables, local>>

\* The child has exited, so that the call does not block.
Collectable(p) == process[p].state \in {"PROC_ZOMBIE", "PROC_EXITED"}

WaitCheck(t) ==
  /\ At(t, "wait_check")
  /\ LET child == local[t].child
     IN \/ /\ Collectable(child)
           /\ process' = [process EXCEPT ![child].state = "PROC_EXITED"]
           /\ Release(t, child, "cleanup_lock", [pid |-> local[t].pid, index |-> local[t].index, child |-> child,
                                               code |-> process[child].exit_code])
        \/ /\ ~Collectable(child)
           /\ fault' = "wait"
           /\ UNCHANGED <<local, process, holder, pc>>
  /\ UNCHANGED <<process_table, next_pid, exits, results>>

\* process_cleanup empties the slot of the child, or every slot that holds it,
CleanupLock(t) ==
  /\ At(t, "cleanup_lock")
  /\ Acquire(t, TableLock, "cleanup")
  /\ UNCHANGED <<tables, local>>

\* (the slots it empties)
Emptied(t) ==
  IF local[t].pid # -1 THEN {local[t].index} ELSE { s \in Slots : process_table[s] = local[t].child }

Cleanup(t) ==
  /\ At(t, "cleanup")
  /\ process_table' = [s \in Slots |-> IF s \in Emptied(t) THEN NULL ELSE process_table[s]]
  /\ Release(t, TableLock, "cleanup_free", local[t])
  /\ UNCHANGED <<process, next_pid, exits, results>>

\* and frees the child.
CleanupFree(t) ==
  /\ At(t, "cleanup_free")
  /\ process' = [process EXCEPT ![local[t].child] = NULL]
  /\ results' = [results EXCEPT ![t] = local[t].code]
  /\ pc' = [pc EXCEPT ![t] = "idle"]
  /\ local' = [local EXCEPT ![t] = NULL]
  /\ UNCHANGED <<process_table, next_pid, holder, exits, fault>>

ProcessNext == \E t \in Threads :
  \/ process_create(t) \/ CreateObject(t) \/ CreateFails(t) \/ CreateThread(t) \/ CreateUndo(t) \/ CreateFree(t)
  \/ process_exit(t) \/ ExitFind(t) \/ ExitLock(t) \/ ExitStore(t) \/ ExitWake(t) \/ ExitThread(t)
  \/ process_terminate(t) \/ Terminate(t)
  \/ process_wait(t) \/ WaitFind(t) \/ WaitLock(t) \/ WaitCheck(t)
  \/ CleanupLock(t) \/ Cleanup(t) \/ CleanupFree(t) \/ UseFreed(t)

ProcessSpec == ProcessInit /\ [][ProcessNext]_processVars

-----------------------------------------------------------------------------
\* A process is freed only after it has exited and left the table: the table
\* never names a process that is free, the kernel process goes only after some
\* process_exit, and every process_wait that succeeds returns a code that a
\* process_exit stored.  No pid but the kernel's is ever found, so that
\* process_terminate has nothing to do.
CollectedExited ==
  /\ \A s \in Slots : process_table[s] # NULL => process[process_table[s]] # NULL
  /\ process_table[0] # Kernel => exits # {}
  /\ \A pid \in 1 .. MaxPid : Found(pid) = NULL
  /\ \A t \in Threads : results[t] \in exits \cup {NULL, -ECHILD}

-----------------------------------------------------------------------------
(* The inductive invariant behind the theorem of ProcessesProofs.           *)

ProcessTypes ==
  /\ process_table \in [Slots -> {Kernel, NULL}]
  /\ process \in [Objects -> ProcessRecords \cup {NULL}]
  /\ next_pid \in Nat
  /\ pc = [t \in Threads |-> pc[t]] /\ local = [t \in Threads |-> local[t]]
  /\ results = [t \in Threads |-> results[t]]

\* Only slot 0 is ever filled, with the kernel process, which keeps its pid;
\* it is emptied after some process_exit.
TableSound ==
  /\ \A s \in Slots \ {0} : process_table[s] = NULL
  /\ IF process_table[0] = Kernel THEN process[Kernel] # NULL /\ process[Kernel].pid = 0
     ELSE exits # {}

\* A process that exited holds a code that process_exit stored.
ExitedSound ==
  \A p \in Objects :
    process[p] # NULL /\ Collectable(p) => process[p].exit_code \in exits

\* What a thread remembers while it holds no lock is still so, or does no harm.
CollectLabels == {"cleanup_lock", "cleanup", "cleanup_free"}
LocalAt(l, r) ==
  /\ l \in {"create_thread", "create_undo"} =>
       /\ r.p \in Objects /\ r.slot \in Slots
       /\ process_table[0] = Kernel => r.slot # 0 /\ r.p # Kernel
  /\ l \in {"exit_find", "exit_lock", "exit_store"} => r.code \in Codes
  /\ l = "exit_lock" => r.p \in {Kernel, NULL}
  /\ l = "exit_store" => r.p = Kernel
  /\ l \in {"wait_lock", "wait_check"} \cup CollectLabels => r.child = Kernel /\ r.index = 0
  /\ l \in CollectLabels => r.code \in exits
  /\ l = "cleanup_free" => process_table[0] = NULL
LocalSound == \A t \in Threads : LocalAt(pc[t], local[t])

ResultsSound == \A t \in Threads : results[t] \in exits \cup {NULL, -ECHILD}

ProcessInv == ProcessTypes /\ TableSound /\ ExitedSound /\ LocalSound /\ ResultsSound
=============================================================================
