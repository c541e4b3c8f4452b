----------------------------- MODULE Scheduler ------------------------------
(***************************************************************************)
(* The preemptive thread scheduler of a single CPU: thread.c, scheduler.c,  *)
(* mutex.c, spinlock.h and the parts of process.c a thread goes through     *)
(* when it is created or leaves.                                            *)
(*                                                                         *)
(* A thread in kernel code is at a label pc[t].  Only the thread on the CPU *)
(* (run) moves; the timer interrupt may strike between any two labels while *)
(* interrupts are enabled (iflag), and its handler, scheduler_tick followed *)
(* by clean_up, runs to its end with interrupts disabled.                   *)
(*                                                                         *)
(* A section between spinlock_acquire and spinlock_release is one step,     *)
(* since nothing interrupts it; the step before it, SpinSave, reads the     *)
(* interrupt flag into the lock while interrupts are still enabled.         *)
(*                                                                         *)
(* The kernel can stop for good.  "fault" names how; nothing happens after. *)
(*   spin         it waits for a spinlock that it holds itself, or walks a  *)
(*                cyclic list, with interrupts disabled                     *)
(*   recursion    acquire_mutex and thread_block call each other until the  *)
(*                stack is exhausted                                        *)
(*   hcf          it called hcf()                                           *)
(*   unreachable  a thread went past __builtin_unreachable()                *)
(*   uaf          it used a null pointer or a thread_t that was freed       *)
(***************************************************************************)
EXTENDS ReadyQueue, Integers, Sequences, FiniteSets

CONSTANTS
  MaxTid,       \* bound: the last tid kmalloc has memory for
  MAX_THREADS,  \* slots of kernel->thread_table
  Priority,     \* the priority each thread is created with
  KernelOwned,  \* the threads whose proc is the kernel process, the others
                \* have none: process_create never enters a process in
                \* process_table, so process_from_pid only ever finds pid 0
  Ring3,        \* the threads created with THREAD_RING_3
  Callers,      \* the threads whose code calls into this module,
  Calls,        \* and the operations it calls
  MaxCalls,     \* bound: how many calls they make
  Booted        \* the ready queue at the start: the idle thread, which
                \* init_threading creates, and the threads the kernel thread
                \* has created before the first tick

Priorities == {"LOW", "BG", "NORMAL", "HIGH", "IMPORTANT", "IMMEDIATE"}

AllCalls == {"create", "exit", "terminate", "block", "unblock", "process_exit"}

Slots == 0 .. MAX_THREADS - 1

ASSUME MaxTidAssumption == MaxTid \in Nat
ASSUME ThreadsAssumption == Threads = 0 .. MaxTid
ASSUME MaxThreadsAssumption == MAX_THREADS \in Nat \ {0}
ASSUME PriorityAssumption == Priority \in [Threads -> Priorities]
ASSUME KernelOwnedAssumption == KernelOwned \subseteq Threads
ASSUME Ring3Assumption == Ring3 \subseteq Threads \ {0}
ASSUME CallersAssumption == Callers \subseteq Threads \ Ring3
ASSUME CallsAssumption == Calls \subseteq AllCalls
ASSUME MaxCallsAssumption == MaxCalls \in Nat
ASSUME BootedAssumption ==
  /\ Booted \in Seq(Nat)
  /\ Len(Booted) < MAX_THREADS /\ Len(Booted) \leq MaxTid
  /\ Booted = [i \in 1 .. Len(Booted) |-> i]

VARIABLES
  \* thread_t
  rq,            \* ready_head, ready_tail and every thread's "next"
  tstate,        \* state
  cooldown,      \* cooldown
  sif,           \* the interrupt flag in context.rflags
  mem,           \* whether the thread_t is allocated
  \* kernel_table and the rest of the globals
  cur,           \* kernel->current_thread
  table,         \* kernel->thread_table
  thread_count,  \* kernel->thread_count
  next_tid,      \* kernel->next_tid
  mutex,         \* thread_mutex, process_table_lock, the kernel process' lock
  had,           \* had_interrupt of each spinlock
  zombie,        \* the kernel process is a PROC_ZOMBIE
  rsp0,          \* the thread whose kernel stack tss.rsp0 points to
  \* the CPU and the progress of each thread
  run,           \* the thread whose code the CPU executes
  iflag,         \* the interrupt flag
  irq,           \* how far scheduler_tick is: "none", "pick" or "clean"
  pc,            \* the label each thread is at,
  arg,           \* the thread its call is about,
  calls,         \* the number of calls made so far,
  win,           \* and whether it has saved the flag but not yet disabled it
  fault          \* "none", or how the kernel stopped

threadVars == <<tstate, cooldown, sif, mem>>
kernelVars == <<table, thread_count, next_tid, zombie>>
lockVars   == <<mutex, had>>
cpuVars    == <<cur, run, irq, rsp0>>
codeVars   == <<pc, arg, win, calls>>
vars == <<rq, threadVars, kernelVars, lockVars, cpuVars, iflag, codeVars, fault>>

-----------------------------------------------------------------------------
(* Faulty variants of definitions below, named by what is wrong with them:  *)
(* each is what one slip in the code would make of the definition, and      *)
(* shows that a property can tell the two apart.                            *)

stride_from_zero(p)      == IF p = "IMMEDIATE" THEN 0 ELSE 8
unlocked_if_no_waiter(m) == mutex[m].waiters = <<>>
tid_kept                 == next_tid
room_for_one_more        == thread_count \leq MAX_THREADS
no_exception(t)          == FALSE
left_running             == tstate
rsp0_kept                == rsp0
frees_all_but_ready(i)   == table[i] # NULL /\ tstate[table[i]] # "READY"
slot_kept(i)             == table
cooldown_kept(c)         == cooldown
cooldown_cleared(c)      == [cooldown EXCEPT ![c] = 0]
queue_as_found           == rq

-----------------------------------------------------------------------------
Mutexes == {"thread_mutex", "process_table_lock", "proc_lock"}
Locks   == Mutexes \cup {"schedule_lock"}

\* acquire_mutex calls: the mutex, and where the thread goes on.
Acquires ==
  [create_lock  |-> <<"thread_mutex",       "create_body">>,
   exit_plock   |-> <<"proc_lock",          "exit_punlock">>,
   exit_lock    |-> <<"thread_mutex",       "exit_mark">>,
   pexit_tlock  |-> <<"process_table_lock", "pexit_tunlock">>,
   pexit_lock   |-> <<"proc_lock",          "pexit_mark">>,
   pexit_wlock  |-> <<"proc_lock",          "pexit_wunlock">>,
   term_lock    |-> <<"thread_mutex",       "term_body">>,
   block_lock   |-> <<"thread_mutex",       "block_find">>,
   unblock_lock |-> <<"thread_mutex",       "unblock_find">>]

\* release_mutex calls: the mutex, and where the thread goes on.
Releases ==
  [create_unlock  |-> <<"thread_mutex",       "create_link">>,
   create_fail    |-> <<"thread_mutex",       "user">>,
   exit_punlock   |-> <<"proc_lock",          "exit_lock">>,
   exit_unlock    |-> <<"thread_mutex",       "exit_clear">>,
   pexit_tunlock  |-> <<"process_table_lock", "pexit_found">>,
   pexit_unlock   |-> <<"proc_lock",          "pexit_wlock">>,
   pexit_wunlock  |-> <<"proc_lock",          "exit_call">>,
   term_fail      |-> <<"thread_mutex",       "user">>,
   term_self      |-> <<"thread_mutex",       "exit_call">>,
   term_unlock    |-> <<"thread_mutex",       "term_remove">>,
   block_unlock   |-> <<"thread_mutex",       "block_mark">>,
   unblock_unlock |-> <<"thread_mutex",       "unblock_check">>]

\* Labels of sections under schedule_lock, and of code under no lock at all.
SchedLabels == {"create_link", "term_remove", "block_remove", "unblock_link"}
PlainLabels ==
  {"user", "create_body", "exit_call", "exit_mark", "exit_clear", "exit_int",
   "pexit_found", "pexit_mark", "term_body", "block_find", "block_mark",
   "block_int", "unblock_find", "unblock_check", "unblock_mark",
   "unblock_next", "unreachable"}
Labels == DOMAIN Acquires \cup DOMAIN Releases \cup SchedLabels \cup PlainLabels

\* The spinlock a label is about to acquire.
LockOf(l) == CASE l \in DOMAIN Acquires -> Acquires[l][1]
               [] l \in DOMAIN Releases -> Releases[l][1]
               [] OTHER -> "schedule_lock"

\* The labels at which a thread holds mutex m.
Section(m) ==
  CASE m = "thread_mutex" ->
         {"create_body", "create_unlock", "create_fail", "exit_mark",
          "exit_unlock", "term_body", "term_fail", "term_self", "term_unlock",
          "block_find", "block_unlock", "unblock_find", "unblock_unlock"}
    [] m = "process_table_lock" -> {"pexit_tunlock"}
    [] OTHER -> {"exit_punlock", "pexit_mark", "pexit_unlock", "pexit_wunlock"}

-----------------------------------------------------------------------------
priority_to_stride(p) ==
  CASE p = "IMMEDIATE" -> 1
    [] p = "IMPORTANT" -> 2
    [] p = "HIGH"      -> 4
    [] p = "NORMAL"    -> 8
    [] p = "BG"        -> 16
    [] p = "LOW"       -> 32

\* thread_from_tid: the thread, if some slot of the table holds it.
thread_from_tid(t) == IF \E i \in Slots : table[i] = t THEN t ELSE NULL

\* t does not point to an allocated thread_t.
Dangling(t) == t = NULL \/ mem[t] # "live"

\* Appending to the queue writes through ready_tail.
LinkFault == IF rq.ready_head # NULL /\ Dangling(rq.ready_tail) THEN "uaf" ELSE "none"

\* Searching the queue for t follows "next" until it meets t or NULL.
SearchFault(t) ==
  CASE \E u \in Visited(rq, t) : Dangling(u)   -> "uaf"
    [] t \notin Reach(rq) /\ Cyclic(rq)     -> "spin"
    [] OTHER                                -> "none"

FreeMutex == [locked |-> FALSE, owner |-> NULL, waiters |-> <<>>]

\* Threads 0 and Booted exist, the rest of the system is idle.
BootState ==
  LET booted == { Booted[i] : i \in DOMAIN Booted }
      n      == Len(Booted)
  IN /\ rq = [ready_head |-> IF n = 0 THEN NULL ELSE 1,
              ready_tail |-> IF n = 0 THEN NULL ELSE n,
              next |-> [t \in Threads |-> IF t \in 1 .. n - 1 THEN t + 1 ELSE NULL]]
     /\ tstate = [t \in Threads |-> IF t = 0 THEN "RUNNING" ELSE "READY"]
     /\ sif = [t \in Threads |-> TRUE]
     /\ mem = [t \in Threads |-> IF t \in {0} \cup booted THEN "live" ELSE "unborn"]
     /\ table = [i \in Slots |-> IF i \leq n THEN i ELSE NULL]
     /\ thread_count = n + 1
     /\ next_tid = n + 1
     /\ zombie = FALSE
     /\ mutex = [m \in Mutexes |-> FreeMutex]
     /\ had = [l \in Locks |-> FALSE]
     /\ cur = 0 /\ run = 0 /\ irq = "none" /\ rsp0 = NULL /\ iflag = TRUE
     /\ pc = [t \in Threads |-> "user"]
     /\ arg = [t \in Threads |-> NULL]
     /\ calls = 0
     /\ win = [t \in Threads |-> FALSE]
     /\ fault = "none"

Init == BootState /\ cooldown = [t \in Threads |-> 0]

-----------------------------------------------------------------------------
(* Code of the thread on the CPU.                                           *)

At(t, l) == fault = "none" /\ irq = "none" /\ run = t /\ pc[t] = l

Goto(t, l) == pc' = [pc EXCEPT ![t] = l]

\* A thread of the kernel calls one of the operations.
Call(t) ==
  /\ At(t, "user") /\ t \in Callers /\ calls < MaxCalls
  /\ calls' = calls + 1
  /\ \/ "create" \in Calls /\ Goto(t, "create_lock") /\ UNCHANGED arg
     \/ "exit" \in Calls /\ Goto(t, "exit_call") /\ UNCHANGED arg
     \/ "process_exit" \in Calls /\ Goto(t, "pexit_tlock") /\ UNCHANGED arg
     \/ \E a \in Threads :
          /\ arg' = [arg EXCEPT ![t] = a]
          /\ \/ "terminate" \in Calls /\ a # 0 /\ Goto(t, "term_lock")
             \/ "block" \in Calls /\ Goto(t, "block_lock")
             \/ "unblock" \in Calls /\ Goto(t, "unblock_lock")
  /\ UNCHANGED <<rq, threadVars, kernelVars, lockVars, cpuVars, iflag, win, fault>>

\* spinlock_acquire, first half: had_interrupt = have_interrupt().  The flag
\* is only cleared by the instruction after it.
SpinSave(t) ==
  /\ \E l \in DOMAIN Acquires \cup DOMAIN Releases \cup SchedLabels : At(t, l)
  /\ ~win[t]
  /\ win' = [win EXCEPT ![t] = TRUE]
  /\ had' = [had EXCEPT ![LockOf(pc[t])] = iflag]
  /\ UNCHANGED <<rq, threadVars, kernelVars, mutex, cpuVars, iflag, pc, arg, fault, calls>>

\* spinlock_release of lock l, at the end of a section.
SpinRelease(t, l) ==
  /\ win[t] /\ win' = [win EXCEPT ![t] = FALSE]
  /\ iflag' = had[l]

\* Whether acquire_mutex may take m.
Unlocked(m) == ~mutex[m].locked

\* acquire_mutex.  On a locked mutex the thread queues itself and blocks.
acquire_mutex(t) ==
  /\ \E l \in DOMAIN Acquires : At(t, l)
  /\ LET m == Acquires[pc[t]][1]
         w == mutex[m].waiters
     IN /\ SpinRelease(t, m)
        /\ IF Unlocked(m)
           THEN /\ mutex' = [mutex EXCEPT ![m].locked = TRUE, ![m].owner = cur]
                /\ Goto(t, Acquires[pc[t]][2])
                /\ UNCHANGED <<rq, tstate, arg, fault>>
           ELSE /\ mutex' = [mutex EXCEPT ![m].waiters = Append(w, t)]
                /\ tstate' = [tstate EXCEPT ![t] = "BLOCKED"]
                /\ rq' = LET q == unlink_next(rq, t)
                         IN IF w = <<>> THEN q ELSE [q EXCEPT !.next[w[Len(w)]] = t]
                /\ Goto(t, "block_lock")
                /\ arg' = [arg EXCEPT ![t] = t]
                /\ fault' = IF m = "thread_mutex" THEN "recursion" ELSE "none"
  /\ UNCHANGED <<cooldown, sif, mem, kernelVars, had, cpuVars, calls>>

\* release_mutex, by its owner only; the first waiter is made ready.
release_mutex(t) ==
  /\ \E l \in DOMAIN Releases : At(t, l)
  /\ LET m == Releases[pc[t]][1]
         w == mutex[m].waiters
     IN /\ SpinRelease(t, m)
        /\ IF mutex[m].owner # cur
           THEN UNCHANGED <<mutex, had, rq, tstate, fault>>
           ELSE IF w = <<>>
           THEN /\ mutex' = [mutex EXCEPT ![m] = FreeMutex]
                /\ UNCHANGED <<had, rq, tstate, fault>>
           ELSE /\ had' = [had EXCEPT !["schedule_lock"] = FALSE]
                /\ mutex' = [mutex EXCEPT ![m] = [FreeMutex EXCEPT !.waiters = Tail(w)]]
                /\ tstate' = [tstate EXCEPT ![w[1]] = "READY"]
                /\ rq' = IF w[1] \in Reach(rq) THEN rq ELSE enqueue_ready_tail(rq, w[1])
                /\ fault' = CASE Dangling(w[1]) -> "uaf"
                              [] w[1] \in Reach(rq) \/ SearchFault(w[1]) # "none" -> SearchFault(w[1])
                              [] OTHER -> LinkFault
        /\ Goto(t, Releases[pc[t]][2])
  /\ UNCHANGED <<cooldown, sif, mem, kernelVars, cpuVars, arg, calls>>

(* thread_create.                                                           *)

\* Between lock and unlock of thread_mutex.  process_from_pid takes
\* process_table_lock and process_add_thread the process' own lock: to wait
\* for either with thread_mutex held recurses in thread_block.  Memory may
\* run out before the tid is taken or after.
ProcLocks(t) ==
  {"process_table_lock"} \cup (IF t \in KernelOwned THEN {"proc_lock"} ELSE {})

NewTid == next_tid + 1

FreeSlot(i) == i # 0 /\ table[i] = NULL /\ \A j \in 1 .. i - 1 : table[j] # NULL

HasRoom == thread_count < MAX_THREADS

CreateBody(t) ==
  /\ At(t, "create_body")
  /\ \/ /\ Goto(t, "create_fail")
        /\ UNCHANGED <<mem, table, thread_count, next_tid, had, arg, fault>>
     \/ /\ HasRoom /\ next_tid \in Threads
        /\ Goto(t, "create_fail")
        /\ next_tid' = NewTid
        /\ mem' = [mem EXCEPT ![next_tid] = "freed"]
        /\ UNCHANGED <<table, thread_count, had, arg, fault>>
     \/ /\ HasRoom /\ next_tid \in Threads
        /\ next_tid' = NewTid
        /\ had' = [l \in Locks |-> IF l \in ProcLocks(next_tid) THEN iflag ELSE had[l]]
        /\ IF \E m \in ProcLocks(next_tid) : mutex[m].locked
           THEN fault' = "recursion" /\ UNCHANGED <<mem, table, thread_count, pc, arg>>
           ELSE \E i \in Slots :
                  /\ FreeSlot(i)
                  /\ table' = [table EXCEPT ![i] = next_tid]
                  /\ thread_count' = thread_count + 1
                  /\ mem' = [mem EXCEPT ![next_tid] = "live"]
                  /\ arg' = [arg EXCEPT ![t] = next_tid]
                  /\ Goto(t, "create_unlock")
                  /\ UNCHANGED fault
  /\ UNCHANGED <<rq, tstate, cooldown, sif, zombie, mutex, cpuVars, iflag, win, calls>>

\* The thread is appended by hand, under schedule_lock.
CreateLink(t) ==
  /\ At(t, "create_link") /\ SpinRelease(t, "schedule_lock")
  /\ rq' = link_ready_tail(rq, arg[t])
  /\ fault' = IF Dangling(arg[t]) THEN "uaf" ELSE LinkFault
  /\ Goto(t, "user") /\ arg' = [arg EXCEPT ![t] = NULL]
  /\ UNCHANGED <<threadVars, kernelVars, lockVars, cpuVars, calls>>

(* thread_exit and process_exit.                                            *)

\* The kernel thread may not exit.  The main thread of the kernel process is
\* the kernel thread, so no thread that gets past this point is one.
IsKernelThread(t) == t = 0

ExitCall(t) ==
  /\ At(t, "exit_call")
  /\ IF IsKernelThread(t) THEN fault' = "hcf" /\ UNCHANGED pc
     ELSE Goto(t, IF t \in KernelOwned THEN "exit_plock" ELSE "exit_lock") /\ UNCHANGED fault
  /\ UNCHANGED <<rq, threadVars, kernelVars, lockVars, cpuVars, iflag, arg, win, calls>>

ExitMark(t) ==
  /\ At(t, "exit_mark")
  /\ tstate' = [tstate EXCEPT ![t] = "TERMED"]
  /\ Goto(t, "exit_unlock")
  /\ UNCHANGED <<rq, cooldown, sif, mem, kernelVars, lockVars, cpuVars, iflag, arg, win, fault, calls>>

ExitClear(t) ==
  /\ At(t, "exit_clear")
  /\ cur' = NULL
  /\ Goto(t, "exit_int")
  /\ UNCHANGED <<rq, threadVars, kernelVars, lockVars, run, irq, rsp0, iflag, arg, win, fault, calls>>

\* process_exit after process_from_pid: a thread without a process is fatal.
PexitFound(t) ==
  /\ At(t, "pexit_found")
  /\ IF t \in KernelOwned THEN Goto(t, "pexit_lock") /\ UNCHANGED fault
     ELSE fault' = "hcf" /\ UNCHANGED pc
  /\ UNCHANGED <<rq, threadVars, kernelVars, lockVars, cpuVars, iflag, arg, win, calls>>

PexitMark(t) ==
  /\ At(t, "pexit_mark")
  /\ zombie' = TRUE
  /\ Goto(t, "pexit_unlock")
  /\ UNCHANGED <<rq, threadVars, table, thread_count, next_tid, lockVars, cpuVars, iflag, arg, win, fault, calls>>

(* thread_terminate.                                                        *)

\* Between lock and unlock of thread_mutex.  A thread that terminates itself
\* goes through thread_exit.  process_remove_thread takes the process' lock.
TermBody(t) ==
  LET a == thread_from_tid(arg[t]) IN
  /\ At(t, "term_body")
  /\ IF a = NULL THEN Goto(t, "term_fail") /\ UNCHANGED <<rq, tstate, had, fault>>
     ELSE IF a = cur THEN Goto(t, "term_self") /\ UNCHANGED <<rq, tstate, had, fault>>
     ELSE /\ tstate' = [tstate EXCEPT ![a] = "TERMED"]
          /\ had' = IF a \in KernelOwned THEN [had EXCEPT !["proc_lock"] = iflag] ELSE had
          /\ IF a \in KernelOwned /\ mutex["proc_lock"].locked
             THEN fault' = "recursion" /\ UNCHANGED <<pc, rq>>
             ELSE /\ rq' = unlink_next(rq, a)
                  /\ Goto(t, "term_unlock")
                  /\ UNCHANGED fault
  /\ UNCHANGED <<cooldown, sif, mem, kernelVars, mutex, cpuVars, iflag, arg, win, calls>>

\* remove_from_ready_queue by thread_terminate, which then returns, and by
\* thread_block, which raises the scheduler's interrupt.
RemoveFromQueue(t, l, then) ==
  /\ At(t, l) /\ SpinRelease(t, "schedule_lock")
  /\ rq' = remove_from_ready_queue(rq, arg[t])
  /\ fault' = SearchFault(arg[t])
  /\ Goto(t, then) /\ arg' = [arg EXCEPT ![t] = NULL]
  /\ UNCHANGED <<threadVars, kernelVars, lockVars, cpuVars, calls>>

TermRemove(t) == RemoveFromQueue(t, "term_remove", "user")
BlockRemove(t) == RemoveFromQueue(t, "block_remove", "block_int")

(* thread_block and thread_unblock.                                         *)

\* The table is searched under thread_mutex; the pointer is used without it.
Find(t, l, then) ==
  /\ At(t, l)
  /\ arg' = [arg EXCEPT ![t] = IF @ = NULL THEN NULL ELSE thread_from_tid(@)]
  /\ Goto(t, then)
  /\ UNCHANGED <<rq, threadVars, kernelVars, lockVars, cpuVars, iflag, win, fault, calls>>

BlockFind(t) == Find(t, "block_find", "block_unlock")
UnblockFind(t) == Find(t, "unblock_find", "unblock_unlock")

BlockMark(t) ==
  /\ At(t, "block_mark")
  /\ IF arg[t] \in {0, NULL} THEN fault' = "hcf" /\ UNCHANGED <<tstate, pc>>
     ELSE IF Dangling(arg[t]) THEN fault' = "uaf" /\ UNCHANGED <<tstate, pc>>
     ELSE /\ tstate' = [tstate EXCEPT ![arg[t]] = "BLOCKED"]
          /\ Goto(t, "block_remove")
          /\ UNCHANGED fault
  /\ UNCHANGED <<rq, cooldown, sif, mem, kernelVars, lockVars, cpuVars, iflag, arg, win, calls>>

\* A thread that blocked another one comes back after its interrupt.
Unreachable(t) ==
  /\ At(t, "unreachable")
  /\ fault' = "unreachable"
  /\ UNCHANGED <<rq, threadVars, kernelVars, lockVars, cpuVars, iflag, codeVars>>

UnblockCheck(t) ==
  /\ At(t, "unblock_check")
  /\ IF arg[t] = NULL THEN Goto(t, "user") /\ UNCHANGED <<arg, fault>>
     ELSE IF Dangling(arg[t]) THEN fault' = "uaf" /\ UNCHANGED <<pc, arg>>
     ELSE IF tstate[arg[t]] # "BLOCKED"
     THEN Goto(t, "user") /\ arg' = [arg EXCEPT ![t] = NULL] /\ UNCHANGED fault
     ELSE Goto(t, "unblock_mark") /\ UNCHANGED <<arg, fault>>
  /\ UNCHANGED <<rq, threadVars, kernelVars, lockVars, cpuVars, iflag, win, calls>>

UnblockMark(t) ==
  /\ At(t, "unblock_mark")
  /\ IF Dangling(arg[t]) THEN fault' = "uaf" /\ UNCHANGED <<tstate, pc>>
     ELSE /\ tstate' = [tstate EXCEPT ![arg[t]] = "READY"]
          /\ Goto(t, "unblock_next")
          /\ UNCHANGED fault
  /\ UNCHANGED <<rq, cooldown, sif, mem, kernelVars, lockVars, cpuVars, iflag, arg, win, calls>>

UnblockNext(t) ==
  /\ At(t, "unblock_next")
  /\ IF Dangling(arg[t]) THEN fault' = "uaf" /\ UNCHANGED <<rq, pc>>
     ELSE rq' = unlink_next(rq, arg[t]) /\ Goto(t, "unblock_link") /\ UNCHANGED fault
  /\ UNCHANGED <<threadVars, kernelVars, lockVars, cpuVars, iflag, arg, win, calls>>

UnblockLink(t) ==
  /\ At(t, "unblock_link") /\ SpinRelease(t, "schedule_lock")
  /\ rq' = link_ready_tail(rq, arg[t])
  /\ fault' = IF Dangling(arg[t]) THEN "uaf" ELSE LinkFault
  /\ Goto(t, "user") /\ arg' = [arg EXCEPT ![t] = NULL]
  /\ UNCHANGED <<threadVars, kernelVars, lockVars, cpuVars, calls>>

-----------------------------------------------------------------------------
(* scheduler_tick and clean_up, with interrupts disabled.                   *)

\* The interrupted thread's context is saved and the thread queued again.  A
\* blocked or terminated one is removed with schedule_lock held, which
\* remove_from_ready_queue then waits for.
Preempted == [tstate EXCEPT ![cur] = "READY"]
Requeued == enqueue_ready_tail(rq, cur)

TickEnter ==
  /\ irq' = "pick" /\ iflag' = FALSE
  /\ IF cur = NULL THEN UNCHANGED <<rq, tstate, sif, fault>>
     ELSE /\ sif' = [sif EXCEPT ![cur] = iflag]
          /\ IF tstate[cur] \in {"RUNNING", "READY"}
             THEN /\ tstate' = Preempted
                  /\ rq' = Requeued
                  /\ fault' = LinkFault
             ELSE fault' = "spin" /\ UNCHANGED <<rq, tstate>>
  /\ UNCHANGED <<cooldown, mem, kernelVars, lockVars, cur, run, rsp0, arg, win, calls>>

\* The timer's interrupt, and the one thread_block and thread_exit raise.
TimerIrq == fault = "none" /\ irq = "none" /\ iflag /\ TickEnter /\ UNCHANGED pc
SoftIrq(t) ==
  /\ At(t, "block_int") \/ At(t, "exit_int")
  /\ Goto(t, "unreachable") /\ TickEnter

Picking == fault = "none" /\ irq = "pick"

\* The first slot from 1 on that holds a ready thread, else the kernel thread.
Fallback ==
  LET ready == { i \in Slots \ {0} : table[i] # NULL /\ tstate[table[i]] = "READY" }
  IN IF ready = {} THEN table[0]
     ELSE table[CHOOSE i \in ready : \A j \in ready : i \leq j]

Candidate == IF rq.ready_head # NULL THEN rq.ready_head ELSE Fallback
Dequeued  == IF rq.ready_head # NULL THEN dequeue_ready_head(rq) ELSE rq

Dropped == rq.ready_head # NULL /\ zombie /\ rq.ready_head \in KernelOwned

\* A thread whose process is a zombie is taken off the queue and forgotten.
PickZombie ==
  /\ Picking /\ Dropped
  /\ rq' = Dequeued
  /\ fault' = IF Dangling(rq.ready_head) THEN "uaf" ELSE "none"
  /\ UNCHANGED <<threadVars, kernelVars, lockVars, cpuVars, iflag, codeVars>>

\* What the scheduler cannot run: a thread it would have to wait for
\* thread_mutex to find in the table, a freed one, or a blocked or terminated
\* one, which it removes with schedule_lock held.
PickFault ==
  CASE rq.ready_head = NULL /\ mutex["thread_mutex"].locked -> "recursion"
    [] Dangling(Candidate)                                      -> "uaf"
    [] tstate[Candidate] \in {"BLOCKED", "TERMED"}           -> "spin"
    [] OTHER                                                 -> "none"

PickBad ==
  /\ Picking /\ ~Dropped /\ PickFault # "none"
  /\ fault' = PickFault
  /\ UNCHANGED <<rq, threadVars, kernelVars, lockVars, cpuVars, iflag, codeVars>>

Runnable == Picking /\ ~Dropped /\ PickFault = "none"

Cooled(c) == [cooldown EXCEPT ![c] = @ - 1]
Recharged(c) == [cooldown EXCEPT ![c] = priority_to_stride(Priority[c]) - 1]

\* A thread in its cooldown goes to the back of the queue.
PickCooldown ==
  /\ Runnable /\ cooldown[Candidate] > 0
  /\ cooldown' = Cooled(Candidate)
  /\ rq' = enqueue_ready_tail(Dequeued, Candidate)
  /\ fault' = IF Dequeued.ready_head # NULL /\ Dangling(Dequeued.ready_tail)
              THEN "uaf" ELSE "none"
  /\ UNCHANGED <<tstate, sif, mem, kernelVars, lockVars, cpuVars, iflag, codeVars>>

NewRsp0 == IF Candidate \in Ring3 THEN Candidate ELSE rsp0

\* The next thread: its context replaces the interrupt's frame.  (thread_create gives
\* every ring-3 thread a kernel stack or fails, so none is terminated for want of one.)
PickDispatch ==
  /\ Runnable /\ cooldown[Candidate] = 0
  /\ cooldown' = Recharged(Candidate)
  /\ rq' = Dequeued
  /\ cur' = Candidate /\ run' = Candidate
  /\ tstate' = [tstate EXCEPT ![Candidate] = "RUNNING"]
  /\ rsp0' = NewRsp0
  /\ irq' = "clean"
  /\ UNCHANGED <<sif, mem, kernelVars, lockVars, iflag, codeVars, fault>>

Cleaning == fault = "none" /\ irq = "clean"

Termed(i) == table[i] # NULL /\ tstate[table[i]] = "TERMED"

\* clean_up waits for thread_mutex in the name of the thread just picked.
CleanContended ==
  /\ Cleaning /\ mutex["thread_mutex"].locked
  /\ fault' = "recursion"
  /\ UNCHANGED <<rq, threadVars, kernelVars, lockVars, cpuVars, iflag, codeVars>>

Emptied(i) == [table EXCEPT ![i] = NULL]

\* One terminated thread is unqueued, taken from its process and freed.
CleanOne(i) ==
  LET t == table[i] IN
  /\ Cleaning /\ ~mutex["thread_mutex"].locked
  /\ Termed(i) /\ \A j \in 0 .. i - 1 : ~Termed(j)
  /\ rq' = remove_from_ready_queue(rq, t)
  /\ fault' = IF SearchFault(t) = "none" /\ t \in KernelOwned /\ mutex["proc_lock"].locked
              THEN "recursion" ELSE SearchFault(t)
  /\ mem' = [mem EXCEPT ![t] = "freed"]
  /\ table' = Emptied(i)
  /\ thread_count' = thread_count - 1
  /\ had' = IF t \in KernelOwned THEN [had EXCEPT !["proc_lock"] = FALSE] ELSE had
  /\ UNCHANGED <<tstate, cooldown, sif, next_tid, zombie, mutex, cpuVars, iflag, codeVars>>

\* The interrupt flag of the frame that context_switch builds for t.
context_switch(t) == IF t \in Ring3 THEN TRUE ELSE sif[t]

\* clean_up releases thread_mutex and the interrupt returns to the thread.
CleanDone ==
  /\ Cleaning /\ ~mutex["thread_mutex"].locked
  /\ \A i \in Slots : ~Termed(i)
  /\ irq' = "none"
  /\ iflag' = context_switch(run)
  /\ had' = [had EXCEPT !["thread_mutex"] = FALSE, !["schedule_lock"] = FALSE]
  /\ UNCHANGED <<rq, threadVars, kernelVars, mutex, cur, run, rsp0, codeVars, fault>>

Tick ==
  TimerIrq \/ PickZombie \/ PickBad \/ PickCooldown \/ PickDispatch
  \/ CleanContended \/ (\E i \in Slots : CleanOne(i)) \/ CleanDone

\* The kernel code of a thread once it has been called.
Step(t) ==
  \/ SpinSave(t) \/ acquire_mutex(t) \/ release_mutex(t)
  \/ CreateBody(t) \/ CreateLink(t)
  \/ ExitCall(t) \/ ExitMark(t) \/ ExitClear(t) \/ PexitFound(t) \/ PexitMark(t)
  \/ TermBody(t) \/ TermRemove(t)
  \/ BlockFind(t) \/ BlockMark(t) \/ BlockRemove(t) \/ Unreachable(t)
  \/ UnblockFind(t) \/ UnblockCheck(t) \/ UnblockMark(t) \/ UnblockNext(t) \/ UnblockLink(t)
  \/ SoftIrq(t)

Next == Tick \/ \E t \in Threads : Call(t) \/ Step(t)

Spec == Init /\ [][Next]_vars

\* The timer never stops ticking, and the CPU never stops executing kernel
\* code; whether a thread calls into the kernel is up to it.
Fairness == WF_vars(Tick) /\ \A t \in Threads : WF_vars(Step(t))

FairSpec == Spec /\ Fairness
=============================================================================
