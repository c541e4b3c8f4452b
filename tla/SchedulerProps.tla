--------------------------- MODULE SchedulerProps ---------------------------
(***************************************************************************)
(* What the scheduler is expected to guarantee.                             *)
(***************************************************************************)
EXTENDS Scheduler

States == {"READY", "RUNNING", "BLOCKED", "TERMED"}
MutexRecords == [locked : BOOLEAN, owner : ThreadOrNull, waiters : Seq(Threads)]
Faults == {"none", "spin", "recursion", "hcf", "unreachable", "uaf"}

\* Every variable holds a value of its C type; a cooldown is always below
\* the stride of its thread's priority (scheduler_tick, thread_t).
TypeOK ==
  /\ rq \in Queues
  /\ tstate \in [Threads -> States]
  /\ cooldown \in [Threads -> Nat]
  /\ \A t \in Threads : cooldown[t] < priority_to_stride(Priority[t])
  /\ sif \in [Threads -> BOOLEAN]
  /\ mem \in [Threads -> {"unborn", "live", "freed"}]
  /\ cur \in ThreadOrNull
  /\ table \in [Slots -> ThreadOrNull]
  /\ thread_count \in Int
  /\ next_tid \in Nat
  /\ mutex \in [Mutexes -> MutexRecords]
  /\ had \in [Locks -> BOOLEAN]
  /\ zombie \in BOOLEAN
  /\ rsp0 \in ThreadOrNull
  /\ run \in Threads
  /\ iflag \in BOOLEAN
  /\ irq \in {"none", "pick", "clean"}
  /\ pc \in [Threads -> Labels]
  /\ arg \in [Threads -> ThreadOrNull]
  /\ win \in [Threads -> BOOLEAN]
  /\ calls \in Nat
  /\ fault \in Faults

-----------------------------------------------------------------------------
\* One CPU, one running thread: THREAD_RUNNING marks no thread but
\* kernel->current_thread, and none at all while scheduler_tick chooses.
OneRunning ==
  \A t \in Threads : tstate[t] = "RUNNING" => t = cur /\ irq # "pick"

\* The kernel thread is never terminated, reclaimed or taken from slot 0, so
\* scheduler_tick always finds a thread and its return for the case that
\* "should never happen" is never taken.
SchedulerFindsThread ==
  /\ tstate[0] # "TERMED" /\ mem[0] = "live" /\ table[0] = 0
  /\ irq = "pick" => Candidate # NULL

\* The thread table is exact: thread_count counts its occupied slots, and it
\* holds every allocated thread in one slot and no freed one.
TableExact ==
  /\ thread_count = Cardinality({ i \in Slots : table[i] # NULL })
  /\ \A i, j \in Slots : table[i] # NULL /\ table[i] = table[j] => i = j
  /\ { table[i] : i \in Slots } \ {NULL} = { t \in Threads : mem[t] = "live" }

\* thread_create's search finds a slot whenever its count test let it past,
\* so its path for "no slots", which leaves a freed thread behind in the
\* process, is never taken.
SlotForEveryThread ==
  HasRoom => \E i \in Slots : i # 0 /\ table[i] = NULL

\* No two threads are inside sections of the same mutex, whatever preemption,
\* termination or blocking does to its holder.
MutualExclusion ==
  \A m \in Mutexes : \A t, u \in Threads :
    pc[t] \in Section(m) /\ pc[u] \in Section(m) => t = u

\* The code on the CPU belongs to a thread that is allocated and in the table
\* (clean_up, which runs on every tick, never reclaims the thread that the
\* interrupt is about to return to).
CpuRunsLiveThread ==
  irq # "pick" => mem[run] = "live" /\ \E i \in Slots : table[i] = run

\* A tid, and the object behind it, is used once: what clean_up or a failed
\* thread_create freed never comes back.
TidsUsedOnce ==
  [][\A t \in Threads : mem[t] = "freed" => mem'[t] = "freed"]_vars

\* A ring-3 thread never runs with another thread's stack in tss.rsp0.
UserStackInTss ==
  irq # "pick" /\ run \in Ring3 => rsp0 = run

-----------------------------------------------------------------------------
\* A thread that thread_create has entered in the table but not queued yet.
Unlinked(t) == \E u \in Threads : pc[u] \in {"create_unlock", "create_link"} /\ arg[u] = t

\* The ready queue is a list that ends in ready_tail, holds ready threads
\* only, and every ready thread but one about to be linked, or one dropped
\* because its process is a zombie.
QueueExact ==
  fault = "none" =>
    /\ ~Cyclic(rq)
    /\ rq.ready_head = NULL <=> rq.ready_tail = NULL
    /\ rq.ready_tail # NULL => rq.ready_tail \in Reach(rq) /\ rq.next[rq.ready_tail] = NULL
    /\ \A t \in Reach(rq) : tstate[t] = "READY" /\ mem[t] = "live"
    /\ \A t \in Threads :
         tstate[t] = "READY" /\ mem[t] = "live" /\ ~Unlinked(t) /\ ~(zombie /\ t \in KernelOwned)
           => t \in Reach(rq)

\* The scheduler implements the life cycle its API promises.
Status ==
  [t \in Threads |->
     CASE mem[t] = "unborn" -> "absent"
       [] mem[t] = "freed"  -> "reclaimed"
       [] OTHER -> CASE tstate[t] = "READY"   -> "ready"
                     [] tstate[t] = "RUNNING" -> "running"
                     [] tstate[t] = "BLOCKED" -> "blocked"
                     [] tstate[t] = "TERMED"  -> "dead"]

Lifecycle == INSTANCE ThreadLifecycle WITH status <- Status, Kernel <- 0
LifecycleSpec == Lifecycle!Spec

-----------------------------------------------------------------------------
(* The inductive invariant behind the theorems of SchedulerProofs.          *)

\* Slot 0 is the kernel thread's; the other slots hold allocated threads,
\* each of them in one slot, and every tid not handed out yet is unused.
TableSound ==
  /\ table[0] = 0 /\ next_tid # 0
  /\ \A i \in Slots : table[i] # NULL => mem[table[i]] = "live" /\ table[i] < next_tid
  /\ \A i, j \in Slots : table[i] # NULL /\ table[i] = table[j] => i = j
  /\ \A t \in Threads : mem[t] = "live" => \E i \in Slots : table[i] = t
  /\ \A t \in Threads : t >= next_tid => mem[t] = "unborn"

\* A thread that does not exist yet has no code running.
UnbornIdle == \A t \in Threads : mem[t] = "unborn" => pc[t] = "user"

\* thread_exit and thread_terminate turn the kernel thread away before they
\* mark anything.
KernelThreadStays ==
  /\ tstate[0] # "TERMED"
  /\ pc[0] \notin {"exit_plock", "exit_punlock", "exit_lock", "exit_mark",
                   "exit_unlock", "exit_clear", "exit_int"}
  /\ \A t \in Threads : pc[t] \in {"term_lock", "term_body"} => arg[t] # 0

\* A thread that marked itself terminated keeps the CPU, still marked, until
\* a tick takes both from it.
LeavingSound ==
  fault = "none" =>
    \A t \in Threads :
      pc[t] \in {"exit_unlock", "exit_clear", "exit_int"} /\ mem[t] = "live"
        => tstate[t] = "TERMED" /\ (irq = "none" => run = t)

\* kernel->current_thread is the thread on the CPU, except between the last
\* assignment of thread_exit and the next dispatch.
CpuSound ==
  /\ irq # "pick" => mem[run] = "live"
  /\ irq = "clean" => tstate[run] = "RUNNING" /\ cur = run
  /\ irq = "none" /\ pc[run] # "exit_int" => cur = run

\* A thread inside a section of a mutex is the owner the mutex records, and
\* nobody ever waits for thread_mutex and survives.
MutexSound ==
  /\ \A m \in Mutexes, t \in Threads :
       pc[t] \in Section(m) => mutex[m].locked /\ mutex[m].owner = t
  /\ fault = "none" => mutex["thread_mutex"].waiters = <<>>

IInv ==
  /\ TypeOK /\ OneRunning /\ TableSound /\ UnbornIdle /\ KernelThreadStays
  /\ LeavingSound /\ CpuSound /\ MutexSound

-----------------------------------------------------------------------------
(* What it takes beyond IInv to implement the life cycle when no thread     *)
(* calls thread_block or thread_unblock: a thread that waits for a mutex     *)
(* marks itself blocked, and the tick that finds it so stops the kernel,     *)
(* hence nobody is ever woken.                                              *)

BlockLabels == {"block_lock", "block_find", "block_unlock", "block_mark",
                "block_remove", "block_int"}
UnblockLabels == {"unblock_lock", "unblock_find", "unblock_unlock", "unblock_check",
                  "unblock_mark", "unblock_next", "unblock_link"}
LeavingLabels == {"exit_unlock", "exit_clear", "exit_int"}

\* A thread is created ready.
UnbornReady == \A t \in Threads : mem[t] = "unborn" => tstate[t] = "READY"

\* Only the thread on the CPU can be inside thread_block, which it entered
\* to wait for a mutex.
WaitingSound ==
  fault = "none" =>
    \A t \in Threads : pc[t] \in BlockLabels =>
      /\ irq = "none" /\ run = t /\ tstate[t] = "BLOCKED"
      /\ pc[t] # "block_int" => arg[t] = t

\* The thread on the CPU is marked running unless it leaves or waits, and
\* a mutex has waiters only while the thread on the CPU is one.
RunningSound ==
  fault = "none" =>
    /\ irq = "none" /\ pc[run] \notin LeavingLabels \cup BlockLabels => tstate[run] = "RUNNING"
    /\ pc[run] \notin BlockLabels => \A m \in Mutexes : mutex[m].waiters = <<>>

LifeInv ==
  /\ UnbornReady /\ WaitingSound /\ RunningSound
  /\ \A t \in Threads : pc[t] \notin UnblockLabels

-----------------------------------------------------------------------------
(* What makes the ready queue exact as long as nobody calls thread_terminate, *)
(* thread_block or thread_unblock: threads are appended at the tail and taken *)
(* from the head, and the idle thread is there when the queue is empty.       *)

\* The list from ready_head to ready_tail: every thread on it has one
\* predecessor, the head has none, and only the tail ends it.
ListSound(q) ==
  /\ q.ready_head = NULL <=> q.ready_tail = NULL
  /\ q.ready_head # NULL => q.ready_tail \in Reach(q)
  /\ \A u \in Reach(q) : q.next[u] # q.ready_head /\ (q.next[u] = NULL <=> u = q.ready_tail)
  /\ \A u, v \in Reach(q) : q.next[u] = q.next[v] /\ q.next[u] # NULL => u = v

\* The queue holds ready threads, and those that are missing are accounted for.
QueueHolds ==
  /\ \A t \in Reach(rq) : tstate[t] = "READY" /\ mem[t] = "live"
  /\ \A t \in Threads :
       tstate[t] = "READY" /\ mem[t] = "live" /\ ~Unlinked(t) /\ ~(zombie /\ t \in KernelOwned)
         => t \in Reach(rq)

\* A thread about to be linked is in nobody's way until it is.
CreateLabels == {"create_unlock", "create_link"}
UnlinkedSound ==
  /\ \A u \in Threads : pc[u] \in CreateLabels =>
       /\ arg[u] \in Threads \ {1} /\ mem[arg[u]] = "live" /\ tstate[arg[u]] = "READY"
       /\ arg[u] \notin Reach(rq) /\ rq.next[arg[u]] = NULL
  /\ \A u, v \in Threads : pc[u] \in CreateLabels /\ pc[v] \in CreateLabels /\ arg[u] = arg[v] => u = v
  /\ \A t \in Threads : mem[t] = "unborn" => rq.next[t] = NULL

\* The idle thread never leaves, and thread_exit clears current_thread last.
TermLabels == {"term_lock", "term_body", "term_fail", "term_self", "term_unlock", "term_remove"}
IdleStays ==
  /\ table[1] = 1 /\ pc[1] = "user" /\ tstate[1] \in {"READY", "RUNNING"}
  /\ irq = "none" /\ pc[run] = "exit_int" => cur = NULL
  /\ \A t \in Threads : pc[t] \notin TermLabels

QueueInv == fault = "none" => ListSound(rq) /\ QueueHolds /\ UnlinkedSound /\ IdleStays

-----------------------------------------------------------------------------
(* Claims the source makes in its comments.                                 *)

\* main.c: "Halt with inturrupts enabled".  A thread outside the kernel's
\* critical sections can be preempted.
InterruptsEnabled == irq = "none" /\ pc[run] = "user" => iflag

\* scheduler.c, of an interrupted thread: "If blocked remove from ready
\* queue", and thread.c: "Lock mutex before calling otherwise TOCTOU".  The tick
\* that finds a blocked thread, or a mutex taken, goes on to another thread; it
\* never waits for what the thread it interrupted holds.
TickNeverWaits == fault \notin {"spin", "recursion"}

\* thread.c: "Lock mutex to avoid race condition".  A thread found under the
\* mutex still exists when it is used.
NoUseAfterFree == fault # "uaf"

\* scheduler.c: strides are there "for fair CPU distribution".  While the
\* kernel runs and can be preempted, a ready thread gets the CPU.
ReadyRuns ==
  \A t \in Threads :
    (mem[t] = "live" /\ tstate[t] = "READY")
      ~> (tstate[t] # "READY" \/ fault # "none" \/ ~InterruptsEnabled)
=============================================================================
