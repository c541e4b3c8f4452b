--------------------------- MODULE ThreadLifecycle --------------------------
(***************************************************************************)
(* What the thread API promises of one thread: it is created once, shares   *)
(* one CPU with the others, leaves or is terminated, and is then reclaimed  *)
(* once.  No queue, no lock, no interrupt.                                  *)
(***************************************************************************)
CONSTANTS Threads, Kernel   \* Kernel: the thread that never leaves

VARIABLE status   \* absent, ready, running, blocked, dead or reclaimed

Statuses == {"absent", "ready", "running", "blocked", "dead", "reclaimed"}

TypeOK == status \in [Threads -> Statuses]

Init ==
  /\ status \in [Threads -> {"absent", "ready", "running"}]
  /\ { t \in Threads : status[t] = "running" } = {Kernel}

\* t moves from one of the statuses in from to the status to.
Move(t, from, to) == status[t] \in from /\ status' = [status EXCEPT ![t] = to]

CpuFree == \A t \in Threads : status[t] # "running"

Create(t)    == Move(t, {"absent"}, "ready")
Fail(t)      == Move(t, {"absent"}, "reclaimed")
Dispatch(t)  == CpuFree /\ Move(t, {"ready"}, "running")
Preempt(t)   == Move(t, {"running"}, "ready")
Exit(t)      == t # Kernel /\ Move(t, {"running"}, "dead")
Terminate(t) == t # Kernel /\ Move(t, {"ready", "blocked"}, "dead")
Wait(t)      == Move(t, {"running"}, "blocked")
Wake(t)      == Move(t, {"blocked"}, "ready")
Reclaim(t)   == Move(t, {"dead"}, "reclaimed")

Next ==
  \E t \in Threads :
    \/ Create(t) \/ Fail(t) \/ Dispatch(t) \/ Preempt(t) \/ Exit(t)
    \/ Terminate(t) \/ Wait(t) \/ Wake(t) \/ Reclaim(t)

Spec == Init /\ [][Next]_status
=============================================================================
