--------------------------- MODULE StrideFairness ---------------------------
(***************************************************************************)
(* How the stride scheduler shares the CPU.  since[t][u] counts how often u *)
(* was dispatched since t was; since[t][t] is 1 once t has been dispatched. *)
(***************************************************************************)
EXTENDS SchedulerProps

VARIABLE since

Booting == {0} \cup { Booted[i] : i \in DOMAIN Booted }

Stride(t) == priority_to_stride(Priority[t])

\* t is looked at once in every round of the queue and dispatched in one of
\* Stride(t) rounds; u has the CPU in one of Stride(u) of them.
Share(t, u) == Stride(t) \div Stride(u)

\* scheduler_tick hands the CPU to run'.
Dispatched == irq = "pick" /\ irq' = "clean"

\* A count stops two above its share, which keeps it finite.
Count(t, u) == IF since[t][u] > Share(t, u) + 1 THEN since[t][u] ELSE since[t][u] + 1

\* The threads were created at different times: thread_create starts each
\* with cooldown 0 while the others stand anywhere in theirs.
ShareInit ==
  /\ BootState
  /\ cooldown \in { c \in [Threads -> 0 .. 31] : \A t \in Threads : c[t] < Stride(t) }
  /\ since = [t \in Booting |-> [u \in Booting |-> 0]]

ShareNext ==
  /\ Next
  /\ since' = IF ~Dispatched THEN since
              ELSE [t \in Booting |-> [u \in Booting |->
                      CASE t = run' -> IF u = t THEN 1 ELSE 0
                        [] u = run' /\ t # u -> Count(t, u)
                        [] OTHER -> since[t][u]]]

shareVars == <<vars, since>>

\* The timer never stops ticking.
ShareSpec == ShareInit /\ [][ShareNext]_shareVars /\ WF_shareVars(ShareNext /\ Tick)

\* While t waits no other thread gets the CPU more often than the two strides
\* allow: a thread of lower priority once at most (scheduler_tick's cooldown
\* loop and priority_to_stride).
BoundedWait ==
  \A t, u \in Booting : t # u => since[t][u] \leq Share(t, u) + 1

\* A thread never gets the CPU again before every thread of higher priority
\* has had the share its stride entitles it to.
PriorityHonoured ==
  [][\A t, u \in Booting :
       Dispatched /\ t = run' /\ u # t /\ since[t][t] = 1
         => since[t][u] >= Share(t, u) - 1]_shareVars

\* Every thread gets the CPU again and again while the timer ticks, the
\* LOW-priority idle thread included.
NoStarvation == \A t \in Booting : []<>(cur = t)
=============================================================================
