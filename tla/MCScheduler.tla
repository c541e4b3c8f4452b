---------------------------- MODULE MCScheduler -----------------------------
(***************************************************************************)
(* Small instances of Scheduler.  Thread 0 is the kernel thread, 1 the idle *)
(* thread, the others are tasks.                                            *)
(***************************************************************************)
EXTENDS SchedulerProps

CONSTANTS
  IdlePriority,  \* LOW in init_threading, which makes the idle thread's
                 \* cooldown cycle through 32 values; a bound where it is not
  TaskPriority   \* thread_create's caller chooses it

Tids == 0 .. MaxTid

BootPriority ==
  [t \in Tids |-> CASE t = 0 -> "IMMEDIATE" [] t = 1 -> IdlePriority [] OTHER -> TaskPriority]

Boot1 == <<1>>
Boot2 == <<1, 2>>
Boot3 == <<1, 2, 3>>
=============================================================================
