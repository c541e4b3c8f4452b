------------------------------ MODULE MCStride ------------------------------
(* A boot with one thread of each priority in use: the kernel thread, the   *)
(* idle thread, a process thread and a user thread.                         *)
EXTENDS StrideFairness

Tids == 0 .. MaxTid

BootPriority ==
  [t \in Tids |-> CASE t = 0 -> "IMMEDIATE" [] t = 1 -> "LOW"
                    [] t = 2 -> "NORMAL" [] OTHER -> "HIGH"]

Boot == <<1, 2, 3>>
=============================================================================
