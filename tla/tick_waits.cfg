SPECIFICATION Spec
CONSTANTS
  NULL = NULL
  MaxTid = 3
  Threads <- Tids
  MAX_THREADS = 4
  Priority <- BootPriority
  IdlePriority = "IMPORTANT"
  TaskPriority = "IMMEDIATE"
  KernelOwned = {0, 1, 2}
  Ring3 = {}
  Callers = {0, 2, 3}
  Calls = {"block"}
  MaxCalls = 2
  Booted <- Boot2
INVARIANT
  TickNeverWaits
CHECK_DEADLOCK FALSE
