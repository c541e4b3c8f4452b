SPECIFICATION Spec
CONSTANTS
  NULL = NULL
  MaxTid = 4
  Threads <- Tids
  MAX_THREADS = 4
  Priority <- BootPriority
  IdlePriority = "IMPORTANT"
  TaskPriority = "IMMEDIATE"
  KernelOwned = {0, 1, 2}
  Ring3 = {}
  Callers = {0, 2, 3, 4}
  Calls = {"create", "exit", "process_exit"}
  MaxCalls = 3
  Booted <- Boot3
INVARIANTS
  QueueExact
  MutualExclusion
PROPERTY
  LifecycleSpec
CHECK_DEADLOCK FALSE
