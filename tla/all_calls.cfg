SPECIFICATION Spec
CONSTANTS
  NULL = NULL
  MaxTid = 3
  Threads <- Tids
  MAX_THREADS = 3
  Priority <- BootPriority
  IdlePriority = "IMPORTANT"
  TaskPriority = "IMMEDIATE"
  KernelOwned = {0, 1, 2}
  Ring3 = {}
  Callers = {0, 2, 3}
  Calls = {"create", "exit", "terminate", "block", "unblock"}
  MaxCalls = 3
  Booted <- Boot2
INVARIANTS
  TypeOK
  OneRunning
  SchedulerFindsThread
  TableExact
  SlotForEveryThread
  CpuRunsLiveThread
PROPERTIES
  TidsUsedOnce
CHECK_DEADLOCK FALSE
