SPECIFICATION ShareSpec
CONSTANTS
  NULL = NULL
  MaxTid = 3
  Threads <- Tids
  MAX_THREADS = 4
  Priority <- BootPriority
  KernelOwned = {0, 1, 2}
  Ring3 = {3}
  Callers = {}
  Calls = {}
  MaxCalls = 0
  Booted <- Boot
INVARIANTS
  BoundedWait
  UserStackInTss
PROPERTIES
  PriorityHonoured
  NoStarvation
