SPECIFICATION Spec
CONSTANTS
  NULL = NULL
  PAGE_SIZE = 16
  HDR = 3
  ALIGN = 2
  Frames <- FourFrames
  Pages = 6
  Tasks = {1, 2}
  Irq = {2}
  Sizes = {1, 14}
  KernelProcess = 3
  MaxCalls = 3
INVARIANT
  NoAlias
CHECK_DEADLOCK FALSE
