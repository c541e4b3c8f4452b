SPECIFICATION FairSpec
CONSTANTS
  NULL = NULL
  PAGE_SIZE = 16
  HDR = 3
  ALIGN = 2
  Frames <- FiveFrames
  Pages = 6
  Tasks = {1}
  Irq = {}
  Sizes = {1, 5, 14}
  KernelProcess = 3
  MaxCalls = 8
INVARIANTS
  BlocksTile
  AllocatedExact
  Coalesced
  FramesDistinct
PROPERTY
  CallsReturn
CHECK_DEADLOCK FALSE
