SPECIFICATION Spec
CONSTANTS
  Parts = {"slab", "hashtable", "pages", "cpu", "clock", "console", "strings", "processes", "boot"}
  NULL = NULL
  Caches = {"one", "three"}
  ObjectSize <- SlabObjectSize
  PAGE_SIZE = 4096
  HDR = 40
  ALIGN = 8
  AddressPages = 64
  Hhdm = 32
  MemoryMap <- SlabMemoryMap
  MaxHeap = 1
  Keys = {"a", "b", "c", "d"}
  Values = {1, 2}
  hash <- HashOfKeys
  capacity = 2
  EntryObjects = {1, 2, 3}
  Indexes = {0, 1, 2}
  UpperHalf = {1, 2}
  VPages <- TablePages
  Targets = {1, 100}
  TableFrames = {1, 2, 3, 4, 5, 6, 7, 8, 9, 10, 11}
  Pml4 = 1
  BootPml4 <- TableBootPml4
  BootTables <- TableBootTables
  Garbage <- TableGarbage
  CpuThreads = {"k", "l", "u"}
  Ring <- RingOfThreads
  Lines = {0, 2, 8}
  Exceptions = {0, 13, 14}
  Calls = {1}
  Limits <- ClockLimits
  Byte = 2
  Days = 1
  Half = 4
  Delays = {0, 1, 3}
  PIT_DIVISOR = 1193182
  Frequencies = {19, 100, 1000, 5000}
  Threads = {k, l, m}
  Owner <- ThreadOwner
  Objects = {"p0", "p1"}
  Kernel = "p0"
  MAX_PROCS = 2
  MaxPid = 2
  Codes = {1}
SYMMETRY ThreadSymmetry
INVARIANTS
  SlabsListed
  ObjectsConserved
  TableIsFunction
  ResolveExact
  RegistersKept
  NothingInService
  ContextExact
  SyscallArguments
  FieldsExact
  ReadNotBehind
  DeadlineExact
  ScreenShowsTail
  MessagesWhole
  CallsExact
  CollectedExited
  BootOrdered
CHECK_DEADLOCK FALSE
