SPECIFICATION FairSpec
CONSTANTS
  NULL = NULL
  Clients = {c1, c2}
  Vnodes = {1, 2, 3}
  Filesystems = {f1, f2}
  Nodeids = {1, 2}
  Root = 1
  Paths = {p1}
  RootFs = f1
  RootPath = p1
  Names = {n1}
  MaxCalls = 4
INVARIANTS
  RefsAccounted
  PurgeComplete
  MountTableLive
PROPERTY
  UnreferencedFreed
CHECK_DEADLOCK FALSE
