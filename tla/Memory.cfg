SPECIFICATION Spec
CONSTANTS
  Usable <- MCUsable
  Limit = 60
  Clients = {"kernel", "process"}
  Slots = 10
  KernelFrames = {2, 9, 15, 22, 35, 37, 39, 40, 43, 44, 46, 47, 48, 49, 51}
  KernelTables = 2
  HeapTables <- MCHeapTables
  StackTables = 1
  Binaries <- MCBinaries
  CodePages = {1, 2}
  TotalMemory = 60
  W = 256
INVARIANTS
  TypeOK
  NoDoubleAllocation
  UsedIffHeld
  LiveStacksMapped
  StacksDisjoint
  PanicsOnlyAfterNoFrame
  HeldReachable
  EverythingReturned
  TablesNotMapped
  LoggerConsistent
PROPERTIES
  FramesImplemented
  StacksImplemented
CHECK_DEADLOCK FALSE
