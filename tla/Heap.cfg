SPECIFICATION KernelHeapSpec
CONSTANTS
  HeapSize = 12
  Layouts <- MCLayouts
  BLOCK_SIZES <- MCBlockSizes
  o1 = o1
  o2 = o2
  o3 = o3
  Owners <- MCOwners
SYMMETRY Symmetry
INVARIANTS
  NodesOutsideLive
  NothingLost
PROPERTIES
  FulfilsContract
CHECK_DEADLOCK FALSE
