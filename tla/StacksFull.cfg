SPECIFICATION StacksSpec
CONSTANTS
  Slots = 8
INVARIANTS
  FullOnlyIfOccupied
CHECK_DEADLOCK FALSE
