SPECIFICATION FairBootSpec
CONSTANTS
  Msgs = {10}
  UserHandles = {0, 2, 5}
  MaxId = 6
INVARIANTS
  SafeWhileBooting
  BootTableRestored
  HandOver
  StopsOnlyInHandOver
PROPERTIES
  NoStarvation
CHECK_DEADLOCK FALSE
