SPECIFICATION FaultSpec
CONSTANTS
  Msgs = {10}
  UserHandles = {0}
  MaxId = 4
PROPERTIES
  FaultingThreadLeaves
CHECK_DEADLOCK FALSE
