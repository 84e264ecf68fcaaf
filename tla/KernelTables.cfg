SPECIFICATION Spec
CONSTANTS
  Msgs = {10}
  UserHandles = {0}
  MaxId = 4
INVARIANTS
  ActiveTableLive
