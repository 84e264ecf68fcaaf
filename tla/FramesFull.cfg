SPECIFICATION FramesSpec
CONSTANTS
  Usable <- MCUsable
  Limit = 8
  Clients = {c1}
INVARIANTS
  FailsOnlyWhenFull
CHECK_DEADLOCK FALSE
