SPECIFICATION BootSpec
CONSTANTS
  Msgs = {10}
  UserHandles = {2}
  MaxId = 4
PROPERTIES
  ReleasedThreadLives
CHECK_DEADLOCK FALSE
