SPECIFICATION Spec
CONSTANTS
  Msgs = {10}
  UserHandles = {0, 1}
  MaxId = 8
INVARIANTS
  TypeOK
  EveryThreadHeldOnce
  LaunchNeverNull
  OwnInterruptStack
  OwnAddressSpace
  ResultIffReleased
PROPERTIES
  AcceptedMessageDelivered
  ReplyOnlyFromPeer
  WokenThreadRunsNext
