SPECIFICATION FairSpec
CONSTANTS
  W = 2
  BufSize = 6
  Kinds <- Several
  MaxPackets = 3
INVARIANTS
  KeepsOneLog
  RoomForWord
  DispatchInOrder
PROPERTIES
  AllDispatched
CHECK_DEADLOCK FALSE
