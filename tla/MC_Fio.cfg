SPECIFICATION FairSpec
CONSTANTS
  W = 2
  Size = 6
  FileLen = 8
  Queue = 3
  Line <- Unattended
  Opens = 1
  Latches = 0
  Timers = 1
INVARIANTS
  TypeOK
  InOrder
  DoneIsAll
  OneWaker
  RoomToRead
PROPERTIES
  TransferEnds
CHECK_DEADLOCK FALSE
