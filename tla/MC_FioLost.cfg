SPECIFICATION Spec
CONSTANTS
  W = 2
  Size = 4
  FileLen = 6
  Queue = 3
  Line <- Paused
  Opens = 1
  Latches = 0
  Timers = 1
INVARIANT
  InOrder
CHECK_DEADLOCK FALSE
