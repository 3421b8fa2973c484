SPECIFICATION Spec
CONSTANTS
  W = 2
  Size = 4
  FileLen = 5
  Queue = 3
  Line <- Everything
  Opens = 1
  Latches = 1
  Timers = 2
VIEW Control
INVARIANTS
  ReadEvArmed
PROPERTIES
  ErrorSticks
CHECK_DEADLOCK FALSE
