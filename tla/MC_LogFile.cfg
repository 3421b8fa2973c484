SPECIFICATION FairSpec
CONSTANTS
  Size = 9
  W = 3
  Logs <- MCLogs
  Blank <- MCBlank
  Most = 5
  Opens = 2
INVARIANTS
  TypeOK
  SavedCount
  Awake
PROPERTIES
  ImplementsFifo
  Drains
CHECK_DEADLOCK FALSE
