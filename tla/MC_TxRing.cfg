SPECIFICATION FairSpec
CONSTANTS
  Size = 12
  W = 4
  Byte <- MCByte
  Zero <- MCZero
  Latches <- MCLatches
  Cmds <- MCCmds
  Params <- MCParams
INVARIANTS
  TypeOK
  NeverSplits
  ArmedIffPending
PROPERTIES
  ImplementsFifo
  RoomAgain
CHECK_DEADLOCK FALSE
