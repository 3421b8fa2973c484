SPECIFICATION Spec
CONSTANTS
  Guvs <- MCGuvs
  MsgWin = "msg"
  Dummies <- OneDummy
  MaxChildren = 3
  MaxNodes = 8
VIEW View
INVARIANT
  NoStaleWindow
CHECK_DEADLOCK FALSE
