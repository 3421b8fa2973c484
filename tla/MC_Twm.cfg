SPECIFICATION Spec
CONSTANTS
  Guvs <- MCGuvs
  MsgWin = "msg"
  Dummies <- OneDummy
  MaxChildren = 3
  MaxNodes = 8
VIEW View
CONSTRAINT Intact
INVARIANTS
  TreeShape
  OnlyChildIsLeaf
  FocusIffWindows
  NoTwins
PROPERTIES
  MovesKeepWindows
  CloseIsExact
CHECK_DEADLOCK FALSE
