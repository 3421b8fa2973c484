SPECIFICATION Spec
CONSTANTS
  MaxParams = 3
  NLines = 3
  Windows <- MCWindows
  Chars <- MCChars
  AnsiSize = 7
  MaxLines = 4
  MaxKept = 2
INVARIANTS MeansWhatWasTyped EachOnce ShowsNewest
CHECK_DEADLOCK FALSE
