SPECIFICATION Spec
CONSTANTS
  Ids = {a, b, c, d}
  Conns = {f1, f2}
  NumGuvs = 2
  NoName = NoName
  NoConn = NoConn
INVARIANTS NoDangling FindsItsEntry
PROPERTY ImplementsDirectory
CHECK_DEADLOCK FALSE
