SPECIFICATION DSpec
CONSTANTS
  NULL = NULL
  Invocation = {a, b}
  a = a
  b = b
  Second = {1, 2}
  Sizes <- MCSizes
INVARIANTS
  SeparateDirs
  OwnTrace
  LogComplete
PROPERTY DriverEnds
