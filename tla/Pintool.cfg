SPECIFICATION BoundedSpec
CONSTANTS
  N_ACCESSES = 2
  LOGBUFSIZE = 30
  LineMax = 5
  linelen <- MClinelen
  Access <- MCAccess
  MaxEntries = 7
  Recorded = {"repstart", "return", "main", "cache"}
INVARIANTS
  BuffersFit
  TraceIntact
CHECK_DEADLOCK FALSE
