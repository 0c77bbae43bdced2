SPECIFICATION HSpec
CONSTANTS
  sets <- MCSets
  assoc <- MCAssoc
  LineSize = 2
  PageSize = 4
  AsidUnit = 8
  Access <- MCAccess
  Asid = {1, 2}
  AccessType = {"DATA"}
  MaxAccesses = 4
INVARIANTS
  TypeOK
  SetsDistinct
  StatsNested
  IsLRU
CHECK_DEADLOCK FALSE
