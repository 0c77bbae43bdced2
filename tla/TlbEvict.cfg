SPECIFICATION HSpec
CONSTANTS
  sets <- MCSets
  assoc <- MCAssoc
  LineSize = 2
  PageSize = 4
  AsidUnit = 8
  Access <- MCAccess
  Asid = {1}
  AccessType = {"DATA"}
  MaxAccesses = 5
PROPERTY ReturnsEvicted
CHECK_DEADLOCK FALSE
