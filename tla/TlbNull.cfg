SPECIFICATION HSpec
CONSTANTS
  sets <- MCSets
  assoc <- MCAssoc
  LineSize = 2
  PageSize = 4
  AsidUnit = 8
  Access <- MCLowAccess
  Asid = {1}
  AccessType = {"DATA"}
  MaxAccesses = 5
INVARIANT HitsWereAsked
CHECK_DEADLOCK FALSE
