SPECIFICATION Spec
CONSTANTS
  dsFixed = dsFixed
  dsUser = dsUser
  a = a
  b = b
  None = None
  Names <- MCNames
  Members <- MCMembers
  Fixed <- MCFixed
  Sets0 <- MCSets0
  Rcb0 = dsFixed
  MaxLate = 2
INVARIANTS TypeOK Mirrors
PROPERTIES PrepKept NodeOfReportKept
CHECK_DEADLOCK FALSE
