CONSTANTS
  a = a
  b = b
  c = c
  None = None
  Op <- MCOp
  MaxCancels = 1
SPECIFICATION Spec
CHECK_DEADLOCK FALSE
INVARIANTS
  TypeOK
  NeverWedged
  ConcurrencyBounded
  CurrentIsLive
PROPERTIES
  EveryOperationSettles
