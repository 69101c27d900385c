SPECIFICATION Spec
CONSTANTS
  r1 = r1  r2 = r2
  Requests <- TwoRequests
  MaxPanics = 1
CHECK_DEADLOCK FALSE
INVARIANTS
  PanicsSurvived
