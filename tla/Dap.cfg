SPECIFICATION Spec
CONSTANTS
  Lines = {1, 2}
  Conditional = {2}
  MaxDepth = 2
  MaxReq = 2
INVARIANTS
  TypeOK
  PauseIsPending
  RunsOnlyWhenTold
PROPERTIES
  BreakpointsHold
  PatientServed
CHECK_DEADLOCK FALSE
