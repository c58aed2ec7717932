SPECIFICATION Spec
CONSTANTS
  Lines = {1}
  Conditional = {}
  MaxDepth = 1
  MaxReq = 1
PROPERTIES
  PauseStops
CHECK_DEADLOCK FALSE
