SPECIFICATION Spec
CONSTANTS
  Fns = {main, f}
  Main = main
  MaxFrames = 5
  MaxTry = 5
  Leaves = {}
INVARIANTS
  TypeOK
  HandlersMatchProgram
  CallbacksReturnToNatives
PROPERTIES
  FrameKeepsItsCode
CHECK_DEADLOCK FALSE
