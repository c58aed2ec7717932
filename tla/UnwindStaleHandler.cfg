SPECIFICATION Spec
CONSTANTS
  Fns = {main, f}
  Main = main
  MaxFrames = 3
  MaxTry = 3
  Leaves = {"return"}
PROPERTIES
  UncaughtEndsTheRun
CHECK_DEADLOCK FALSE
