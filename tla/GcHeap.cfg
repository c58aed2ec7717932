\* Programs that keep what native functions, awaits and joins work on.
SPECIFICATION Spec
CONSTANTS
  MaxObj = 2
  MaxNative = 1
  Tasks = {t1,t2,t3}
  LetsGo = {}
SYMMETRY Symmetry
CONSTRAINT Focus
INVARIANTS
  TypeOK
  LiveIsTracked
  FinalizedOnce
PROPERTIES
  NothingLiveSwept
CHECK_DEADLOCK FALSE
