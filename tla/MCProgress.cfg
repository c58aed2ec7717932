\* Liveness under the fairness of the VM's loops: try frames and callbacks in
\* the scheduler, destructors that store `this' away or write to it in the heap.
SPECIFICATION EitherSpec
CONSTANTS
  MaxTask = 3
  MaxCo = 2
  MaxJoinLen = 1
  MaxTry = 1
  MaxSync = 1
  Sources = {}
  Groups = {}
  None = None
  MaxObj = 2
  MaxNative = 1
  LetsGo = {"this"}
PROPERTIES
  WokenRuns
  DelaysFire
  FinalizersRun
CHECK_DEADLOCK FALSE
