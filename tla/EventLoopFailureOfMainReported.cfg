SPECIFICATION Spec
CONSTANTS
  MaxTask = 2
  MaxCo = 2
  MaxJoinLen = 1
  MaxTry = 1
  MaxSync = 0
  Sources = {}
  Groups = {}
  None = None
INVARIANT FailureOfMainReported
