SPECIFICATION Spec
CONSTANTS
  MaxObj = 2
  MaxNative = 0
  Tasks = {t1,t2,t3}
  LetsGo = {"joined"}
PROPERTIES
  NothingLiveSwept
CHECK_DEADLOCK FALSE
