\* Scheduling, joins, callbacks and try frames with one source and one group.
SPECIFICATION Spec
CONSTANTS
  MaxTask = 3
  MaxCo = 2
  MaxJoinLen = 2
  MaxTry = 1
  MaxSync = 1
  Sources = {s1}
  Groups = {g1}
  None = None
CONSTRAINT Focus
INVARIANTS
  TypeOK
  NoLostWakeup
  NoSpuriousWakeup
  PendingHasSettler
  JoinsPolled
  JoinsFaithful
  CancelReachesScope
  EndedMeansSettled
  CallbackOnTop
PROPERTIES
  SettledOnce
  ResumeAfterSettled
  AsyncSpec
