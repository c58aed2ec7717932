\* What the code does not keep to: StrongDefinitionWins.
SPECIFICATION LinkerSpec
CONSTANTS
  Links <- LinkJobs
  Page <- LkPage
  MinAlign <- LkMinAlign
  Span <- LkSpan
INVARIANT StrongDefinitionWins
CHECK_DEADLOCK FALSE
