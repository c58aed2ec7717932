\* Every part of the tool chain, each through its own inputs.
SPECIFICATION Spec
CONSTANTS
  Trees <- ImTrees
  Dirs <- ImDirs
  Faults <- ImFaults
  Exact <- ImExact
  WithRt <- ImWithRt
  Main <- ImMain
  Root = "src"
  PkgRoot = "pkg"
  Join <- ImJoin
  Earlier <- ImEarlier
  StdlibEnabled = TRUE
  Links <- LinkJobs
  Page <- LkPage
  MinAlign <- LkMinAlign
  Span <- LkSpan
  Procs = {1, 2}
  Configs <- PkConfigs
  Versions <- PkVersions
  Shelved <- PkShelved
  MaxCommands = 2
  Coroutines = {1, 2}
  MaxMessages = 3
  MaxUpdates = 3
  MaxDepth = 1
INVARIANTS
  MergedOnceInOrder
  InstancesClosed
  ContributionsKept
  LinkedAsWritten
  PackagesTellTheTruth
  ChannelDelivers
  UpdatesAddUp
PROPERTIES
  ParsedAsWritten
  AcceptedKeepsTypes
  DeclarationsHold
  CompiledAsWritten
  OptimizedAsWritten
CHECK_DEADLOCK FALSE
