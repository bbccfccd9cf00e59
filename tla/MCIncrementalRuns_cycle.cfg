SPECIFICATION Spec
CONSTANTS
  Functions <- MCFunctions
  LastLine = 5
  BaseEps <- MCBaseEps
  Owner <- MCOwner
  Reach <- MCReach
  Recorded <- MCRecorded
  Sinks <- MCSinks
  Runs = {"r1", "r2"}
  Baseline = "base"
  EpOnly = {"r2"}
  Edits <- MCEdits
  MaxStarts <- MCMaxStarts
  MaxCrashes = 1
INVARIANTS
  TypeOK
  UnfinishedBaseIsUnknown
  PartialRunsKnowTheBase
  SuccessIsExact
  RerunIsFresh
CHECK_DEADLOCK FALSE
