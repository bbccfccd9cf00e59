SPECIFICATION Spec
CONSTANTS
  Functions <- MCFunctions
  LastLine = 5
  BaseEps <- MCBaseEps
  Owner <- MCOwner
  Reach <- MCReach
  Recorded <- MCRecorded
  Sinks <- MCSinks
  Runs = {"r1", "r2"}
  Baseline = "base"
  EpOnly = {}
  Edits <- MCDeletion
  MaxStarts <- MCMaxStarts
  MaxCrashes = 1
INVARIANT
  ResolvedAreGone
CHECK_DEADLOCK FALSE
