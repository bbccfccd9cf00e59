CONSTANTS
  Files <- ThreeFiles
  MaxWorkers = 2
  MAX_CONSECUTIVE_FAILURES = 3
  OOM_LIMIT = 2
  AnswerKinds <- JustAst
  MaxProcs = 4
  MaxCrashes = 1
  MaxForkFailures = 0
  IdleCrash = FALSE
SPECIFICATION FairSpec
PROPERTIES
  EveryFileSettles
CHECK_DEADLOCK FALSE
