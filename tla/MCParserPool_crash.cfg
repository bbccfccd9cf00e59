CONSTANTS
  Files <- FourFiles
  MaxWorkers = 3
  MAX_CONSECUTIVE_FAILURES = 3
  OOM_LIMIT = 2
  AnswerKinds <- JustAst
  MaxProcs = 8
  MaxCrashes = 2
  MaxForkFailures = 1
  IdleCrash = TRUE
SPECIFICATION FairSpec
INVARIANTS
  TypeOK
  NeverStuck
  TaskAccounting
  OneToOne
  PendingIsServed
  TerminateKillsAll
PROPERTIES
  JobSafety
  SettlesUnlessQueuedAfterDeath
CHECK_DEADLOCK FALSE
