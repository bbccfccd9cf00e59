CONSTANTS
  Calls = 3
  ShortWrites = FALSE
  MaxFindings = 2
  MaxFailures = 3
  MaxCrashes = 2
SPECIFICATION Spec
INVARIANTS
  TypeOK
  StatusIsTrue
  SkipsOnlyWhenSettled
  CleansUp
PROPERTIES
  Atomicity
CHECK_DEADLOCK FALSE
