CONSTANTS
  Calls = {f, g}
  ImportNests = TRUE
  MaxDepth = 4
  MaxEffects = 1
  MaxHits = 1
  MaxStages = 2
  MaxThrows = 2
SPECIFICATION Spec
INVARIANTS
  TypeOK
  SummariesAreClean
  StagesAreSeparate
SYMMETRY Symmetric
CHECK_DEADLOCK FALSE
