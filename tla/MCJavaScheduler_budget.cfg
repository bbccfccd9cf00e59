CONSTANTS
  Implementations = 2
  MaxStep = 2
  Overloads <- OneAndTwo
  ScanBudgetMs = 14
  FinalizationReserveMs = 2
  ExitReserveMs = 1
  EntryPointTimeoutMs = 5
  EntryPointTimeoutQuickMs = 4
SPECIFICATION FairSpec
INVARIANTS
  TypeOK
  NoFalseTimeout
  NothingIsForgotten
  RerunsGetTheirShare
  FairShare
PROPERTIES
  Terminates
CHECK_DEADLOCK FALSE
