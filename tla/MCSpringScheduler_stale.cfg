CONSTANTS
  Implementations = 2
  MaxStep = 1
  Overloads <- OneAndTwo
  ScanBudgetMs = 12
  FinalizationReserveMs = 2
  ExitReserveMs = 1
  EntryPointTimeoutMs = 5
  EntryPointTimeoutQuickMs = 3
SPECIFICATION Spec
INVARIANTS
  NoFalseTimeout
CHECK_DEADLOCK FALSE
