CONSTANTS
  method = method
  class = class
  packages = packages
  fresh = fresh
  body = body
  first = first
  second = second
  None = None
  Units <- MCUnits
  Fields = {body}
  EntryPoints = {first, second}
  Scan <- MCScan
  PackageRoot = packages
  Order <- InOrder
  Overloads <- TwoAndOne
  SymbolOf <- Symbols
  ScopeOf <- Classes
  Languages = {"java", "spring", "javascript"}
  MaxObjects = 11
  MaxWrites = 2
SPECIFICATION Spec
INVARIANTS
  TypeOK
  OriginalsArePristine
  OwnWritesOnly
  RerunReadsAfresh
PROPERTIES
  BaseGrowsByCopies
CHECK_DEADLOCK FALSE
