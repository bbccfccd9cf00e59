CONSTANTS
  method = method
  class = class
  packages = packages
  fresh = fresh
  body = body
  first = first
  second = second
  None = None
  Units <- MCUnits
  Fields = {body}
  EntryPoints = {first, second}
  Scan <- MCScan
  PackageRoot = packages
  Order <- InOrder
  Overloads <- OneEach
  SymbolOf <- Symbols
  ScopeOf <- Classes
  Languages = {"java"}
  MaxObjects = 11
  MaxWrites = 2
SPECIFICATION Spec
INVARIANT
  MembersResolve
CHECK_DEADLOCK FALSE
