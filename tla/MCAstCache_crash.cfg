CONSTANTS
  Files = {f, g}
  Texts = {one, two, bad}
  Parses = {one, two}
  None = None
SPECIFICATION Spec
INVARIANTS
  TypeOK
  HitsAreExact
  UsableNextTime
SYMMETRY Symmetric
CHECK_DEADLOCK FALSE
