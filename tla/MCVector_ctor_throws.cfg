CONSTANTS
  Obj = {p}
  Value = {a}
  Default = a
  Raw = Raw
  Moved = Moved
  SelfMoveKeeps = TRUE
  MaxCells = 2
  MaxInsert = 1
  MaxLost = 1
SPECIFICATION Spec
INVARIANTS BuffersAreHeld
CHECK_DEADLOCK FALSE
