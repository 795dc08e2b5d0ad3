CONSTANTS
  Obj = {q}
  Value = {a, b}
  Default = a
  NodeNum = 2
  Null = Null
  Raw = Raw
  Moved = Moved
  SelfMoveKeeps = TRUE
  MaxSize = 5
  MaxInsert = 3
  MaxLeak = 1
SPECIFICATION Spec
INVARIANT OnlyTheWindowHasStorage
