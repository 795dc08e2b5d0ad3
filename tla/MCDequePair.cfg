CONSTANTS
  Obj = {p, q}
  Value = {a, b}
  Default = a
  NodeNum = 2
  Null = Null
  Raw = Raw
  Moved = Moved
  SelfMoveKeeps = TRUE
  MaxSize = 3
  MaxInsert = 1
  MaxLeak = 0
SYMMETRY Symmetry
SPECIFICATION PairSpec
INVARIANTS NoFault OwnsItsWindow
PROPERTIES ImplementsSequence
