CONSTANTS
  Obj = {q}
  Value = {a, b}
  Default = a
  NodeNum = 2
  Null = Null
  Raw = Raw
  Moved = Moved
  SelfMoveKeeps = TRUE
  MaxSize = 5
  MaxInsert = 3
  MaxLeak = 2
SYMMETRY Symmetry
SPECIFICATION Spec
INVARIANTS TypeOK NoFault WindowHoldsElements OwnsItsWindow StrayStorageIsLeaked CallsMeetTheirContracts ThrowsThatBreak OwnElementsAreReadLate
PROPERTIES LeaksOnlyInFront
