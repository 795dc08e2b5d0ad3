CONSTANTS
  Obj = {p, q}
  Value = {a}
  Default = a
  Raw = Raw
  Moved = Moved
  SelfMoveKeeps = TRUE
  MaxCells = 4
  MaxInsert = 2
  MaxLost = 1
SYMMETRY Symmetry
SPECIFICATION Spec
INVARIANTS TypeOK WindowHoldsElements CallsMeetTheirContracts ThrowsKeepTheSequence
PROPERTIES FaultsAreKnown StraysAreKnown LossesAreKnown OnlyConstructorsLose ImplementsContainer
CHECK_DEADLOCK FALSE
