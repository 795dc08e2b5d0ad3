CONSTANTS
  Obj = {l, p}
  Node = {n1, n2, n3, n4}
  Value = {1, 2}
  Null = Null
  Raw = Raw
  Bins = 3
  MaxInsert = 2
  MaxSize = 4
SYMMETRY Symmetry
SPECIFICATION Spec
INVARIANTS TypeOK NoFault Linked NodesOwned SizeIsLength
PROPERTIES OnlyConstructorsLose KeepsPromises
