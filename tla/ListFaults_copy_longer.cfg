CONSTANTS
  Obj = {l, p}
  Node = {n1, n2, n3}
  Value = {1, 2}
  Null = Null
  Raw = Raw
  Bins = 2
  MaxInsert = 2
  MaxSize = 4
SPECIFICATION Spec
INVARIANT CopyNeverOutgrows
