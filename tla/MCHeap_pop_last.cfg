CONSTANTS
  Value <- MCValue
  Below <- MCBelow
  Raw = Raw
  MaxSize = 4
SPECIFICATION Spec
INVARIANT StaysInRange
