CONSTANTS
  Value <- MCValue
  Below <- MCBelow
  Raw = Raw
  MaxSize = 7
SPECIFICATION FairSpec
INVARIANTS TypeOK HeapOrder ReadsInRange FrontIsGreatest
PROPERTIES ImplementsQueue CallsEnd
