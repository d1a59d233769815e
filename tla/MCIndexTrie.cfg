SPECIFICATION Spec
CONSTANTS
  Byte = {0, 1}
  Key <- MCKey
  Doc = {1, 2}
  SegSize = 2
  MaxChain = 6
INVARIANTS
  TypeOK
  NothingDetached
  IsTree
  NoDeadEdges
PROPERTIES
  WritesAreExact
  ImplementsOrderedIndex
