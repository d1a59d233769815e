SPECIFICATION Spec
CONSTANTS
  SegSize = 2
  Key <- MCKey
  Doc = {1, 2}
  Tries <- MCTries
INVARIANTS
  InOrder
PROPERTIES
  Complete
CHECK_DEADLOCK FALSE
