SPECIFICATION Spec
CONSTANTS
  MaxByte = 15
  Infinity = 5
  CanonicalNaN = 6
  FieldCount = 2
  FieldValue <- MCFieldValue
  StoredValue <- MCStoredValue
INVARIANTS
  BoundsReadAsDocumented
CHECK_DEADLOCK FALSE
