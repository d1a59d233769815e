SPECIFICATION QuerySpec
CONSTANTS
  MaxByte = 15
  Infinity = 5
  CanonicalNaN = 6
  FieldCount = 2
  FieldValue <- MCFieldValue
  StoredValue <- MCStoredValue
  Expr <- MCExpr
  Collections <- MCCollections
  Limit = {0, 1, 3}
  MaxParts = 3
INVARIANTS
  RangeIsExact
  KeysOrderEntries
  FiltersAreExact
  TerminalsTellAll
CHECK_DEADLOCK FALSE
