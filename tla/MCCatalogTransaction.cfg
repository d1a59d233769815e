SPECIFICATION Spec
CONSTANTS
  a = a
  b = b
  t1 = t1
  t2 = t2
  Tx = {t1, t2}
  Name <- MCName
  Doc = {1}
  Metadata = {a, b}
  Empty = a
  Stores <- MCStores
  MaxWrites <- MCMaxWrites
INVARIANTS
  WritesAlwaysApply
  NothingOrphaned
  LookupSeesCommit
  CatalogReadsOwnWrites
PROPERTIES
  CommitsMeanNames
CHECK_DEADLOCK FALSE
