SPECIFICATION Spec
CONSTANTS
  d1 = d1
  d2 = d2
  v1 = v1
  Object = {}
  KindOf <- MCKindOf
  Document = {d1, d2}
  Value = {v1}
  Tombstone = Tombstone
  Absent = Absent
  MaxTs = 2
  MaxId = 0
  Batch <- MCBatch
  Reader = {}
  LateFailure = TRUE
  Disciplined = TRUE
PROPERTIES
  AppendOnly
