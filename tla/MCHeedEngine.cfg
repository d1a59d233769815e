SPECIFICATION Spec
CONSTANTS
  c1 = c1
  c2 = c2
  i1 = i1
  e1 = e1
  e2 = e2
  d1 = d1
  d2 = d2
  v1 = v1
  r1 = r1
  Object <- MCObject
  KindOf <- MCKindOf
  Document = {d1, d2}
  Value = {v1}
  Tombstone = Tombstone
  Absent = Absent
  MaxTs = 2
  MaxId = 2
  Batch <- MCBatch
  Reader = {r1}
  LateFailure = TRUE
  Disciplined = TRUE
INVARIANTS
  IdsNeverReused
  NamesKeepTheirIds
  ReaderSeesItsSnapshot
  FlushedSnapshotsSurvive
PROPERTIES
  ImplementsMvccStore
CONSTRAINT OnePart
