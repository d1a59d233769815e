SPECIFICATION Spec
CONSTANTS
  a = a
  b = b
  Tombstone = Tombstone
  Absent = Absent
  Value = {a, b}
  Document = {1, 2}
  MaxTs = 3
  MaxWrites = 3
  Key <- MCKey
  Histories <- MCHistories
  EntrySets <- MCEntrySets
INVARIANTS
  GetSeesCommit
  ReadsOwnWrites
