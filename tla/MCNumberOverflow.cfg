CONSTANTS
  Half = 8
  Byte = 4
  NaN <- MCNaN
  Text <- MCText
  Char <- MCChar
  Types <- MCTypes
  Data <- MCData
  Depth <- MCDepth
  Nesting = 5
  Key = {"a", "b"}
  Entry <- MCEntry
  Id <- MCId
  IdTypes <- MCIdTypes
SPECIFICATION Spec
CHECK_DEADLOCK FALSE
INVARIANTS
  FloatsReportOverflow
