CONSTANTS
  Keys <- MCKeys
  Values = {v1}
  NoValue = NoValue
  Point = Point
  All = All
  Watchers = {}
  MaxLease = 0
  MaxRevision = 4
  MaxLog = 2
  AutoCompaction = FALSE
  RetentionRevCount = 1
  CompactBatch = 50
  SubmitMayFail = FALSE
SPECIFICATION Spec
INVARIANT LiveValueNonEmpty
