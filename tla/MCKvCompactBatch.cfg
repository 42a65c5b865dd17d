CONSTANTS
  Keys <- MCKeys
  Values = {v1}
  NoValue = NoValue
  Point = Point
  All = All
  Watchers = {}
  MaxLease = 0
  MaxRevision = 4
  MaxLog = 3
  AutoCompaction = TRUE
  RetentionRevCount = 1
  CompactBatch = 1
  SubmitMayFail = FALSE
SPECIFICATION Spec
PROPERTY
  CompactionCoversAllKeys
