CONSTANTS
  Keys <- MCKeys
  Values = {v1}
  NoValue = NoValue
  Point = Point
  All = All
  Watchers = {}
  MaxLease = 0
  MaxRevision = 4
  MaxLog = 3
  AutoCompaction = TRUE
  RetentionRevCount = 0
  CompactBatch = 50
  SubmitMayFail = TRUE
SPECIFICATION Spec
PROPERTY
  AtomicKvRefined
