CONSTANTS
  Keys <- MCKeys
  Values = {v1}
  NoValue = NoValue
  Point = Point
  All = All
  Watchers = {}
  MaxLease = 1
  MaxRevision = 4
  MaxLog = 2
  AutoCompaction = TRUE
  RetentionRevCount = 1
  CompactBatch = 50
  SubmitMayFail = FALSE
SPECIFICATION Spec
INVARIANTS
  TypeOK
  GenerationsFollowDeletes
  NoDanglingRevision
  InFlightRevisionIsNewest
  RevisionEncodingRoundTrip
  CompactIndexMatchesSpec
  CompactIsIdempotent
PROPERTIES
  CompactionPreservesReads
  EventPrevIsPreviousKv
