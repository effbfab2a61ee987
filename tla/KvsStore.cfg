SPECIFICATION Spec
CONSTANTS
  NWorkers = 2
  SmallKeys = {k1}
  BigKeys = {k2}
  Traffic <- MCTraffic
  k1 = k1
  k2 = k2
  NULL = NULL
  SmallSize = 2
  BigSize = 3
  HeaderSize = 2
  KeyWidth = 1
  SegSize = 4
  NSegs = 5
  CqSize = 1
  CleanMin = 2
  CleanMax = 1
  BucketItems = 1
  MaxReqs = 4
INVARIANTS RefcountExact SegmentsAccounted
PROPERTIES ImplementsMap SegmentFreed
CHECK_DEADLOCK FALSE
