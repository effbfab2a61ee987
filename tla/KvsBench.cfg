\* Two threads and three keys.
SPECIFICATION BenchSpec
CONSTANTS
  NWorkers = 2
  SmallKeys = {k1, k2}
  BigKeys = {k3}
  Traffic = {}
  k1 = k1
  k2 = k2
  k3 = k3
  NULL = NULL
  KeySeq <- MCKeySeq
  Cdf <- MCCdf
  Draws = {20, 50, 90}
  SmallSize = 2
  BigSize = 3
  HeaderSize = 2
  KeyWidth = 1
  SegSize = 4
  NSegs = 5
  CqSize = 2
  CleanMin = 2
  CleanMax = 1
  BucketItems = 2
  MaxReqs = 3
INVARIANTS BenchRefcounts LoadedBeforeRun
PROPERTIES BenchEnds
CHECK_DEADLOCK FALSE
