\* Calls at any time: every freed page is reclaimed or the process stops.
SPECIFICATION FairSpec
CONSTANTS
  DramFrames = {d1}
  NvmFrames = {n1}
  Vas = {v1}
  Sampled = {v1}
  Apps = {a1}
  NULL = NULL
  HotReqs = 2
  ColdReqs = 1
  MigrateRate = 2
  CoolingPages = 2
  MaxCalls = 4
  Overlap = TRUE
PROPERTIES FreedEventually
