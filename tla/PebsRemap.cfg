\* A page is migrated between its munmap and its release.
SPECIFICATION Spec
CONSTANTS
  DramFrames = {d1}
  NvmFrames = {n1, n2}
  Vas = {v1, v2}
  Sampled = {v1, v2}
  Apps = {a1}
  NULL = NULL
  HotReqs = 2
  ColdReqs = 1
  MigrateRate = 2
  CoolingPages = 2
  MaxCalls = 3
  Overlap = TRUE
INVARIANTS TrackedPageIsMapped
SYMMETRY Symmetry
