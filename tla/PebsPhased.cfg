\* Calls of mmap and munmap while the policy thread sleeps.
SPECIFICATION Spec
CONSTANTS
  DramFrames = {d1}
  NvmFrames = {n1, n2, n3}
  Vas = {v1, v2, v3}
  Sampled = {v2, v3}
  Apps = {a1}
  NULL = NULL
  HotReqs = 2
  ColdReqs = 1
  MigrateRate = 1
  CoolingPages = 1
  MaxCalls = 4
  Overlap = FALSE
INVARIANTS AssertionsHold TrackedPageIsMapped NoSharedFrame ListsMatchFlags CursorsOnHotLists
PROPERTIES RemapOnlyTracked
SYMMETRY Symmetry
CONSTRAINT ColdMapped
