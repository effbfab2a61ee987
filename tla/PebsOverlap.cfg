\* Calls at any time, and room in NVM for two demotions in a row.
SPECIFICATION Spec
CONSTANTS
  DramFrames = {d1}
  NvmFrames = {n1, n2, n3}
  Vas = {v1, v2, v3}
  Sampled = {v2}
  Apps = {a1}
  NULL = NULL
  HotReqs = 2
  ColdReqs = 1
  MigrateRate = 2
  CoolingPages = 2
  MaxCalls = 4
  Overlap = TRUE
INVARIANTS OneRequest OneOwner
PROPERTIES LostOnlyAfterTwoTries
CONSTRAINT FewMapped
SYMMETRY Symmetry
