\* One DRAM frame, two NVM frames, and more addresses than frames.
SPECIFICATION MCSpec
CONSTANTS
  DramFrames = {d1}
  NvmFrames = {n1, n2}
  Vas = {v1, v2, v3, v4}
  Apps = {a1}
  NULL = NULL
  MaxCalls = 4
  MigrateRate = 1
SYMMETRY Symmetry
INVARIANTS NoPageLost OomIsFull RecursionOnlyAfterDemotion NoSharedFrame
