\* Two pages in three frames, of two words each, and two threads that store.
SPECIFICATION FairSpec
CONSTANTS
  Pages = {g1, g2}
  DramFrames = {d1, d2}
  NvmFrames = {n1}
  Words = {1, 2}
  Values = {0, 1}
  Writers = {w1, w2}
  NULL = NULL
INVARIANTS NoLostWrite CopyIsExact ProtectedIsMigrating BlockedIsKnown FaultFindsPage
PROPERTIES WriterResumes
