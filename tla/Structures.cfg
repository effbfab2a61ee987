\* The rings (three pages in four slots, put and get overlap; four pages in
\* three slots), the page lists, the page table and the copy threads, each alone.
SPECIFICATION MCSpec
CONSTANTS
  Pages = {p1, p2, p3}
  p4 = p4
  NULL = NULL
  Capacity = 4
  Concurrent = TRUE
  ListPages = {q1, q2, q3, q4}
  Lists = {l1, l2}
  NoPage = NoPage
  Nodes = {n1, n2, n3, n4}
  Addrs = {a1, a2, a3, a4, a5}
  a1 = a1
  a2 = a2
  a3 = a3
  a4 = a4
  a5 = a5
  HashOf <- MCHashOf
  NoNode = NoNode
  InitialLog2 = 0
  BktCapacity = 1
  MaxLog2 = 4
  CopyThreads = {t1, t2, t3}
  Callers = {policy, app}
  Nobody = Nobody
INVARIANTS TypeOK GetIsStable NoRequestLost WellLinked FindsTracked CopyComplete
PROPERTIES ImplementsFifo FullRingIsFifo RequestReturned ImplementsLists
