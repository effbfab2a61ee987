SPECIFICATION MCSpec
CONSTANTS
  Conns = {c1, c2}
  Scripts <- MCScripts
  c1 = c1
  c2 = c2
  NULL = NULL
  MaxMsg = 8
  Width = 6
  OutCap = 1
  Window = 7
  RxCap = 4
  TxCap = 2
  MaxConns = 2
INVARIANTS UnrefHasReference
CHECK_DEADLOCK FALSE
