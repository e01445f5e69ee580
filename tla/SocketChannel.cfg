CONSTANTS
  Co = {c1, c2}
  D = D
  Close = Close
  Failed = Failed
  Nil = Nil
  MaxConn = 3
  MaxRequest = 4
  MaxPart = 1
SPECIFICATION FairSpec
CHECK_DEADLOCK FALSE
INVARIANTS Aligned SocketsShared
PROPERTIES EndsOrDead
