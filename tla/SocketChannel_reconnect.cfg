CONSTANTS
  Co = {c1, c2}
  D = D
  Close = Close
  Failed = Failed
  Nil = Nil
  MaxConn = 3
  MaxRequest = 3
  MaxPart = 0
SPECIFICATION FairSpec
CHECK_DEADLOCK FALSE

PROPERTIES RequestEnds
