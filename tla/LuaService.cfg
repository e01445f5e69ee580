CONSTANTS
  Co = {c1, c2, c3}
  Session = {1, 2, 3}
  Service = {v1}
  Nil = Nil
  Break = Break
  Noop = Noop
SPECIFICATION FairSpec
INVARIANTS SessionsMatch Drained Exclusive
PROPERTIES QueueServed
