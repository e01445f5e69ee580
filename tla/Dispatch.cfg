CONSTANTS
  w1 = w1
  w2 = w2
  io = io
  h1 = h1
  h2 = h2
  Worker = {w1, w2}
  Outside = {io}
  Handle = {h1, h2}
  Boot <- MCBoot
  Weight <- MCWeight
  MaxSend = 2
  Nil = Nil
SPECIFICATION FairSpec
INVARIANTS MutualExclusion QueueInOnePlace NoUseAfterFree ExactlyOnce
PROPERTIES Delivery Reclaimed
