CONSTANTS
  Player = {p1, p2}
  Monster = {m1}
  Agent = {a1}
  Pos <- MCEdge
  AOI_RADIS = 800
  CaoiRadius = 40
  MaxCommands = 4
  Nil = Nil
SPECIFICATION SFairSpec
INVARIANTS EngineInSync
PROPERTIES ImplementsAoi EventuallyFreed
