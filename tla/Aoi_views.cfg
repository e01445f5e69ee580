CONSTANTS
  Player = {p1, p2}
  Monster = {m1}
  Agent = {a1, a2}
  Pos <- MCPos
  AOI_RADIS = 800
  Nil = Nil
SYMMETRY Symmetry
SPECIFICATION Spec
INVARIANTS WatchedExist PlayersAgree MonstersAgree NoGhostPlayers
