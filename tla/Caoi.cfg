CONSTANTS
  Id = {i1, i2}
  Pos <- MCPos
  ModeStrings <- AllModes
  Radius = 40
  MaxVersion = 3
  Nil = Nil
SYMMETRY MCSymmetry
SPECIFICATION HSpec
INVARIANTS RefCounted OneHotPair NoMissedArrival
PROPERTIES CallbackSound CallbackOnce
