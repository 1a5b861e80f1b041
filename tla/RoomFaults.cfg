SPECIFICATION Spec
CONSTANTS
  User = {u1, u2}
  Slot = {s1, s2}
  Token = {t1}
  Pano = {q1}
  Nil = Nil
  MaxPlayers = 2
  Rounds = 2
  MaxMatches = 1
  GuessColumns <- MigratedColumns
  Faults = {"set", "crash", "expire", "panoDelete"}
SYMMETRY Symmetry
INVARIANTS
  RoomCoherent
CHECK_DEADLOCK FALSE
