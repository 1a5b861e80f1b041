SPECIFICATION Spec
CONSTANTS
  User = {u1, u2}
  Slot = {s1}
  Token = {t1, t2, t3}
  Pano = {q1, q2}
  Nil = Nil
  MaxPlayers = 2
  Rounds = 2
  MaxMatches = 1
  GuessColumns <- MigratedColumns
  Faults = {}
SYMMETRY Symmetry
INVARIANTS
  ScoresSaved
CHECK_DEADLOCK FALSE
