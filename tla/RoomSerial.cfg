SPECIFICATION SerialSpec
CONSTANTS
  User = {u1, u2, u3}
  Slot = {s1}
  Token = {t1, t2, t3}
  Pano = {q1, q2}
  Nil = Nil
  MaxPlayers = 2
  Rounds = 3
  MaxMatches = 2
  GuessColumns <- MigratedColumns
  Faults = {"expire"}
INVARIANTS
  OpenRoundIsDriven
  OneMatch
PROPERTIES
  NoDoubleAdvance
  RemovedByLeaveOnly
  RoundEventuallyCloses
  PlaysLifecycle
CHECK_DEADLOCK FALSE
