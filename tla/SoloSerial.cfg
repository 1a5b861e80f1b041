SPECIFICATION SerialSpec
CONSTANTS
  Slot = {s1, s2}
  Pano = {q1, q2, q3}
  Nil = Nil
  Asked = 4
  Scores = {0, 700, 5000}
  MaxXp = 100
  Faults = {}
INVARIANTS
  XpFollowsTotal
  NothingLeftBehind
PROPERTIES
  KeepsPromise
CHECK_DEADLOCK FALSE
