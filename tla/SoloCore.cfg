SPECIFICATION Spec
CONSTANTS
  Slot = {s1, s2}
  Pano = {q1, q2}
  Nil = Nil
  Asked = 3
  Scores = {0, 5000}
  MaxXp = 10
  Faults = {"set", "db", "crash", "expire", "panoDelete"}
SYMMETRY Symmetry
INVARIANTS
  TypeOK
  SessionCoherent
  TotalWithinReach
  RoundsRecorded
CHECK_DEADLOCK FALSE
