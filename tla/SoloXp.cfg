SPECIFICATION Spec
CONSTANTS
  Slot = {s1, s2}
  Pano = {q1, q2}
  Nil = Nil
  Asked = 2
  Scores = {0, 700, 5000}
  MaxXp = 100
  Faults = {}
SYMMETRY Symmetry
INVARIANTS
  XpFollowsTotal
CHECK_DEADLOCK FALSE
