SPECIFICATION Spec
CONSTANTS
  Worker = {w1}
  Admin = {a1}
  Tile = {t1}
  Nil = Nil
  MaxRetries = 1
  MaxAsked = 1
  MaxLost = 0
  Faults = {}
INVARIANTS
  RejectedHasNoTiles
CHECK_DEADLOCK FALSE
