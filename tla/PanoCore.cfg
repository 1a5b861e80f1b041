SPECIFICATION FairSpec
CONSTANTS
  Worker = {w1, w2}
  Admin = {a1}
  Tile = {t1}
  Nil = Nil
  MaxRetries = 1
  MaxAsked = 1
  MaxLost = 1
  Faults = {"remove", "task", "abort"}
INVARIANTS
  TypeOK
  TiledIsComplete
  RemovalIsComplete
  NoStuckStatus
PROPERTIES
  TasksEnd
CHECK_DEADLOCK FALSE
