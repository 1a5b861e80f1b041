SPECIFICATION DeskSpec
CONSTANTS
  p1 = p1
  p2 = p2
  a1 = a1
  PlayerTab = {p1, p2}
  AdminTab = {a1}
  Burst = 2
  Browsers <- TwoTabs
  Visit = {v1, v2}
  MaxRetries = 3
  f1 = f1
  f2 = f2
  File = {f1, f2}
  Picks <- OneOrBoth
  NoFile = NoFile
  MaxTries = 1
  Pano = {q1}
  MaxFloors = 2
  MaxChanges = 3
  None = None
  Item = {i1, i2}
  MaxSent = 2
  Nobody = Nobody
  MaxUsers = 2
  Matching = {1}
  PerPage = 1
  MaxLoads = 3
  Starts <- OneAndLater
  Nothing = Nothing
INVARIANTS
  DeskTypeOK
  SessionFollowsUser
  UsedMeansVerified
  UploadInStep
  PagesInStep
PROPERTIES
  DeskSettles
CHECK_DEADLOCK FALSE
