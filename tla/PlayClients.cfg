SPECIFICATION PlaySpec
CONSTANTS
  Me = Me
  Other = {o1}
  Nil = Nil
  MatchRounds = 2
  MaxRooms = 1
  MaxWire = 2
  MaxShown = 2
  MatchFaults = {"reload", "drop", "fail"}
  SoloRounds = 3
  Limit = 3
  NoAnswer = NoAnswer
  SoloFaults = {"reload", "lose", "throttle"}
INVARIANTS
  PlayTypeOK
  GameInStep
  PlayersShown
  LockedByGuess
  SoloInStep
  ClockNotExtended
PROPERTIES
  NobodyIsStuck
  LeftAloneIsSubmitted
CHECK_DEADLOCK FALSE
