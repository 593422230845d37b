SPECIFICATION Spec
CONSTANTS
  Players = {"a", "b", "c"}
  Matches = {1, 2, 3}
  Names <- MCNames
  Start <- MCStart
  Workers = {w1}
  KNew = 32
  KEstablished = 16
  NewPlayerThreshold = 30
  Floor = 100
  SCALE = 1000
  Expected <- MCExpected
  Nobody = 0
  MayFail = TRUE
  MaxDeaths = 1
INVARIANTS
  WinnerGains
  GamesAddUp
  CountedOnce
PROPERTIES
  RatingMovesByDelta
CHECK_DEADLOCK FALSE
