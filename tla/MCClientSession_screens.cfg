SPECIFICATION Spec
CONSTANTS
  Clients = {"a", "b"}
  Rooms = {1}
  NConns = 2
  Packs <- MCPacks
  Presses <- MCPresses
  Before <- MCBefore
  Stale = 2
  MayFail = TRUE
INVARIANTS
  NoSocketLost
  SameFight
  TrueResult
  NoLoadoutTooEarly
PROPERTIES
  FightEnds
CONSTRAINT
  Bound
CHECK_DEADLOCK FALSE
