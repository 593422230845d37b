SPECIFICATION Spec
CONSTANTS
  x1 = x1
  x2 = x2
  x3 = x3
  NoEntry = NoEntry
  Players = {1, 2}
  Requests = {x1, x2}
  By <- MCBy
  Wishes <- MCWishes
  Rating <- MCRating
  REGIONS <- MCRegions
  Scanners = {m1, m2}
  EloInitial = 1
  EloExpansion = 1
  EloMax = 2
  TTL = 2
  MaxTime = 2
  MaxFailures = 0
INVARIANTS
  OneRoomPerTicket
