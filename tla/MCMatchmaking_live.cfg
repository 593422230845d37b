SPECIFICATION Spec
CONSTANTS
  x1 = x1
  x2 = x2
  x3 = x3
  NoEntry = NoEntry
  Players = {1, 2}
  Requests = {x1, x2, x3}
  By <- MCBy
  Wishes <- MCWishes
  Rating <- MCRating
  REGIONS <- MCRegions
  Scanners = {m1, m2}
  EloInitial = 1
  EloExpansion = 1
  EloMax = 2
  TTL = 2
  MaxTime = 3
  MaxFailures = 1
CONSTRAINT Bound
INVARIANTS
  OneRoomPerScanner
  PairsSound
PROPERTIES
  GhostsSwept
  EntryEnds
  RoomsAnnounced
