SPECIFICATION Spec
CONSTANTS
  c1 = c1
  c2 = c2
  c3 = c3
  r1 = r1
  r2 = r2
  p = p
  q = q
  NoConn = NoConn
  NoRoom = NoRoom
  Players = {p, q}
  Owner <- MCOwner
  StartFrame <- MCStartFrame
  Rooms = {r1, r2}
  Ids = {a}
  Conns = {c1, c2, c3}
  Inputs <- MCInputs
  Loadouts = {1}
  SeqLimit = 2
  MaxInputs <- MCMaxInputs
  MaxTraffic = 3
  MaxRooms = 2
  MayCrash = TRUE
INVARIANTS
  FaithfulRelay
  ProtocolOrder
  VerdictSound
  LogComplete
  RegistrySound
  OneSeat
PROPERTIES
  ImplementsDuel
  StayerHearsResult
CONSTRAINT Bound
CHECK_DEADLOCK FALSE
