SPECIFICATION Spec
CONSTANTS
  Neutral = 0
  Inputs = {0, 1}
  RING = 4
  MaxFrame = 4
  MaxMatches = 1
INVARIANTS
  OwnInputsKept
CHECK_DEADLOCK FALSE
