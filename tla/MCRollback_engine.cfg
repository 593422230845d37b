SPECIFICATION Spec
CONSTANTS
  Neutral = 0
  Inputs = {0, 1}
  RING = 2
  MaxFrame = 3
  MaxMatches = 2
INVARIANTS
  ExactWhileNeutral
  DivergeEarliest
CHECK_DEADLOCK FALSE
