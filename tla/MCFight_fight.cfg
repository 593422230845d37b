SPECIFICATION Spec
CONSTANTS
  Left = 0
  Right = 11
  Start <- MCStart
  Gravity = 1
  Forth = 1
  Back = 1
  JumpVx <- MCJumpVx
  JumpVy <- MCJumpVy
  Body = 8
  HurtHalf = 4
  HurtHeight = 5
  Moves <- MCMoves
  FullHealth = 10
  Frost = 2
  Fire = 120
  Loadouts <- MCLoadouts
  Inputs <- MCInputs
  RoundTicks = 8
  RoundsToWin = 2
  Speed = 1
INVARIANTS
  SidesKept
  BoxInWindow
  KoEndsRound
PROPERTIES
  WinnerNotBehind
CHECK_DEADLOCK FALSE
