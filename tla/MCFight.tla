--------------------------------- MODULE MCFight ---------------------------------
(***************************************************************************)
(* An instance of Fight for TLC.  A unit is about 8 px across, 32 px up,   *)
(* and a tick stands for several: a jump takes 7 ticks.  The stage is a    *)
(* little wider than a body, so both walls are near; a round is long       *)
(* enough for a knock-out and short enough for the time to run out first.  *)
(***************************************************************************)
EXTENDS Fight

MCStart  == [i \in Players |-> IF i = 0 THEN 1 ELSE 9]
MCJumpVx == [i \in Players |-> 1]
MCJumpVy == [i \in Players |-> -3]

MCLoadouts == [i \in Players |-> IF i = 0 THEN {"fire", "frost"} ELSE {"none"}]

MCMoves == [m \in Punches |-> IF m = "LP"
  THEN [startup |-> 1, active |-> 2, total |-> 4, damage |-> 5, stun |-> 1,
        kx |-> 0, ky |-> 0, x |-> 0, y |-> -2, w |-> 8, h |-> 1]
  ELSE [startup |-> 2, active |-> 1, total |-> 4, damage |-> 9, stun |-> 2,
        kx |-> 1, ky |-> 0, x |-> 0, y |-> -2, w |-> 9, h |-> 1]]

MCInputs == [i \in Players |-> IF i = 0
  THEN {{}, {"right"}, {"up", "right"}, {"LP"}, {"HP"}}
  ELSE {{}, {"up", "left"}, {"LP"}}]
===============================================================================
