-------------------------------- MODULE MCRelay --------------------------------
(***************************************************************************)
(* The instance of RelayServer for TLC.  Players p and q; connections c1   *)
(* and c3 belong to p (c3 is p coming back, or trying twice), c2 to q.     *)
(***************************************************************************)
EXTENDS RelayRefinement, FiniteSetsExt

CONSTANTS c1, c2, c3, p, q, r1, r2

MCOwner == [c \in Conns |-> IF c \in {c1, c3} THEN p ELSE q]

\* The clients enter the fight with their frame counters one apart, so that the
\* one input of p has the frame of the second of q.
MCStartFrame == [c \in Conns |-> IF c \in {c1, c3} THEN 1 ELSE 0]

\* Player q sends three inputs, one more than the batch numbers reach.
MCMaxInputs == [c \in Conns |-> CASE c = c1 -> 1 [] c = c2 -> 3 [] OTHER -> 0]

\* A legal direction, and two directions no controller can hold.
MCInputs == {{"up"}, {"up", "down"}}

(***************************************************************************)
(* The bound of the run: one room and two connections have all the traffic *)
(* the constants allow, a second room or a third connection leaves room    *)
(* for Little, and both together for none.  Rooms are made and connections *)
(* of p opened in the order of their names.                                *)
(***************************************************************************)
Little == 2

Chatter(c) == {k \in DOMAIN out[c] : out[c][k].type \in {"LOADOUT", "PING"}}

Traffic == MapThenSumSet(LAMBDA c : clock[c] - StartFrame[c] + Cardinality(Chatter(c)), Conns)

SecondRoom == \A r \in Rooms : state[r] # "unborn"
ThirdConnection == \A c \in Conns : ws[c] # "new"

InTurn ==
  /\ state[r1] = "unborn" => state[r2] = "unborn"
  /\ ws[c1] = "new" => ws[c3] = "new"

Bound ==
  /\ InTurn
  /\ SecondRoom \/ ThirdConnection => Traffic <= Little
  /\ SecondRoom /\ ThirdConnection => Traffic = 0
===============================================================================
