----------------------------- MODULE MCMatchmaking -----------------------------
(***************************************************************************)
(* Instances of Matchmaking for TLC: two players who fit once the first of *)
(* them has waited a tick, one region, and two scans that overlap.  Player *)
(* 1 makes two requests, each a join or a leave, and player 2 makes one.   *)
(***************************************************************************)
EXTENDS Matchmaking
CONSTANTS x1, x2, x3
MCRating == [p \in Players |-> 8 + 2 * p]
MCRegions == <<"east">>
MCBy == [x \in Requests |-> IF x = x2 THEN 2 ELSE 1]
MCWishes == [x \in Requests |-> RegionSet]

(***************************************************************************)
(* The bound of the run that passes: player 2's request is over before     *)
(* player 1 begins, whose two requests, equals otherwise, begin in order   *)
(* and may overlap; the clock runs from then on.  Handlers of two players  *)
(* touch different keys; only scans see both, and those run at any time.   *)
(***************************************************************************)
Begun(x) == req[x].pc # "new"
Bound ==
  /\ Begun(x3) => Begun(x1)
  /\ Begun(x1) => req[x2].pc = "done"
  /\ now > 0 => Begun(x1)
===============================================================================
