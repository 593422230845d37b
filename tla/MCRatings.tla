------------------------------- MODULE MCRatings -------------------------------
(***************************************************************************)
(* Instances of Ratings for TLC.  Player a is one game short of being      *)
(* established, b is established, c is new and close to the floor; "guest" *)
(* is a name from the lobby that has no row.                               *)
(***************************************************************************)
EXTENDS Ratings

MCStart == [p \in Players |->
  CASE p = "a" -> [elo |-> 200, games |-> 29]
    [] p = "b" -> [elo |-> 200, games |-> 50]
    [] OTHER   -> [elo |-> 105, games |-> 0]]

MCNames == [m \in Matches |->
  LET ps == CASE m = 1 -> <<"a", "b">> [] m = 2 -> <<"c", "a">> [] OTHER -> <<"b", "guest">>
  IN [s \in Slots |-> ps[s + 1]]]

\* 1000 / (1 + 10^(-d / 400)) at differences d of 0, 100, ..., 900.
Curve == <<500, 640, 760, 849, 909, 947, 969, 983, 990, 994>>
Advantage(d) == LET k == (d + 50) \div 100 IN Curve[1 + IF k < 9 THEN k ELSE 9]
MCExpected(a, b) == IF a >= b THEN Advantage(a - b) ELSE 1000 - Advantage(b - a)
===============================================================================
