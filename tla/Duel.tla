--------------------------------- MODULE Duel ---------------------------------
(***************************************************************************)
(* What the relay promises of a match, without sockets, messages, rooms or *)
(* a registry: two contestants gather and fight; what one says while they  *)
(* fight the other hears, in the same order, unless it has gone; and the   *)
(* match is over once, with a verdict against a contestant who has gone.   *)
(***************************************************************************)
EXTENDS Naturals, Sequences

CONSTANTS Matches, Moves

Sides == {0, 1}
Other(s) == 1 - s

VARIABLES
  phase,    \* match -> "gathering", "fighting", "over" or "lost"
  gone,     \* match -> the sides that have gone
  said,     \* match -> side -> the moves taken from it
  heard,    \* match -> side -> the moves passed on to it
  verdict   \* match -> set of winners: empty until the match is over

vars == <<phase, gone, said, heard, verdict>>

Init ==
  /\ phase   = [m \in Matches |-> "gathering"]
  /\ gone    = [m \in Matches |-> {}]
  /\ said    = [m \in Matches |-> [s \in Sides |-> <<>>]]
  /\ heard   = [m \in Matches |-> [s \in Sides |-> <<>>]]
  /\ verdict = [m \in Matches |-> {}]

\* A side may be noticed gone as the fight begins.
Begin(m) ==
  /\ phase[m] = "gathering"
  /\ phase' = [phase EXCEPT ![m] = "fighting"]
  /\ \E S \in SUBSET Sides : gone' = [gone EXCEPT ![m] = @ \union S]
  /\ UNCHANGED <<said, heard, verdict>>

Leave(m, s) ==
  /\ s \notin gone[m]
  /\ gone' = [gone EXCEPT ![m] = @ \union {s}]
  /\ UNCHANGED <<phase, said, heard, verdict>>

Say(m, s, x) ==
  /\ phase[m] = "fighting"
  /\ said'  = [said EXCEPT ![m][s] = Append(@, x)]
  /\ heard' = IF Other(s) \in gone[m] THEN heard
              ELSE [heard EXCEPT ![m][Other(s)] = Append(@, x)]
  /\ UNCHANGED <<phase, gone, verdict>>

Decide(m, w) ==
  /\ phase[m] \in {"gathering", "fighting"}
  /\ Other(w) \in gone[m]
  /\ phase'   = [phase EXCEPT ![m] = "over"]
  /\ verdict' = [verdict EXCEPT ![m] = {w}]
  /\ UNCHANGED <<gone, said, heard>>

\* The house burns down: everybody is gone and open matches are lost.
Blackout ==
  /\ \E L \in SUBSET {m \in Matches : phase[m] # "over"} :
       phase' = [m \in Matches |-> IF m \in L THEN "lost" ELSE phase[m]]
  /\ \A m \in Matches : gone[m] \subseteq gone'[m]
  /\ gone' \in [Matches -> SUBSET Sides]
  /\ UNCHANGED <<said, heard, verdict>>

Next ==
  \/ \E m \in Matches : Begin(m)
  \/ \E m \in Matches, s \in Sides : Leave(m, s) \/ Decide(m, s)
  \/ \E m \in Matches, s \in Sides, x \in Moves : Say(m, s, x)
  \/ Blackout

Spec == Init /\ [][Next]_vars
===============================================================================
