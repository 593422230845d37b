---------------------------- MODULE RelayRefinement ----------------------------
(***************************************************************************)
(* The relay of module RelayServer implements the promise of module Duel:  *)
(* a room object is a match, a side has gone when the connection in its    *)
(* slot is no longer OPEN, and what a side hears is read off the RELAY     *)
(* batches sent on its connection.                                         *)
(***************************************************************************)
EXTENDS RelayServer

PhaseOf(r) ==
  CASE state[r] \in {"unborn", "waiting"} -> "gathering"
    [] state[r] = "active" -> "fighting"
    [] state[r] = "closed" -> "over"
    [] state[r] = "lost"   -> "lost"

GoneFrom(r) ==
  {s \in Slots : slots[r][s] # NoConn /\ ws[slots[r][s]] # "open"}

HeardBy(r, s) ==
  IF slots[r][s] = NoConn THEN <<>>
  ELSE LET stream == RelayStream(slots[r][s]) IN
       [k \in 1..Len(stream) |-> [frame |-> stream[k].frame, input |-> stream[k].input]]

\* The frames the clients can send.
Moves ==
  [frame : UNION {StartFrame[c]..(StartFrame[c] + MaxInputs[c]) : c \in Conns}, input : Inputs]

Match == INSTANCE Duel WITH
  Matches <- Rooms,
  phase   <- [r \in Rooms |-> PhaseOf(r)],
  gone    <- [r \in Rooms |-> GoneFrom(r)],
  said    <- accepted,
  heard   <- [r \in Rooms |-> [s \in Slots |-> HeardBy(r, s)]],
  verdict <- [r \in Rooms |-> IF verdict[r] = Undecided THEN {} ELSE {verdict[r]}]

\* Every behaviour of the relay is, under this mapping, a behaviour of Duel.
ImplementsDuel == Match!Spec
===============================================================================
