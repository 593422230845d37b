---------------------------- MODULE MCClientSession ----------------------------
(***************************************************************************)
(* Instances of ClientSession for TLC.                                     *)
(***************************************************************************)
EXTENDS ClientSession

\* a makes rooms, b joins them; only b plays on its own.
MCPresses == [c \in Clients |-> IF c = "a" THEN {"create"} ELSE {"join", "local"}]
MCPacks == [c \in Clients |-> IF c = "a" THEN {1} ELSE {2}]
\* The slot each had before is not the one it gets now.
MCBefore == [c \in Clients |-> IF c = "a" THEN 1 ELSE 0]

\* b plays on its own only while there is no room.  Of two programs with
\* arguments only b comes to the lobby, that while a is there and has not
\* connected.
InLobby(c) == cl[c].args /\ (cl[c].game = "lobby" \/ cl[c].pend = "lobby")

Bound ==
  /\ cl["b"].local => \A r \in Rooms : state[r] = "unborn"
  /\ ~InLobby("a") /\ (InLobby("b") => NotStarted(cl["a"]))
===============================================================================
