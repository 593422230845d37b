-------------------------------- MODULE MCWire --------------------------------
(* Frames of two and three bytes, and a receive buffer for little more. *)
EXTENDS Wire

const_Size ==
  [k \in Kinds |-> IF k \in {"response", "ping"} THEN 3 ELSE 2]
===============================================================================
