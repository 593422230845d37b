-------------------------------- MODULE MCShop --------------------------------
(***************************************************************************)
(* One player asks for one item twice, and for another: its coins pay for  *)
(* either, but not for both.                                               *)
(***************************************************************************)
EXTENDS Shop

const_By == [r \in Requests |-> "p"]
const_Of == [r \in Requests |-> IF r = "other" THEN "b" ELSE "a"]
const_Purse == [p \in Buyers |-> 3]
===============================================================================
