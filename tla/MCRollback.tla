------------------------------- MODULE MCRollback -------------------------------
(***************************************************************************)
(* Instances of Rollback for TLC: 0 is no button, 1 and 2 are two buttons. *)
(***************************************************************************)
EXTENDS Rollback
===============================================================================
