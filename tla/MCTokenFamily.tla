---------------------------- MODULE MCTokenFamily ----------------------------
(***************************************************************************)
(* Values for the constants of TokenFamily: families 1 and 2 belong to the *)
(* same account, every other family to a second one.                       *)
(***************************************************************************)
EXTENDS TokenFamily

MCOwner == [f \in Family |-> IF f <= 2 THEN 1 ELSE 2]
==============================================================================
