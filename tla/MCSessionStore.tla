---------------------------- MODULE MCSessionStore ----------------------------
(***************************************************************************)
(* Values for the constants of SessionStore: every session belongs to the  *)
(* same account, the hardest case for its index.                           *)
(***************************************************************************)
EXTENDS SessionStore, TLC

MCOwner   == [s \in Session |-> 1]
Symmetric == Permutations(Session) \cup Permutations(Worker)
==============================================================================
