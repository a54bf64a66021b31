------------------------------ MODULE MCUserCache ------------------------------
(***************************************************************************)
(* Workers and handler slots of UserCache are interchangeable.             *)
(***************************************************************************)
EXTENDS UserCache, TLC

Symmetric == Permutations(Worker) \cup Permutations(Request)
==============================================================================
