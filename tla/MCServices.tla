------------------------------- MODULE MCServices -------------------------------
(***************************************************************************)
(* Instances of Services for TLC: the workers are east and west.  The      *)
(* parts never compare their constants with each other's, so the same      *)
(* values name the slots and sockets of all of them.  A user whose roles   *)
(* have changed the verdict has only two queries of OPA made for him.      *)
(***************************************************************************)
EXTENDS Services, TLC

CONSTANTS one, two, east, west, ann, bob, news, note, solo

MCAsked == <<"tasks", "create">>

Symmetry == Permutations({one, two}) \cup Permutations({east, west})

Scenario == queries <= 2 \/ \E v \in Verdict : lastSaid[v] = LongAgo
==================================================================================
