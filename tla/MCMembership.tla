----------------------------- MODULE MCMembership -----------------------------
(***************************************************************************)
(* Instances of Membership for TLC.  Two scenarios share the run: two      *)
(* requests of administrators that give any roles, and three that give     *)
(* nobody a role but that of an administrator.                             *)
(***************************************************************************)
EXTENDS Membership, TLC

CONSTANTS ann, bob, nick, r1, r2

Symmetry == Permutations({r1, r2})

OneRole  == \A u \in Account : granted[u] \subseteq InitialRoles(u) \cup {"admin"}
Scenario == asked <= 2 \/ OneRole
==============================================================================
