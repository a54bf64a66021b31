---------------------------- MODULE TokenRotation ----------------------------
(***************************************************************************)
(* What refresh-token rotation promises (README.md, "Token Family          *)
(* Rotation"): a family is founded by one login, has at most one token     *)
(* that can still be exchanged, an exchange replaces that token by a new   *)
(* one, and a family whose last token was lost never comes back.           *)
(***************************************************************************)
EXTENDS Integers

CONSTANTS Family, Jti

None == 0   \* no member of Jti

VARIABLES
    leaf,    \* the token of each family that can still be exchanged
    founded, \* families that have had a login
    born     \* tokens signed so far

vars == <<leaf, founded, born>>

Init ==
    /\ leaf = [f \in Family |-> None]
    /\ founded = {}
    /\ born = {}

Found(f, j) ==
    /\ f \notin founded
    /\ j \notin born
    /\ leaf' = [leaf EXCEPT ![f] = j]
    /\ founded' = founded \cup {f}
    /\ born' = born \cup {j}

Rotate(f, j) ==
    /\ leaf[f] # None
    /\ j \notin born
    /\ leaf' = [leaf EXCEPT ![f] = j]
    /\ born' = born \cup {j}
    /\ UNCHANGED founded

\* Revoked, expired, or consumed by a request that then died.
Lose(S) ==
    /\ leaf' = [f \in Family |-> IF f \in S THEN None ELSE leaf[f]]
    /\ UNCHANGED <<founded, born>>

Next ==
    \/ \E f \in Family, j \in Jti : Found(f, j) \/ Rotate(f, j)
    \/ \E S \in SUBSET Family : Lose(S)

Spec == Init /\ [][Next]_vars
==============================================================================
