---------------------------- MODULE MCLoginLockout ----------------------------
(***************************************************************************)
(* The password of one account, for TLC: its lockout (LoginLockout) and    *)
(* its reset (PasswordReset), which write nothing the other reads.  Each   *)
(* is followed with the other at rest.  Two sessions are open at once only *)
(* until a second link is issued.  Workers are interchangeable.            *)
(***************************************************************************)
EXTENDS LoginLockout, PasswordReset, TLC

CONSTANTS solo, one

VARIABLE moving

PasswordInit ==
    /\ moving \in {"lockout", "reset"}
    /\ Init /\ ResetInit
    /\ moving = "lockout" => ~stored.oldCost

PasswordNext ==
    /\ UNCHANGED moving
    /\ \/ moving = "lockout" /\ Next /\ UNCHANGED resetVars
       \/ moving = "reset" /\ ResetNext /\ UNCHANGED vars

PasswordSpec == PasswordInit /\ [][PasswordNext]_<<moving, vars, resetVars>>

OnePurge == issuedLinks <= 1 \/ Cardinality(sessions) <= 1

Workers == Permutations(Worker)
==============================================================================
