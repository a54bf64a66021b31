------------------------------ MODULE MCMfaLogin ------------------------------
(***************************************************************************)
(* Workers, handler slots, codes and challenges of MfaLogin are            *)
(* interchangeable.  Two scenarios share the run: one challenge, answered  *)
(* with anything but backup codes, over time, wrong answers and outages;   *)
(* and several challenges, answered right or not yet, in the first instant.*)
(***************************************************************************)
EXTENDS MfaLogin, TLC

Symmetric == Permutations(Worker) \cup Permutations(Request)
             \cup Permutations(Code) \cup Permutations(Challenge)

OneChallenge ==
    /\ Cardinality({c \in Challenge : born[c] # -1}) <= 1
    /\ \A r \in Request : req[r] # Idle => req[r].ask.answer \notin Code
    /\ codes = Code
WithCodes == now = 0 /\ (outages = 0 \/ ~overlap) /\ \A c \in Challenge : wrong[c] = 0
Scenario  == OneChallenge \/ WithCodes
==============================================================================
