-------------------------------- MODULE Services --------------------------------
(***************************************************************************)
(* The parts of the server that share no state but the clock and Redis     *)
(* (Deployment), side by side: password resets, tasks, passkeys, one-time  *)
(* entries, policy decisions, the rate limiter, live events and access     *)
(* tokens.  Since none reads what another writes, a behaviour of the       *)
(* server is one behaviour of each; each is followed with the others at    *)
(* rest.                                                                   *)
(***************************************************************************)
EXTENDS PasswordReset, Tasks, Passkeys, OneTime, PolicyDecisions, RateLimit, Connections,
        AccessTokens

VARIABLE moving     \* the part that is followed

Part == {"reset", "tasks", "passkeys", "onetime", "policy", "rate", "connections", "access"}

notReset == <<taskVars, metaVars, oneTimeVars, policyVars, rateVars, connVars,
              accessVars>>
notTasks == <<resetVars, metaVars, oneTimeVars, policyVars, rateVars, connVars,
              accessVars>>
notMeta  == <<resetVars, taskVars, oneTimeVars, policyVars, rateVars, connVars,
              accessVars>>
notEntry == <<resetVars, taskVars, metaVars, policyVars, rateVars, connVars,
              accessVars>>
notRule  == <<resetVars, taskVars, metaVars, oneTimeVars, rateVars, connVars,
              accessVars>>
notRate  == <<resetVars, taskVars, metaVars, oneTimeVars, policyVars, connVars,
              accessVars>>
notConn  == <<resetVars, taskVars, metaVars, oneTimeVars, policyVars, rateVars,
              accessVars>>
notAccess == <<resetVars, taskVars, metaVars, oneTimeVars, policyVars, rateVars, connVars>>
serviceVars == <<moving, deployment, resetVars, notReset>>

Init ==
    /\ moving \in Part
    /\ DeploymentInit /\ ResetInit /\ TasksInit /\ PasskeysInit /\ OneTimeInit /\ PolicyInit
    /\ RateInit /\ ConnectionsInit /\ AccessInit
    /\ moving # "reset"    => ~stored.oldCost
    /\ moving # "tasks"    => \A u \in Person : rank[1][u] = Editor
    /\ moving # "passkeys" => counterless = {} /\ Items(meta) = {}
    /\ moving # "onetime"  => kind = "challenge"
    /\ moving = "connections" <=> owned # {}
    /\ moving # "policy"   => roles = CHOOSE names \in Holdings : TRUE
    /\ moving # "access"   => expires[1] = 1

Next ==
    /\ UNCHANGED moving
    /\ \/ moving = "reset"    /\ ResetNext    /\ UNCHANGED <<deployment, notReset>>
       \/ moving = "tasks"    /\ TasksNext    /\ UNCHANGED <<deployment, notTasks>>
       \/ moving = "passkeys" /\ PasskeysNext /\ UNCHANGED <<deployment, notMeta>>
       \/ moving = "onetime"  /\ OneTimeNext  /\ UNCHANGED notEntry
       \/ moving = "policy"   /\ PolicyNext   /\ UNCHANGED notRule
       \/ moving = "rate"     /\ RateNext     /\ UNCHANGED notRate
       \/ moving = "connections" /\ ConnectionsNext /\ UNCHANGED notConn
       \/ moving = "access"   /\ AccessNext   /\ UNCHANGED notAccess

Spec == Init /\ [][Next]_serviceVars

\* Every variable of the part that moves has its type.
TypeOK ==
    /\ DeploymentTypeOK
    /\ moving = "reset"    => ResetTypeOK
    /\ moving = "tasks"    => TasksTypeOK
    /\ moving = "passkeys" => PasskeysTypeOK
    /\ moving = "onetime"  => OneTimeTypeOK
    /\ moving = "policy"   => PolicyTypeOK
    /\ moving = "rate"     => RateTypeOK
    /\ moving = "connections" => ConnectionsTypeOK
    /\ moving = "access"   => AccessTypeOK
================================================================================
