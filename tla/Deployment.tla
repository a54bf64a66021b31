------------------------------- MODULE Deployment -------------------------------
(***************************************************************************)
(* What the services that keep short-lived keys run on: worker processes,  *)
(* a clock, and a Redis whose calls raise during an outage.                *)
(***************************************************************************)
EXTENDS Integers, FiniteSets

CONSTANTS
    Worker,        \* uvicorn worker processes
    MaxTime,       \* bound on the clock
    MaxOutages     \* bound: how often Redis calls start to raise

ASSUME DeploymentAssumption == MaxTime \in Nat /\ MaxOutages \in Nat
ASSUME FiniteWorkers == IsFiniteSet(Worker)

VARIABLES now, redisUp, outages

deployment == <<now, redisUp, outages>>

DeploymentTypeOK == now \in 0..MaxTime /\ redisUp \in BOOLEAN /\ outages \in 0..MaxOutages

DeploymentInit == now = 0 /\ redisUp = TRUE /\ outages = 0

TimePasses ==
    /\ now < MaxTime
    /\ now' = now + 1
    /\ UNCHANGED <<redisUp, outages>>

RedisFails ==
    /\ redisUp /\ outages < MaxOutages
    /\ redisUp' = FALSE /\ outages' = outages + 1
    /\ UNCHANGED now

RedisRecovers ==
    /\ ~redisUp /\ redisUp' = TRUE
    /\ UNCHANGED <<now, outages>>
================================================================================
