----------------------------- MODULE PolicyDecisions -----------------------------
(***************************************************************************)
(* Access decisions (DistributedPolicyManager, policy_engine.py): cached   *)
(* in Redis and in the memory of the worker, otherwise asked of an OPA     *)
(* server behind a circuit breaker (opa_client.py), otherwise computed by  *)
(* the local engine, as Permissions says.  Decisions never meet, so the    *)
(* module follows one, about a permission on a resource to which the       *)
(* subject has no tie; it is known by the time at which the facts it rests *)
(* on were read.  What OPA answers, and what comes out for the subject of  *)
(* a simulation, which shares the cache, is left open.                     *)
(*                                                                         *)
(* The manager may be given a Redis, as its tests do.  The bundled server  *)
(* builds it without one (api/dependencies.py): there Redis never answers. *)
(***************************************************************************)
EXTENDS Deployment, Permissions

CONSTANTS
    DecisionTtl,    \* ticks a decision is cached
    Patience,       \* ticks until a query of OPA is given up
    Failures,       \* failed queries that open the circuit (5 in the code)
    Asked,          \* the permission, as <<domain, action>>
    Holdings,       \* sets of global roles a subject may have
    MaxQueries,     \* bound on the queries of OPA
    QuerySlot       \* slots for requests that wait for OPA

ASSUME PolicyAssumption ==
    /\ {DecisionTtl, Patience, Failures} \subseteq Nat \ {0} /\ MaxQueries \in Nat
    /\ Holdings \subseteq SUBSET RoleName /\ Holdings # {}

VARIABLES
    roles,                   \* global roles of the user, as get_by_id serves them
    failures, circuitOpen,   \* of the OPA client of each worker
    decided,                 \* the decision in Redis
    decidedHere,             \* ... in the memory of each worker
    query,                   \* requests waiting for OPA
    queries,                 \* how many there were
    lastSaid,                \* when the evaluator last said so of the user (history)
    failedInRow,             \* failed queries of each worker since one succeeded (history)
    oldest                   \* age of the oldest decision served (history)

policyVars == <<roles, failures, circuitOpen, decided, decidedHere, query, queries,
                lastSaid, failedInRow, oldest>>

Verdict   == {"granted", "denied"}
Undecided == [asOf |-> 0, until |-> 0, engine |-> "open"]
NoQuery   == [pc |-> "none"]
Decision  == [asOf: 0..MaxTime, until: 0..(MaxTime + DecisionTtl),
              engine: Verdict \cup {"open"}]

\* The payload of is_resource_accessible, and that of a simulation.
TheUser == [names |-> roles, flagged |-> Flagged(roles)]
MadeUp  == [names |-> {"anything"}, flagged |-> FALSE]
Subject == [names: Holdings, flagged: BOOLEAN] \cup {MadeUp}
Pending == [pc: {"asked"}, worker: Worker, asOf: 0..MaxTime, subject: Subject]

AsVerdict(granted) == IF granted THEN "granted" ELSE "denied"

\* The local engine of a payload, and the evaluator of global roles.
EngineSays(u) ==
    IF u = MadeUp THEN "open" ELSE AsVerdict(Allows(u.names, u.flagged, {}, Asked))
EvaluatorSays(names) == AsVerdict(HasPermission(names, {}, Asked))

\* Before the evaluator has said anything.
LongAgo == -(DecisionTtl + Patience)

PolicyTypeOK ==
    /\ roles \in Holdings /\ lastSaid \in [Verdict -> LongAgo..MaxTime]
    /\ failures \in [Worker -> 0..MaxQueries]
    /\ circuitOpen \in [Worker -> BOOLEAN]
    /\ decided \in Decision /\ decidedHere \in [Worker -> Decision]
    /\ query \in [QuerySlot -> {NoQuery} \cup Pending]
    /\ queries \in 0..MaxQueries
    /\ failedInRow \in [Worker -> 0..MaxQueries] /\ oldest \in 0..MaxTime

PolicyInit ==
    /\ roles \in Holdings
    /\ lastSaid = [v \in Verdict |-> IF v = EvaluatorSays(roles) THEN now ELSE LongAgo]
    /\ failures = [w \in Worker |-> 0] /\ circuitOpen = [w \in Worker |-> FALSE]
    /\ decided = Undecided /\ decidedHere = [w \in Worker |-> Undecided]
    /\ query = [q \in QuerySlot |-> NoQuery]
    /\ queries = 0 /\ failedInRow = [w \in Worker |-> 0] /\ oldest = 0

Cached(w) ==
    IF redisUp /\ now < decided.until THEN decided
    ELSE IF now < decidedHere[w].until THEN decidedHere[w]
    ELSE Undecided

Serve(asOf) == oldest' = IF now - asOf > oldest THEN now - asOf ELSE oldest

\* Mutant: a decision found in Redis is cached in memory.
ServeAndKeep(w) ==
    /\ Cached(w) # Undecided
    /\ decidedHere' = [decidedHere EXCEPT ![w] = [Cached(w) EXCEPT !.until = now + DecisionTtl]]
    /\ Serve(Cached(w).asOf)
    /\ UNCHANGED <<deployment, roles, lastSaid, failures, circuitOpen, decided, query, queries,
                   failedInRow>>

ServeCached(w) ==
    /\ Cached(w) # Undecided
    /\ Serve(Cached(w).asOf)
    /\ UNCHANGED <<deployment, roles, lastSaid, failures, circuitOpen, decided, decidedHere, query,
                   queries, failedInRow>>

CacheDecision(w, asOf, verdict) ==
    LET d == [asOf |-> asOf, until |-> now + DecisionTtl, engine |-> verdict] IN
    /\ decided' = IF redisUp THEN d ELSE decided
    /\ decidedHere' = [decidedHere EXCEPT ![w] = d]
    /\ Serve(asOf)

\* The circuit is open (or OPA not configured): the local engine decides.
DecideLocally(w, u) ==
    /\ Cached(w) = Undecided /\ circuitOpen[w]
    /\ CacheDecision(w, now, EngineSays(u))
    /\ UNCHANGED <<deployment, roles, lastSaid, failures, circuitOpen, query, queries, failedInRow>>

AskOpa(q, w, u) ==
    /\ query[q] = NoQuery /\ queries < MaxQueries
    /\ Cached(w) = Undecided /\ ~circuitOpen[w]
    /\ query' = [query EXCEPT ![q] = [pc |-> "asked", worker |-> w, asOf |-> now, subject |-> u]]
    /\ queries' = queries + 1
    /\ UNCHANGED <<deployment, roles, lastSaid, failures, circuitOpen, decided, decidedHere,
                   failedInRow, oldest>>

\* Mutant: an answer leaves the count of failures.
OpaAnswersOnly(q) ==
    LET w == query[q].worker IN
    /\ query[q] # NoQuery
    /\ circuitOpen' = [circuitOpen EXCEPT ![w] = FALSE]
    /\ failedInRow' = [failedInRow EXCEPT ![w] = 0]
    /\ CacheDecision(w, query[q].asOf, "open")
    /\ query' = [query EXCEPT ![q] = NoQuery]
    /\ UNCHANGED <<deployment, roles, lastSaid, failures, queries>>

\* An answer closes the circuit, also one that comes after it opened.
OpaAnswers(q) ==
    LET w == query[q].worker IN
    /\ query[q] # NoQuery
    /\ failures' = [failures EXCEPT ![w] = 0]
    /\ circuitOpen' = [circuitOpen EXCEPT ![w] = FALSE]
    /\ failedInRow' = [failedInRow EXCEPT ![w] = 0]
    /\ CacheDecision(w, query[q].asOf, "open")
    /\ query' = [query EXCEPT ![q] = NoQuery]
    /\ UNCHANGED <<deployment, roles, lastSaid, queries>>

\* An error or a timeout is counted, and the local engine decides on the payload
\* put together before the query.
OpaFails(q) ==
    LET w == query[q].worker IN
    /\ query[q] # NoQuery
    /\ failures' = [failures EXCEPT ![w] = @ + 1]
    /\ circuitOpen' = [circuitOpen EXCEPT ![w] = @ \/ failures'[w] >= Failures]
    /\ failedInRow' = [failedInRow EXCEPT ![w] = @ + 1]
    /\ CacheDecision(w, query[q].asOf, EngineSays(query[q].subject))
    /\ query' = [query EXCEPT ![q] = NoQuery]
    /\ UNCHANGED <<deployment, roles, lastSaid, queries>>

\* invalidate_cache.
InvalidateCache(w) ==
    /\ decided' = IF redisUp THEN Undecided ELSE decided
    /\ decidedHere' = [decidedHere EXCEPT ![w] = Undecided]

\* reset_circuit.
ResetCircuit(w) ==
    /\ failures' = [failures EXCEPT ![w] = 0]
    /\ circuitOpen' = [circuitOpen EXCEPT ![w] = FALSE]
    /\ failedInRow' = [failedInRow EXCEPT ![w] = 0]

\* Both of one worker.
ReloadPolicies(w) ==
    /\ InvalidateCache(w)
    /\ ResetCircuit(w)
    /\ UNCHANGED <<deployment, roles, lastSaid, query, queries, oldest>>

\* The row of the user changes, or what the user cache serves of it.
ChangeRoles(names) ==
    /\ roles' = names
    /\ lastSaid' = [lastSaid EXCEPT ![EvaluatorSays(names)] = now]
    /\ UNCHANGED <<deployment, failures, circuitOpen, decided, decidedHere, query, queries,
                   failedInRow, oldest>>

\* Expired entries go with the next tick; nobody is served them before.
Unexpired(d) == IF now + 1 < d.until THEN d ELSE Undecided

\* A query is given up in time: Patience bounds its phases together (connecting,
\* sending, reading), each of which has the timeout of the client.
PolicyTick ==
    /\ \A q \in QuerySlot : query[q] # NoQuery => now < query[q].asOf + Patience
    /\ TimePasses
    /\ lastSaid' = [lastSaid EXCEPT ![EvaluatorSays(roles)] = now + 1]
    /\ decided' = Unexpired(decided)
    /\ decidedHere' = [w \in Worker |-> Unexpired(decidedHere[w])]
    /\ UNCHANGED <<roles, failures, circuitOpen, query, queries, failedInRow, oldest>>

PolicyNext ==
    \/ \E w \in Worker :
           \/ ServeCached(w) \/ ReloadPolicies(w)
           \/ \E u \in {TheUser, MadeUp} :
                  DecideLocally(w, u) \/ \E q \in QuerySlot : AskOpa(q, w, u)
    \/ \E q \in QuerySlot : OpaAnswers(q) \/ OpaFails(q)
    \/ \E names \in Holdings \ {roles} : ChangeRoles(names)
    \/ PolicyTick
    \/ (RedisFails \/ RedisRecovers) /\ UNCHANGED policyVars

------------------------------------------------------------------------------
(* Properties *)

\* Whichever worker, cache and outage it came through, a decision served rests
\* on facts younger than one query and one time to live: the two caches do not
\* feed each other.
ServedInTime == oldest < DecisionTtl + Patience

\* With any number of queries under way, the circuit of a worker is open exactly
\* when its last Failures queries (or more) all failed since the last reload.
CircuitByFailures == \A w \in Worker : circuitOpen[w] <=> failedInRow[w] >= Failures

\* Both: decisions are fresh, and OPA is asked unless it has just failed.
PolicyKept == ServedInTime /\ CircuitByFailures

\* What the local engine decided for the user and a worker now serves, through
\* whatever caches, failed queries and changes of the roles, is what the
\* permission evaluator said of the same global roles not long ago.
EngineFollowsEvaluator ==
    \A w \in Worker : LET verdict == Cached(w).engine IN
        verdict # "open" => now - lastSaid[verdict] < DecisionTtl + Patience
================================================================================
