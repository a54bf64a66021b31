----------------------------- MODULE TokenFamily -----------------------------
(***************************************************************************)
(* Refresh-token rotation: POST /auth/refresh (api/v1/auth_router.py) on   *)
(* top of the revocation lists of TokenService (token_service.py).         *)
(*                                                                         *)
(* A refresh token is a signed value that nobody stores: what the system   *)
(* keeps is the list of token ids and families it no longer accepts, in    *)
(* Redis with a time to live, or, when a Redis call fails, in the memory   *)
(* of the one worker process that made the call.  The handler reads those  *)
(* lists, awaits the user row, and only then writes the consumed token to  *)
(* the list, so handlers of the same worker interleave at the await and    *)
(* handlers of different workers at every Redis call.                      *)
(***************************************************************************)
EXTENDS Integers, FiniteSets

CONSTANTS
    Worker,        \* uvicorn worker processes
    Request,       \* slots for handlers running at the same time
    User,          \* accounts
    MaxFamilies,   \* bound: logins in one behaviour
    MaxTokens,     \* bound: refresh tokens issued in one behaviour
    Lifetime,      \* ticks a refresh token lives (604800 s in the code)
    SessionLife,   \* ticks the index of an account's sessions lives (3600 s)
    MaxTime,       \* bound on the clock
    Owner,         \* the user of each family
    HasRedis,      \* FALSE: the development setting where TokenService.r is None
    MaxOutages,    \* bound: how often Redis calls start to raise; 0: never
    CanCrash       \* a worker process may die and be restarted

Family == 1..MaxFamilies
Jti    == 1..MaxTokens

ASSUME ConstantsAssumption ==
    /\ Worker # {}
    /\ MaxFamilies \in Nat /\ MaxTokens \in Nat
    /\ Lifetime \in Nat \ {0} /\ SessionLife \in Nat \ {0} /\ MaxTime \in Nat
    /\ Owner \in [Family -> User]
    /\ MaxOutages \in Nat
    /\ {HasRedis, CanCrash} \subseteq BOOLEAN
    /\ {"none", "redis"} \cap Worker = {}

ASSUME FiniteWorkers == IsFiniteSet(Worker)

ASSUME FiniteRequests == IsFiniteSet(Request)

VARIABLES
    now,          \* the clock, in ticks
    redisUp,      \* calls to Redis succeed
    outages,      \* how often they began to fail
    families,     \* number of families founded by a login
    issued,       \* number of refresh tokens signed so far: ids 1..issued
    family,       \* family claim of each token
    expires,      \* exp claim of each token
    successors,   \* how many tokens were minted in exchange for each token
    redisJti,     \* revoked_token:<jti>: time the key disappears, 0 if never set
    redisFamily,  \* revoked_family:<id>: the same
    memJti,       \* _in_memory_blocklist of each worker
    memFamily,    \* _in_memory_revoked_families of each worker
    session,      \* where the login session of a family is kept
    listed,       \* families whose session is in user_sessions:<owner>
    indexUntil,   \* time the key user_sessions:<user> disappears
    found,        \* session ids a cascade has read from that key
    dropped,      \* families taken off it without being found (history)
    condemned,    \* families a replay has been detected in (history)
    req           \* state of each handler

vars == <<now, redisUp, outages, families, issued, family, expires, successors, redisJti,
          redisFamily, memJti, memFamily, session, listed, indexUntil, found, dropped,
          condemned, req>>

redis     == <<redisUp, outages>>
tokens    == <<families, issued, family, expires, successors>>
blocklist == <<redisJti, redisFamily, memJti, memFamily>>
sessions  == <<session, listed, indexUntil, found, dropped>>

Phase == {"idle",      \* no handler in this slot
          "decoded",   \* signature, exp and type accepted
          "familyOk",  \* is_family_revoked returned False
          "replay",    \* is_token_revoked returned True
          "cascade",   \* revoke_family done, sessions still to be deleted
          "purging",   \* delete_all_user_sessions has read the index
          "loading",   \* awaiting user_repo.get_by_id
          "loaded",    \* the user is active
          "consumed"}  \* revoke_token done, successor still to be minted

Idle == [pc |-> "idle"]
Busy == [pc: Phase \ {"idle"}, worker: Worker, jti: Jti, began: Nat, late: BOOLEAN]

TypeOK ==
    /\ now \in Nat
    /\ redisUp \in BOOLEAN /\ outages \in 0..MaxOutages
    /\ families \in 0..MaxFamilies
    /\ issued \in 0..MaxTokens
    /\ family \in [Jti -> Nat]
    /\ \A j \in 1..issued : family[j] \in 1..families
    /\ expires \in [Jti -> Nat]
    /\ successors \in [Jti -> Nat]
    /\ redisJti \in [Jti -> Nat]
    /\ redisFamily \in [Family -> Nat]
    /\ memJti \in [Worker -> SUBSET Jti]
    /\ memFamily \in [Worker -> SUBSET Family]
    /\ session \in [Family -> {"none", "redis"} \cup Worker]
    /\ listed \subseteq Family /\ dropped \subseteq Family
    /\ indexUntil \in [User -> Nat]
    /\ found \in [Request -> SUBSET Family]
    /\ condemned \subseteq Family
    /\ req \in [Request -> {Idle} \cup Busy]
    /\ \A r \in Request : req[r] # Idle => req[r].jti <= issued

Init ==
    /\ now = 0
    /\ redisUp = HasRedis /\ outages = 0
    /\ families = 0 /\ issued = 0
    /\ family = [j \in Jti |-> 0]
    /\ expires = [j \in Jti |-> 0]
    /\ successors = [j \in Jti |-> 0]
    /\ redisJti = [j \in Jti |-> 0]
    /\ redisFamily = [f \in Family |-> 0]
    /\ memJti = [w \in Worker |-> {}]
    /\ memFamily = [w \in Worker |-> {}]
    /\ session = [f \in Family |-> "none"]
    /\ listed = {} /\ dropped = {}
    /\ indexUntil = [u \in User |-> 0]
    /\ found = [r \in Request |-> {}]
    /\ condemned = {}
    /\ req = [r \in Request |-> Idle]

------------------------------------------------------------------------------
(* TokenService *)

\* Mutant: the Redis list is never consulted.
TokenRevokedMemoryOnly(w, j) == j \in memJti[w]

\* is_token_revoked: a Redis miss, like a Redis error, falls through to memory.
TokenRevoked(w, j) ==
    \/ redisUp /\ now < redisJti[j]
    \/ j \in memJti[w]

\* is_family_revoked: memory is consulted only when the Redis call raises.
FamilyRevoked(w, f) ==
    IF redisUp THEN now < redisFamily[f] ELSE f \in memFamily[w]

\* Mutant: the key disappears one tick too early.
RevokeTokenEarly(w, j) ==
    IF redisUp
    THEN /\ redisJti' = [redisJti EXCEPT ![j] = expires[j] - 1]
         /\ UNCHANGED memJti
    ELSE /\ memJti' = [memJti EXCEPT ![w] = @ \cup {j}]
         /\ UNCHANGED redisJti

\* Mutant: a Redis error is swallowed without the fallback to memory.
RevokeTokenNoFallback(w, j) ==
    /\ redisJti' = IF redisUp THEN [redisJti EXCEPT ![j] = expires[j]] ELSE redisJti
    /\ UNCHANGED memJti

\* revoke_token(jti, exp): key with ttl max(1, exp - now), else process memory.
RevokeToken(w, j) ==
    LET ttl == IF expires[j] - now > 1 THEN expires[j] - now ELSE 1 IN
    IF redisUp
    THEN /\ redisJti' = [redisJti EXCEPT ![j] = now + ttl]
         /\ UNCHANGED memJti
    ELSE /\ memJti' = [memJti EXCEPT ![w] = @ \cup {j}]
         /\ UNCHANGED redisJti

\* Mutant: the family key lives one tick less than a refresh token.
RevokeFamilyEarly(w, f) ==
    IF redisUp
    THEN /\ redisFamily' = [redisFamily EXCEPT ![f] = now + Lifetime - 1]
         /\ UNCHANGED memFamily
    ELSE /\ memFamily' = [memFamily EXCEPT ![w] = @ \cup {f}]
         /\ UNCHANGED redisFamily

\* revoke_family(family_id): key that lives as long as a new refresh token.
RevokeFamily(w, f) ==
    IF redisUp
    THEN /\ redisFamily' = [redisFamily EXCEPT ![f] = now + Lifetime]
         /\ UNCHANGED memFamily
    ELSE /\ memFamily' = [memFamily EXCEPT ![w] = @ \cup {f}]
         /\ UNCHANGED redisFamily

\* create_refresh_token: a new jti in family f, valid for Lifetime.
Sign(f) ==
    /\ issued < MaxTokens
    /\ issued' = issued + 1
    /\ family' = [family EXCEPT ![issued + 1] = f]
    /\ expires' = [expires EXCEPT ![issued + 1] = now + Lifetime]

------------------------------------------------------------------------------
(* The handlers *)

\* The event loop of w is not in the middle of a handler: the Redis client is
\* synchronous, so a handler lets others of its worker run at its await only.
LoopFree(w) ==
    \A q \in Request : req[q] # Idle /\ req[q].worker = w => req[q].pc = "loading"

\* A login completes: a session, entered in the index of its account for one
\* session life (or kept by the worker when Redis raises), and the first token
\* of a new family.  The four calls of create_session are one step here: no
\* token of the family can be replayed before the last of them, and the module
\* SessionStore has them one by one.
Login(w) ==
    /\ LoopFree(w)
    /\ families < MaxFamilies
    /\ families' = families + 1
    /\ Sign(families + 1)
    /\ IF redisUp
       THEN /\ session' = [session EXCEPT ![families + 1] = "redis"]
            /\ listed' = listed \cup {families + 1}
            /\ indexUntil' = [indexUntil EXCEPT ![Owner[families + 1]] = now + SessionLife]
       ELSE /\ session' = [session EXCEPT ![families + 1] = w]
            /\ UNCHANGED <<listed, indexUntil>>
    /\ UNCHANGED <<now, redis, successors, blocklist, found, dropped, condemned, req>>

Goto(r, phase) == req' = [req EXCEPT ![r].pc = phase]
Finish(r)      == req' = [req EXCEPT ![r] = Idle]

\* jwt.decode accepts the presented token.  `late' remembers, for the
\* properties only, that the token had been exchanged before this request.
Present(r, w, j) ==
    /\ req[r] = Idle /\ LoopFree(w)
    /\ j <= issued /\ now < expires[j]
    /\ req' = [req EXCEPT ![r] = [pc |-> "decoded", worker |-> w, jti |-> j,
                                  began |-> now, late |-> successors[j] > 0]]
    /\ UNCHANGED <<now, redis, tokens, blocklist, sessions, condemned>>

\* Mutant: the family list is not consulted.
CheckFamilyNever(r) ==
    /\ req[r].pc = "decoded"
    /\ Goto(r, "familyOk")
    /\ UNCHANGED <<now, redis, tokens, blocklist, sessions, condemned>>

CheckFamily(r) ==
    /\ req[r].pc = "decoded"
    /\ IF FamilyRevoked(req[r].worker, family[req[r].jti])
       THEN Finish(r)
       ELSE Goto(r, "familyOk")
    /\ UNCHANGED <<now, redis, tokens, blocklist, sessions, condemned>>

CheckToken(r) ==
    /\ req[r].pc = "familyOk"
    /\ Goto(r, IF TokenRevoked(req[r].worker, req[r].jti) THEN "replay" ELSE "loading")
    /\ UNCHANGED <<now, redis, tokens, blocklist, sessions, condemned>>

\* Mutant: the handler answers before it deletes the sessions.
CondemnOnly(r) ==
    /\ req[r].pc = "replay"
    /\ RevokeFamily(req[r].worker, family[req[r].jti])
    /\ condemned' = condemned \cup {family[req[r].jti]}
    /\ Finish(r)
    /\ UNCHANGED <<now, redis, tokens, redisJti, memJti, sessions>>

\* Reuse detected: the whole family is revoked first ...
Condemn(r) ==
    /\ req[r].pc = "replay"
    /\ RevokeFamily(req[r].worker, family[req[r].jti])
    /\ condemned' = condemned \cup {family[req[r].jti]}
    /\ Goto(r, "cascade")
    /\ UNCHANGED <<now, redis, tokens, redisJti, memJti, sessions>>

\* The sessions of the account a replayed token belongs to, and those the
\* memory of a worker loses when delete_all_user_sessions clears it.
OwnedBy(u)  == {f \in Family : Owner[f] = u}
Replayed(r) == Owner[family[req[r].jti]]
InMemory(r) == {f \in OwnedBy(Replayed(r)) : session[f] = req[r].worker}
End(F)      == session' = [f \in Family |-> IF f \in F THEN "none" ELSE session[f]]

\* ... then delete_all_user_sessions: it reads the index of the account, and
\* has nothing to delete in Redis if the index is empty, or the call raises.
\* The memory of its own worker is cleared in any case.
ReadIndex(r) ==
    LET ids == listed \cap OwnedBy(Replayed(r)) IN
    /\ req[r].pc = "cascade"
    /\ IF redisUp /\ ids # {}
       THEN /\ found' = [found EXCEPT ![r] = ids]
            /\ Goto(r, "purging")
            /\ UNCHANGED session
       ELSE /\ End(InMemory(r))
            /\ Finish(r)
            /\ UNCHANGED found
    /\ UNCHANGED <<now, redis, tokens, blocklist, listed, indexUntil, dropped, condemned>>

\* Mutant: the index is deleted, the session keys are not.
DropIndexOnly(r) ==
    LET u == Replayed(r) IN
    /\ req[r].pc = "purging"
    /\ listed' = listed \ OwnedBy(u)
    /\ dropped' = dropped \cup ((listed \cap OwnedBy(u)) \ found[r])
    /\ found' = [found EXCEPT ![r] = {}]
    /\ Finish(r)
    /\ UNCHANGED <<now, redis, tokens, blocklist, session, indexUntil, condemned>>

\* One MULTI deletes the sessions that were read and the whole index, with
\* whatever a login has entered in it since; if it raises, nothing is deleted.
DeleteSessions(r) ==
    LET u == Replayed(r) IN
    /\ req[r].pc = "purging"
    /\ IF redisUp
       THEN /\ End(InMemory(r) \cup found[r])
            /\ listed' = listed \ OwnedBy(u)
            /\ dropped' = dropped \cup ((listed \cap OwnedBy(u)) \ found[r])
       ELSE /\ End(InMemory(r))
            /\ UNCHANGED <<listed, dropped>>
    /\ found' = [found EXCEPT ![r] = {}]
    /\ Finish(r)
    /\ UNCHANGED <<now, redis, tokens, blocklist, indexUntil, condemned>>

PurgeSessions(r) == ReadIndex(r) \/ DeleteSessions(r)

\* The awaited user row: active, or the request is refused.
LoadUser(r) ==
    /\ req[r].pc = "loading" /\ LoopFree(req[r].worker)
    /\ Goto(r, "loaded") \/ Finish(r)
    /\ UNCHANGED <<now, redis, tokens, blocklist, sessions, condemned>>

Consume(r) ==
    /\ req[r].pc = "loaded"
    /\ RevokeToken(req[r].worker, req[r].jti)
    /\ Goto(r, "consumed")
    /\ UNCHANGED <<now, redis, tokens, redisFamily, memFamily, sessions, condemned>>

\* Mutant: the family is not handed to create_refresh_token, which then makes
\* up an id of its own.
MintUnrelated(r) ==
    /\ req[r].pc = "consumed"
    /\ Sign(families + 1)
    /\ successors' = [successors EXCEPT ![req[r].jti] = @ + 1]
    /\ Finish(r)
    /\ UNCHANGED <<now, redis, families, blocklist, sessions, condemned>>

Mint(r) ==
    /\ req[r].pc = "consumed"
    /\ Sign(family[req[r].jti])
    /\ successors' = [successors EXCEPT ![req[r].jti] = @ + 1]
    /\ Finish(r)
    /\ UNCHANGED <<now, redis, families, blocklist, sessions, condemned>>

------------------------------------------------------------------------------
(* The environment *)

\* The code between two awaits takes no noticeable time, and a request that
\* waits for the database waits for at most one tick.  A session is in use and
\* slides; the index of its account has the one life its last login gave it.
Tick ==
    /\ now < MaxTime
    /\ \A r \in Request : req[r] # Idle => req[r].pc = "loading" /\ req[r].began = now
    /\ now' = now + 1
    /\ LET aged == {f \in listed : indexUntil[Owner[f]] <= now + 1} IN
       /\ listed' = listed \ aged
       /\ dropped' = dropped \cup aged
    /\ UNCHANGED <<redis, tokens, blocklist, session, indexUntil, found, condemned, req>>

RedisFails ==
    /\ redisUp /\ outages < MaxOutages
    /\ redisUp' = FALSE
    /\ outages' = outages + 1
    /\ UNCHANGED <<now, tokens, blocklist, sessions, condemned, req>>

RedisRecovers ==
    /\ HasRedis /\ ~redisUp
    /\ redisUp' = TRUE
    /\ UNCHANGED <<now, outages, tokens, blocklist, sessions, condemned, req>>

\* A worker dies and is started again.  TokenService refuses to start while a
\* Redis it requires is unreachable.
Crash(w) ==
    /\ CanCrash
    /\ HasRedis => redisUp
    /\ memJti' = [memJti EXCEPT ![w] = {}]
    /\ memFamily' = [memFamily EXCEPT ![w] = {}]
    /\ session' = [f \in Family |-> IF session[f] = w THEN "none" ELSE session[f]]
    /\ req' = [r \in Request |->
                 IF req[r] # Idle /\ req[r].worker = w THEN Idle ELSE req[r]]
    /\ found' = [r \in Request |->
                   IF req[r] # Idle /\ req[r].worker = w THEN {} ELSE found[r]]
    /\ UNCHANGED <<now, redis, tokens, redisJti, redisFamily, listed, indexUntil, dropped,
                   condemned>>

Handler(r) ==
    \/ CheckFamily(r) \/ CheckToken(r) \/ Condemn(r) \/ PurgeSessions(r)
    \/ LoadUser(r) \/ Consume(r) \/ Mint(r)

Next ==
    \/ \E w \in Worker : Login(w) \/ Crash(w)
    \/ \E r \in Request, w \in Worker, j \in Jti : Present(r, w, j)
    \/ \E r \in Request : Handler(r)
    \/ Tick \/ RedisFails \/ RedisRecovers

Spec == Init /\ [][Next]_vars

\* The event loop resumes every handler that is ready to run.
FairSpec == Spec /\ \A r \in Request : WF_vars(Handler(r))

------------------------------------------------------------------------------
(* Properties *)

\* A worker w would exchange token j for new ones.
Usable(w, j) ==
    /\ j <= issued /\ now < expires[j]
    /\ ~FamilyRevoked(w, family[j])
    /\ ~TokenRevoked(w, j)

\* Rotation: a family never has two refresh tokens that would both be accepted
\* (every exchange retires the token it consumes before it signs a new one).
OneLiveToken ==
    \A j, k \in Jti, v, w \in Worker :
        Usable(v, j) /\ Usable(w, k) /\ family[j] = family[k] => j = k

\* Cascade: once a replay has been detected in a family, none of its tokens is
\* ever accepted again, up to the last instant of the last token's life.
CondemnedFamilyDead ==
    \A j \in Jti, w \in Worker : Usable(w, j) => family[j] \notin condemned

\* A token that has been exchanged stays on the block list until it expires,
\* so the time to live computed by revoke_token is never too short.
ExchangedStaysListed ==
    \A j \in Jti : successors[j] > 0 /\ now < expires[j] => now < redisJti[j]

\* Replay: a request that presents a token exchanged before the request began
\* never reaches the code that signs new tokens, whichever worker serves it.
NoLateExchange ==
    \A r \in Request :
        req[r] # Idle /\ req[r].late => req[r].pc \notin {"loading", "loaded", "consumed"}

\* Double refresh: handlers that checked a token before one of them had
\* consumed it all exchange it, but nobody after them does.
ExchangesBoundedByHandlers ==
    \A j \in Jti : successors[j] <= Cardinality(Request)

\* All: what has been exchanged is known and refused as long as it lives.
ReplaysCaught == ExchangedStaysListed /\ NoLateExchange /\ ExchangesBoundedByHandlers

\* Redis outages: with handlers that run one after the other and workers that
\* do not restart, a token is exchanged at most once through a healthy Redis,
\* once more by each worker, whose own memory remembers it from then on, and
\* once more for each further outage that ends between a handler's check and
\* its write.
ExchangesBoundedByOutages ==
    \A j \in Jti : successors[j] <= Cardinality(Worker) + outages

\* The cascade reaches the sessions: after a replay in a family the session
\* opened by the login that founded it is eventually gone, while Redis answers,
\* unless the index of the account had lost it: its one life had ended, or the
\* cascade of another family deleted it with an index it had read before.
CascadeReachesSession ==
    \A f \in Family : f \in condemned ~> session[f] = "none" \/ f \in dropped
------------------------------------------------------------------------------
(* Refinement of TokenRotation *)

\* The tokens of family f a handler has accepted and not yet answered for, and
\* those some worker would still accept.
InExchange(f) ==
    {req[r].jti : r \in {q \in Request : /\ req[q].pc \in {"loading", "loaded", "consumed"}
                                         /\ family[req[q].jti] = f}}
Accepted(f) == {j \in Jti : family[j] = f /\ \E w \in Worker : Usable(w, j)}

Leaf(f) ==
    IF InExchange(f) # {} THEN CHOOSE j \in InExchange(f) : TRUE
    ELSE IF Accepted(f) # {} THEN CHOOSE j \in Accepted(f) : TRUE
    ELSE 0

Rotation == INSTANCE TokenRotation WITH
    leaf    <- [f \in Family |-> Leaf(f)],
    founded <- 1..families,
    born    <- 1..issued

\* Handlers that run one after the other, over a Redis that answers, implement
\* rotation: every step founds a family, exchanges its one live token, loses
\* it for good, or changes nothing.
RotationSpec == Rotation!Spec
==============================================================================
