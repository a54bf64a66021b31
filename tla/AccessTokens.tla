------------------------------ MODULE AccessTokens ------------------------------
(***************************************************************************)
(* The access tokens of one login: presented with every request, ended by  *)
(* expiry or by the blocklist a logout puts them on, in Redis or, while    *)
(* Redis is away, in the memory of the worker (token_service.py,           *)
(* authenticate_token, get_current_user, guards.py, the logout of          *)
(* api/v1/auth_router.py).  The clock of Deployment counts parts of a      *)
(* second here: the claims of a token are whole seconds.                   *)
(***************************************************************************)
EXTENDS Deployment

CONSTANTS
    Second,        \* ticks in a second
    TokenSeconds,  \* seconds an access token lives (900 in the code)
    MaxAccess,     \* bound on the tokens of the login
    Door           \* slots for requests running at the same time

ASSUME AccessAssumption == {Second, TokenSeconds, MaxAccess} \subseteq Nat \ {0}

VARIABLES
    expires,       \* second at which each token expires, 0 before it is issued
    blocked,       \* tick until which it is in the blocklist in Redis
    blockedHere,   \* the blocklist in the memory of each worker, which never shrinks
    visit,         \* requests under way
    ended          \* whether a logout with each token was recorded, and ever in Redis (history)

accessVars == <<expires, blocked, blockedHere, visit, ended>>

AccessToken == 1..MaxAccess
LastSecond  == TokenSeconds + MaxTime \div Second
Outside     == [pc |-> "outside"]

AccessTypeOK ==
    /\ expires \in [AccessToken -> 0..LastSecond]
    /\ blocked \in [AccessToken -> 0..(MaxTime + Second * (LastSecond + 1))]
    /\ blockedHere \in [Worker -> SUBSET AccessToken]
    /\ visit \in [Door -> {Outside} \cup
                      [pc: {"verified", "authenticated", "admitted"}, worker: Worker, token: AccessToken]]
    /\ ended \in [AccessToken -> {"no", "redis", "memory"}]

\* One token was issued, some time ago.
AccessInit ==
    /\ expires \in {[t \in AccessToken |-> IF t = 1 THEN s ELSE 0] : s \in 1..TokenSeconds}
    /\ blocked = [t \in AccessToken |-> 0]
    /\ blockedHere = [w \in Worker |-> {}]
    /\ visit = [d \in Door |-> Outside]
    /\ ended = [t \in AccessToken |-> "no"]

Visit(d, state) == visit' = [visit EXCEPT ![d] = state]
Leave(d) == Visit(d, Outside)

\* is_token_revoked: a worker asks Redis, if it answers, and its own memory.
Revoked(w, t) == (redisUp /\ now < blocked[t]) \/ t \in blockedHere[w]

\* decode_and_verify.
Verifies(w, t) == ~Revoked(w, t) /\ now < Second * expires[t]

\* get_current_user, up to the verification of the token.
Enter(d, w, t) ==
    /\ visit[d] = Outside /\ Verifies(w, t)
    /\ Visit(d, [pc |-> "verified", worker |-> w, token |-> t])
    /\ UNCHANGED <<deployment, expires, blocked, blockedHere, ended>>

\* authenticate_token awaits the user and rejects a missing or inactive one (of
\* which UserCache tells how stale it may be).
Authenticate(d) ==
    /\ visit[d].pc = "verified"
    /\ Visit(d, [visit[d] EXCEPT !.pc = "authenticated"]) \/ Leave(d)
    /\ UNCHANGED <<deployment, expires, blocked, blockedHere, ended>>

\* The guard of an embedding application, require_auth, reads the user again.
RequireAuth(d) ==
    /\ visit[d].pc = "authenticated"
    /\ Visit(d, [visit[d] EXCEPT !.pc = "admitted"]) \/ Leave(d)
    /\ UNCHANGED <<deployment, expires, blocked, blockedHere, ended>>

\* create_access_token.
IssueToken(t) ==
    /\ expires[t] = 0 /\ \A u \in 1..(t - 1) : expires[u] # 0
    /\ expires' = [expires EXCEPT ![t] = now \div Second + TokenSeconds]

\* switch_active_workspace, for whom has_role or the membership allows it: a new
\* token for the other workspace; the token presented lives on.
SwitchWorkspace(d, t) ==
    /\ visit[d].pc = "authenticated"
    /\ IssueToken(t)
    /\ Leave(d)
    /\ UNCHANGED <<deployment, blocked, blockedHere, ended>>

\* Mutant: the seconds left are rounded down.
RevokeTokenRoundedDown(w, t) ==
    LET left == expires[t] - (now + Second - 1) \div Second
        ttl  == IF left < 1 THEN 1 ELSE left
    IN  IF redisUp
        THEN blocked' = [blocked EXCEPT ![t] = now + Second * ttl] /\ UNCHANGED blockedHere
        ELSE blockedHere' = [blockedHere EXCEPT ![w] = @ \cup {t}] /\ UNCHANGED blocked

\* revoke_token: for the whole seconds the token has left, at least one.
RevokeToken(w, t) ==
    LET left == expires[t] - now \div Second
        ttl  == IF left < 1 THEN 1 ELSE left
    IN  IF redisUp
        THEN blocked' = [blocked EXCEPT ![t] = now + Second * ttl] /\ UNCHANGED blockedHere
        ELSE blockedHere' = [blockedHere EXCEPT ![w] = @ \cup {t}] /\ UNCHANGED blocked

\* The logout; sessions and devices it ends are in SessionStore, PasswordReset.
LogOut(d) ==
    LET t == visit[d].token IN
    /\ visit[d].pc = "authenticated"
    /\ RevokeToken(visit[d].worker, t)
    /\ ended' = [ended EXCEPT ![t] = IF @ = "redis" \/ redisUp THEN "redis" ELSE "memory"]
    /\ Leave(d)
    /\ UNCHANGED <<deployment, expires>>

\* Any other request.
Respond(d) ==
    /\ visit[d].pc \in {"authenticated", "admitted"}
    /\ Leave(d)
    /\ UNCHANGED <<deployment, expires, blocked, blockedHere, ended>>

RestartWorker(w) ==
    /\ blockedHere' = [blockedHere EXCEPT ![w] = {}]
    /\ visit' = [d \in Door |->
                     IF visit[d] # Outside /\ visit[d].worker = w THEN Outside ELSE visit[d]]
    /\ UNCHANGED <<deployment, expires, blocked, ended>>

AccessNext ==
    \/ \E d \in Door :
           \/ \E w \in Worker, t \in AccessToken : Enter(d, w, t)
           \/ Authenticate(d) \/ RequireAuth(d) \/ LogOut(d) \/ Respond(d)
           \/ \E t \in AccessToken : SwitchWorkspace(d, t)
    \/ \E w \in Worker : RestartWorker(w)
    \/ TimePasses /\ UNCHANGED accessVars
    \/ (RedisFails \/ RedisRecovers) /\ UNCHANGED accessVars

AccessSpec == DeploymentInit /\ AccessInit /\ [][AccessNext]_<<deployment, accessVars>>

------------------------------------------------------------------------------
(* Properties *)

\* A logout lasts as long as its token: once one was recorded in Redis no worker
\* that reaches Redis accepts the token again, up to the last fraction of its
\* last second, and whichever logouts of it follow in an outage.
RevokedStaysOut ==
    \A t \in AccessToken, w \in Worker : ended[t] = "redis" /\ redisUp => ~Verifies(w, t)
================================================================================
