-------------------------- MODULE TokenFamily_proofs --------------------------
(***************************************************************************)
(* Theorems about TokenFamily, for every number of workers, handlers,      *)
(* accounts, families and tokens, and every token lifetime.                *)
(***************************************************************************)
EXTENDS TokenFamily, FiniteSetTheorems, TLAPS

(***************************************************************************)
(* Changing the phase of a busy handler leaves a busy handler.             *)
(***************************************************************************)
LEMMA BusyPhase ==
    ASSUME NEW b \in Busy, NEW p \in Phase \ {"idle"}
    PROVE  /\ [b EXCEPT !.pc = p] \in Busy
           /\ [b EXCEPT !.pc = p].pc = p
           /\ [b EXCEPT !.pc = p].jti = b.jti
           /\ [b EXCEPT !.pc = p].worker = b.worker
           /\ [b EXCEPT !.pc = p].began = b.began
           /\ [b EXCEPT !.pc = p].late = b.late
BY DEF Busy, Phase

(***************************************************************************)
(* A handler that is in any phase but "idle" carries a request.            *)
(***************************************************************************)
LEMMA BusyRequest ==
    ASSUME TypeOK, NEW r \in Request, req[r].pc # "idle"
    PROVE  /\ req[r] \in Busy
           /\ req[r] # Idle
           /\ req[r].jti \in Jti
           /\ req[r].jti \in 1..issued
           /\ req[r].worker \in Worker
           /\ family[req[r].jti] \in 1..families
           /\ family[req[r].jti] \in Family
<1>1. req[r] # Idle
  BY DEF Idle
<1>2. req[r] \in Busy
  BY <1>1 DEF TypeOK
<1>3. req[r].jti \in Jti /\ req[r].worker \in Worker
  BY <1>2 DEF Busy
<1>4. req[r].jti \in 1..issued
  BY <1>1, <1>3 DEF TypeOK, Jti
<1>5. family[req[r].jti] \in 1..families
  BY <1>4 DEF TypeOK
<1>6. 1..families \subseteq Family
  BY ConstantsAssumption DEF TypeOK, Family
<1>. QED BY <1>1, <1>2, <1>3, <1>4, <1>5, <1>6

(***************************************************************************)
(* Signing a token in a family that exists afterwards keeps the token      *)
(* tables well typed.                                                      *)
(***************************************************************************)
LEMMA SignType ==
    ASSUME TypeOK, NEW f \in Nat, Sign(f),
           families' \in 0..MaxFamilies, families <= families', f \in 1..families', now' = now
    PROVE  /\ issued' \in 0..MaxTokens
           /\ issued' = issued + 1
           /\ issued' \in Jti
           /\ family' \in [Jti -> Nat]
           /\ \A j \in 1..issued' : family'[j] \in 1..families'
           /\ expires' \in [Jti -> Nat]
<1>. USE ConstantsAssumption DEF Jti
<1>1. issued' \in 0..MaxTokens /\ issued' = issued + 1 /\ issued' \in Jti
  BY DEF Sign, TypeOK
<1>2. family' \in [Jti -> Nat] /\ expires' \in [Jti -> Nat]
  <2>1. now \in Nat /\ now + Lifetime \in Nat
    BY DEF TypeOK
  <2>. QED BY <2>1 DEF Sign, TypeOK
<1>3. ASSUME NEW j \in 1..issued' PROVE family'[j] \in 1..families'
  <2>1. CASE j = issued + 1
    BY <1>1, <2>1 DEF Sign, TypeOK
  <2>2. CASE j # issued + 1
    <3>1. j \in 1..issued /\ j \in Jti
      BY <1>1, <1>3, <2>2 DEF TypeOK
    <3>2. family'[j] = family[j]
      BY <2>2, <3>1 DEF Sign, TypeOK
    <3>. QED BY <3>1, <3>2 DEF TypeOK
  <2>. QED BY <2>1, <2>2
<1>. QED BY <1>1, <1>2, <1>3

(***************************************************************************)
(* The two steps of delete_all_user_sessions touch sessions only.          *)
(***************************************************************************)
LEMMA PurgeStep ==
    ASSUME NEW r \in Request, PurgeSessions(r)
    PROVE  /\ UNCHANGED <<now, redis, tokens, blocklist, condemned>>
           /\ Finish(r) \/ (req[r].pc = "cascade" /\ Goto(r, "purging"))
           /\ req[r].pc \in {"cascade", "purging"}
BY DEF PurgeSessions, ReadIndex, DeleteSessions

(***************************************************************************)
(* Ending sessions and reading an index leaves the session tables typed.   *)
(***************************************************************************)
LEMMA PurgeType ==
    ASSUME TypeOK, NEW r \in Request, PurgeSessions(r)
    PROVE  /\ session' \in [Family -> {"none", "redis"} \cup Worker]
           /\ listed' \subseteq Family /\ dropped' \subseteq Family
           /\ indexUntil' \in [User -> Nat]
           /\ found' \in [Request -> SUBSET Family]
<1>1. ASSUME NEW F \in SUBSET Family, End(F)
      PROVE  session' \in [Family -> {"none", "redis"} \cup Worker]
  BY <1>1 DEF End, TypeOK
<1>2. InMemory(r) \in SUBSET Family /\ found[r] \in SUBSET Family
  BY DEF InMemory, OwnedBy, TypeOK
<1>3. CASE ReadIndex(r)
  BY <1>1, <1>2, <1>3 DEF ReadIndex, TypeOK
<1>4. CASE DeleteSessions(r)
  BY <1>1, <1>2, <1>4 DEF DeleteSessions, TypeOK
<1>. QED BY <1>3, <1>4 DEF PurgeSessions

(***************************************************************************)
(* The states of TypeOK: every list, token and handler record has its      *)
(* type, and handlers only ever hold tokens that have been signed.         *)
(***************************************************************************)
THEOREM TypeCorrect == Spec => []TypeOK
<1>. USE ConstantsAssumption
<1>1. Init => TypeOK
  BY DEF Init, TypeOK, Family, Jti
<1>2. TypeOK /\ [Next]_vars => TypeOK'
  <2>. SUFFICES ASSUME TypeOK, [Next]_vars PROVE TypeOK'
    OBVIOUS
  <2>1. ASSUME NEW w \in Worker, Login(w) PROVE TypeOK'
    <3>1. families + 1 \in Family /\ families' = families + 1 /\ now' = now
      BY <2>1 DEF Login, TypeOK, Family
    <3>2. Sign(families + 1)
      BY <2>1 DEF Login
    <3>3. /\ issued' \in 0..MaxTokens
          /\ issued' = issued + 1
          /\ family' \in [Jti -> Nat]
          /\ \A j \in 1..issued' : family'[j] \in 1..families'
          /\ expires' \in [Jti -> Nat]
      <4>1. families + 1 \in Nat /\ families <= families' /\ families + 1 \in 1..families'
        BY <3>1 DEF TypeOK
      <4>2. families' \in 0..MaxFamilies
        BY <3>1 DEF Family
      <4>. QED BY <3>1, <3>2, <4>1, <4>2, SignType
    <3>4. /\ session' \in [Family -> {"none", "redis"} \cup Worker]
          /\ listed' \subseteq Family /\ indexUntil' \in [User -> Nat]
      BY <2>1, <3>1 DEF Login, TypeOK
    <3>5. \A r \in Request : req'[r] # Idle => req'[r].jti <= issued'
      BY <2>1, <3>3, BusyRequest DEF Login, TypeOK, Busy, Idle, Jti
    <3>6. families' \in 0..MaxFamilies
      BY <3>1 DEF Family
    <3>. QED BY <2>1, <3>3, <3>4, <3>5, <3>6 DEF Login, TypeOK, redis, blocklist
  <2>2. ASSUME NEW w \in Worker, Crash(w) PROVE TypeOK'
    BY <2>2 DEF Crash, TypeOK, redis, tokens
  <2>3. ASSUME NEW r \in Request, NEW w \in Worker, NEW j \in Jti, Present(r, w, j)
        PROVE  TypeOK'
    <3>1. [pc |-> "decoded", worker |-> w, jti |-> j, began |-> now,
           late |-> successors[j] > 0] \in Busy
      BY DEF Busy, Phase, TypeOK
    <3>2. j <= issued
      BY <2>3 DEF Present
    <3>. QED BY <2>3, <3>1, <3>2 DEF Present, TypeOK, redis, tokens, sessions, blocklist
  <2>4. ASSUME NEW r \in Request, Handler(r) PROVE TypeOK'
    <3>1. ASSUME NEW p \in Phase \ {"idle"}, req[r].pc # "idle", Goto(r, p)
          PROVE  /\ req' \in [Request -> {Idle} \cup Busy]
                 /\ \A q \in Request : req'[q] # Idle => req'[q].jti <= issued
      BY <3>1, BusyRequest, BusyPhase DEF Goto, TypeOK
    <3>2. ASSUME Finish(r)
          PROVE  /\ req' \in [Request -> {Idle} \cup Busy]
                 /\ \A q \in Request : req'[q] # Idle => req'[q].jti <= issued
      BY <3>2 DEF Finish, TypeOK
    <3>3. CASE CheckFamily(r)
      BY <3>1, <3>2, <3>3 DEF CheckFamily, TypeOK, redis, tokens, sessions, blocklist, Phase
    <3>4. CASE CheckToken(r)
      BY <3>1, <3>4 DEF CheckToken, TypeOK, redis, tokens, sessions, blocklist, Phase
    <3>5. CASE Condemn(r)
      BY <3>1, <3>5, BusyRequest DEF Condemn, RevokeFamily, TypeOK, redis, tokens, sessions, Phase
    <3>6. CASE PurgeSessions(r)
      <4>1. /\ UNCHANGED <<now, redis, tokens, blocklist, condemned>>
            /\ Finish(r) \/ (req[r].pc = "cascade" /\ Goto(r, "purging"))
        BY <3>6, PurgeStep
      <4>2. /\ req' \in [Request -> {Idle} \cup Busy]
            /\ \A q \in Request : req'[q] # Idle => req'[q].jti <= issued
        BY <3>1, <3>2, <4>1 DEF Phase
      <4>. QED BY <3>6, <4>1, <4>2, PurgeType DEF TypeOK, redis, tokens, blocklist
    <3>7. CASE LoadUser(r)
      BY <3>1, <3>2, <3>7 DEF LoadUser, TypeOK, redis, tokens, sessions, blocklist, Phase
    <3>8. CASE Consume(r)
      BY <3>1, <3>8, BusyRequest DEF Consume, RevokeToken, TypeOK, redis, tokens, sessions, Phase
    <3>9. CASE Mint(r)
      <4>1. /\ family[req[r].jti] \in 1..families /\ family[req[r].jti] \in Nat
            /\ req[r].jti \in Jti
        BY <3>9, BusyRequest DEF Mint
      <4>2. Sign(family[req[r].jti]) /\ families' = families /\ now' = now
        BY <3>9 DEF Mint
      <4>3. /\ issued' \in 0..MaxTokens
            /\ issued' = issued + 1
            /\ family' \in [Jti -> Nat]
            /\ \A j \in 1..issued' : family'[j] \in 1..families'
            /\ expires' \in [Jti -> Nat]
        BY <4>1, <4>2, SignType DEF TypeOK
      <4>4. successors' \in [Jti -> Nat]
        BY <3>9, <4>1 DEF Mint, TypeOK
      <4>5. req' \in [Request -> {Idle} \cup Busy]
        BY <3>2, <3>9 DEF Mint
      <4>6. \A q \in Request : req'[q] # Idle => req'[q].jti <= issued'
        BY <3>2, <3>9, <4>3, <4>5 DEF Mint, TypeOK, Busy, Jti
      <4>. QED BY <3>9, <4>3, <4>4, <4>5, <4>6 DEF Mint, TypeOK, redis, blocklist, sessions
    <3>. QED BY <2>4, <3>3, <3>4, <3>5, <3>6, <3>7, <3>8, <3>9 DEF Handler
  <2>5. CASE Tick
    BY <2>5 DEF Tick, TypeOK, redis, tokens, blocklist
  <2>6. CASE RedisFails
    <3>1. outages' \in 0..MaxOutages
      BY <2>6, outages < MaxOutages, outages' = outages + 1 DEF RedisFails, TypeOK
    <3>2. redisUp' \in BOOLEAN
      BY <2>6 DEF RedisFails
    <3>. QED BY <2>6, <3>1, <3>2 DEF RedisFails, TypeOK, tokens, blocklist, sessions
  <2>7. CASE RedisRecovers
    BY <2>7 DEF RedisRecovers, TypeOK, tokens, blocklist, sessions
  <2>8. CASE UNCHANGED vars
    BY <2>8 DEF vars, TypeOK
  <2>. QED BY <2>1, <2>2, <2>3, <2>4, <2>5, <2>6, <2>7, <2>8 DEF Next
<1>. QED BY <1>1, <1>2, PTL DEF Spec

------------------------------------------------------------------------------
(***************************************************************************)
(* Replays, while Redis answers.  The lists cover every token they should: *)
(* a key outlives the token it blocks, and a token that has been exchanged *)
(* has a key.  A handler between jwt.decode and the lookup of its token    *)
(* still holds an unexpired token, because no await lies between the two.  *)
(***************************************************************************)
ListsCover ==
    \A j \in Jti :
        /\ redisJti[j] # 0 => j <= issued /\ expires[j] <= redisJti[j]
        /\ successors[j] > 0 => redisJti[j] # 0

HandlerCovered(r) ==
    /\ req[r].pc \in {"decoded", "familyOk"} => now < expires[req[r].jti]
    /\ req[r].pc = "consumed" => redisJti[req[r].jti] # 0
    /\ req[r].late => /\ successors[req[r].jti] > 0
                      /\ req[r].pc \notin {"loading", "loaded", "consumed"}

ReplayInv ==
    /\ TypeOK
    /\ redisUp
    /\ ListsCover
    /\ \A r \in Request : req[r] # Idle => HandlerCovered(r)

\* Calls to Redis have not raised so far: a Redis that is configured answers.
Calm == outages = 0

\* Redis is configured and its calls never raise.
Healthy == HasRedis /\ MaxOutages = 0

\* What was an outage once stays one.
LEMMA CalmBefore ==
    ASSUME TypeOK, [Next]_vars, Calm'
    PROVE  Calm
<1>1. outages \in Nat
  BY DEF TypeOK
<1>2. outages' = outages \/ outages' = outages + 1
  <2>1. ASSUME NEW r \in Request, Handler(r) PROVE outages' = outages
    BY <2>1, PurgeStep DEF Handler, CheckFamily, CheckToken, Condemn, LoadUser, Consume,
               Mint, redis
  <2>. QED BY <2>1 DEF Next, Login, Crash, Present, Tick, RedisFails, RedisRecovers, redis, vars
<1>. QED BY <1>1, <1>2 DEF Calm

LEMMA HealthyIsCalm == Healthy => (Spec => []Calm)
<1>. SUFFICES ASSUME Healthy PROVE Spec => []Calm
  OBVIOUS
<1>1. TypeOK => Calm
  BY DEF Healthy, TypeOK, Calm
<1>. QED BY <1>1, TypeCorrect, PTL

(***************************************************************************)
(* One handler moves on and the lists stay: the other handlers are as      *)
(* covered as before.                                                      *)
(***************************************************************************)
LEMMA OthersCovered ==
    ASSUME ReplayInv, NEW r \in Request,
           req' = [req EXCEPT ![r] = req'[r]],
           UNCHANGED <<now, expires, successors, redisJti>>,
           req'[r] # Idle => HandlerCovered(r)'
    PROVE  \A q \in Request : req'[q] # Idle => HandlerCovered(q)'
<1>. SUFFICES ASSUME NEW q \in Request, req'[q] # Idle, q # r PROVE HandlerCovered(q)'
  OBVIOUS
<1>1. req'[q] = req[q]
  BY DEF ReplayInv, TypeOK
<1>. QED BY <1>1 DEF ReplayInv, HandlerCovered

\* Nothing is listed, exchanged or in flight when the system starts.
LEMMA ReplayInvInit == HasRedis /\ Init => ReplayInv
<1>1. Init => TypeOK
  BY ConstantsAssumption DEF Init, TypeOK, Family, Jti
<1>. QED BY <1>1 DEF Init, ReplayInv, ListsCover, Idle

\* Every action keeps the lists of a healthy Redis ahead of the handlers.
LEMMA ReplayInvStep ==
    ASSUME Calm', ReplayInv, TypeOK', [Next]_vars
    PROVE  ReplayInv'
<1>. USE ConstantsAssumption
<1>0. TypeOK /\ redisUp /\ ListsCover
  BY DEF ReplayInv
<1>1. ASSUME NEW w \in Worker, Login(w) PROVE ReplayInv'
  <2>1. redisUp' /\ UNCHANGED <<now, successors, redisJti, req>>
    BY <1>1, <1>0 DEF Login, redis, blocklist
  <2>2. issued' = issued + 1 /\ \A j \in Jti : j <= issued => expires'[j] = expires[j]
    BY <1>1 DEF Login, Sign, TypeOK, ReplayInv, Jti
  <2>3. ListsCover'
    BY <1>0, <2>1, <2>2 DEF ListsCover, TypeOK, Jti
  <2>4. ASSUME NEW q \in Request, req[q] # Idle PROVE HandlerCovered(q)'
    <3>1. req[q].jti \in Jti /\ req[q].jti <= issued
      BY <2>4, <1>0 DEF TypeOK, Busy
    <3>2. expires'[req[q].jti] = expires[req[q].jti]
      BY <2>2, <3>1
    <3>. QED BY <2>1, <2>4, <3>2 DEF ReplayInv, HandlerCovered
  <2>. QED BY <2>1, <2>3, <2>4 DEF ReplayInv
<1>2. ASSUME NEW w \in Worker, Crash(w) PROVE ReplayInv'
  <2>1. redisUp' /\ UNCHANGED <<now, issued, expires, successors, redisJti>>
    BY <1>2, <1>0 DEF Crash, redis, tokens
  <2>2. \A q \in Request : req'[q] # Idle => req'[q] = req[q]
    BY <1>2 DEF Crash
  <2>. QED BY <1>0, <2>1, <2>2 DEF ReplayInv, ListsCover, HandlerCovered
<1>3. ASSUME NEW r \in Request, NEW w \in Worker, NEW j \in Jti, Present(r, w, j)
      PROVE  ReplayInv'
  <2>1. redisUp' /\ UNCHANGED <<now, issued, expires, successors, redisJti>>
    BY <1>3, <1>0 DEF Present, redis, tokens, blocklist
  <2>2. /\ req' = [req EXCEPT ![r] = req'[r]]
        /\ req'[r].pc = "decoded" /\ req'[r].jti = j
        /\ req'[r].late = (successors[j] > 0)
        /\ now < expires[j]
    BY <1>3, <1>0 DEF Present, TypeOK
  <2>3. HandlerCovered(r)'
    BY <2>1, <2>2 DEF HandlerCovered
  <2>. QED BY <1>0, <2>1, <2>2, <2>3, OthersCovered DEF ReplayInv, ListsCover
<1>4. ASSUME NEW r \in Request, Handler(r) PROVE ReplayInv'
  <2>1. redisUp'
    BY <1>0, <1>4, PurgeStep DEF Handler, CheckFamily, CheckToken, Condemn, LoadUser,
                      Consume, Mint, redis
  <2>2. ASSUME UNCHANGED <<now, issued, expires, successors, redisJti>>,
               req' = [req EXCEPT ![r] = req'[r]], req'[r] # Idle => HandlerCovered(r)'
        PROVE  ReplayInv'
    BY <1>0, <2>1, <2>2, OthersCovered DEF ReplayInv, ListsCover
  <2>3. ASSUME Finish(r)
        PROVE  req' = [req EXCEPT ![r] = req'[r]] /\ req'[r] = Idle
    BY <1>0, <2>3 DEF Finish, TypeOK
  <2>4. ASSUME NEW p \in Phase \ {"idle"}, req[r].pc # "idle", Goto(r, p)
        PROVE  /\ req' = [req EXCEPT ![r] = req'[r]]
               /\ req[r] # Idle /\ req[r].jti \in 1..issued /\ req[r].jti \in Jti
               /\ req'[r].pc = p /\ req'[r].jti = req[r].jti
               /\ req'[r].late = req[r].late
    <3>1. req[r] \in Busy /\ req'[r] = [req[r] EXCEPT !.pc = p]
      BY <1>0, <2>4, BusyRequest DEF Goto, TypeOK
    <3>2. req' = [req EXCEPT ![r] = req'[r]]
      BY <1>0, <2>4, <3>1 DEF Goto, TypeOK
    <3>. QED BY <1>0, <2>4, <3>1, <3>2, BusyRequest, BusyPhase
  <2>5. CASE CheckFamily(r)
    <3>1. UNCHANGED <<now, issued, expires, successors, redisJti>>
      BY <2>5 DEF CheckFamily, tokens, blocklist
    <3>2. req[r].pc = "decoded" /\ (Finish(r) \/ Goto(r, "familyOk"))
      BY <2>5 DEF CheckFamily
    <3>. QED BY <2>2, <2>3, <2>4, <3>1, <3>2 DEF ReplayInv, HandlerCovered, Phase
  <2>6. CASE CheckToken(r)
    <3>1. UNCHANGED <<now, issued, expires, successors, redisJti>>
      BY <2>6 DEF CheckToken, tokens, blocklist
    <3>2. /\ req[r].pc = "familyOk"
          /\ \/ Goto(r, "replay")
             \/ Goto(r, "loading") /\ ~TokenRevoked(req[r].worker, req[r].jti)
      BY <2>6 DEF CheckToken
    <3>3. req[r] # Idle /\ req[r].jti \in Jti /\ HandlerCovered(r)
      BY <1>0, <3>2, BusyRequest DEF ReplayInv
    <3>4. req[r].late => TokenRevoked(req[r].worker, req[r].jti)
      <4>. SUFFICES ASSUME req[r].late PROVE now < redisJti[req[r].jti]
        BY <1>0 DEF TokenRevoked
      <4>1. now < expires[req[r].jti] /\ redisJti[req[r].jti] # 0
        BY <1>0, <3>2, <3>3 DEF HandlerCovered, ListsCover
      <4>2. expires[req[r].jti] <= redisJti[req[r].jti]
        BY <1>0, <3>3, <4>1 DEF ListsCover
      <4>. QED BY <1>0, <3>3, <4>1, <4>2 DEF TypeOK
    <3>. QED BY <2>2, <2>4, <3>1, <3>2, <3>3, <3>4 DEF HandlerCovered, Phase
  <2>7. CASE Condemn(r)
    <3>1. UNCHANGED <<now, issued, expires, successors, redisJti>>
      BY <2>7 DEF Condemn, tokens
    <3>2. req[r].pc = "replay" /\ Goto(r, "cascade")
      BY <2>7 DEF Condemn
    <3>. QED BY <2>2, <2>4, <3>1, <3>2 DEF ReplayInv, HandlerCovered, Phase
  <2>8. CASE PurgeSessions(r)
    <3>1. UNCHANGED <<now, issued, expires, successors, redisJti>>
      BY <2>8, PurgeStep DEF tokens, blocklist
    <3>2. Finish(r) \/ (req[r].pc = "cascade" /\ Goto(r, "purging"))
      BY <2>8, PurgeStep
    <3>. QED BY <2>2, <2>3, <2>4, <3>1, <3>2 DEF ReplayInv, HandlerCovered, Phase
  <2>9. CASE LoadUser(r)
    <3>1. UNCHANGED <<now, issued, expires, successors, redisJti>>
      BY <2>9 DEF LoadUser, tokens, blocklist
    <3>2. req[r].pc = "loading" /\ (Finish(r) \/ Goto(r, "loaded"))
      BY <2>9 DEF LoadUser
    <3>. QED BY <2>2, <2>3, <2>4, <3>1, <3>2 DEF ReplayInv, HandlerCovered, Phase
  <2>10. CASE Consume(r)
    <3>1. /\ UNCHANGED <<now, issued, expires, successors>>
          /\ req[r].pc = "loaded" /\ Goto(r, "consumed")
      BY <2>10 DEF Consume, tokens
    <3>2. PICK t \in Nat : /\ t >= 1 /\ now + t >= expires[req[r].jti]
                           /\ redisJti' = [redisJti EXCEPT ![req[r].jti] = now + t]
      <4>1. expires[req[r].jti] \in Nat /\ now \in Nat
        BY <1>0, <3>1, BusyRequest DEF TypeOK
      <4>2. RevokeToken(req[r].worker, req[r].jti)
        BY <2>10 DEF Consume
      <4>3. CASE expires[req[r].jti] - now > 1
        <5>1. redisJti' = [redisJti EXCEPT ![req[r].jti] = now + (expires[req[r].jti] - now)]
          BY <1>0, <4>2, <4>3 DEF RevokeToken
        <5>2. /\ expires[req[r].jti] - now \in Nat /\ expires[req[r].jti] - now >= 1
              /\ now + (expires[req[r].jti] - now) >= expires[req[r].jti]
          BY <4>1, <4>3
        <5>. QED BY <5>1, <5>2
      <4>4. CASE ~(expires[req[r].jti] - now > 1)
        BY <1>0, <4>1, <4>2, <4>4 DEF RevokeToken
      <4>. QED BY <4>3, <4>4
    <3>3. /\ req[r].jti \in Jti /\ req[r].jti <= issued /\ req[r] # Idle
          /\ redisJti'[req[r].jti] # 0
          /\ expires[req[r].jti] <= redisJti'[req[r].jti]
          /\ \A j \in Jti : j # req[r].jti => redisJti'[j] = redisJti[j]
      BY <1>0, <3>1, <3>2, BusyRequest DEF TypeOK
    <3>4. ListsCover'
      BY <1>0, <3>1, <3>3 DEF ListsCover
    <3>5. HandlerCovered(r)'
      BY <2>4, <3>1, <3>3 DEF ReplayInv, HandlerCovered, Phase
    <3>6. ASSUME NEW q \in Request, q # r, req'[q] # Idle PROVE HandlerCovered(q)'
      <4>1. req'[q] = req[q]
        BY <1>0, <3>1, <3>6 DEF Goto, TypeOK
      <4>2. req[q].jti \in Jti
        BY <1>0, <3>6, <4>1 DEF TypeOK, Busy
      <4>3. redisJti[req[q].jti] # 0 => redisJti'[req[q].jti] # 0
        BY <3>3, <4>2
      <4>. QED BY <3>1, <3>6, <4>1, <4>3 DEF ReplayInv, HandlerCovered
    <3>. QED BY <2>1, <3>4, <3>5, <3>6 DEF ReplayInv
  <2>11. CASE Mint(r)
    <3>1. /\ UNCHANGED <<now, redisJti>> /\ req[r].pc = "consumed" /\ Finish(r)
          /\ successors' = [successors EXCEPT ![req[r].jti] = @ + 1]
          /\ Sign(family[req[r].jti])
      BY <2>11 DEF Mint, blocklist
    <3>2. req[r].jti \in Jti /\ redisJti[req[r].jti] # 0
      BY <1>0, <3>1, BusyRequest DEF ReplayInv, HandlerCovered
    <3>3. issued' = issued + 1 /\ \A j \in Jti : j <= issued => expires'[j] = expires[j]
      BY <1>0, <3>1 DEF Sign, TypeOK, Jti
    <3>4. \A j \in Jti : /\ j # req[r].jti => successors'[j] = successors[j]
                         /\ successors[j] > 0 => successors'[j] > 0
      BY <1>0, <3>1, <3>2 DEF TypeOK
    <3>5. ListsCover'
      <4>. SUFFICES ASSUME NEW j \in Jti
                    PROVE  /\ redisJti[j] # 0 => j <= issued' /\ expires'[j] <= redisJti[j]
                           /\ successors'[j] > 0 => redisJti[j] # 0
        BY <3>1 DEF ListsCover
      <4>1. redisJti[j] # 0 => j <= issued' /\ expires'[j] <= redisJti[j]
        BY <1>0, <3>3 DEF ListsCover, TypeOK, Jti
      <4>2. successors'[j] > 0 => redisJti[j] # 0
        BY <1>0, <3>2, <3>4 DEF ListsCover
      <4>. QED BY <4>1, <4>2
    <3>6. ASSUME NEW q \in Request, req'[q] # Idle PROVE HandlerCovered(q)'
      <4>1. req'[q] = req[q]
        BY <1>0, <2>3, <3>1, <3>6 DEF Finish, TypeOK
      <4>2. req[q].jti \in Jti /\ req[q].jti <= issued
        BY <1>0, <3>6, <4>1 DEF TypeOK, Busy
      <4>. QED BY <3>1, <3>3, <3>4, <3>6, <4>1, <4>2 DEF ReplayInv, HandlerCovered
    <3>. QED BY <2>1, <3>5, <3>6 DEF ReplayInv
  <2>. QED BY <1>4, <2>5, <2>6, <2>7, <2>8, <2>9, <2>10, <2>11 DEF Handler
<1>5. CASE Tick
  <2>1. /\ UNCHANGED <<redisUp, issued, expires, successors, redisJti, req>>
        /\ \A q \in Request : req[q] # Idle => req[q].pc = "loading"
    BY <1>5 DEF Tick, redis, tokens, blocklist
  <2>. QED BY <1>0, <2>1 DEF ReplayInv, ListsCover, HandlerCovered
<1>6. ~RedisFails /\ ~RedisRecovers
  BY <1>0 DEF RedisFails, RedisRecovers, Calm, TypeOK
<1>7. CASE UNCHANGED vars
  BY <1>0, <1>7 DEF vars, ReplayInv, ListsCover, HandlerCovered
<1>. QED BY <1>1, <1>2, <1>3, <1>4, <1>5, <1>6, <1>7 DEF Next

\* Handlers that have accepted j and not yet signed a successor.
Exchanging(j) ==
    {r \in Request : req[r].pc \in {"loading", "loaded", "consumed"} /\ req[r].jti = j}

\* From the moment a token is listed no handler is added to those that hold it.
HoldersLeft ==
    \A j \in Jti :
        redisJti[j] # 0 => successors[j] + Cardinality(Exchanging(j)) <= Cardinality(Request)

\* The handlers that hold a token can be counted.
LEMMA Holders ==
    ASSUME NEW j
    PROVE  /\ IsFiniteSet(Exchanging(j)) /\ IsFiniteSet(Exchanging(j)')
           /\ Cardinality(Exchanging(j)) \in Nat /\ Cardinality(Exchanging(j)') \in Nat
           /\ Cardinality(Exchanging(j)') <= Cardinality(Request)
           /\ Cardinality(Request) \in Nat
           /\ Exchanging(j)' \subseteq Exchanging(j)
                => Cardinality(Exchanging(j)') <= Cardinality(Exchanging(j))
<1>1. Exchanging(j) \subseteq Request /\ Exchanging(j)' \subseteq Request
  BY DEF Exchanging
<1>2. IsFiniteSet(Exchanging(j)) /\ IsFiniteSet(Exchanging(j)')
      /\ Cardinality(Exchanging(j)') <= Cardinality(Request)
  BY <1>1, FiniteRequests, FS_Subset
<1>. QED BY <1>2, FiniteRequests, FS_CardinalityType, FS_Subset

\* A token that is listed, or no longer exchanged, when nobody accepts it anew.
LEMMA HoldersKept ==
    ASSUME TypeOK, HoldersLeft, NEW j \in Jti, UNCHANGED <<redisJti, successors>>,
           redisJti[j] # 0 => Exchanging(j)' \subseteq Exchanging(j)
    PROVE  redisJti'[j] # 0 =>
               successors'[j] + Cardinality(Exchanging(j)') <= Cardinality(Request)
<1>. SUFFICES ASSUME redisJti[j] # 0
              PROVE  successors[j] + Cardinality(Exchanging(j)') <= Cardinality(Request)
  OBVIOUS
<1>1. Cardinality(Exchanging(j)') <= Cardinality(Exchanging(j))
  BY Holders
<1>2. successors[j] \in Nat /\ successors[j] + Cardinality(Exchanging(j)) <= Cardinality(Request)
  BY DEF TypeOK, HoldersLeft
<1>. QED BY <1>1, <1>2, Holders

LEMMA HoldersStep ==
    ASSUME Calm', ReplayInv, TypeOK', HoldersLeft, [Next]_vars
    PROVE  HoldersLeft'
<1>0. TypeOK /\ redisUp /\ ListsCover
  BY DEF ReplayInv
<1>1. ASSUME UNCHANGED <<redisJti, successors>>,
             \A q \in Request : req'[q].pc \in {"loading", "loaded", "consumed"} =>
                 /\ req[q].pc \in {"loading", "loaded", "consumed"} /\ req'[q].jti = req[q].jti
      PROVE  HoldersLeft'
  <2>1. \A j \in Jti : Exchanging(j)' \subseteq Exchanging(j)
    BY <1>1 DEF Exchanging
  <2>. QED BY <1>0, <1>1, <2>1, HoldersKept DEF HoldersLeft
<1>. Idle.pc = "idle"
  BY DEF Idle
<1>2. CASE (\E w \in Worker : Login(w) \/ Crash(w)) \/ Tick \/ UNCHANGED vars
  BY <1>1, <1>2 DEF Login, Crash, Tick, vars, tokens, blocklist
<1>3. ASSUME NEW r \in Request, NEW w \in Worker, NEW j \in Jti, Present(r, w, j)
      PROVE  HoldersLeft'
  <2>1. \A q \in Request : req'[q] = req[q] \/ req'[q].pc = "decoded"
    BY <1>0, <1>3 DEF Present, TypeOK
  <2>. QED BY <1>1, <1>3, <2>1 DEF Present, tokens, blocklist
<1>4. ~RedisFails /\ ~RedisRecovers
  BY <1>0 DEF RedisFails, RedisRecovers, Calm, TypeOK
<1>5. ASSUME NEW r \in Request, Handler(r) PROVE HoldersLeft'
  <2>1. ASSUME Finish(r)
        PROVE  \A q \in Request : req'[q] = IF q = r THEN Idle ELSE req[q]
    BY <1>0, <2>1 DEF Finish, TypeOK
  <2>2. ASSUME NEW p \in Phase \ {"idle"}, req[r].pc # "idle", Goto(r, p)
        PROVE  /\ req'[r].pc = p /\ req'[r].jti = req[r].jti /\ req[r].jti \in Jti
               /\ \A q \in Request : q # r => req'[q] = req[q]
    <3>1. req[r] \in Busy /\ req[r].jti \in Jti /\ req'[r] = [req[r] EXCEPT !.pc = p]
      BY <1>0, <2>2, BusyRequest DEF Goto, TypeOK
    <3>. QED BY <1>0, <2>2, <3>1, BusyPhase DEF Goto, TypeOK
  <2>3. CASE CheckFamily(r) \/ Condemn(r) \/ PurgeSessions(r)
    <3>1. UNCHANGED <<redisJti, successors>>
      BY <2>3, PurgeStep DEF CheckFamily, Condemn, tokens, blocklist
    <3>2. \/ Finish(r)
          \/ req[r].pc # "idle" /\ \E p \in {"familyOk", "cascade", "purging"} : Goto(r, p)
      BY <2>3, PurgeStep DEF CheckFamily, Condemn
    <3>3. CASE Finish(r)
      BY <1>1, <2>1, <3>1, <3>3
    <3>4. CASE req[r].pc # "idle" /\ \E p \in {"familyOk", "cascade", "purging"} : Goto(r, p)
      <4>1. PICK p \in {"familyOk", "cascade", "purging"} : Goto(r, p)
        BY <3>4
      <4>. QED BY <1>1, <2>2, <3>1, <3>4, <4>1 DEF Phase
    <3>. QED BY <3>2, <3>3, <3>4
  <2>4. CASE CheckToken(r)
    <3>1. /\ UNCHANGED <<redisJti, successors>> /\ req[r].pc = "familyOk"
          /\ \/ Goto(r, "replay")
             \/ Goto(r, "loading") /\ ~TokenRevoked(req[r].worker, req[r].jti)
      BY <2>4 DEF CheckToken, tokens, blocklist
    <3>2. CASE Goto(r, "replay")
      BY <1>1, <2>2, <3>1, <3>2 DEF Phase
    <3>3. CASE Goto(r, "loading") /\ ~TokenRevoked(req[r].worker, req[r].jti)
      <4>1. req[r] # Idle /\ req[r].jti \in Jti /\ HandlerCovered(r)
        BY <1>0, <3>1, BusyRequest DEF ReplayInv
      <4>2. redisJti[req[r].jti] = 0
        <5>. SUFFICES ASSUME redisJti[req[r].jti] # 0 PROVE FALSE
          OBVIOUS
        <5>1. now < expires[req[r].jti] /\ expires[req[r].jti] <= redisJti[req[r].jti]
          BY <1>0, <3>1, <4>1 DEF HandlerCovered, ListsCover
        <5>. QED BY <1>0, <3>3, <4>1, <5>1 DEF TokenRevoked, TypeOK
      <4>3. \A j \in Jti : redisJti[j] # 0 => Exchanging(j)' \subseteq Exchanging(j)
        BY <2>2, <3>1, <3>3, <4>2 DEF Exchanging, Phase
      <4>. QED BY <1>0, <3>1, <4>3, HoldersKept DEF HoldersLeft
    <3>. QED BY <3>1, <3>2, <3>3
  <2>5. CASE LoadUser(r)
    <3>1. /\ UNCHANGED <<redisJti, successors>> /\ req[r].pc = "loading"
          /\ Finish(r) \/ Goto(r, "loaded")
      BY <2>5 DEF LoadUser, tokens, blocklist
    <3>2. CASE Finish(r)
      BY <1>1, <2>1, <3>1, <3>2
    <3>3. CASE Goto(r, "loaded")
      BY <1>1, <2>2, <3>1, <3>3 DEF Phase
    <3>. QED BY <3>1, <3>2, <3>3
  <2>6. CASE Consume(r)
    <3>1. /\ successors' = successors /\ req[r].pc = "loaded" /\ Goto(r, "consumed")
          /\ \E t : redisJti' = [redisJti EXCEPT ![req[r].jti] = t]
      BY <1>0, <2>6 DEF Consume, tokens, RevokeToken
    <3>2. \A j \in Jti : Exchanging(j)' \subseteq Exchanging(j)
      BY <2>2, <3>1 DEF Exchanging, Phase
    <3>3. ASSUME NEW j \in Jti
          PROVE  successors[j] + Cardinality(Exchanging(j)') <= Cardinality(Request)
                 \/ (redisJti'[j] = 0 /\ redisJti[j] = 0)
      <4>1. CASE redisJti[j] # 0
        <5>1. successors[j] + Cardinality(Exchanging(j)) <= Cardinality(Request)
              /\ successors[j] \in Nat
          BY <1>0, <4>1 DEF HoldersLeft, TypeOK
        <5>2. Cardinality(Exchanging(j)') <= Cardinality(Exchanging(j))
          BY <3>2, Holders
        <5>. QED BY <5>1, <5>2, Holders
      <4>2. CASE redisJti[j] = 0
        <5>1. successors[j] = 0
          BY <1>0, <4>2 DEF ListsCover, TypeOK
        <5>. QED BY <5>1, Holders
      <4>. QED BY <4>1, <4>2
    <3>. QED BY <3>1, <3>3 DEF HoldersLeft
  <2>7. CASE Mint(r)
    <3>1. /\ redisJti' = redisJti /\ req[r].pc = "consumed" /\ Finish(r)
          /\ successors' = [successors EXCEPT ![req[r].jti] = successors[req[r].jti] + 1]
      BY <2>7 DEF Mint, blocklist
    <3>2. req[r].jti \in Jti /\ successors \in [Jti -> Nat]
      BY <1>0, <3>1, BusyRequest DEF TypeOK
    <3>3. ASSUME NEW j \in Jti, redisJti[j] # 0
          PROVE  successors'[j] + Cardinality(Exchanging(j)') <= Cardinality(Request)
      <4>1. successors[j] + Cardinality(Exchanging(j)) <= Cardinality(Request)
        BY <3>3 DEF HoldersLeft
      <4>2. CASE j = req[r].jti
        <5>1. Exchanging(j)' = Exchanging(j) \ {r} /\ r \in Exchanging(j)
          BY <2>1, <3>1, <4>2 DEF Exchanging
        <5>2. Cardinality(Exchanging(j)') = Cardinality(Exchanging(j)) - 1
          BY <5>1, Holders, FS_RemoveElement
        <5>. QED BY <3>1, <3>2, <4>1, <4>2, <5>2, Holders
      <4>3. CASE j # req[r].jti
        <5>1. Exchanging(j)' \subseteq Exchanging(j)
          BY <2>1, <3>1 DEF Exchanging
        <5>2. Cardinality(Exchanging(j)') <= Cardinality(Exchanging(j))
          BY <5>1, Holders
        <5>. QED BY <3>1, <3>2, <4>1, <4>3, <5>2, Holders
      <4>. QED BY <4>2, <4>3
    <3>. QED BY <3>1, <3>3 DEF HoldersLeft
  <2>. QED BY <1>5, <2>3, <2>4, <2>5, <2>6, <2>7 DEF Handler
<1>. QED BY <1>2, <1>3, <1>4, <1>5 DEF Next

(***************************************************************************)
(* Any number of workers and handlers, any interleaving, restarts of the   *)
(* workers: until Redis first fails to answer, a token that has been       *)
(* exchanged stays listed as long as it lives, a request that presents it  *)
(* afterwards never reaches the code that signs new tokens, and so it is   *)
(* exchanged at most as often as handlers can hold it at the same time.    *)
(***************************************************************************)
THEOREM ReplaysAreCaught == HasRedis => (Spec => [](Calm => ReplaysCaught))
<1>. SUFFICES ASSUME HasRedis PROVE Spec => [](Calm => ReplaysCaught)
  OBVIOUS
<1>1. Init => ReplayInv /\ HoldersLeft
  BY ReplayInvInit DEF Init, HoldersLeft
<1>2. (Calm => ReplayInv /\ HoldersLeft) /\ TypeOK /\ TypeOK' /\ [Next]_vars
          => (Calm' => ReplayInv' /\ HoldersLeft')
  BY CalmBefore, ReplayInvStep, HoldersStep
<1>3. ReplayInv /\ HoldersLeft => ReplaysCaught
  <2>. SUFFICES ASSUME ReplayInv, HoldersLeft PROVE ReplaysCaught
    OBVIOUS
  <2>1. ExchangedStaysListed
    BY DEF ReplayInv, ListsCover, TypeOK, ExchangedStaysListed
  <2>2. NoLateExchange
    BY DEF ReplayInv, HandlerCovered, NoLateExchange
  <2>3. ASSUME NEW j \in Jti PROVE successors[j] <= Cardinality(Request)
    <3>1. successors[j] \in Nat /\ (redisJti[j] = 0 => successors[j] = 0)
      BY DEF ReplayInv, TypeOK, ListsCover
    <3>. QED BY <3>1, Holders DEF HoldersLeft
  <2>. QED BY <2>1, <2>2, <2>3 DEF ReplaysCaught, ExchangesBoundedByHandlers
<1>. QED BY <1>1, <1>2, <1>3, TypeCorrect, PTL DEF Spec

------------------------------------------------------------------------------
(***************************************************************************)
(* Rotation, while Redis answers and handlers run one after the other.     *)
(* A token is unlisted while its own key does not block it; the family key *)
(* is looked at separately.                                                *)
(***************************************************************************)
Sequential == \A q, r \in Request : q = r

Unlisted(j) == j <= issued /\ now < expires[j] /\ redisJti[j] <= now

UnlistedUnique ==
    \A j, k \in Jti : Unlisted(j) /\ Unlisted(k) /\ family[j] = family[k] => j = k

\* A family key is set for condemned families only, and outlives their tokens.
CondemnedCovered ==
    /\ condemned \subseteq 1..families
    /\ \A f \in Family : redisFamily[f] # 0 => f \in condemned
    /\ \A j \in Jti : j <= issued =>
          /\ expires[j] <= now + Lifetime
          /\ family[j] \in condemned => expires[j] <= redisFamily[family[j]]

\* While a handler holds an accepted token, no other token of its family is
\* unlisted, and once it has consumed it, none at all.
HandlerAlone(r) ==
    /\ req[r].pc \in {"loading", "loaded"} =>
          \A k \in Jti : Unlisted(k) /\ family[k] = family[req[r].jti] => k = req[r].jti
    /\ req[r].pc = "consumed" =>
          \A k \in Jti : Unlisted(k) => family[k] # family[req[r].jti]
    /\ req[r].pc \notin {"decoded", "cascade", "purging"} => family[req[r].jti] \notin condemned

SequentialInv ==
    /\ ReplayInv
    /\ \A w \in Worker : memJti[w] = {}
    /\ UnlistedUnique
    /\ CondemnedCovered
    /\ \A r \in Request : req[r] # Idle => HandlerAlone(r)

\* Without tokens there is nothing to be unique or condemned.
LEMMA SequentialInvInit == HasRedis /\ Init => SequentialInv
<1>. SUFFICES ASSUME HasRedis, Init PROVE SequentialInv
  OBVIOUS
<1>1. ReplayInv
  BY ReplayInvInit
<1>. QED BY <1>1 DEF Init, SequentialInv, UnlistedUnique, Unlisted, CondemnedCovered, Idle, Jti

(***************************************************************************)
(* As time passes a token may expire, but none becomes unlisted: its key   *)
(* lives at least as long as the token.                                    *)
(***************************************************************************)
LEMMA UnlistedShrinks ==
    ASSUME ReplayInv, now' \in Nat, now <= now', UNCHANGED <<issued, expires, redisJti>>,
           NEW j \in Jti, Unlisted(j)'
    PROVE  Unlisted(j)
BY DEF ReplayInv, TypeOK, ListsCover, Unlisted

(***************************************************************************)
(* Nothing but the handlers and the clock has moved.                       *)
(***************************************************************************)
LEMMA TablesKept ==
    ASSUME SequentialInv, now' \in Nat, now <= now',
           UNCHANGED <<families, issued, family, expires, redisJti, redisFamily, condemned>>
    PROVE  UnlistedUnique' /\ CondemnedCovered'
<1>1. ReplayInv /\ UnlistedUnique /\ CondemnedCovered /\ TypeOK
  BY DEF SequentialInv, ReplayInv
<1>2. UnlistedUnique'
  BY <1>1, UnlistedShrinks DEF UnlistedUnique
<1>3. CondemnedCovered'
  <2>1. now + Lifetime <= now' + Lifetime /\ now + Lifetime \in Nat /\ now' + Lifetime \in Nat
    <3>1. now \in Nat /\ Lifetime \in Nat
      BY <1>1, ConstantsAssumption DEF TypeOK
    <3>2. ASSUME NEW a \in Nat, NEW b \in Nat, NEW c \in Nat, a <= b
          PROVE  a + c <= b + c /\ a + c \in Nat /\ b + c \in Nat
      BY <3>2
    <3>. QED BY <3>1, <3>2
  <2>. QED BY <1>1, <2>1 DEF CondemnedCovered, TypeOK
<1>. QED BY <1>2, <1>3

\* With one handler at a time every action keeps a single unlisted token per
\* family and the keys of condemned families longer than their tokens.
LEMMA SequentialInvStep ==
    ASSUME Calm', Sequential, SequentialInv, ReplayInv', [Next]_vars
    PROVE  SequentialInv'
<1>. USE ConstantsAssumption
<1>0. ReplayInv /\ TypeOK /\ TypeOK' /\ redisUp /\ UnlistedUnique /\ CondemnedCovered
  BY DEF SequentialInv, ReplayInv
<1>1. ASSUME NEW w \in Worker, Login(w) PROVE SequentialInv'
  <2>1. /\ UNCHANGED <<now, redisJti, redisFamily, memJti, condemned, req>>
        /\ issued' = issued + 1 /\ families' = families + 1
        /\ issued' \in Jti
    BY <1>0, <1>1 DEF Login, Sign, blocklist, Jti, TypeOK
  <2>2. /\ family'[issued'] = families' /\ expires'[issued'] = now + Lifetime
        /\ \A j \in Jti : j <= issued => expires'[j] = expires[j] /\ family'[j] = family[j]
    BY <1>0, <1>1, <2>1 DEF Login, Sign, TypeOK, Jti
  <2>3. ASSUME NEW j \in Jti, j <= issued
        PROVE  family[j] \in 1..families /\ (Unlisted(j)' <=> Unlisted(j))
    <3>1. j \in 1..issued /\ j <= issued'
      BY <1>0, <2>1, <2>3 DEF Jti, TypeOK
    <3>. QED BY <1>0, <2>1, <2>2, <2>3, <3>1 DEF TypeOK, Unlisted
  <2>4. \A j \in Jti : j <= issued' => j <= issued \/ j = issued'
    BY <1>0, <2>1 DEF TypeOK, Jti
  <2>5. UnlistedUnique'
    <3>. SUFFICES ASSUME NEW j \in Jti, NEW k \in Jti, Unlisted(j)', Unlisted(k)',
                         family'[j] = family'[k]
                  PROVE  j = k
      BY DEF UnlistedUnique
    <3>1. j <= issued' /\ k <= issued'
      BY DEF Unlisted
    <3>2. CASE j <= issued /\ k <= issued
      BY <1>0, <2>2, <2>3, <3>2 DEF UnlistedUnique
    <3>3. CASE j = issued' /\ k <= issued
      BY <1>0, <2>1, <2>2, <2>3, <3>3 DEF TypeOK
    <3>4. CASE k = issued' /\ j <= issued
      BY <1>0, <2>1, <2>2, <2>3, <3>4 DEF TypeOK
    <3>. QED BY <2>4, <3>1, <3>2, <3>3, <3>4
  <2>6. families' \notin condemned /\ condemned \subseteq 1..families'
    BY <1>0, <2>1 DEF CondemnedCovered, TypeOK
  <2>7. CondemnedCovered'
    <3>1. ASSUME NEW j \in Jti, j <= issued'
          PROVE  /\ expires'[j] <= now + Lifetime
                 /\ family'[j] \in condemned => expires'[j] <= redisFamily[family'[j]]
      <4>1. CASE j <= issued
        BY <1>0, <2>2, <4>1 DEF CondemnedCovered
      <4>2. CASE j = issued'
        BY <1>0, <2>2, <2>6, <4>2 DEF TypeOK
      <4>. QED BY <2>4, <3>1, <4>1, <4>2
    <3>. QED BY <1>0, <2>1, <2>6, <3>1 DEF CondemnedCovered
  <2>8. ASSUME NEW q \in Request, req[q] # Idle PROVE HandlerAlone(q)'
    <3>1. /\ req[q].jti \in Jti /\ req[q].jti <= issued
      BY <1>0, <2>8 DEF TypeOK, Busy
    <3>2. family[req[q].jti] \in 1..families /\ family'[req[q].jti] = family[req[q].jti]
      BY <2>2, <2>3, <3>1
    <3>3. ASSUME NEW k \in Jti, Unlisted(k)', family'[k] = family'[req[q].jti]
          PROVE  Unlisted(k) /\ family[k] = family[req[q].jti]
      <4>1. k <= issued
        BY <1>0, <2>1, <2>2, <2>4, <3>2, <3>3 DEF Unlisted, TypeOK
      <4>. QED BY <2>2, <2>3, <3>2, <3>3, <4>1
    <3>. QED BY <2>1, <2>8, <3>2, <3>3 DEF SequentialInv, HandlerAlone
  <2>. QED BY <2>1, <2>5, <2>7, <2>8 DEF SequentialInv
<1>2. ASSUME NEW w \in Worker, Crash(w) PROVE SequentialInv'
  <2>1. /\ UNCHANGED <<now, families, issued, family, expires, redisJti, redisFamily, condemned>>
        /\ \A q \in Request : req'[q] # Idle => req'[q] = req[q]
        /\ memJti' = [memJti EXCEPT ![w] = {}]
    BY <1>2 DEF Crash, tokens
  <2>2. \A v \in Worker : memJti'[v] = {}
    BY <1>0, <2>1 DEF SequentialInv, TypeOK
  <2>3. UnlistedUnique' /\ CondemnedCovered'
    BY <1>0, <2>1, TablesKept DEF TypeOK
  <2>4. \A q \in Request : req'[q] # Idle => HandlerAlone(q)'
    BY <2>1 DEF SequentialInv, HandlerAlone, Unlisted
  <2>. QED BY <2>2, <2>3, <2>4 DEF SequentialInv
<1>3. ASSUME NEW r \in Request, NEW w \in Worker, NEW j \in Jti, Present(r, w, j)
      PROVE  SequentialInv'
  <2>1. /\ UNCHANGED <<now, families, issued, family, expires, redisJti, redisFamily, memJti,
                        condemned>>
        /\ req'[r].pc = "decoded"
    BY <1>0, <1>3 DEF Present, tokens, blocklist, TypeOK
  <2>2. UnlistedUnique' /\ CondemnedCovered'
    BY <1>0, <2>1, TablesKept DEF TypeOK
  <2>3. \A q \in Request : HandlerAlone(q)'
    BY <2>1 DEF Sequential, HandlerAlone
  <2>. QED BY <2>1, <2>2, <2>3 DEF SequentialInv

<1>4. ASSUME NEW r \in Request, Handler(r) PROVE SequentialInv'
  <2>. DEFINE F == family[req[r].jti]
  <2>1. ASSUME UNCHANGED <<now, families, issued, family, expires, redisJti, redisFamily,
                           memJti, condemned>>,
               req'[r] # Idle => HandlerAlone(r)'
        PROVE  SequentialInv'
    <3>1. UnlistedUnique' /\ CondemnedCovered'
      BY <1>0, <2>1, TablesKept DEF TypeOK
    <3>2. \A q \in Request : req'[q] # Idle => HandlerAlone(q)'
      BY <2>1 DEF Sequential
    <3>. QED BY <2>1, <3>1, <3>2 DEF SequentialInv
  <2>2. ASSUME Finish(r) PROVE req'[r] = Idle
    BY <1>0, <2>2 DEF Finish, TypeOK
  <2>3. ASSUME NEW p \in Phase \ {"idle"}, req[r].pc # "idle", Goto(r, p)
        PROVE  /\ req[r] # Idle /\ req'[r].pc = p /\ req'[r].jti = req[r].jti
               /\ req[r].jti \in Jti /\ req[r].jti <= issued /\ F \in 1..families
               /\ F \in Family /\ HandlerAlone(r) /\ HandlerCovered(r)
    <3>1. req[r] \in Busy /\ req'[r] = [req[r] EXCEPT !.pc = p]
      BY <1>0, <2>3, BusyRequest DEF Goto, TypeOK
    <3>2. req[r].jti \in Jti /\ req[r].jti \in 1..issued /\ F \in 1..families /\ F \in Family
      BY <1>0, <2>3, BusyRequest
    <3>3. req[r] # Idle /\ HandlerAlone(r) /\ HandlerCovered(r)
      BY <1>0, <2>3, BusyRequest DEF SequentialInv, ReplayInv
    <3>. QED BY <1>0, <2>3, <3>1, <3>2, <3>3, BusyPhase DEF TypeOK
  <2>4. CASE CheckFamily(r)
    <3>1. UNCHANGED <<now, families, issued, family, expires, redisJti, redisFamily, memJti,
                      condemned>>
      BY <2>4 DEF CheckFamily, tokens, blocklist
    <3>2. /\ req[r].pc = "decoded"
          /\ Finish(r) \/ (Goto(r, "familyOk") /\ ~FamilyRevoked(req[r].worker, F))
      BY <2>4 DEF CheckFamily
    <3>3. CASE Finish(r)
      BY <2>1, <2>2, <3>1, <3>3
    <3>4. CASE Goto(r, "familyOk") /\ ~FamilyRevoked(req[r].worker, F)
      <4>1. /\ req[r] # Idle /\ req'[r].pc = "familyOk" /\ req'[r].jti = req[r].jti
            /\ req[r].jti \in Jti /\ req[r].jti <= issued /\ F \in Family
            /\ HandlerCovered(r)
        BY <2>3, <3>2, <3>4 DEF Phase
      <4>2. now < expires[req[r].jti]
        BY <3>2, <4>1 DEF HandlerCovered
      <4>3. redisFamily[F] <= now
        BY <1>0, <3>4, <4>1 DEF FamilyRevoked, TypeOK
      <4>4. F \notin condemned
        <5>. SUFFICES ASSUME F \in condemned PROVE FALSE
          OBVIOUS
        <5>1. expires[req[r].jti] <= redisFamily[F]
          BY <1>0, <4>1 DEF CondemnedCovered
        <5>. QED BY <1>0, <4>1, <4>2, <4>3, <5>1 DEF TypeOK
      <4>5. HandlerAlone(r)'
        BY <3>1, <4>1, <4>4 DEF HandlerAlone
      <4>. QED BY <2>1, <3>1, <4>5
    <3>. QED BY <3>2, <3>3, <3>4
  <2>5. CASE CheckToken(r)
    <3>1. UNCHANGED <<now, families, issued, family, expires, redisJti, redisFamily, memJti,
                      condemned>>
      BY <2>5 DEF CheckToken, tokens, blocklist
    <3>2. /\ req[r].pc = "familyOk"
          /\ \/ Goto(r, "replay")
             \/ Goto(r, "loading") /\ ~TokenRevoked(req[r].worker, req[r].jti)
      BY <2>5 DEF CheckToken
    <3>3. /\ req[r] # Idle /\ req'[r].jti = req[r].jti /\ req'[r].pc \in {"replay", "loading"}
          /\ req[r].jti \in Jti /\ req[r].jti <= issued
          /\ HandlerAlone(r) /\ HandlerCovered(r)
          /\ req'[r].pc = "loading" => ~TokenRevoked(req[r].worker, req[r].jti)
      BY <2>3, <3>2 DEF Phase
    <3>4. req'[r].pc = "loading" => Unlisted(req[r].jti)
      BY <1>0, <3>2, <3>3 DEF Unlisted, HandlerCovered, TokenRevoked, TypeOK
    <3>5. HandlerAlone(r)'
      BY <1>0, <3>1, <3>2, <3>3, <3>4 DEF HandlerAlone, UnlistedUnique, Unlisted
    <3>. QED BY <2>1, <3>1, <3>5
  <2>6. CASE Condemn(r)
    <3>1. /\ UNCHANGED <<now, families, issued, family, expires, redisJti, memJti>>
          /\ req[r].pc = "replay" /\ Goto(r, "cascade")
          /\ condemned' = condemned \cup {F}
          /\ redisFamily' = [redisFamily EXCEPT ![F] = now + Lifetime]
      BY <1>0, <2>6 DEF Condemn, RevokeFamily, tokens
    <3>2. /\ F \in Family /\ F \in 1..families /\ req'[r].pc = "cascade"
      BY <2>3, <3>1 DEF Phase
    <3>3. HandlerAlone(r)'
      BY <3>2 DEF HandlerAlone
    <3>4. /\ redisFamily'[F] = now + Lifetime
          /\ \A f \in Family : f # F => redisFamily'[f] = redisFamily[f]
      BY <1>0, <3>1, <3>2 DEF TypeOK
    <3>5. ASSUME NEW j \in Jti, j <= issued, family[j] \in condemned'
          PROVE  expires[j] <= redisFamily'[family[j]]
      <4>1. CASE family[j] = F
        BY <1>0, <3>4, <3>5, <4>1 DEF CondemnedCovered
      <4>2. CASE family[j] # F
        <5>1. family[j] \in condemned
          BY <3>1, <3>5, <4>2
        <5>2. family[j] \in Family
          BY <1>0, <5>1 DEF TypeOK
        <5>. QED BY <1>0, <3>4, <3>5, <4>2, <5>1, <5>2 DEF CondemnedCovered
      <4>. QED BY <4>1, <4>2
    <3>6. CondemnedCovered'
      BY <1>0, <3>1, <3>2, <3>4, <3>5 DEF CondemnedCovered
    <3>7. UnlistedUnique'
      BY <1>0, <3>1 DEF UnlistedUnique, Unlisted
    <3>8. \A q \in Request : HandlerAlone(q)'
      BY <3>3 DEF Sequential
    <3>. QED BY <3>1, <3>6, <3>7, <3>8 DEF SequentialInv
  <2>7. CASE PurgeSessions(r)
    <3>1. UNCHANGED <<now, families, issued, family, expires, redisJti, redisFamily, memJti,
                      condemned>>
      BY <2>7, PurgeStep DEF tokens, blocklist
    <3>2. Finish(r) \/ (req[r].pc = "cascade" /\ Goto(r, "purging"))
      BY <2>7, PurgeStep
    <3>3. req'[r] # Idle => HandlerAlone(r)'
      BY <2>2, <2>3, <3>2 DEF HandlerAlone, Phase
    <3>. QED BY <2>1, <3>1, <3>3
  <2>8. CASE LoadUser(r)
    <3>1. UNCHANGED <<now, families, issued, family, expires, redisJti, redisFamily, memJti,
                      condemned>>
      BY <2>8 DEF LoadUser, tokens, blocklist
    <3>2. req[r].pc = "loading" /\ (Finish(r) \/ Goto(r, "loaded"))
      BY <2>8 DEF LoadUser
    <3>3. CASE Finish(r)
      BY <2>1, <2>2, <3>1, <3>3
    <3>4. CASE Goto(r, "loaded")
      <4>1. req'[r].pc = "loaded" /\ req'[r].jti = req[r].jti /\ HandlerAlone(r)
        BY <2>3, <3>2, <3>4 DEF Phase
      <4>2. HandlerAlone(r)'
        BY <3>1, <3>2, <4>1 DEF HandlerAlone, Unlisted
      <4>. QED BY <2>1, <3>1, <4>2
    <3>. QED BY <3>2, <3>3, <3>4
  <2>9. CASE Consume(r)
    <3>1. /\ UNCHANGED <<now, families, issued, family, expires, redisFamily, condemned>>
          /\ req[r].pc = "loaded" /\ Goto(r, "consumed")
          /\ UNCHANGED memJti
          /\ \E t \in Nat : /\ now + t >= expires[req[r].jti] /\ t >= 1
                            /\ redisJti' = [redisJti EXCEPT ![req[r].jti] = now + t]
      <4>1. expires[req[r].jti] \in Nat /\ now \in Nat
        BY <1>0, <2>9, BusyRequest DEF TypeOK, Consume
      <4>2. CASE expires[req[r].jti] - now > 1
        <5>1. redisJti' = [redisJti EXCEPT ![req[r].jti] = now + (expires[req[r].jti] - now)]
          BY <1>0, <2>9, <4>2 DEF Consume, RevokeToken
        <5>2. /\ expires[req[r].jti] - now \in Nat /\ expires[req[r].jti] - now >= 1
              /\ now + (expires[req[r].jti] - now) >= expires[req[r].jti]
          BY <4>1, <4>2
        <5>. QED BY <1>0, <2>9, <5>1, <5>2 DEF Consume, RevokeToken, tokens
      <4>3. CASE ~(expires[req[r].jti] - now > 1)
        <5>1. redisJti' = [redisJti EXCEPT ![req[r].jti] = now + 1] /\ now + 1 >= expires[req[r].jti]
          BY <1>0, <2>9, <4>1, <4>3 DEF Consume, RevokeToken
        <5>. QED BY <1>0, <2>9, <5>1, 1 \in Nat, 1 >= 1 DEF Consume, RevokeToken, tokens
      <4>. QED BY <4>2, <4>3
    <3>2. /\ req'[r].pc = "consumed" /\ req'[r].jti = req[r].jti /\ HandlerAlone(r)
          /\ req[r].jti \in Jti
      BY <2>3, <3>1 DEF Phase
    <3>3. /\ \A j \in Jti : Unlisted(j)' => Unlisted(j)
          /\ \A j \in Jti : j = req[r].jti => ~Unlisted(j)'
      <4>1. \A j \in Jti : j # req[r].jti => redisJti'[j] = redisJti[j]
        BY <1>0, <3>1, <3>2 DEF TypeOK
      <4>2. ASSUME NEW j \in Jti, j = req[r].jti PROVE ~Unlisted(j)'
        <5>1. PICK t \in Nat : /\ now + t >= expires[req[r].jti] /\ t >= 1
                               /\ redisJti' = [redisJti EXCEPT ![req[r].jti] = now + t]
          BY <3>1
        <5>2. redisJti'[req[r].jti] = now + t /\ now \in Nat
          BY <1>0, <3>2, <5>1 DEF TypeOK
        <5>3. ~(now + t <= now)
          BY <5>1, <5>2
        <5>. QED BY <3>1, <4>2, <5>2, <5>3 DEF Unlisted
      <4>3. ASSUME NEW j \in Jti, Unlisted(j)' PROVE Unlisted(j)
        <5>1. j # req[r].jti
          BY <4>2, <4>3
        <5>. QED BY <3>1, <4>1, <4>3, <5>1 DEF Unlisted
      <4>. QED BY <4>2, <4>3
    <3>4. UnlistedUnique'
      BY <1>0, <3>1, <3>3 DEF UnlistedUnique
    <3>5. CondemnedCovered'
      BY <1>0, <3>1 DEF CondemnedCovered
    <3>6. HandlerAlone(r)'
      BY <3>1, <3>2, <3>3 DEF HandlerAlone
    <3>7. \A q \in Request : HandlerAlone(q)'
      BY <3>6 DEF Sequential
    <3>. QED BY <3>1, <3>4, <3>5, <3>7 DEF SequentialInv
  <2>10. CASE Mint(r)
    <3>1. /\ UNCHANGED <<now, families, redisJti, redisFamily, memJti, condemned>>
          /\ req[r].pc = "consumed" /\ Finish(r) /\ Sign(F)
      BY <2>10 DEF Mint, blocklist
    <3>2. /\ req[r] # Idle /\ req[r].jti \in Jti /\ F \in 1..families /\ F \in Nat
          /\ HandlerAlone(r)
      BY <1>0, <3>1, BusyRequest DEF SequentialInv, TypeOK
    <3>3. /\ issued' = issued + 1 /\ issued' \in Jti
          /\ family'[issued'] = F /\ expires'[issued'] = now + Lifetime
          /\ \A j \in Jti : j <= issued => expires'[j] = expires[j] /\ family'[j] = family[j]
      BY <1>0, <3>1 DEF Sign, TypeOK, Jti
    <3>4. \A j \in Jti : j <= issued' => j <= issued \/ j = issued'
      BY <1>0, <3>3 DEF TypeOK, Jti
    <3>5. ASSUME NEW j \in Jti, j <= issued
          PROVE  Unlisted(j)' <=> Unlisted(j)
      <4>1. issued \in Nat /\ j \in Nat
        BY <1>0 DEF TypeOK, Jti
      <4>2. j <= issued'
        BY <3>3, <3>5, <4>1
      <4>3. expires'[j] = expires[j] /\ redisJti'[j] = redisJti[j] /\ now' = now
        BY <3>1, <3>3, <3>5
      <4>. QED BY <3>5, <4>2, <4>3 DEF Unlisted
    <3>6. \A k \in Jti : Unlisted(k) => family[k] # F
      BY <3>1, <3>2 DEF HandlerAlone
    <3>7. UnlistedUnique'
      <4>. SUFFICES ASSUME NEW j \in Jti, NEW k \in Jti, Unlisted(j)', Unlisted(k)',
                           family'[j] = family'[k]
                    PROVE  j = k
        BY DEF UnlistedUnique
      <4>1. j <= issued' /\ k <= issued'
        BY DEF Unlisted
      <4>2. CASE j <= issued /\ k <= issued
        BY <1>0, <3>3, <3>5, <4>2 DEF UnlistedUnique
      <4>3. CASE j = issued' /\ k <= issued
        BY <3>3, <3>5, <3>6, <4>3
      <4>4. CASE k = issued' /\ j <= issued
        BY <3>3, <3>5, <3>6, <4>4
      <4>. QED BY <3>4, <4>1, <4>2, <4>3, <4>4
    <3>8. F \notin condemned
      BY <3>1, <3>2 DEF HandlerAlone
    <3>9. CondemnedCovered'
      <4>1. ASSUME NEW j \in Jti, j <= issued'
            PROVE  /\ expires'[j] <= now + Lifetime
                   /\ family'[j] \in condemned => expires'[j] <= redisFamily[family'[j]]
        <5>1. CASE j <= issued
          BY <1>0, <3>3, <5>1 DEF CondemnedCovered
        <5>2. CASE j = issued'
          BY <1>0, <3>3, <3>8, <5>2 DEF TypeOK
        <5>. QED BY <3>4, <4>1, <5>1, <5>2
      <4>. QED BY <1>0, <3>1, <4>1 DEF CondemnedCovered
    <3>10. \A q \in Request : req'[q] = Idle
      BY <2>2, <3>1 DEF Sequential
    <3>. QED BY <3>1, <3>7, <3>9, <3>10 DEF SequentialInv
  <2>. QED BY <1>4, <2>4, <2>5, <2>6, <2>7, <2>8, <2>9, <2>10 DEF Handler
<1>5. CASE Tick
  <2>1. /\ UNCHANGED <<families, issued, family, expires, redisJti, redisFamily, memJti,
                        condemned, req>>
        /\ now' \in Nat /\ now <= now'
        /\ \A q \in Request : req[q] # Idle => req[q].pc = "loading"
    BY <1>0, <1>5 DEF Tick, redis, tokens, blocklist, TypeOK
  <2>2. UnlistedUnique' /\ CondemnedCovered'
    BY <2>1, TablesKept
  <2>3. \A j \in Jti : Unlisted(j)' => Unlisted(j)
    BY <1>0, <2>1, UnlistedShrinks
  <2>4. \A q \in Request : req[q] # Idle => HandlerAlone(q)'
    BY <2>1, <2>3 DEF SequentialInv, HandlerAlone
  <2>. QED BY <2>1, <2>2, <2>4 DEF SequentialInv
<1>6. ~RedisFails /\ ~RedisRecovers
  BY <1>0 DEF RedisFails, RedisRecovers, Calm, TypeOK
<1>7. CASE UNCHANGED vars
  BY <1>0, <1>7 DEF vars, SequentialInv, UnlistedUnique, Unlisted, CondemnedCovered, HandlerAlone
<1>. QED BY <1>1, <1>2, <1>3, <1>4, <1>5, <1>6, <1>7 DEF Next

(***************************************************************************)
(* Handlers that run one after the other, on any number of workers that    *)
(* may restart, until Redis first fails to answer: a family never has two  *)
(* tokens that would be accepted, and none once a replay has been detected *)
(* in it.                                                                  *)
(***************************************************************************)
THEOREM RotationIsSafe ==
    HasRedis /\ Sequential => (Spec => [](Calm => OneLiveToken /\ CondemnedFamilyDead))
<1>. SUFFICES ASSUME HasRedis, Sequential
              PROVE  Spec => [](Calm => OneLiveToken /\ CondemnedFamilyDead)
  OBVIOUS
<1>1. Init => SequentialInv
  BY SequentialInvInit
<1>2. (Calm => SequentialInv) /\ TypeOK /\ TypeOK' /\ [Next]_vars => (Calm' => SequentialInv')
  BY CalmBefore, ReplayInvStep, SequentialInvStep DEF SequentialInv
<1>3. SequentialInv => OneLiveToken /\ CondemnedFamilyDead
  <2>. SUFFICES ASSUME SequentialInv PROVE OneLiveToken /\ CondemnedFamilyDead
    OBVIOUS
  <2>1. ReplayInv /\ TypeOK /\ redisUp /\ UnlistedUnique /\ CondemnedCovered
    BY DEF SequentialInv, ReplayInv
  <2>2. ASSUME NEW w \in Worker, NEW j \in Jti, Usable(w, j)
        PROVE  Unlisted(j) /\ j <= issued /\ now < expires[j] /\ ~(now < redisFamily[family[j]])
    BY <2>1, <2>2 DEF Usable, Unlisted, TokenRevoked, FamilyRevoked, TypeOK
  <2>3. OneLiveToken
    BY <2>1, <2>2 DEF OneLiveToken, UnlistedUnique
  <2>4. ASSUME NEW w \in Worker, NEW j \in Jti, Usable(w, j), family[j] \in condemned
        PROVE  FALSE
    <3>1. expires[j] <= redisFamily[family[j]]
      BY <2>1, <2>2, <2>4 DEF CondemnedCovered
    <3>2. redisFamily[family[j]] \in Nat /\ expires[j] \in Nat /\ now \in Nat
      BY <2>1, <2>4 DEF TypeOK
    <3>. QED BY <2>2, <2>4, <3>1, <3>2
  <2>. QED BY <2>3, <2>4 DEF CondemnedFamilyDead
<1>. QED BY <1>1, <1>2, <1>3, TypeCorrect, PTL DEF Spec

\* In particular, a family in which a replay was detected stays dead.
COROLLARY CondemnedStaysDead ==
    HasRedis /\ Sequential => (Spec => [](Calm => CondemnedFamilyDead))
BY RotationIsSafe, PTL

------------------------------------------------------------------------------
(***************************************************************************)
(* Refinement of TokenRotation under the same conditions.  The token of a  *)
(* family in the abstract specification is the one a handler holds, or     *)
(* else the one that is live: unlisted, in a family without a key.         *)
(***************************************************************************)
Holds(r, f) == req[r].pc \in {"loading", "loaded", "consumed"} /\ family[req[r].jti] = f

Live(f) == {j \in Jti : family[j] = f /\ Unlisted(j) /\ redisFamily[f] <= now}

\* While Redis answers, the workers accept exactly the live tokens.
LEMMA AcceptedIsLive ==
    ASSUME SequentialInv, NEW f \in Family
    PROVE  Accepted(f) = Live(f)
<1>1. TypeOK /\ redisUp /\ \A w \in Worker : memJti[w] = {}
  BY DEF SequentialInv, ReplayInv
<1>2. ASSUME NEW j \in Jti, family[j] = f, NEW w \in Worker
      PROVE  Usable(w, j) <=> Unlisted(j) /\ redisFamily[f] <= now
  BY <1>1, <1>2 DEF Usable, Unlisted, TokenRevoked, FamilyRevoked, TypeOK
<1>. QED BY <1>2, ConstantsAssumption DEF Accepted, Live

\* The token of a family in the abstract state: the one held by the handler,
\* else the live one, else none.
LEMMA LeafValue ==
    ASSUME Sequential, SequentialInv, NEW f \in Family
    PROVE  /\ \A r \in Request : Holds(r, f) => Leaf(f) = req[r].jti
           /\ (\A r \in Request : ~Holds(r, f)) =>
                 /\ \A j \in Live(f) : Leaf(f) = j
                 /\ Live(f) = {} => Leaf(f) = 0
<1>1. ASSUME NEW r \in Request, Holds(r, f) PROVE Leaf(f) = req[r].jti
  <2>1. InExchange(f) = {req[r].jti}
    BY <1>1 DEF Sequential, InExchange, Holds
  <2>. QED BY <2>1 DEF Leaf
<1>2. ASSUME \A r \in Request : ~Holds(r, f)
      PROVE  /\ \A j \in Live(f) : Leaf(f) = j
             /\ Live(f) = {} => Leaf(f) = 0
  <2>1. InExchange(f) = {}
    BY <1>2 DEF InExchange, Holds
  <2>2. Accepted(f) = Live(f)
    BY AcceptedIsLive
  <2>4. Leaf(f) = IF Live(f) # {} THEN CHOOSE j \in Live(f) : TRUE ELSE 0
    BY <2>1, <2>2 DEF Leaf
  <2>3. \A j, k \in Live(f) : j = k
    BY DEF SequentialInv, UnlistedUnique, Live
  <2>. QED BY <2>3, <2>4
<1>. QED BY <1>1, <1>2

(***************************************************************************)
(* Leaf in the next state, in terms of the handlers and tokens of it.      *)
(***************************************************************************)
LEMMA LeafValueNext ==
    ASSUME Sequential, SequentialInv', NEW f \in Family
    PROVE  /\ \A r \in Request : Holds(r, f)' => Leaf(f)' = req'[r].jti
           /\ (\A r \in Request : ~Holds(r, f)') =>
                 /\ \A j \in Live(f)' : Leaf(f)' = j
                 /\ Live(f)' = {} => Leaf(f)' = 0
<1>1. (/\ \A r \in Request : Holds(r, f) => Leaf(f) = req[r].jti
       /\ (\A r \in Request : ~Holds(r, f)) =>
            /\ \A j \in Live(f) : Leaf(f) = j
            /\ Live(f) = {} => Leaf(f) = 0)'
  BY LeafValue, PTL
<1>. QED BY <1>1

(***************************************************************************)
(* A family whose live tokens only shrink, and whose handler either held   *)
(* its token before or has just accepted the live one, keeps its token or  *)
(* loses it.                                                               *)
(***************************************************************************)
LEMMA KeepOrLose ==
    ASSUME Sequential, SequentialInv, SequentialInv', NEW f \in Family,
           UNCHANGED family,
           Live(f)' \subseteq Live(f),
           \A r \in Request : Holds(r, f)' =>
              \/ Holds(r, f) /\ req'[r].jti = req[r].jti
              \/ (\A q \in Request : ~Holds(q, f)) /\ req'[r].jti \in Live(f)
    PROVE  Leaf(f)' = Leaf(f) \/ Leaf(f)' = 0
<1>1. ASSUME NEW r \in Request, Holds(r, f)' PROVE Leaf(f)' = Leaf(f)
  BY LeafValueNext, <1>1, LeafValue
<1>2. ASSUME \A r \in Request : ~Holds(r, f)', Live(f)' # {}
      PROVE  Leaf(f)' = Leaf(f)
  <2>1. PICK j \in Live(f)' : Leaf(f)' = j
    BY LeafValueNext, <1>2
  <2>2. j \in Live(f) /\ j \in Jti /\ family[j] = f /\ Unlisted(j)
    BY <2>1 DEF Live
  <2>3. CASE \A q \in Request : ~Holds(q, f)
    BY <2>1, <2>2, <2>3, LeafValue
  <2>4. ASSUME NEW q \in Request, Holds(q, f) PROVE Leaf(f) = j
    <3>1. req[q] # Idle
      BY <2>4 DEF Holds, Idle
    <3>2. HandlerAlone(q)
      BY <3>1 DEF SequentialInv
    <3>3. j = req[q].jti
      BY <2>2, <2>4, <3>2 DEF Holds, HandlerAlone
    <3>. QED BY <2>4, <3>3, LeafValue
  <2>. QED BY <2>1, <2>3, <2>4
<1>. QED BY LeafValueNext, <1>1, <1>2

(***************************************************************************)
(* A family whose handler and whose live tokens stay keeps its token.      *)
(***************************************************************************)
LEMMA LeafSame ==
    ASSUME Sequential, SequentialInv, SequentialInv', NEW f \in Family,
           Live(f)' = Live(f),
           \A r \in Request : Holds(r, f)' <=> Holds(r, f),
           \A r \in Request : Holds(r, f) => req'[r].jti = req[r].jti
    PROVE  Leaf(f)' = Leaf(f)
<1>1. CASE \E r \in Request : Holds(r, f)
  BY <1>1, LeafValue, LeafValueNext
<1>2. CASE \A r \in Request : ~Holds(r, f)
  <2>1. CASE Live(f) = {}
    BY <1>2, <2>1, LeafValue, LeafValueNext
  <2>2. CASE Live(f) # {}
    BY <1>2, <2>2, LeafValue, LeafValueNext
  <2>. QED BY <2>1, <2>2
<1>. QED BY <1>1, <1>2

(***************************************************************************)
(* Neither the clock nor a longer list of revocations makes a token live.  *)
(***************************************************************************)
LEMMA LiveShrinks ==
    ASSUME SequentialInv, NEW f \in Family, now' \in Nat, now <= now',
           UNCHANGED <<issued, family, expires>>,
           \A j \in Jti : Unlisted(j)' => Unlisted(j),
           redisFamily' \in [Family -> Nat],
           redisFamily[f] <= redisFamily'[f]
    PROVE  Live(f)' \subseteq Live(f)
<1>1. TypeOK /\ CondemnedCovered
  BY DEF SequentialInv, ReplayInv
<1>2. ASSUME NEW j \in Jti, j \in Live(f)' PROVE j \in Live(f)
  <2>1. family[j] = f /\ Unlisted(j) /\ redisFamily'[f] <= now' /\ now' < expires[j] /\ j <= issued
    BY <1>2 DEF Live, Unlisted
  <2>2. /\ redisFamily[f] \in Nat /\ redisFamily'[f] \in Nat /\ now \in Nat
        /\ expires[j] \in Nat
    BY <1>1 DEF TypeOK
  <2>3. redisFamily[f] <= now
    <3>. SUFFICES ASSUME now < redisFamily[f] PROVE FALSE
      BY <2>2
    <3>1. f \in condemned
      BY <1>1, <2>2 DEF CondemnedCovered
    <3>2. expires[j] <= redisFamily[f]
      BY <1>1, <2>1, <3>1 DEF CondemnedCovered
    <3>. QED BY <2>1, <2>2, <3>2
  <2>. QED BY <2>1, <2>3 DEF Live
<1>. QED BY <1>2 DEF Live

(***************************************************************************)
(* A step that founds no family and signs no token, and leaves every       *)
(* family its token or none, is a step of TokenRotation.                   *)
(***************************************************************************)
LEMMA LoseStep ==
    ASSUME UNCHANGED <<families, issued>>,
           \A f \in Family : Leaf(f)' = Leaf(f) \/ Leaf(f)' = 0
    PROVE  Rotation!Next
<1>. DEFINE S == {f \in Family : Leaf(f)' = 0}
<1>1. \A f \in Family : Leaf(f)' = IF f \in S THEN 0 ELSE Leaf(f)
  OBVIOUS
<1>2. [f \in Family |-> Leaf(f)]'
        = [f \in Family |-> IF f \in S THEN 0 ELSE [g \in Family |-> Leaf(g)][f]]
  BY <1>1
<1>3. Rotation!Lose(S)
  BY <1>2 DEF Rotation!Lose, Rotation!None
<1>. QED BY <1>3 DEF Rotation!Next

(***************************************************************************)
(* The token a Sign step creates, in a family no token of which is live    *)
(* and that has no family key: it is the only live one.                    *)
(***************************************************************************)
LEMMA SignedIsLive ==
    ASSUME Sequential, SequentialInv, SequentialInv', NEW f \in Family, Sign(f),
           UNCHANGED <<now, redisJti, redisFamily>>,
           f \notin condemned
    PROVE  /\ issued' = issued + 1 /\ issued' \in Jti
           /\ issued' \in Live(f)'
           /\ \A g \in Family : g # f => Live(g)' = Live(g)
<1>0. TypeOK /\ CondemnedCovered /\ ListsCover
  BY DEF SequentialInv, ReplayInv
<1>1. /\ issued' = issued + 1 /\ issued' \in Jti
      /\ family'[issued'] = f /\ expires'[issued'] = now + Lifetime
      /\ \A j \in Jti : j <= issued => expires'[j] = expires[j] /\ family'[j] = family[j]
  <2>1. issued' = issued + 1 /\ issued' \in Jti
    BY <1>0, ConstantsAssumption DEF Sign, TypeOK, Jti
  <2>2. \A j \in Jti : j <= issued => j # issued'
    BY <1>0, <2>1 DEF TypeOK, Jti
  <2>. QED BY <1>0, <2>1, <2>2 DEF Sign, TypeOK
<1>2. ~(issued' <= issued)
  BY <1>0, <1>1 DEF TypeOK
<1>3. redisJti[issued'] = 0 /\ redisFamily[f] = 0
  BY <1>0, <1>1, <1>2 DEF ListsCover, CondemnedCovered
<1>4. issued' \in Live(f)'
  BY <1>0, <1>1, <1>3, ConstantsAssumption DEF Live, Unlisted, TypeOK
<1>5. ASSUME NEW g \in Family, g # f, NEW j \in Jti PROVE j \in Live(g)' <=> j \in Live(g)
  <2>1. CASE j <= issued
    <3>1. j <= issued'
      BY <1>0, <1>1, <2>1 DEF TypeOK, Jti
    <3>. QED BY <1>1, <2>1, <3>1 DEF Live, Unlisted
  <2>2. CASE ~(j <= issued)
    <3>1. j \notin Live(g)
      BY <2>2 DEF Live, Unlisted
    <3>2. j <= issued' => j = issued'
      BY <1>0, <1>1, <2>2 DEF TypeOK, Jti
    <3>. QED BY <1>1, <1>5, <3>1, <3>2 DEF Live, Unlisted
  <2>. QED BY <2>1, <2>2
<1>. QED BY <1>1, <1>4, <1>5 DEF Live

\* Signing one more token adds one id.
LEMMA OneMore ==
    ASSUME NEW n \in Nat
    PROVE  1..(n + 1) = 1..n \cup {n + 1} /\ n + 1 \notin 1..n
OBVIOUS

(***************************************************************************)
(* Every step maps to a step of TokenRotation, or to none.                 *)
(***************************************************************************)
LEMMA RotationStep ==
    ASSUME Calm', Sequential, SequentialInv, SequentialInv', [Next]_vars
    PROVE  [Rotation!Next]_(Rotation!vars)
<1>. USE ConstantsAssumption
<1>0. TypeOK /\ TypeOK' /\ redisUp /\ CondemnedCovered
  BY DEF SequentialInv, ReplayInv
<1>1. ASSUME UNCHANGED <<families, issued, family, expires>>, now <= now',
             \A j \in Jti : Unlisted(j)' => Unlisted(j),
             \A f \in Family : redisFamily[f] <= redisFamily'[f],
             \A f \in Family, q \in Request : Holds(q, f)' =>
                \/ Holds(q, f) /\ req'[q].jti = req[q].jti
                \/ (\A s \in Request : ~Holds(s, f)) /\ req'[q].jti \in Live(f)
      PROVE  Rotation!Next
  <2>1. \A f \in Family : Live(f)' \subseteq Live(f)
    BY <1>0, <1>1, LiveShrinks DEF TypeOK
  <2>2. \A f \in Family : Leaf(f)' = Leaf(f) \/ Leaf(f)' = 0
    BY <1>1, <2>1, KeepOrLose
  <2>. QED BY <1>1, <2>2, LoseStep
<1>2. ASSUME NEW w \in Worker, Login(w) PROVE Rotation!Next
  <2>0. families + 1 \in Family
    BY <1>0, <1>2 DEF Login, TypeOK, Family
  <2>. PICK new \in Family : new = families + 1
    BY <2>0
  <2>1. /\ families' = new /\ Sign(new)
        /\ UNCHANGED <<now, redisJti, redisFamily, req>>
    BY <1>0, <1>2 DEF Login, blocklist
  <2>2. new \notin 1..families /\ 1..families' = 1..families \cup {new} /\ new \notin condemned
    BY <1>0, <2>1, OneMore DEF TypeOK, CondemnedCovered
  <2>3. /\ issued' = issued + 1 /\ issued' \in Jti
        /\ issued' \in Live(new)'
        /\ \A g \in Family : g # new => Live(g)' = Live(g)
    BY <2>1, <2>2, SignedIsLive
  <2>4. ASSUME NEW q \in Request, NEW f \in Family
        PROVE  /\ Holds(q, f)' <=> Holds(q, f)
               /\ Holds(q, f) => f \in 1..families
    <3>1. CASE req[q] = Idle
      BY <2>1, <3>1 DEF Holds, Idle
    <3>2. CASE req[q] # Idle
      <4>1. req[q].jti \in Jti /\ req[q].jti <= issued /\ req[q].jti \in 1..issued
        BY <1>0, <3>2 DEF TypeOK, Busy, Jti
      <4>2. family'[req[q].jti] = family[req[q].jti]
        BY <1>0, <2>1, <4>1 DEF Sign, TypeOK, Jti
      <4>3. family[req[q].jti] \in 1..families
        BY <1>0, <4>1 DEF TypeOK
      <4>. QED BY <2>1, <4>2, <4>3 DEF Holds
    <3>. QED BY <3>1, <3>2
  <2>5. Leaf(new)' = issued'
    <3>1. \A q \in Request : ~Holds(q, new)'
      BY <2>1, <2>2, <2>4
    <3>. QED BY <2>1, <2>3, <3>1, LeafValueNext
  <2>6. \A f \in Family : f # new => Leaf(f)' = Leaf(f)
    BY <2>1, <2>3, <2>4, LeafSame
  <2>7. issued' \notin 1..issued /\ 1..issued' = 1..issued \cup {issued'}
    BY <1>0, <2>3, OneMore DEF TypeOK
  <2>8. [f \in Family |-> Leaf(f)]' = [[f \in Family |-> Leaf(f)] EXCEPT ![new] = issued']
    BY <2>1, <2>5, <2>6
  <2>9. Rotation!Found(new, issued')
    BY <2>1, <2>2, <2>7, <2>8 DEF Rotation!Found
  <2>. QED BY <2>1, <2>3, <2>9 DEF Rotation!Next
<1>3. ASSUME NEW w \in Worker, Crash(w) PROVE Rotation!Next
  <2>1. UNCHANGED <<now, families, issued, family, expires, redisJti, redisFamily>>
    BY <1>3 DEF Crash, tokens
  <2>2. \A q \in Request : req'[q] = Idle \/ req'[q] = req[q]
    BY <1>0, <1>3 DEF Crash, TypeOK
  <2>3. \A f \in Family, q \in Request :
            Holds(q, f)' => Holds(q, f) /\ req'[q].jti = req[q].jti
    BY <2>1, <2>2 DEF Holds, Idle
  <2>4. now <= now /\ \A f \in Family : redisFamily[f] <= redisFamily[f]
    BY <1>0 DEF TypeOK
  <2>. QED BY <1>1, <2>1, <2>3, <2>4 DEF Unlisted
<1>4. ASSUME NEW r \in Request, NEW w \in Worker, NEW j \in Jti, Present(r, w, j)
      PROVE  Rotation!Next
  <2>1. UNCHANGED <<now, families, issued, family, expires, redisJti, redisFamily>>
    BY <1>4 DEF Present, tokens, blocklist
  <2>2. req'[r].pc = "decoded"
    BY <1>0, <1>4 DEF Present, TypeOK
  <2>3. \A f \in Family, q \in Request : ~Holds(q, f)'
    BY <2>2 DEF Holds, Sequential
  <2>4. now <= now /\ \A f \in Family : redisFamily[f] <= redisFamily[f]
    BY <1>0 DEF TypeOK
  <2>. QED BY <1>1, <2>1, <2>3, <2>4 DEF Unlisted
<1>5. CASE Tick
  <2>1. /\ UNCHANGED <<families, issued, family, expires, redisJti, redisFamily, req>>
        /\ now <= now' /\ now' \in Nat
    BY <1>0, <1>5 DEF Tick, tokens, blocklist, TypeOK
  <2>2. \A j \in Jti : Unlisted(j)' => Unlisted(j)
    BY <2>1, UnlistedShrinks DEF SequentialInv
  <2>3. \A f \in Family : redisFamily[f] <= redisFamily'[f]
    BY <1>0, <2>1 DEF TypeOK
  <2>4. \A f \in Family, q \in Request :
            Holds(q, f)' => Holds(q, f) /\ req'[q].jti = req[q].jti
    BY <2>1 DEF Holds
  <2>. QED BY <1>1, <2>1, <2>2, <2>3, <2>4
<1>6. ~RedisFails /\ ~RedisRecovers
  BY <1>0 DEF RedisFails, RedisRecovers, Calm, TypeOK
<1>7. CASE UNCHANGED vars
  BY <1>7 DEF vars, Rotation!vars, Leaf, InExchange, Accepted, Usable, FamilyRevoked, TokenRevoked
<1>8. ASSUME NEW r \in Request, Handler(r) PROVE Rotation!Next
  <2>. DEFINE F == family[req[r].jti]
  <2>1. ASSUME UNCHANGED <<now, families, issued, family, expires, redisJti>>,
               \A f \in Family : redisFamily[f] <= redisFamily'[f],
               \A f \in Family : Holds(r, f)' =>
                  \/ Holds(r, f) /\ req'[r].jti = req[r].jti
                  \/ (\A s \in Request : ~Holds(s, f)) /\ req'[r].jti \in Live(f)
        PROVE  Rotation!Next
    <3>1. \A f \in Family, q \in Request : Holds(q, f)' =>
             \/ Holds(q, f) /\ req'[q].jti = req[q].jti
             \/ (\A s \in Request : ~Holds(s, f)) /\ req'[q].jti \in Live(f)
      BY <2>1 DEF Sequential
    <3>2. now <= now'
      BY <1>0, <2>1 DEF TypeOK
    <3>. QED BY <1>1, <2>1, <3>1, <3>2 DEF Unlisted
  <2>2. ASSUME Finish(r) PROVE \A f \in Family : ~Holds(r, f)'
    <3>1. req'[r] = Idle
      BY <1>0, <2>2 DEF Finish, TypeOK
    <3>. QED BY <3>1 DEF Holds, Idle
  <2>3. ASSUME NEW p \in Phase \ {"idle"}, req[r].pc # "idle", Goto(r, p)
        PROVE  req'[r].pc = p /\ req'[r].jti = req[r].jti
    <3>1. req[r] \in Busy /\ req'[r] = [req[r] EXCEPT !.pc = p]
      BY <1>0, <2>3, BusyRequest DEF Goto, TypeOK
    <3>. QED BY <3>1, BusyPhase
  <2>4. \A f \in Family : redisFamily[f] <= redisFamily[f]
    BY <1>0 DEF TypeOK
  <2>5. CASE CheckFamily(r)
    <3>1. UNCHANGED <<now, families, issued, family, expires, redisJti, redisFamily>>
      BY <2>5 DEF CheckFamily, tokens, blocklist
    <3>2. req[r].pc = "decoded" /\ (Finish(r) \/ Goto(r, "familyOk"))
      BY <2>5 DEF CheckFamily
    <3>3. \A f \in Family : ~Holds(r, f)'
      BY <2>2, <2>3, <3>2 DEF Holds, Phase
    <3>. QED BY <2>1, <2>4, <3>1, <3>3
  <2>6. CASE CheckToken(r)
    <3>1. UNCHANGED <<now, families, issued, family, expires, redisJti, redisFamily>>
      BY <2>6 DEF CheckToken, tokens, blocklist
    <3>2. /\ req[r].pc = "familyOk"
          /\ \/ Goto(r, "replay")
             \/ Goto(r, "loading") /\ ~TokenRevoked(req[r].worker, req[r].jti)
      BY <2>6 DEF CheckToken
    <3>3. CASE Goto(r, "replay")
      <4>1. \A f \in Family : ~Holds(r, f)'
        BY <2>3, <3>2, <3>3 DEF Holds, Phase
      <4>. QED BY <2>1, <2>4, <3>1, <4>1
    <3>4. CASE Goto(r, "loading") /\ ~TokenRevoked(req[r].worker, req[r].jti)
      <4>1. req'[r].pc = "loading" /\ req'[r].jti = req[r].jti
        BY <2>3, <3>2, <3>4 DEF Phase
      <4>2. /\ req[r] # Idle /\ req[r].jti \in Jti /\ req[r].jti <= issued
            /\ F \in Family /\ HandlerCovered(r) /\ HandlerAlone(r)
        BY <1>0, <3>2, BusyRequest DEF SequentialInv, ReplayInv, TypeOK
      <4>3. Unlisted(req[r].jti)
        BY <1>0, <3>2, <3>4, <4>2 DEF Unlisted, HandlerCovered, TokenRevoked, TypeOK
      <4>4. redisFamily[F] = 0
        BY <1>0, <3>2, <4>2 DEF HandlerAlone, CondemnedCovered
      <4>5. req[r].jti \in Live(F)
        BY <1>0, <4>2, <4>3, <4>4 DEF Live, TypeOK
      <4>6. \A f \in Family, s \in Request : ~Holds(s, f)
        BY <3>2 DEF Holds, Sequential
      <4>7. \A f \in Family : Holds(r, f)' => f = F
        BY <3>1, <4>1 DEF Holds
      <4>. QED BY <2>1, <2>4, <3>1, <4>1, <4>5, <4>6, <4>7
    <3>. QED BY <3>2, <3>3, <3>4
  <2>7. CASE Condemn(r)
    <3>1. /\ UNCHANGED <<now, families, issued, family, expires, redisJti>>
          /\ req[r].pc = "replay" /\ Goto(r, "cascade")
          /\ redisFamily' = [redisFamily EXCEPT ![F] = now + Lifetime]
      BY <1>0, <2>7 DEF Condemn, RevokeFamily, tokens
    <3>2. \A f \in Family : ~Holds(r, f)'
      BY <2>3, <3>1 DEF Holds, Phase
    <3>3. HandlerAlone(r) /\ F \in Family
      BY <1>0, <3>1, BusyRequest DEF SequentialInv
    <3>4. redisFamily[F] = 0
      BY <1>0, <3>1, <3>3 DEF HandlerAlone, CondemnedCovered
    <3>5. \A f \in Family : redisFamily[f] <= redisFamily'[f]
      BY <1>0, <3>1, <3>4 DEF TypeOK
    <3>. QED BY <2>1, <3>1, <3>2, <3>5
  <2>8. CASE PurgeSessions(r)
    <3>1. UNCHANGED <<now, families, issued, family, expires, redisJti, redisFamily>>
      BY <2>8, PurgeStep DEF tokens, blocklist
    <3>2. Finish(r) \/ (req[r].pc = "cascade" /\ Goto(r, "purging"))
      BY <2>8, PurgeStep
    <3>3. \A f \in Family : ~Holds(r, f)'
      BY <2>2, <2>3, <3>2 DEF Holds, Phase
    <3>. QED BY <2>1, <2>4, <3>1, <3>3
  <2>9. CASE LoadUser(r)
    <3>1. UNCHANGED <<now, families, issued, family, expires, redisJti, redisFamily>>
      BY <2>9 DEF LoadUser, tokens, blocklist
    <3>2. req[r].pc = "loading" /\ (Finish(r) \/ Goto(r, "loaded"))
      BY <2>9 DEF LoadUser
    <3>3. \A f \in Family : Holds(r, f)' => Holds(r, f) /\ req'[r].jti = req[r].jti
      BY <2>2, <2>3, <3>1, <3>2 DEF Holds, Phase
    <3>. QED BY <2>1, <2>4, <3>1, <3>3
  <2>10. CASE Consume(r)
    <3>1. /\ UNCHANGED <<now, families, issued, family, expires, redisFamily>>
          /\ req[r].pc = "loaded" /\ Goto(r, "consumed")
      BY <2>10 DEF Consume, tokens
    <3>2. \E t \in Nat : redisJti' = [redisJti EXCEPT ![req[r].jti] = t] /\ ~(t <= now)
      <4>1. expires[req[r].jti] \in Nat /\ now \in Nat
        BY <1>0, <3>1, BusyRequest DEF TypeOK
      <4>2. CASE expires[req[r].jti] - now > 1
        <5>1. redisJti' = [redisJti EXCEPT ![req[r].jti] = now + (expires[req[r].jti] - now)]
          BY <1>0, <2>10, <4>2 DEF Consume, RevokeToken
        <5>2. /\ now + (expires[req[r].jti] - now) \in Nat
              /\ ~(now + (expires[req[r].jti] - now) <= now)
          BY <4>1, <4>2
        <5>. QED BY <5>1, <5>2
      <4>3. CASE ~(expires[req[r].jti] - now > 1)
        <5>1. redisJti' = [redisJti EXCEPT ![req[r].jti] = now + 1]
          BY <1>0, <2>10, <4>3 DEF Consume, RevokeToken
        <5>2. now + 1 \in Nat /\ ~(now + 1 <= now)
          BY <4>1
        <5>. QED BY <5>1, <5>2
      <4>. QED BY <4>2, <4>3
    <3>3. \A j \in Jti : Unlisted(j)' => Unlisted(j)
      BY <1>0, <3>1, <3>2 DEF Unlisted, TypeOK
    <3>4. \A f \in Family : Holds(r, f)' => Holds(r, f) /\ req'[r].jti = req[r].jti
      BY <2>3, <3>1 DEF Holds, Phase
    <3>5. \A f \in Family, q \in Request :
              Holds(q, f)' => Holds(q, f) /\ req'[q].jti = req[q].jti
      BY <3>4 DEF Sequential
    <3>6. now <= now' /\ \A f \in Family : redisFamily[f] <= redisFamily'[f]
      BY <1>0, <3>1 DEF TypeOK
    <3>. QED BY <1>1, <3>1, <3>3, <3>5, <3>6
  <2>11. CASE Mint(r)
    <3>1. /\ UNCHANGED <<now, families, redisJti, redisFamily>>
          /\ req[r].pc = "consumed" /\ Finish(r) /\ Sign(F)
      BY <2>11 DEF Mint, blocklist
    <3>2. HandlerAlone(r) /\ req[r] # Idle /\ req[r].jti \in Jti /\ F \in Family
      BY <1>0, <3>1, BusyRequest DEF SequentialInv
    <3>. PICK f \in Family : f = F
      BY <3>2
    <3>3. Sign(f) /\ f \notin condemned /\ Holds(r, f)
      BY <3>1, <3>2 DEF HandlerAlone, Holds
    <3>4. /\ issued' = issued + 1 /\ issued' \in Jti
          /\ issued' \in Live(f)'
          /\ \A g \in Family : g # f => Live(g)' = Live(g)
      BY <3>1, <3>3, SignedIsLive
    <3>5. \A q \in Request, g \in Family : ~Holds(q, g)' /\ (g # f => ~Holds(q, g))
      BY <2>2, <3>1, <3>3 DEF Sequential, Holds
    <3>6. Leaf(f)' = issued'
      BY <3>4, <3>5, LeafValueNext
    <3>7. \A g \in Family : g # f => Leaf(g)' = Leaf(g)
      BY <3>4, <3>5, LeafSame
    <3>8. Leaf(f) # 0
      <4>1. Leaf(f) = req[r].jti
        BY <3>3, LeafValue
      <4>. QED BY <3>2, <4>1 DEF Jti
    <3>9. issued' \notin 1..issued /\ 1..issued' = 1..issued \cup {issued'}
      BY <1>0, <3>4, OneMore DEF TypeOK
    <3>10. [g \in Family |-> Leaf(g)]' = [[g \in Family |-> Leaf(g)] EXCEPT ![f] = issued']
      BY <3>6, <3>7
    <3>11. Rotation!Rotate(f, issued')
      BY <3>1, <3>8, <3>9, <3>10 DEF Rotation!Rotate, Rotation!None
    <3>. QED BY <3>4, <3>11 DEF Rotation!Next
  <2>. QED BY <1>8, <2>5, <2>6, <2>7, <2>8, <2>9, <2>10, <2>11 DEF Handler
<1>. QED BY <1>2, <1>3, <1>4, <1>5, <1>6, <1>7, <1>8 DEF Next

(***************************************************************************)
(* Handlers that run one after the other, on any number of workers that    *)
(* may restart: every step until Redis first fails to answer is a step of  *)
(* TokenRotation or none.                                                  *)
(***************************************************************************)
THEOREM RotationUntilOutage ==
    HasRedis /\ Sequential =>
        (Spec => Rotation!Init /\ [][Calm' => Rotation!Next]_(Rotation!vars))
<1>. SUFFICES ASSUME HasRedis, Sequential
              PROVE  Spec => Rotation!Init /\ [][Calm' => Rotation!Next]_(Rotation!vars)
  OBVIOUS
<1>1. Init => SequentialInv
  BY SequentialInvInit
<1>2. (Calm => SequentialInv) /\ TypeOK /\ TypeOK' /\ [Next]_vars => (Calm' => SequentialInv')
  BY CalmBefore, ReplayInvStep, SequentialInvStep DEF SequentialInv
<1>3. Init => Rotation!Init
  <2>. SUFFICES ASSUME Init PROVE Rotation!Init
    OBVIOUS
  <2>1. SequentialInv /\ families = 0 /\ issued = 0
    BY <1>1 DEF Init
  <2>2. ASSUME NEW f \in Family PROVE Leaf(f) = 0
    <3>1. \A r \in Request : ~Holds(r, f)
      BY DEF Init, Holds, Idle
    <3>2. Live(f) = {}
      BY <2>1 DEF Live, Unlisted, Jti
    <3>. QED BY <2>1, <3>1, <3>2, LeafValue
  <2>. QED BY <2>1, <2>2 DEF Rotation!Init, Rotation!None
<1>4. (Calm => SequentialInv) /\ (Calm' => SequentialInv') /\ TypeOK /\ [Next]_vars
          => [Calm' => Rotation!Next]_(Rotation!vars)
  BY CalmBefore, RotationStep
<1>. QED BY <1>1, <1>2, <1>3, <1>4, TypeCorrect, PTL DEF Spec

(***************************************************************************)
(* So over a Redis that answers they implement rotation as the README      *)
(* describes it.                                                           *)
(***************************************************************************)
COROLLARY RotationImplemented == Healthy /\ Sequential => (Spec => RotationSpec)
<1>. SUFFICES ASSUME Healthy, Sequential PROVE Spec => Rotation!Spec
  BY DEF RotationSpec
<1>1. Spec => Rotation!Init /\ [][Calm' => Rotation!Next]_(Rotation!vars)
  BY RotationUntilOutage DEF Healthy
<1>2. Spec => []Calm
  BY HealthyIsCalm
<1>. QED BY <1>1, <1>2, PTL DEF Rotation!Spec

------------------------------------------------------------------------------
(***************************************************************************)
(* Outages.  The exchanges of a token are paid for: the first one through  *)
(* a healthy Redis by the key it leaves there, one in each worker by that  *)
(* worker's memory, and the rest by the outage that ended, or began, while *)
(* a handler held the token between its check and its write.               *)
(***************************************************************************)
Filled(j)   == {w \in Worker : j \in memJti[w]}
Spending(j) == \E r \in Request : req[r].pc = "consumed" /\ req[r].jti = j
Holding(j)  == \E r \in Request : req[r].pc \in {"loading", "loaded"} /\ req[r].jti = j

Spent(j) == successors[j] + (IF Spending(j) THEN 1 ELSE 0)
Spare(j) == outages + (IF redisUp /\ ~Holding(j) THEN 1 ELSE 0)

Budget(j) ==
    /\ redisJti[j] = 0 => Spent(j) <= Cardinality(Filled(j))
    /\ redisJti[j] # 0 => Spent(j) <= Cardinality(Filled(j)) + Spare(j)
    /\ Filled(j) = Worker => Spent(j) <= Cardinality(Worker) + outages

KeysOutlive == \A j \in Jti : redisJti[j] # 0 => j <= issued /\ expires[j] <= redisJti[j]

\* What the checks of a handler have established, and no await has undone.
HandlerChecked(r) ==
    /\ req[r].pc \in {"decoded", "familyOk"} => now < expires[req[r].jti]
    /\ req[r].pc \in {"loading", "loaded"} => req[r].jti \notin memJti[req[r].worker]

OutageInv ==
    /\ TypeOK
    /\ KeysOutlive
    /\ \A r \in Request : HandlerChecked(r)
    /\ \A j \in Jti : Budget(j)

\* The workers that remember a token can be counted.
LEMMA FilledCount ==
    ASSUME NEW j
    PROVE  /\ Filled(j) \subseteq Worker
           /\ IsFiniteSet(Filled(j))
           /\ Cardinality(Filled(j)) \in Nat
           /\ Cardinality(Worker) \in Nat
           /\ Cardinality(Filled(j)) <= Cardinality(Worker)
           /\ Filled(j) # Worker => Cardinality(Filled(j)) + 1 <= Cardinality(Worker)
<1>1. Filled(j) \in SUBSET Worker /\ IsFiniteSet(Worker)
  BY FiniteWorkers DEF Filled
<1>2. /\ IsFiniteSet(Filled(j))
      /\ Cardinality(Filled(j)) <= Cardinality(Worker)
      /\ Cardinality(Worker) = Cardinality(Filled(j)) => Worker = Filled(j)
  BY <1>1, FS_Subset
<1>3. Cardinality(Worker) \in Nat /\ Cardinality(Filled(j)) \in Nat
  BY <1>1, <1>2, FS_CardinalityType
<1>. QED BY <1>1, <1>2, <1>3

\* The budget of a token bounds its exchanges.
LEMMA BudgetBounds ==
    ASSUME TypeOK, NEW j \in Jti, Budget(j)
    PROVE  successors[j] <= Cardinality(Worker) + outages
<1>. DEFINE n == Cardinality(Filled(j))
            N == Cardinality(Worker)
<1>1. n \in Nat /\ N \in Nat /\ n <= N /\ (Filled(j) # Worker => n + 1 <= N)
  BY FilledCount
<1>2. successors[j] \in Nat /\ outages \in Nat
  BY DEF TypeOK
<1>3. Spent(j) \in Nat /\ successors[j] <= Spent(j)
  BY <1>2 DEF Spent
<1>4. Spare(j) \in Nat /\ Spare(j) <= outages + 1
  BY <1>2 DEF Spare
<1>. HIDE DEF n, N
<1>5. CASE redisJti[j] = 0
  <2>1. Spent(j) <= n
    BY <1>5 DEF Budget, n
  <2>. QED BY <1>1, <1>2, <1>3, <2>1 DEF N
<1>6. CASE redisJti[j] # 0 /\ Filled(j) # Worker
  <2>1. Spent(j) <= n + Spare(j)
    BY <1>6 DEF Budget, n
  <2>. QED BY <1>1, <1>2, <1>3, <1>4, <1>6, <2>1 DEF N
<1>7. CASE Filled(j) = Worker
  <2>1. Spent(j) <= N + outages
    BY <1>7 DEF Budget, N
  <2>. QED BY <1>1, <1>2, <1>3, <2>1 DEF N
<1>. QED BY <1>5, <1>6, <1>7

(***************************************************************************)
(* A step that exchanges nothing and forgets nothing keeps the budget of a *)
(* token, unless it takes away what is spare of a listed one.              *)
(***************************************************************************)
LEMMA BudgetKept ==
    ASSUME TypeOK, TypeOK', NEW j \in Jti, Budget(j),
           Filled(j)' = Filled(j), redisJti'[j] = redisJti[j],
           Spent(j)' = Spent(j), outages <= outages',
           redisJti[j] # 0 => Spare(j) <= Spare(j)'
    PROVE  Budget(j)'
<1>. DEFINE n == Cardinality(Filled(j))
            N == Cardinality(Worker)
<1>1. n \in Nat /\ N \in Nat /\ n' = n
  BY FilledCount
<1>2. outages \in Nat /\ outages' \in Nat /\ successors[j] \in Nat
  BY DEF TypeOK
<1>3. Spent(j) \in Nat /\ Spare(j) \in Nat /\ Spare(j)' \in Nat
  <2>1. Spent(j) \in Nat
    BY <1>2 DEF Spent
  <2>2. Spare(j) \in Nat /\ Spare(j)' \in Nat
    BY <1>2 DEF Spare
  <2>. QED BY <2>1, <2>2
<1>4. redisJti'[j] = 0 => Spent(j)' <= n'
  BY <1>1 DEF Budget
<1>5. redisJti'[j] # 0 => Spent(j)' <= n' + Spare(j)'
  <2>. SUFFICES ASSUME redisJti[j] # 0 PROVE Spent(j) <= n + Spare(j)'
    BY <1>1
  <2>1. Spent(j) <= n + Spare(j) /\ Spare(j) <= Spare(j)'
    BY DEF Budget
  <2>. HIDE DEF n, N
  <2>. QED BY <1>1, <1>3, <2>1
<1>6. Filled(j)' = Worker => Spent(j)' <= N + outages'
  <2>. SUFFICES ASSUME Filled(j) = Worker PROVE Spent(j) <= N + outages'
    OBVIOUS
  <2>1. Spent(j) <= N + outages
    BY DEF Budget
  <2>. HIDE DEF n, N
  <2>. QED BY <1>1, <1>2, <1>3, <2>1
<1>. QED BY <1>4, <1>5, <1>6 DEF Budget

\* With handlers that run one after the other, the one that runs decides.
LEMMA OneHandler ==
    ASSUME Sequential, NEW r \in Request, NEW j
    PROVE  /\ Spending(j) <=> req[r].pc = "consumed" /\ req[r].jti = j
           /\ Spending(j)' <=> req'[r].pc = "consumed" /\ req'[r].jti = j
           /\ Holding(j) <=> req[r].pc \in {"loading", "loaded"} /\ req[r].jti = j
           /\ Holding(j)' <=> req'[r].pc \in {"loading", "loaded"} /\ req'[r].jti = j
BY DEF Sequential, Spending, Holding

\* A handler goes on and writes nothing: Redis, the tokens and the lists stay.
Reads(r) ==
    /\ UNCHANGED <<now, redis, tokens, redisJti, memJti>>
    /\ req[r].pc # "consumed" /\ req'[r].pc # "consumed"
    /\ req[r].pc \in {"loading", "loaded"} \/ req'[r].pc \notin {"loading", "loaded"}
    /\ req[r].pc \in {"loading", "loaded"} /\ req'[r].pc \in {"loading", "loaded"} =>
          req'[r].jti = req[r].jti

LEMMA ReadsBudget ==
    ASSUME Sequential, OutageInv, TypeOK', NEW r \in Request, Reads(r), HandlerChecked(r)'
    PROVE  OutageInv'
<1>1. TypeOK /\ KeysOutlive /\ \A j \in Jti : Budget(j)
  BY DEF OutageInv
<1>2. UNCHANGED <<redisUp, outages, issued, expires, successors, redisJti, memJti>>
  BY DEF Reads, redis, tokens
<1>3. ASSUME NEW j \in Jti PROVE Budget(j)'
  <2>1. ~Spending(j) /\ ~Spending(j)' /\ (Holding(j)' => Holding(j))
    BY OneHandler DEF Reads
  <2>2. Spent(j)' = Spent(j) /\ Filled(j)' = Filled(j)
    BY <1>2, <2>1 DEF Spent, Filled
  <2>3. outages \in Nat
    BY <1>1 DEF TypeOK
  <2>4. Spare(j) <= Spare(j)'
    BY <1>2, <2>1, <2>3 DEF Spare
  <2>. QED BY <1>1, <1>2, <2>2, <2>3, <2>4, BudgetKept
<1>4. KeysOutlive'
  BY <1>1, <1>2 DEF KeysOutlive
<1>5. \A q \in Request : HandlerChecked(q)'
  BY DEF Sequential
<1>. QED BY <1>3, <1>4, <1>5 DEF OutageInv

(***************************************************************************)
(* A token that reaches the user row through a healthy Redis has no key:   *)
(* its handler holds an unexpired token, and a key outlives its token.     *)
(***************************************************************************)
LEMMA PassedUnlisted ==
    ASSUME OutageInv, NEW r \in Request, req[r].pc = "familyOk", redisUp,
           ~TokenRevoked(req[r].worker, req[r].jti)
    PROVE  redisJti[req[r].jti] = 0
<1>1. TypeOK /\ KeysOutlive /\ HandlerChecked(r)
  BY DEF OutageInv
<1>2. req[r].jti \in Jti /\ now < expires[req[r].jti]
  BY <1>1, BusyRequest DEF HandlerChecked
<1>3. ~(now < redisJti[req[r].jti])
  BY DEF TokenRevoked
<1>4. /\ now \in Nat /\ expires[req[r].jti] \in Nat /\ redisJti[req[r].jti] \in Nat
      /\ redisJti[req[r].jti] # 0 => expires[req[r].jti] <= redisJti[req[r].jti]
  BY <1>1, <1>2 DEF TypeOK, KeysOutlive
<1>. QED BY <1>2, <1>3, <1>4

(***************************************************************************)
(* The lookup of a token: when its handler goes on, it takes from what is  *)
(* spare only of a token without a key, or while Redis is down.            *)
(***************************************************************************)
LEMMA CheckTokenBudget ==
    ASSUME Sequential, OutageInv, TypeOK', NEW r \in Request, CheckToken(r)
    PROVE  OutageInv'
<1>. DEFINE t == req[r].jti
<1>1. TypeOK /\ KeysOutlive /\ \A j \in Jti : Budget(j)
  BY DEF OutageInv
<1>2. /\ UNCHANGED <<now, redisUp, outages, issued, expires, successors, redisJti, memJti>>
      /\ req[r].pc = "familyOk"
  BY DEF CheckToken, redis, tokens, blocklist
<1>3. req[r] \in Busy /\ t \in Jti /\ req[r].worker \in Worker
  BY <1>1, <1>2, BusyRequest
<1>4. \/ req'[r] = [req[r] EXCEPT !.pc = "replay"]
      \/ /\ req'[r] = [req[r] EXCEPT !.pc = "loading"]
         /\ ~TokenRevoked(req[r].worker, t)
  BY <1>1 DEF CheckToken, Goto, TypeOK
<1>5. /\ req'[r].jti = t /\ req'[r].worker = req[r].worker
      /\ \/ req'[r].pc = "replay"
         \/ req'[r].pc = "loading" /\ ~TokenRevoked(req[r].worker, t)
  <2>1. \A p \in Phase \ {"idle"} : /\ [req[r] EXCEPT !.pc = p].pc = p
                                   /\ [req[r] EXCEPT !.pc = p].jti = t
                                   /\ [req[r] EXCEPT !.pc = p].worker = req[r].worker
    BY <1>3, BusyPhase
  <2>2. "replay" \in Phase \ {"idle"} /\ "loading" \in Phase \ {"idle"}
    BY DEF Phase
  <2>3. CASE req'[r] = [req[r] EXCEPT !.pc = "replay"]
    BY ONLY <2>1, <2>2, <2>3, ZenonT(30)
  <2>4. CASE /\ req'[r] = [req[r] EXCEPT !.pc = "loading"]
             /\ ~TokenRevoked(req[r].worker, t)
    BY ONLY <2>1, <2>2, <2>4, ZenonT(30)
  <2>. QED BY <1>4, <2>3, <2>4
<1>6. ASSUME NEW j \in Jti PROVE Budget(j)'
  <2>1. ~Spending(j) /\ ~Spending(j)' /\ ~Holding(j)
    BY <1>2, <1>5, OneHandler
  <2>2. Holding(j)' => j = t /\ ~TokenRevoked(req[r].worker, t)
    BY <1>5, OneHandler
  <2>3. Spent(j)' = Spent(j) /\ Filled(j)' = Filled(j)
    BY <1>2, <2>1 DEF Spent, Filled
  <2>4. outages \in Nat
    BY <1>1 DEF TypeOK
  <2>5. redisJti[j] # 0 => Spare(j) <= Spare(j)'
    <3>1. CASE ~Holding(j)' \/ ~redisUp
      BY <1>2, <2>1, <2>4, <3>1 DEF Spare
    <3>2. CASE Holding(j)' /\ redisUp
      BY <1>2, <2>2, <3>2, PassedUnlisted
    <3>. QED BY <3>1, <3>2
  <2>. QED BY <1>1, <1>2, <2>3, <2>4, <2>5, BudgetKept
<1>7. KeysOutlive'
  BY <1>1, <1>2 DEF KeysOutlive
<1>8. HandlerChecked(r)'
  BY <1>2, <1>5 DEF HandlerChecked, TokenRevoked
<1>9. \A q \in Request : HandlerChecked(q)'
  BY <1>8 DEF Sequential
<1>. QED BY <1>6, <1>7, <1>9 DEF OutageInv

(***************************************************************************)
(* The write to the list.  Through a healthy Redis it leaves a key, and a  *)
(* token that had one already was held through an outage; while Redis is   *)
(* down it fills the memory of a worker that had not seen the token.       *)
(***************************************************************************)
LEMMA ConsumeBudget ==
    ASSUME Sequential, OutageInv, TypeOK', NEW r \in Request, Consume(r)
    PROVE  OutageInv'
<1>1. TypeOK /\ KeysOutlive /\ (\A j \in Jti : Budget(j)) /\ HandlerChecked(r)
  BY DEF OutageInv
<1>2. /\ UNCHANGED <<now, redisUp, outages, issued, expires, successors>>
      /\ req[r].pc = "loaded" /\ RevokeToken(req[r].worker, req[r].jti)
  BY DEF Consume, redis, tokens
<1>. PICK t \in Jti, w \in Worker : t = req[r].jti /\ w = req[r].worker
  BY <1>1, <1>2, BusyRequest
<1>3. req[r] \in Busy /\ t <= issued /\ t \notin memJti[w]
  BY <1>1, <1>2, BusyRequest DEF HandlerChecked
<1>4. req'[r] = [req[r] EXCEPT !.pc = "consumed"]
  BY <1>1 DEF Consume, Goto, TypeOK
<1>5. req'[r].jti = t /\ req'[r].worker = w /\ req'[r].pc = "consumed"
  BY <1>3, <1>4, BusyPhase DEF Phase
<1>6. HandlerChecked(r)'
  BY <1>5 DEF HandlerChecked
<1>7. \A j \in Jti : ~Spending(j) /\ ~Holding(j)' /\ (Spending(j)' <=> j = t) /\ (Holding(j) <=> j = t)
  BY <1>2, <1>5, OneHandler
<1>8. now \in Nat /\ outages \in Nat /\ expires[t] \in Nat
  BY <1>1, <1>3 DEF TypeOK
<1>9. /\ redisUp => /\ redisJti'[t] # 0 /\ expires[t] <= redisJti'[t]
                    /\ \A j \in Jti : j # t => redisJti'[j] = redisJti[j]
                    /\ memJti' = memJti
      /\ ~redisUp => /\ redisJti' = redisJti
                     /\ memJti' = [memJti EXCEPT ![w] = @ \cup {t}]
  <2>1. CASE redisUp /\ expires[t] - now > 1
    <3>1. redisJti' = [redisJti EXCEPT ![t] = now + (expires[t] - now)] /\ memJti' = memJti
      BY <1>2, <2>1 DEF RevokeToken
    <3>2. now + (expires[t] - now) = expires[t] /\ expires[t] # 0
      BY <1>8, <2>1
    <3>. QED BY <1>1, <1>3, <1>8, <2>1, <3>1, <3>2 DEF TypeOK
  <2>2. CASE redisUp /\ ~(expires[t] - now > 1)
    <3>1. redisJti' = [redisJti EXCEPT ![t] = now + 1] /\ memJti' = memJti
      BY <1>2, <2>2 DEF RevokeToken
    <3>2. expires[t] <= now + 1 /\ now + 1 # 0
      BY <1>8, <2>2
    <3>. QED BY <1>1, <1>3, <2>2, <3>1, <3>2 DEF TypeOK
  <2>3. CASE ~redisUp
    BY <1>2, <2>3 DEF RevokeToken
  <2>. QED BY <2>1, <2>2, <2>3
<1>10. KeysOutlive'
  BY <1>1, <1>2, <1>3, <1>9 DEF KeysOutlive
<1>11. ASSUME NEW j \in Jti, j # t PROVE Budget(j)'
  <2>1. Filled(j)' = Filled(j) /\ redisJti'[j] = redisJti[j]
    <3>1. ASSUME NEW v \in Worker PROVE j \in memJti'[v] <=> j \in memJti[v]
      BY <1>1, <1>9, <1>11, <3>1 DEF TypeOK
    <3>2. redisJti'[j] = redisJti[j]
      BY <1>9, <1>11
    <3>. QED BY <3>1, <3>2 DEF Filled
  <2>2. Spent(j)' = Spent(j)
    BY <1>2, <1>7, <1>11 DEF Spent
  <2>3. Spare(j) <= Spare(j)'
    BY <1>2, <1>7, <1>8, <1>11 DEF Spare
  <2>. QED BY <1>1, <1>2, <1>8, <2>1, <2>2, <2>3, BudgetKept
<1>12. Budget(t)'
  <2>. DEFINE n == Cardinality(Filled(t))
              N == Cardinality(Worker)
  <2>1. n \in Nat /\ N \in Nat /\ Filled(t) \subseteq Worker /\ IsFiniteSet(Filled(t))
    BY FilledCount
  <2>2. successors[t] \in Nat /\ Spent(t) = successors[t] /\ Spent(t)' = successors[t] + 1
    BY <1>1, <1>2, <1>3, <1>7 DEF Spent, TypeOK
  <2>3. Spare(t) = outages /\ Spare(t)' = outages + (IF redisUp THEN 1 ELSE 0)
    BY <1>2, <1>3, <1>7, <1>8 DEF Spare
  <2>4. /\ redisJti[t] = 0 => successors[t] <= n
        /\ redisJti[t] # 0 => successors[t] <= n + outages
    BY <1>1, <1>3, <2>2, <2>3 DEF Budget
  <2>5. w \notin Filled(t)
    BY <1>3 DEF Filled
  <2>6. CASE redisUp
    <3>1. Filled(t)' = Filled(t)
      BY <1>9, <2>6 DEF Filled
    <3>2. Filled(t)' # Worker
      BY <1>3, <2>5, <3>1
    <3>3. successors[t] + 1 <= n + (outages + 1)
      <4>. HIDE DEF n
      <4>. QED BY <1>8, <2>1, <2>2, <2>4
    <3>4. Spent(t)' <= Cardinality(Filled(t)') + Spare(t)'
      BY <2>2, <2>3, <2>6, <3>1, <3>3
    <3>. QED BY <1>9, <2>6, <3>1, <3>2, <3>4 DEF Budget
  <2>7. CASE ~redisUp
    <3>1. Filled(t)' = Filled(t) \cup {w}
      <4>1. ASSUME NEW v \in Worker PROVE t \in memJti'[v] <=> t \in memJti[v] \/ v = w
        BY <1>1, <1>3, <1>9, <2>7, <4>1 DEF TypeOK
      <4>. QED BY <1>3, <4>1 DEF Filled
    <3>2. Cardinality(Filled(t) \cup {w}) = n + 1
      BY <2>1, <2>5, FS_AddElement
    <3>3. Cardinality(Filled(t)') = n + 1
      BY <3>1, <3>2
    <3>4. /\ redisJti[t] = 0 => successors[t] + 1 <= n + 1
          /\ redisJti[t] # 0 => successors[t] + 1 <= (n + 1) + outages
          /\ successors[t] + 1 <= (n + 1) + outages
      <4>. HIDE DEF n
      <4>. QED BY <1>8, <2>1, <2>2, <2>4
    <3>5. /\ redisJti'[t] = 0 => Spent(t)' <= Cardinality(Filled(t)')
          /\ redisJti'[t] # 0 => Spent(t)' <= Cardinality(Filled(t)') + Spare(t)'
      <4>1. redisJti' = redisJti /\ Spare(t)' = outages
        BY <1>8, <1>9, <2>3, <2>7
      <4>. QED BY <2>2, <3>3, <3>4, <4>1
    <3>6. Filled(t)' = Worker => Spent(t)' <= N + outages'
      <4>. SUFFICES ASSUME Filled(t)' = Worker PROVE Spent(t)' <= N + outages
        BY <1>2
      <4>1. N = n + 1
        BY <3>3
      <4>. QED BY <2>2, <3>4, <4>1
    <3>. QED BY <3>5, <3>6 DEF Budget
  <2>. QED BY <2>6, <2>7
<1>13. \A q \in Request : HandlerChecked(q)'
  BY <1>6 DEF Sequential
<1>14. \A j \in Jti : Budget(j)'
  BY <1>11, <1>12
<1>. QED BY <1>10, <1>13, <1>14 DEF OutageInv

\* The signature: a pending exchange becomes a counted one.
LEMMA MintBudget ==
    ASSUME Sequential, OutageInv, TypeOK', NEW r \in Request, Mint(r)
    PROVE  OutageInv'
<1>1. TypeOK /\ KeysOutlive /\ \A j \in Jti : Budget(j)
  BY DEF OutageInv
<1>2. /\ UNCHANGED <<now, redisUp, outages, redisJti, memJti>>
      /\ req[r].pc = "consumed" /\ Sign(family[req[r].jti])
      /\ successors' = [successors EXCEPT ![req[r].jti] = @ + 1]
  BY DEF Mint, redis, blocklist
<1>. PICK t \in Jti : t = req[r].jti
  BY <1>1, <1>2, BusyRequest
<1>3. req'[r].pc = "idle"
  BY <1>1 DEF Mint, Finish, TypeOK, Idle
<1>4. ASSUME NEW j \in Jti PROVE Budget(j)'
  <2>1. ~Spending(j)' /\ ~Holding(j) /\ ~Holding(j)' /\ (Spending(j) <=> j = t)
    BY <1>2, <1>3, OneHandler
  <2>2. Spent(j)' = Spent(j)
    BY <1>1, <1>2, <2>1 DEF Spent, TypeOK
  <2>3. Filled(j)' = Filled(j) /\ outages \in Nat
    BY <1>1, <1>2 DEF Filled, TypeOK
  <2>4. Spare(j) <= Spare(j)'
    BY <1>2, <2>1, <2>3 DEF Spare
  <2>. QED BY <1>1, <1>2, <2>2, <2>3, <2>4, BudgetKept
<1>5. issued' = issued + 1 /\ \A j \in Jti : j <= issued => expires'[j] = expires[j]
  BY <1>1, <1>2 DEF Sign, TypeOK, Jti
<1>6. KeysOutlive'
  BY <1>1, <1>2, <1>5 DEF KeysOutlive, TypeOK, Jti
<1>7. \A q \in Request : HandlerChecked(q)'
  BY <1>3 DEF Sequential, HandlerChecked
<1>. QED BY <1>4, <1>6, <1>7 DEF OutageInv

(***************************************************************************)
(* The steps of the environment: a login signs another token, time passes  *)
(* for handlers that wait, and calls to Redis begin to fail or to succeed. *)
(***************************************************************************)
LEMMA AroundBudget ==
    ASSUME OutageInv, TypeOK', UNCHANGED <<successors, redisJti, memJti, req>>,
           \/ UNCHANGED <<redisUp, outages>>
           \/ UNCHANGED outages /\ ~redisUp /\ redisUp'
           \/ outages' = outages + 1 /\ redisUp /\ ~redisUp',
           issued <= issued', \A j \in Jti : j <= issued => expires'[j] = expires[j],
           \/ now' = now
           \/ \A q \in Request : req[q] # Idle => req[q].pc = "loading"
    PROVE  OutageInv'
<1>1. TypeOK /\ KeysOutlive /\ (\A j \in Jti : Budget(j)) /\ \A r \in Request : HandlerChecked(r)
  BY DEF OutageInv
<1>2. ASSUME NEW j \in Jti PROVE Budget(j)'
  <2>1. Spent(j)' = Spent(j) /\ Filled(j)' = Filled(j) /\ (Holding(j)' <=> Holding(j))
    BY DEF Spent, Spending, Filled, Holding
  <2>2. outages \in Nat
    BY <1>1 DEF TypeOK
  <2>3. Spare(j) <= Spare(j)' /\ outages <= outages'
    BY <2>1, <2>2 DEF Spare
  <2>. QED BY <1>1, <2>1, <2>3, BudgetKept
<1>3. KeysOutlive'
  BY <1>1 DEF KeysOutlive, TypeOK, Jti
<1>4. ASSUME NEW r \in Request PROVE HandlerChecked(r)'
  <2>1. CASE req[r] = Idle
    BY <2>1 DEF HandlerChecked, Idle
  <2>2. CASE req[r] # Idle
    <3>1. req[r].jti \in Jti /\ req[r].jti <= issued
      BY <1>1, <2>2 DEF TypeOK, Busy
    <3>. QED BY <1>1, <2>2, <3>1 DEF HandlerChecked
  <2>. QED BY <2>1, <2>2
<1>. QED BY <1>2, <1>3, <1>4 DEF OutageInv

\* Every action keeps the budgets, unless a worker forgets what it remembers.
LEMMA OutageInvStep ==
    ASSUME ~CanCrash, Sequential, OutageInv, TypeOK', [Next]_vars
    PROVE  OutageInv'
<1>0. TypeOK
  BY DEF OutageInv
<1>1. ASSUME NEW w \in Worker, Login(w) PROVE OutageInv'
  <2>1. UNCHANGED <<now, redisUp, outages, successors, redisJti, memJti, req>>
    BY <1>1 DEF Login, redis, blocklist
  <2>2. issued <= issued' /\ \A j \in Jti : j <= issued => expires'[j] = expires[j]
    BY <1>0, <1>1 DEF Login, Sign, TypeOK, Jti
  <2>. QED BY <2>1, <2>2, AroundBudget
<1>2. ASSUME NEW w \in Worker PROVE ~Crash(w)
  BY DEF Crash
<1>3. ASSUME NEW r \in Request, NEW w \in Worker, NEW j \in Jti, Present(r, w, j)
      PROVE  OutageInv'
  <2>1. UNCHANGED <<now, redis, tokens, redisJti, memJti>>
    BY <1>3 DEF Present, blocklist
  <2>2. /\ req[r].pc = "idle" /\ req'[r].pc = "decoded" /\ req'[r].jti = j
        /\ now < expires[j]
    BY <1>0, <1>3 DEF Present, TypeOK, Idle
  <2>3. Reads(r) /\ HandlerChecked(r)'
    BY <2>1, <2>2 DEF Reads, HandlerChecked, tokens
  <2>. QED BY <2>3, ReadsBudget
<1>4. ASSUME NEW r \in Request, Handler(r) PROVE OutageInv'
  <2>1. HandlerChecked(r)
    BY DEF OutageInv
  <2>2. ASSUME Finish(r) PROVE req'[r].pc = "idle"
    BY <1>0, <2>2 DEF Finish, TypeOK, Idle
  <2>3. ASSUME NEW p \in Phase \ {"idle"}, req[r].pc # "idle", Goto(r, p)
        PROVE  /\ req'[r].pc = p /\ req'[r].jti = req[r].jti
               /\ req'[r].worker = req[r].worker
    <3>1. req[r] \in Busy /\ req'[r] = [req[r] EXCEPT !.pc = p]
      BY <1>0, <2>3, BusyRequest DEF Goto, TypeOK
    <3>. QED BY <3>1, BusyPhase
  <2>4. CASE CheckFamily(r)
    <3>1. UNCHANGED <<now, redis, tokens, redisJti, memJti>>
      BY <2>4 DEF CheckFamily, blocklist
    <3>2. req[r].pc = "decoded" /\ (Finish(r) \/ Goto(r, "familyOk"))
      BY <2>4 DEF CheckFamily
    <3>3. \/ req'[r].pc = "idle"
          \/ req'[r].pc = "familyOk" /\ req'[r].jti = req[r].jti
      BY <2>2, <2>3, <3>2 DEF Phase
    <3>4. Reads(r) /\ HandlerChecked(r)'
      BY <2>1, <3>1, <3>2, <3>3 DEF Reads, HandlerChecked, tokens
    <3>. QED BY <3>4, ReadsBudget
  <2>5. CASE CheckToken(r)
    BY <2>5, CheckTokenBudget
  <2>6. CASE Condemn(r)
    <3>1. UNCHANGED <<now, redis, tokens, redisJti, memJti>>
      BY <2>6 DEF Condemn
    <3>2. req[r].pc = "replay" /\ req'[r].pc = "cascade"
      BY <2>3, <2>6 DEF Condemn, Phase
    <3>3. Reads(r) /\ HandlerChecked(r)'
      BY <3>1, <3>2 DEF Reads, HandlerChecked
    <3>. QED BY <3>3, ReadsBudget
  <2>7. CASE PurgeSessions(r)
    <3>1. UNCHANGED <<now, redis, tokens, redisJti, memJti>>
      BY <2>7, PurgeStep DEF blocklist
    <3>2. req[r].pc \in {"cascade", "purging"} /\ req'[r].pc \in {"idle", "purging"}
      BY <2>2, <2>3, <2>7, PurgeStep DEF Phase
    <3>3. Reads(r) /\ HandlerChecked(r)'
      BY <3>1, <3>2 DEF Reads, HandlerChecked
    <3>. QED BY <3>3, ReadsBudget
  <2>8. CASE LoadUser(r)
    <3>1. UNCHANGED <<now, redis, tokens, redisJti, memJti>>
      BY <2>8 DEF LoadUser, blocklist
    <3>2. req[r].pc = "loading" /\ (Finish(r) \/ Goto(r, "loaded"))
      BY <2>8 DEF LoadUser
    <3>3. \/ req'[r].pc = "idle"
          \/ /\ req'[r].pc = "loaded" /\ req'[r].jti = req[r].jti
             /\ req'[r].worker = req[r].worker
      BY <2>2, <2>3, <3>2 DEF Phase
    <3>4. Reads(r) /\ HandlerChecked(r)'
      BY <2>1, <3>1, <3>2, <3>3 DEF Reads, HandlerChecked
    <3>. QED BY <3>4, ReadsBudget
  <2>9. CASE Consume(r)
    BY <2>9, ConsumeBudget
  <2>10. CASE Mint(r)
    BY <2>10, MintBudget
  <2>. QED BY <1>4, <2>4, <2>5, <2>6, <2>7, <2>8, <2>9, <2>10 DEF Handler
<1>5. CASE Tick
  <2>1. /\ UNCHANGED <<redisUp, outages, issued, expires, successors, redisJti, memJti, req>>
        /\ \A q \in Request : req[q] # Idle => req[q].pc = "loading"
    BY <1>5 DEF Tick, redis, tokens, blocklist
  <2>2. issued <= issued'
    BY <1>0, <2>1 DEF TypeOK
  <2>. QED BY <2>1, <2>2, AroundBudget
<1>6. CASE RedisFails
  <2>1. UNCHANGED <<now, issued, expires, successors, redisJti, memJti, req>>
    BY <1>6 DEF RedisFails, tokens, blocklist
  <2>2. redisUp /\ ~redisUp' /\ outages' = outages + 1
    BY <1>6 DEF RedisFails
  <2>3. issued <= issued'
    BY <1>0, <2>1 DEF TypeOK
  <2>. QED BY <2>1, <2>2, <2>3, AroundBudget
<1>7. CASE RedisRecovers
  <2>1. UNCHANGED <<now, outages, issued, expires, successors, redisJti, memJti, req>>
    BY <1>7 DEF RedisRecovers, tokens, blocklist
  <2>2. ~redisUp /\ redisUp'
    BY <1>7 DEF RedisRecovers
  <2>3. issued <= issued'
    BY <1>0, <2>1 DEF TypeOK
  <2>. QED BY <2>1, <2>2, <2>3, AroundBudget
<1>8. CASE UNCHANGED vars
  <2>1. UNCHANGED <<now, redisUp, outages, issued, expires, successors, redisJti, memJti, req>>
    BY <1>8 DEF vars
  <2>2. issued <= issued'
    BY <1>0, <2>1 DEF TypeOK
  <2>. QED BY <2>1, <2>2, AroundBudget
<1>. QED BY <1>1, <1>2, <1>3, <1>4, <1>5, <1>6, <1>7, <1>8 DEF Next

(***************************************************************************)
(* Any number of workers that do not restart, any number of outages, and   *)
(* handlers that run one after the other: a token is exchanged at most     *)
(* once in each worker, and once more for each outage.                     *)
(***************************************************************************)
THEOREM OutagesAreBounded ==
    ~CanCrash /\ Sequential => (Spec => []ExchangesBoundedByOutages)
<1>. SUFFICES ASSUME ~CanCrash, Sequential PROVE Spec => []ExchangesBoundedByOutages
  OBVIOUS
<1>1. Init => OutageInv
  <2>. SUFFICES ASSUME Init PROVE OutageInv
    OBVIOUS
  <2>1. TypeOK
    BY ConstantsAssumption DEF Init, TypeOK, Family, Jti
  <2>2. KeysOutlive /\ \A r \in Request : HandlerChecked(r)
    BY DEF Init, KeysOutlive, HandlerChecked, Idle
  <2>3. ASSUME NEW j \in Jti PROVE Budget(j)
    <3>1. ~Spending(j) /\ successors[j] = 0 /\ redisJti[j] = 0 /\ outages = 0
      BY DEF Init, Spending, Idle
    <3>2. Spent(j) = 0
      BY <3>1 DEF Spent
    <3>. QED BY <3>1, <3>2, FilledCount DEF Budget
  <2>. QED BY <2>1, <2>2, <2>3 DEF OutageInv
<1>2. OutageInv /\ TypeOK' /\ [Next]_vars => OutageInv'
  BY OutageInvStep
<1>3. OutageInv => ExchangesBoundedByOutages
  BY BudgetBounds DEF OutageInv, ExchangesBoundedByOutages
<1>. QED BY <1>1, <1>2, <1>3, TypeCorrect, PTL DEF Spec
==============================================================================
