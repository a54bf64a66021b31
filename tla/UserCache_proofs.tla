---------------------------- MODULE UserCache_proofs ----------------------------
(***************************************************************************)
(* The cache for every number of workers and handlers, any lives of the    *)
(* two levels, any clock and any number of outages and crashes: types, the *)
(* bound on how long a replaced row is served, and what holds once every   *)
(* announcement has been handled.                                          *)
(*                                                                         *)
(* The bound needs the age of what each level and each handler holds: an   *)
(* entry of a replaced row in Redis was stored in the tick after the       *)
(* replacement at the latest, and memory copies it while Redis serves it.  *)
(* The bound on the events on their way counts the changes still to be     *)
(* announced together with those announced.                                *)
(***************************************************************************)
EXTENDS UserCache, FiniteSetTheorems, TLAPS

\* Handlers that have committed a change and not announced it.
Announcing == {r \in Request : req[r].pc \in {"committed", "publish"}}

\* Every event on its way to a worker is about a change of its own.
EventsCounted == \A w \in Worker : inbox[w] + Cardinality(Announcing) <= version - 1

\* The age of a handler, of what it has read, and of what each level stores.
HandlerAge ==
    \A r \in Request : req[r] # Idle =>
        /\ req[r].began <= now /\ now <= req[r].began + 1
        /\ req[r].pc = "filled" =>
              /\ req[r].v <= version
              /\ req[r].v # version => req[r].began <= replaced[req[r].v]

EntryAge(entry, ttl, slack) ==
    entry # None =>
        /\ entry.v <= version
        /\ entry.until <= now + ttl
        /\ entry.v # version => entry.until <= replaced[entry.v] + L2Ttl + slack

Ages == /\ HandlerAge
        /\ EntryAge(l2, L2Ttl, 1)
        /\ \A w \in Worker : EntryAge(l1[w], L1Ttl, L1Ttl)

\* As long as nothing has gone wrong, Redis is up, every listener is connected,
\* and a replaced row is stored only while its change is being announced.
Replaced(entry) == entry # None /\ entry.v # version
Announced ==
    ~troubled =>
        /\ redisUp /\ subscribed = Worker
        /\ Replaced(l2) => \E r \in Request : req[r].pc = "committed"
        /\ \A w \in Worker : Replaced(l1[w]) => inbox[w] > 0 \/ Announcing # {}

------------------------------------------------------------------------------
(***************************************************************************)
(* What a handler is, by where it stands, and what Goto makes of it.       *)
(***************************************************************************)
LEMMA HandlerShape ==
    ASSUME NEW h \in {Idle} \cup Busy
    PROVE  /\ h.pc \in {"idle", "query", "update", "committed", "publish", "filled"}
           /\ h = Idle <=> h.pc = "idle"
           /\ h # Idle => h \in Busy /\ h.worker \in Worker /\ h.began \in Nat
           /\ h.pc = "filled" => h.v \in Version
BY DEF Idle, Busy

LEMMA HandlerGoes ==
    ASSUME NEW h \in Busy, h.pc \in {"update", "committed"}, NEW p \in {"committed", "publish"}
    PROVE  /\ [h EXCEPT !.pc = p] = [pc |-> p, worker |-> h.worker, began |-> h.began]
           /\ [h EXCEPT !.pc = p] \in Busy
BY DEF Busy

LEMMA Goes ==
    ASSUME TypeOK, NEW r \in Request, req[r].pc \in {"update", "committed"},
           NEW p \in {"committed", "publish"}, Goto(r, p)
    PROVE  /\ req' = [req EXCEPT ![r] = [pc |-> p, worker |-> req[r].worker,
                                         began |-> req[r].began]]
           /\ req' \in [Request -> {Idle} \cup Busy]
<1>1. req[r] \in {Idle} \cup Busy /\ req \in [Request -> {Idle} \cup Busy]
  BY DEF TypeOK
<1>2. req[r] \in Busy
  BY <1>1, HandlerShape
<1>3. req' = [req EXCEPT ![r] = [req[r] EXCEPT !.pc = p]]
  BY DEF Goto
<1>4. [req[r] EXCEPT !.pc = p] = [pc |-> p, worker |-> req[r].worker, began |-> req[r].began]
      /\ [req[r] EXCEPT !.pc = p] \in Busy
  BY <1>2, HandlerGoes
<1>. QED BY ONLY <1>1, <1>3, <1>4

LEMMA Begins ==
    ASSUME TypeOK, NEW r \in Request, NEW w \in Worker, NEW p \in {"query", "update"},
           Begin(r, w, p)
    PROVE  req' \in [Request -> {Idle} \cup Busy]
<1>1. [pc |-> p, worker |-> w, began |-> now] \in Busy
  BY DEF Busy, TypeOK
<1>2. req \in [Request -> {Idle} \cup Busy]
  BY DEF TypeOK
<1>. QED BY <1>1, <1>2 DEF Begin

LEMMA Finishes ==
    ASSUME TypeOK, NEW r \in Request, Finish(r)
    PROVE  req' \in [Request -> {Idle} \cup Busy]
<1>1. req \in [Request -> {Idle} \cup Busy]
  BY DEF TypeOK
<1>. QED BY <1>1 DEF Finish

------------------------------------------------------------------------------
(* Types *)

\* TypeOK but for the bound on the events on their way.
Typed ==
    /\ now \in 0..MaxTime
    /\ redisUp \in BOOLEAN /\ outages \in 0..MaxOutages /\ losses \in 0..MaxLosses
    /\ version \in Version /\ gone \in BOOLEAN
    /\ replaced \in [Version -> 0..MaxTime]
    /\ l1 \in [Worker -> {None} \cup Entry]
    /\ l2 \in {None} \cup Entry
    /\ subscribed \subseteq Worker
    /\ inbox \in [Worker -> Nat]
    /\ \A w \in Worker \ subscribed : inbox[w] = 0
    /\ req \in [Request -> {Idle} \cup Busy]
    /\ troubled \in BOOLEAN

LEMMA InitTyped == Init => TypeOK
<1>. SUFFICES ASSUME Init PROVE TypeOK
  OBVIOUS
<1>1. /\ now \in 0..MaxTime /\ outages \in 0..MaxOutages /\ losses \in 0..MaxLosses
      /\ version \in Version /\ replaced \in [Version -> 0..MaxTime]
      /\ inbox \in [Worker -> 0..MaxVersion]
  BY ConstantsAssumption DEF Init, Version
<1>2. redisUp \in BOOLEAN /\ gone \in BOOLEAN /\ troubled \in BOOLEAN
  BY DEF Init
<1>. QED BY <1>1, <1>2 DEF Init, TypeOK

LEMMA StepTyped == TypeOK /\ [Next]_vars => Typed'
<1>. SUFFICES ASSUME TypeOK, [Next]_vars PROVE Typed'
  OBVIOUS
<1>. USE ConstantsAssumption DEF vars, env, row, bus
<1>0. /\ now \in Nat /\ L1Ttl \in Nat /\ L2Ttl \in Nat /\ MaxTime \in Nat
      /\ \A r \in Request : req[r] \in {Idle} \cup Busy
      /\ inbox \in [Worker -> Nat]
      /\ version \in Nat
  BY DEF TypeOK, Version
<1>e. \A v \in Version : /\ [v |-> v, until |-> now + L1Ttl] \in Entry
                         /\ [v |-> v, until |-> now + L2Ttl] \in Entry
  BY <1>0 DEF Entry
<1>t. \A cause : cause \in BOOLEAN /\ Trouble(cause) => troubled' \in BOOLEAN
  BY DEF Trouble, TypeOK
<1>1. ASSUME NEW r \in Request, NEW w \in Worker, ReadThrough(r, w)
      PROVE  Typed'
  <2>1. CASE redisUp /\ Fresh(l2)
    <3>1. l2 \in Entry
      BY <1>0, <2>1 DEF TypeOK, Fresh, None
    <3>2. l2.v \in Version
      BY <3>1 DEF Entry
    <3>3. l1' \in [Worker -> {None} \cup Entry]
      <4>1. l1' = [l1 EXCEPT ![w] = [v |-> l2.v, until |-> now + L1Ttl]]
        BY <1>1, <2>1 DEF ReadThrough
      <4>2. [v |-> l2.v, until |-> now + L1Ttl] \in Entry /\ l1 \in [Worker -> {None} \cup Entry]
        BY <1>e, <3>2 DEF TypeOK
      <4>. QED BY ONLY <4>1, <4>2
    <3>. QED BY <1>0, <1>1, <2>1, <3>3 DEF ReadThrough, TypeOK, Typed
  <2>2. CASE ~(redisUp /\ Fresh(l2))
    <3>1. req' \in [Request -> {Idle} \cup Busy]
      BY <1>1, <2>2, Begins DEF ReadThrough
    <3>. QED BY <1>0, <1>1, <2>2, <3>1 DEF ReadThrough, TypeOK, Typed
  <2>. QED BY <2>1, <2>2
<1>2. ASSUME NEW r \in Request, NEW w \in Worker, ReadByIdentifier(r, w) \/ StartWrite(r, w)
      PROVE  Typed'
  <2>1. req' \in [Request -> {Idle} \cup Busy]
    BY <1>2, Begins DEF ReadByIdentifier, StartWrite
  <2>. QED BY <1>0, <1>2, <2>1 DEF ReadByIdentifier, StartWrite, TypeOK, Typed
<1>3. ASSUME NEW r \in Request, Select(r)
      PROVE  Typed'
  <2>1. req' \in [Request -> {Idle} \cup Busy]
    <3>1. req[r] # Idle
      BY <1>3 DEF Select, Idle
    <3>2. req[r].worker \in Worker /\ req[r].began \in Nat
      BY <1>0, <3>1, HandlerShape
    <3>3. [pc |-> "filled", worker |-> req[r].worker, began |-> req[r].began, v |-> version] \in Busy
      BY <3>2 DEF Busy, TypeOK
    <3>4. req \in [Request -> {Idle} \cup Busy]
      BY DEF TypeOK
    <3>. QED BY <1>3, <3>3, <3>4, Finishes DEF Select
  <2>. QED BY <1>0, <1>3, <2>1 DEF Select, TypeOK, Typed
<1>4. ASSUME NEW r \in Request, Fill(r)
      PROVE  Typed'
  <2>1. req[r].v \in Version
    BY <1>0, <1>4, HandlerShape DEF Fill
  <2>2. l1' \in [Worker -> {None} \cup Entry]
    <3>1. l1' = [l1 EXCEPT ![req[r].worker] = [v |-> req[r].v, until |-> now + L1Ttl]]
      BY <1>4 DEF Fill
    <3>2. [v |-> req[r].v, until |-> now + L1Ttl] \in Entry /\ l1 \in [Worker -> {None} \cup Entry]
      BY <1>e, <2>1 DEF TypeOK
    <3>. QED BY ONLY <3>1, <3>2
  <2>3. l2' \in {None} \cup Entry
    BY <1>4, <1>e, <2>1 DEF Fill, TypeOK
  <2>4. req' \in [Request -> {Idle} \cup Busy]
    BY <1>4, Finishes DEF Fill
  <2>5. troubled' \in BOOLEAN
    BY <1>4, <1>t DEF Fill
  <2>. QED BY <1>0, <1>4, <2>2, <2>3, <2>4, <2>5 DEF Fill, TypeOK, Typed
<1>5. ASSUME NEW r \in Request, WriteNothing(r)
      PROVE  Typed'
  <2>1. req' \in [Request -> {Idle} \cup Busy]
    BY <1>5, Finishes DEF WriteNothing
  <2>. QED BY <1>0, <1>5, <2>1 DEF WriteNothing, TypeOK, Typed
<1>6. ASSUME NEW r \in Request, Commit(r)
      PROVE  Typed'
  <2>1. req' \in [Request -> {Idle} \cup Busy]
    BY <1>6, Goes DEF Commit
  <2>2. version' \in Version /\ replaced' \in [Version -> 0..MaxTime] /\ gone' \in BOOLEAN
    BY <1>0, <1>6 DEF Commit, TypeOK, Version
  <2>. QED BY <1>0, <1>6, <2>1, <2>2 DEF Commit, TypeOK, Typed
<1>7. ASSUME NEW r \in Request, Invalidate(r)
      PROVE  Typed'
  <2>1. req' \in [Request -> {Idle} \cup Busy]
    BY <1>7, Goes, Finishes DEF Invalidate
  <2>2. troubled' \in BOOLEAN
    BY <1>7 DEF Invalidate, Trouble, TypeOK
  <2>3. l1' \in [Worker -> {None} \cup Entry] /\ l2' \in {None} \cup Entry
    BY <1>7 DEF Invalidate, TypeOK
  <2>. QED BY <1>0, <1>7, <2>1, <2>2, <2>3 DEF Invalidate, TypeOK, Typed
<1>8. ASSUME NEW r \in Request, Publish(r)
      PROVE  Typed'
  <2>1. req' \in [Request -> {Idle} \cup Busy]
    BY <1>8, Finishes DEF Publish
  <2>2. troubled' \in BOOLEAN
    BY <1>8 DEF Publish, Trouble, TypeOK
  <2>3. inbox' \in [Worker -> Nat] /\ \A w \in Worker \ subscribed : inbox'[w] = 0
    BY <1>0, <1>8 DEF Publish, TypeOK
  <2>. QED BY <1>0, <1>8, <2>1, <2>2, <2>3 DEF Publish, TypeOK, Typed
<1>9. ASSUME NEW w \in Worker, Receive(w)
      PROVE  Typed'
  <2>1. inbox' \in [Worker -> Nat] /\ \A x \in Worker \ subscribed : inbox'[x] = 0
    BY <1>0, <1>9 DEF Receive, TypeOK
  <2>2. l1' \in [Worker -> {None} \cup Entry] /\ l2' \in {None} \cup Entry
    BY <1>9 DEF Receive, TypeOK
  <2>. QED BY <1>0, <1>9, <2>1, <2>2 DEF Receive, TypeOK, Typed
<1>10. ASSUME NEW w \in Worker, LoseSubscription(w)
       PROVE  Typed'
  <2>1. losses' \in 0..MaxLosses /\ troubled' \in BOOLEAN
    BY <1>10 DEF LoseSubscription, Trouble, TypeOK
  <2>2. /\ inbox' \in [Worker -> Nat] /\ subscribed' \subseteq Worker
        /\ \A x \in Worker \ subscribed' : inbox'[x] = 0
    BY <1>0, <1>10 DEF LoseSubscription, TypeOK
  <2>. QED BY <1>0, <1>10, <2>1, <2>2 DEF LoseSubscription, TypeOK, Typed
<1>11. ASSUME NEW w \in Worker, Resubscribe(w)
       PROVE  Typed'
  BY <1>0, <1>11 DEF Resubscribe, TypeOK, Typed
<1>12. ASSUME NEW w \in Worker, Crash(w)
       PROVE  Typed'
  <2>1. losses' \in 0..MaxLosses /\ troubled' \in BOOLEAN
    BY <1>12 DEF Crash, Trouble, TypeOK
  <2>2. /\ inbox' \in [Worker -> Nat] /\ subscribed' \subseteq Worker
        /\ \A x \in Worker \ subscribed' : inbox'[x] = 0
    BY <1>0, <1>12 DEF Crash, TypeOK
  <2>3. req' \in [Request -> {Idle} \cup Busy] /\ l1' \in [Worker -> {None} \cup Entry]
    BY <1>0, <1>12 DEF Crash, TypeOK
  <2>. QED BY <1>0, <1>12, <2>1, <2>2, <2>3 DEF Crash, TypeOK, Typed
<1>13. CASE Tick
  BY <1>0, <1>13 DEF Tick, TypeOK, Typed
<1>14. CASE RedisFails
  <2>1. outages' \in 0..MaxOutages
    BY <1>14 DEF RedisFails, TypeOK
  <2>2. redisUp' \in BOOLEAN /\ troubled' \in BOOLEAN
    BY ONLY <1>14, TypeOK, Zenon DEF RedisFails, Trouble, TypeOK
  <2>. QED BY <1>0, <1>14, <2>1, <2>2 DEF RedisFails, TypeOK, Typed
<1>15. CASE RedisRecovers
  BY <1>0, <1>15 DEF RedisRecovers, TypeOK, Typed
<1>16. CASE UNCHANGED vars
  BY <1>0, <1>16 DEF TypeOK, Typed
<1>. QED BY <1>1, <1>2, <1>3, <1>4, <1>5, <1>6, <1>7, <1>8, <1>9, <1>10, <1>11, <1>12, <1>13,
            <1>14, <1>15, <1>16 DEF Next

------------------------------------------------------------------------------
(* Events on their way *)

LEMMA Announcers ==
    ASSUME TypeOK, [Next]_vars
    PROVE  \/ \E r \in Request : Commit(r) /\ Announcing' = Announcing \cup {r}
           \/ version' = version /\ Announcing' \subseteq Announcing
<1>. USE DEF vars, env, row, bus
<1>a. req \in [Request -> {Idle} \cup Busy] /\ \A r \in Request : req[r] \in {Idle} \cup Busy
  BY DEF TypeOK
<1>b. Idle.pc = "idle"
  BY DEF Idle
<1>1. ASSUME NEW r \in Request, Finish(r)
      PROVE  Announcing' \subseteq Announcing \ {r}
  BY <1>1, <1>a, <1>b DEF Finish, Announcing
<1>2. ASSUME NEW r \in Request, NEW w \in Worker, NEW p \in {"query", "update"}, Begin(r, w, p)
      PROVE  Announcing' \subseteq Announcing
  BY <1>2, <1>a DEF Begin, Announcing
<1>3. ASSUME NEW r \in Request, Commit(r)
      PROVE  Announcing' = Announcing \cup {r}
  <2>1. req' = [req EXCEPT ![r] = [pc |-> "committed", worker |-> req[r].worker,
                                   began |-> req[r].began]]
    BY <1>3, Goes DEF Commit
  <2>. QED BY <2>1, <1>a DEF Announcing
<1>4. ASSUME NEW r \in Request, Invalidate(r)
      PROVE  Announcing' \subseteq Announcing
  <2>1. CASE redisUp
    <3>1. req' = [req EXCEPT ![r] = [pc |-> "publish", worker |-> req[r].worker,
                                     began |-> req[r].began]]
      BY <1>4, <2>1, Goes DEF Invalidate
    <3>. QED BY <1>4, <3>1, <1>a DEF Invalidate, Announcing
  <2>2. CASE ~redisUp
    BY <1>1, <1>4, <2>2 DEF Invalidate
  <2>. QED BY <2>1, <2>2
<1>5. ASSUME NEW r \in Request, Select(r)
      PROVE  Announcing' \subseteq Announcing
  <2>1. CASE gone
    BY <1>1, <1>5, <2>1 DEF Select
  <2>2. CASE ~gone
    BY <1>5, <2>2, <1>a DEF Select, Announcing
  <2>. QED BY <2>1, <2>2
<1>6. ASSUME NEW r \in Request, NEW w \in Worker,
             ReadThrough(r, w) \/ ReadByIdentifier(r, w) \/ StartWrite(r, w)
      PROVE  version' = version /\ Announcing' \subseteq Announcing
  <2>1. CASE req' = req
    BY <1>6, <2>1 DEF ReadThrough, ReadByIdentifier, StartWrite, Announcing
  <2>. QED BY <1>2, <1>6, <2>1 DEF ReadThrough, ReadByIdentifier, StartWrite
<1>7. ASSUME NEW r \in Request,
             Select(r) \/ Fill(r) \/ WriteNothing(r) \/ Invalidate(r) \/ Publish(r)
      PROVE  version' = version /\ Announcing' \subseteq Announcing
  BY <1>1, <1>4, <1>5, <1>7 DEF Select, Fill, WriteNothing, Invalidate, Publish
<1>8. ASSUME NEW w \in Worker,
             Receive(w) \/ LoseSubscription(w) \/ Resubscribe(w) \/ Crash(w)
      PROVE  version' = version /\ Announcing' \subseteq Announcing
  BY <1>8, <1>a, <1>b DEF Receive, LoseSubscription, Resubscribe, Crash, Announcing
<1>9. CASE Tick \/ RedisFails \/ RedisRecovers \/ UNCHANGED vars
  BY <1>9 DEF Tick, RedisFails, RedisRecovers, Announcing
<1>. QED BY <1>3, <1>6, <1>7, <1>8, <1>9 DEF Next

LEMMA AnnouncedOnce ==
    ASSUME TypeOK, NEW r \in Request, Publish(r)
    PROVE  r \in Announcing /\ Announcing' \subseteq Announcing \ {r}
<1>1. req \in [Request -> {Idle} \cup Busy] /\ Idle.pc = "idle"
  BY DEF TypeOK, Idle
<1>. QED BY <1>1 DEF Publish, Finish, Announcing

\* Only Publish sends an event, and one to each worker.
LEMMA EventsSent ==
    ASSUME TypeOK, [Next]_vars, NEW w \in Worker
    PROVE  \/ inbox'[w] <= inbox[w]
           \/ inbox'[w] = inbox[w] + 1 /\ \E r \in Request : Publish(r)
<1>. USE DEF vars, env, row, bus
<1>0. inbox \in [Worker -> Nat] /\ inbox[w] \in Nat
  BY ConstantsAssumption DEF TypeOK
<1>1. CASE inbox' = inbox
  BY <1>0, <1>1
<1>2. ASSUME NEW r \in Request, Publish(r)
      PROVE  inbox'[w] <= inbox[w] \/ inbox'[w] = inbox[w] + 1
  BY <1>0, <1>2 DEF Publish
<1>3. ASSUME NEW x \in Worker,
             Receive(x) \/ LoseSubscription(x) \/ Resubscribe(x) \/ Crash(x)
      PROVE  inbox'[w] <= inbox[w]
  <2>1. \/ inbox' = inbox
        \/ inbox' = [inbox EXCEPT ![x] = inbox[x] - 1] /\ inbox[x] > 0
        \/ inbox' = [inbox EXCEPT ![x] = 0]
    BY <1>3 DEF Receive, LoseSubscription, Resubscribe, Crash
  <2>. QED BY <1>0, <2>1
<1>4. CASE Tick \/ RedisFails \/ RedisRecovers \/ UNCHANGED vars
  <2>1. inbox' = inbox \/ inbox' = [x \in Worker |-> 0]
    BY <1>4 DEF Tick, RedisFails, RedisRecovers
  <2>. QED BY <1>0, <2>1
<1>5. ASSUME NEW r \in Request,
             Select(r) \/ Fill(r) \/ WriteNothing(r) \/ Commit(r) \/ Invalidate(r)
      PROVE  inbox' = inbox
  BY <1>5 DEF Select, Fill, WriteNothing, Commit, Invalidate
<1>6. ASSUME NEW r \in Request, NEW x \in Worker,
             ReadThrough(r, x) \/ ReadByIdentifier(r, x) \/ StartWrite(r, x)
      PROVE  inbox' = inbox
  BY <1>6 DEF ReadThrough, ReadByIdentifier, StartWrite
<1>. QED BY <1>1, <1>2, <1>3, <1>4, <1>5, <1>6 DEF Next

LEMMA StepCounted == TypeOK /\ EventsCounted /\ [Next]_vars => TypeOK' /\ EventsCounted'
<1>. SUFFICES ASSUME TypeOK, EventsCounted, [Next]_vars PROVE TypeOK' /\ EventsCounted'
  OBVIOUS
<1>1. IsFiniteSet(Announcing)
  <2>1. Announcing \in SUBSET Request
    BY DEF Announcing
  <2>. QED BY <2>1, ConstantsAssumption, FS_Subset
<1>2. Cardinality(Announcing) \in Nat
  BY <1>1, FS_CardinalityType
<1>3. version \in Nat /\ \A w \in Worker : inbox[w] \in Nat /\ inbox'[w] \in Nat
  BY StepTyped, ConstantsAssumption DEF TypeOK, Typed, Version
<1>4. ASSUME NEW w \in Worker
      PROVE  inbox'[w] + Cardinality(Announcing)' <= version' - 1
  <2>0. inbox[w] + Cardinality(Announcing) <= version - 1
    BY DEF EventsCounted
  <2>1. CASE \E r \in Request : Commit(r) /\ Announcing' = Announcing \cup {r}
    <3>1. PICK r \in Request : Commit(r) /\ Announcing' = Announcing \cup {r}
      BY <2>1
    <3>2. Cardinality(Announcing') \in Nat /\ Cardinality(Announcing') <= Cardinality(Announcing) + 1
      <4>1. Cardinality(Announcing \cup {r}) \in {Cardinality(Announcing), Cardinality(Announcing) + 1}
        BY <1>1, FS_AddElement
      <4>. QED BY <1>2, <3>1, <4>1
    <3>3. version' = version + 1 /\ inbox' = inbox
      BY <3>1 DEF Commit, bus
    <3>. QED BY <1>2, <1>3, <2>0, <3>2, <3>3
  <2>2. CASE version' = version /\ Announcing' \subseteq Announcing
    <3>1. CASE inbox'[w] <= inbox[w]
      <4>1. Cardinality(Announcing') \in Nat /\ Cardinality(Announcing') <= Cardinality(Announcing)
        BY <1>1, <2>2, FS_Subset, FS_CardinalityType
      <4>. QED BY <1>2, <1>3, <2>0, <2>2, <3>1, <4>1
    <3>2. CASE inbox'[w] = inbox[w] + 1 /\ \E r \in Request : Publish(r)
      <4>1. PICK r \in Request : Publish(r)
        BY <3>2
      <4>2. r \in Announcing /\ Announcing' \subseteq Announcing \ {r}
        BY <4>1, AnnouncedOnce
      <4>3. IsFiniteSet(Announcing \ {r})
            /\ Cardinality(Announcing \ {r}) = Cardinality(Announcing) - 1
        BY <1>1, <4>2, FS_RemoveElement
      <4>4. Cardinality(Announcing') \in Nat
            /\ Cardinality(Announcing') <= Cardinality(Announcing) - 1
        BY <4>2, <4>3, FS_Subset, FS_CardinalityType
      <4>. QED BY <1>2, <1>3, <2>0, <2>2, <3>2, <4>4
    <3>. QED BY <3>1, <3>2, EventsSent
  <2>. QED BY <2>1, <2>2, Announcers
<1>5. EventsCounted'
  BY <1>4 DEF EventsCounted
<1>6. Cardinality(Announcing') \in Nat
  <2>1. Announcing' \in SUBSET Request
    BY DEF Announcing
  <2>. QED BY <2>1, ConstantsAssumption, FS_Subset, FS_CardinalityType
<1>7. \A w \in Worker : inbox'[w] \in 0..MaxVersion
  <2>1. version' \in Nat /\ version' <= MaxVersion /\ MaxVersion \in Nat
    BY StepTyped, ConstantsAssumption DEF Typed, Version
  <2>. QED BY <1>3, <1>4, <1>6, <2>1
<1>8. inbox' \in [Worker -> 0..MaxVersion]
  BY <1>7, StepTyped DEF Typed
<1>. QED BY <1>5, <1>8, StepTyped DEF Typed, TypeOK

LEMMA InitCounted == Init => EventsCounted
<1>. SUFFICES ASSUME Init PROVE EventsCounted
  OBVIOUS
<1>1. Announcing = {}
  BY DEF Init, Announcing, Idle
<1>. QED BY <1>1, FS_EmptySet DEF Init, EventsCounted

(***************************************************************************)
(* Rows, entries, handlers and events have their types in every reachable  *)
(* state; in particular no listener has more events waiting than there     *)
(* were changes, and one that is disconnected has none.                    *)
(***************************************************************************)
THEOREM CacheTypes == Spec => []TypeOK
<1>1. Init => TypeOK /\ EventsCounted
  BY InitTyped, InitCounted
<1>2. TypeOK /\ EventsCounted /\ [Next]_vars => (TypeOK /\ EventsCounted)'
  BY StepCounted
<1>. QED BY <1>1, <1>2, PTL DEF Spec

------------------------------------------------------------------------------
(* How long a replaced row is served *)

\* The numbers the ages are made of.
LEMMA Numbers ==
    ASSUME TypeOK, [Next]_vars
    PROVE  /\ now \in Nat /\ now' \in Nat /\ now <= now'
           /\ version \in Nat /\ version' \in Nat
           /\ L1Ttl \in Nat /\ L1Ttl >= 1 /\ L2Ttl \in Nat /\ L2Ttl >= 1
           /\ \A v \in Version : replaced[v] \in Nat /\ v \in Nat
           /\ None \notin Entry
           /\ \A e \in Entry : e.v \in Version /\ e.v \in Nat /\ e.until \in Nat
<1>1. now <= now' /\ now \in Nat /\ now' \in Nat
  <2>1. now' \in Nat /\ now \in Nat
    BY StepTyped, ConstantsAssumption DEF TypeOK, Typed
  <2>2. now' \in {now, now + 1}
    BY DEF Next, vars, ReadThrough, ReadByIdentifier, StartWrite, Select, Fill, WriteNothing,
           Commit, Invalidate, Publish, Receive, LoseSubscription, Resubscribe, Crash, Tick,
           RedisFails, RedisRecovers
  <2>. QED BY <2>1, <2>2
<1>2. version \in Nat /\ version' \in Nat /\ \A v \in Version : replaced[v] \in Nat /\ v \in Nat
  <2>1. version \in Nat /\ \A v \in Version : replaced[v] \in Nat /\ v \in Nat
    BY ConstantsAssumption DEF TypeOK, Version
  <2>2. version' \in Nat
    BY StepTyped, ConstantsAssumption DEF Typed, Version
  <2>. QED BY <2>1, <2>2
<1>3. \A e \in Entry : e.v \in Version /\ e.v \in Nat /\ e.until \in Nat
  BY <1>2 DEF Entry
<1>4. None \notin Entry
  BY DEF None, Entry, Version
<1>. QED BY <1>1, <1>2, <1>3, <1>4, ConstantsAssumption

\* The row changes in Commit alone.
LEMMA RowChanges ==
    ASSUME TypeOK, [Next]_vars
    PROVE  \/ version' = version /\ replaced' = replaced
           \/ /\ \E r \in Request : Commit(r)
              /\ version' = version + 1 /\ version \in Version
              /\ \A v \in Version : replaced'[v] = IF v = version THEN now ELSE replaced[v]
              /\ UNCHANGED <<now, l1, l2>>
<1>1. ASSUME NEW r \in Request, Commit(r)
      PROVE  /\ version' = version + 1 /\ version \in Version
             /\ \A v \in Version : replaced'[v] = IF v = version THEN now ELSE replaced[v]
             /\ UNCHANGED <<now, l1, l2>>
  BY <1>1 DEF Commit, TypeOK
<1>2. CASE ~\E r \in Request : Commit(r)
  BY <1>2 DEF Next, vars, row, ReadThrough, ReadByIdentifier, StartWrite, Select, Fill,
              WriteNothing, Invalidate, Publish, Receive, LoseSubscription, Resubscribe, Crash,
              Tick, RedisFails, RedisRecovers
<1>. QED BY <1>1, <1>2

\* The age of an entry that a step leaves where it is.
LEMMA Older ==
    ASSUME TypeOK, [Next]_vars, NEW e \in {None} \cup Entry, NEW ttl \in Nat, NEW slack \in Nat,
           ttl <= L2Ttl + slack, EntryAge(e, ttl, slack)
    PROVE  e # None =>
             /\ e.v <= version'
             /\ e.until <= now' + ttl
             /\ e.v # version' => e.until <= replaced'[e.v] + L2Ttl + slack
<1>. SUFFICES ASSUME e # None
              PROVE  /\ e.v <= version'
                     /\ e.until <= now' + ttl
                     /\ e.v # version' => e.until <= replaced'[e.v] + L2Ttl + slack
  OBVIOUS
<1>1. e \in Entry /\ e.v <= version /\ e.until <= now + ttl
      /\ (e.v # version => e.until <= replaced[e.v] + L2Ttl + slack)
  BY DEF EntryAge
<1>2. e.v \in Version /\ e.v \in Nat /\ e.until \in Nat /\ replaced[e.v] \in Nat
  BY <1>1, Numbers
<1>3. CASE version' = version /\ replaced' = replaced
  BY <1>1, <1>2, <1>3, Numbers
<1>4. CASE /\ version' = version + 1 /\ version \in Version
           /\ \A v \in Version : replaced'[v] = IF v = version THEN now ELSE replaced[v]
           /\ UNCHANGED <<now, l1, l2>>
  BY <1>1, <1>2, <1>4, Numbers
<1>. QED BY <1>3, <1>4, RowChanges

\* What a handler has read ages with it.
LEMMA HandlerAgeKept == TypeOK /\ HandlerAge /\ [Next]_vars => HandlerAge'
<1>. SUFFICES ASSUME TypeOK, HandlerAge, [Next]_vars, NEW x \in Request, req'[x] # Idle
              PROVE  /\ req'[x].began <= now' /\ now' <= req'[x].began + 1
                     /\ req'[x].pc = "filled" =>
                           /\ req'[x].v <= version'
                           /\ req'[x].v # version' => req'[x].began <= replaced'[req'[x].v]
  BY DEF HandlerAge
<1>. USE DEF vars, env, row, bus
<1>a. req \in [Request -> {Idle} \cup Busy] /\ \A r \in Request : req[r] \in {Idle} \cup Busy
  BY DEF TypeOK
<1>1. CASE req'[x] = req[x] /\ ~Tick
  <2>1. now' = now
    BY <1>1 DEF Next, ReadThrough, ReadByIdentifier, StartWrite, Select, Fill, WriteNothing,
                Commit, Invalidate, Publish, Receive, LoseSubscription, Resubscribe, Crash,
                RedisFails, RedisRecovers
  <2>2. req[x] # Idle /\ req[x].began \in Nat /\ (req[x].pc = "filled" => req[x].v \in Version)
    BY <1>1, <1>a, HandlerShape
  <2>3. /\ req[x].began <= now /\ now <= req[x].began + 1
        /\ req[x].pc = "filled" => /\ req[x].v <= version
                                   /\ req[x].v # version => req[x].began <= replaced[req[x].v]
    BY <2>2 DEF HandlerAge
  <2>4. ASSUME req[x].pc = "filled"
        PROVE  /\ req[x].v <= version'
               /\ req[x].v # version' => req[x].began <= replaced'[req[x].v]
    <3>1. CASE version' = version /\ replaced' = replaced
      BY <2>3, <2>4, <3>1
    <3>2. CASE /\ version' = version + 1 /\ version \in Version
               /\ \A v \in Version : replaced'[v] = IF v = version THEN now ELSE replaced[v]
               /\ UNCHANGED <<now, l1, l2>>
      BY <2>2, <2>3, <2>4, <3>2, Numbers
    <3>. QED BY <3>1, <3>2, RowChanges
  <2>. QED BY <1>1, <2>1, <2>3, <2>4
<1>2. CASE Tick
  <2>1. req' = req /\ now' = now + 1 /\ UNCHANGED <<version, replaced>>
    BY <1>2 DEF Tick
  <2>2. req[x].began = now
    BY <1>2, <2>1 DEF Tick
  <2>3. req[x].pc = "filled" => /\ req[x].v <= version
                                /\ req[x].v # version => req[x].began <= replaced[req[x].v]
    BY <2>1 DEF HandlerAge
  <2>. QED BY <2>1, <2>2, <2>3, Numbers
<1>3. ASSUME NEW r \in Request, NEW w \in Worker, NEW p \in {"query", "update"}, Begin(r, w, p),
             req'[x] # req[x], now' = now
      PROVE  req'[x].began = now /\ now' = now /\ req'[x].pc # "filled"
  BY <1>3, <1>a DEF Begin
<1>4. ASSUME NEW r \in Request, NEW w \in Worker, req'[x] # req[x],
             ReadThrough(r, w) \/ ReadByIdentifier(r, w) \/ StartWrite(r, w)
      PROVE  req'[x].began = now /\ now' = now /\ req'[x].pc # "filled"
  BY <1>3, <1>4 DEF ReadThrough, ReadByIdentifier, StartWrite
<1>5. ASSUME NEW r \in Request, req'[x] # req[x], Select(r)
      PROVE  /\ req'[x].began <= now' /\ now' <= req'[x].began + 1
             /\ req'[x].v = version'
  <2>1. ~gone /\ x = r
    BY <1>5, <1>a DEF Select, Finish
  <2>2. req'[x].began = req[x].began /\ req'[x].v = version /\ UNCHANGED <<now, version>>
    BY <1>5, <1>a, <2>1 DEF Select
  <2>3. req[x] # Idle
    BY <1>5, <2>1 DEF Select, Idle
  <2>. QED BY <2>2, <2>3 DEF HandlerAge
<1>6. ASSUME NEW r \in Request, req'[x] # req[x], Commit(r) \/ Invalidate(r)
      PROVE  /\ req'[x].began <= now' /\ now' <= req'[x].began + 1
             /\ req'[x].pc # "filled"
  <2>1. PICK p \in {"committed", "publish"} : Goto(r, p)
    BY <1>6, <1>a DEF Commit, Invalidate, Finish
  <2>2. req[r].pc \in {"update", "committed"} /\ now' = now
    BY <1>6 DEF Commit, Invalidate
  <2>3. req' = [req EXCEPT ![r] = [pc |-> p, worker |-> req[r].worker, began |-> req[r].began]]
    BY <2>1, <2>2, Goes
  <2>4. x = r /\ req'[x].began = req[x].began /\ req'[x].pc = p
    BY <1>6, <1>a, <2>3
  <2>5. req[x] # Idle
    BY <2>2, <2>4 DEF Idle
  <2>. QED BY <2>2, <2>4, <2>5 DEF HandlerAge
<1>7. ASSUME NEW r \in Request, Fill(r) \/ WriteNothing(r) \/ Publish(r)
      PROVE  req'[x] = req[x]
  BY <1>7, <1>a DEF Fill, WriteNothing, Publish, Finish
<1>8. ASSUME NEW w \in Worker, Receive(w) \/ LoseSubscription(w) \/ Resubscribe(w) \/ Crash(w)
      PROVE  req'[x] = req[x]
  BY <1>8, <1>a DEF Receive, LoseSubscription, Resubscribe, Crash
<1>9. CASE RedisFails \/ RedisRecovers \/ UNCHANGED vars
  BY <1>1, <1>2, <1>9 DEF RedisFails, RedisRecovers
<1>10. CASE \E r \in Request, w \in Worker :
                ReadThrough(r, w) \/ ReadByIdentifier(r, w) \/ StartWrite(r, w)
  BY <1>1, <1>2, <1>4, <1>10, Numbers
<1>11. CASE \E r \in Request :
                Select(r) \/ Fill(r) \/ WriteNothing(r) \/ Commit(r) \/ Invalidate(r) \/ Publish(r)
  BY <1>1, <1>2, <1>5, <1>6, <1>7, <1>11, Numbers
<1>12. CASE \E w \in Worker : Receive(w) \/ LoseSubscription(w) \/ Resubscribe(w) \/ Crash(w)
  BY <1>1, <1>2, <1>8, <1>12
<1>. QED BY <1>2, <1>9, <1>10, <1>11, <1>12 DEF Next

LEMMA AgesKept == TypeOK /\ Ages /\ [Next]_vars => Ages'
<1>. SUFFICES ASSUME TypeOK, Ages, [Next]_vars PROVE Ages'
  OBVIOUS
<1>. USE DEF vars, env, row, bus
<1>1. HandlerAge'
  BY HandlerAgeKept DEF Ages
<1>a. /\ l2 \in {None} \cup Entry /\ l1 \in [Worker -> {None} \cup Entry]
      /\ \A w \in Worker : l1[w] \in {None} \cup Entry
  BY DEF TypeOK
<1>b. /\ EntryAge(l2, L2Ttl, 1) /\ \A w \in Worker : EntryAge(l1[w], L1Ttl, L1Ttl)
  BY DEF Ages
\* What Fill stores has an age that both levels allow.
<1>f. ASSUME NEW r \in Request, Fill(r)
      PROVE  /\ req[r].v \in Version /\ req[r].v <= version
             /\ req[r].v # version => now <= replaced[req[r].v] + 1
             /\ UNCHANGED <<now, version, replaced>>
  <2>1. /\ req[r].pc = "filled" /\ req[r] \in {Idle} \cup Busy
    BY <1>f DEF Fill, TypeOK
  <2>2. req[r] # Idle /\ req[r].v \in Version /\ req[r].began \in Nat
    BY <2>1, HandlerShape DEF Idle
  <2>3. /\ now <= req[r].began + 1 /\ req[r].v <= version
        /\ req[r].v # version => req[r].began <= replaced[req[r].v]
    BY <2>1, <2>2 DEF Ages, HandlerAge
  <2>. QED BY <1>f, <2>2, <2>3, Numbers DEF Fill
<1>2. EntryAge(l2, L2Ttl, 1)'
  <2>1. CASE l2' = None
    BY <2>1 DEF EntryAge, None
  <2>2. CASE l2' = l2
    <3>1. L2Ttl \in Nat /\ 1 \in Nat /\ L2Ttl <= L2Ttl + 1
      BY ConstantsAssumption
    <3>2. l2 # None => /\ l2.v <= version' /\ l2.until <= now' + L2Ttl
                       /\ l2.v # version' => l2.until <= replaced'[l2.v] + L2Ttl + 1
      BY ONLY TypeOK, [Next]_vars, <1>a, <1>b, <3>1, Older
    <3>. QED BY <2>2, <3>2 DEF EntryAge, None
  <2>3. CASE l2' \notin {None, l2}
    <3>1. PICK r \in Request : Fill(r)
      <4>1. ASSUME NEW r \in Request, NEW w \in Worker,
                   ReadThrough(r, w) \/ ReadByIdentifier(r, w) \/ StartWrite(r, w)
            PROVE  FALSE
        BY <2>3, <4>1 DEF ReadThrough, ReadByIdentifier, StartWrite
      <4>2. ASSUME NEW r \in Request,
                   Select(r) \/ WriteNothing(r) \/ Commit(r) \/ Invalidate(r) \/ Publish(r)
            PROVE  FALSE
        BY <2>3, <4>2 DEF Select, WriteNothing, Commit, Invalidate, Publish
      <4>3. ASSUME NEW x \in Worker, Receive(x) \/ LoseSubscription(x) \/ Resubscribe(x) \/ Crash(x)
            PROVE  FALSE
        BY <2>3, <4>3 DEF Receive, LoseSubscription, Resubscribe, Crash
      <4>4. ~(Tick \/ RedisFails \/ RedisRecovers \/ UNCHANGED vars)
        BY <2>3 DEF Tick, RedisFails, RedisRecovers
      <4>. QED BY <4>1, <4>2, <4>3, <4>4 DEF Next
    <3>2. l2' = [v |-> req[r].v, until |-> now + L2Ttl]
      BY <2>3, <3>1 DEF Fill
    <3>. QED BY <1>f, <3>1, <3>2, Numbers DEF EntryAge
  <2>. QED BY <2>1, <2>2, <2>3
<1>3. ASSUME NEW w \in Worker
      PROVE  EntryAge(l1[w], L1Ttl, L1Ttl)'
  <2>2. CASE l1'[w] \in {None, l1[w]}
    <3>1. CASE l1'[w] = None
      BY <3>1 DEF EntryAge, None
    <3>2. CASE l1'[w] = l1[w]
      <4>1. L1Ttl \in Nat /\ L1Ttl <= L2Ttl + L1Ttl
        BY ConstantsAssumption
      <4>2. l1[w] # None => /\ l1[w].v <= version' /\ l1[w].until <= now' + L1Ttl
                            /\ l1[w].v # version' => l1[w].until <= replaced'[l1[w].v] + L2Ttl + L1Ttl
        BY ONLY TypeOK, [Next]_vars, <1>a, <1>b, <2>2, <4>1, Older
      <4>. QED BY <3>2, <4>2 DEF EntryAge, None
    <3>. QED BY <2>2, <3>1, <3>2
  <2>3. CASE l1'[w] \notin {None, l1[w]}
    <3>1. CASE \E r \in Request, x \in Worker : ReadThrough(r, x)
      <4>1. PICK r \in Request, x \in Worker : ReadThrough(r, x)
        BY <3>1
      <4>2. x = w /\ Fresh(l2) /\ l1'[w] = [v |-> l2.v, until |-> now + L1Ttl]
            /\ UNCHANGED <<now, version, replaced>>
        BY <1>a, <2>3, <4>1 DEF ReadThrough
      <4>3. l2 \in Entry /\ now < l2.until
        BY <1>a, <4>2, Numbers DEF Fresh, None
      <4>4. l2.v <= version /\ (l2.v # version => l2.until <= replaced[l2.v] + L2Ttl + 1)
        BY <1>b, <4>3, Numbers DEF EntryAge
      <4>. QED BY <4>2, <4>3, <4>4, Numbers DEF EntryAge
    <3>2. CASE \E r \in Request : Fill(r)
      <4>1. PICK r \in Request : Fill(r)
        BY <3>2
      <4>2. l1'[w] = [v |-> req[r].v, until |-> now + L1Ttl] /\ UNCHANGED <<now, version, replaced>>
        BY <1>a, <2>3, <4>1 DEF Fill
      <4>. QED BY <1>f, <4>1, <4>2, Numbers DEF EntryAge
    <3>3. l1' # l1 /\ ~\E x \in Worker : l1' = [l1 EXCEPT ![x] = None]
      BY <1>a, <2>3
    <3>4. CASE ~(\E r \in Request, x \in Worker : ReadThrough(r, x)) /\ ~(\E r \in Request : Fill(r))
      <4>1. ASSUME NEW r \in Request, NEW x \in Worker, ReadByIdentifier(r, x) \/ StartWrite(r, x)
            PROVE  FALSE
        BY <3>3, <4>1 DEF ReadByIdentifier, StartWrite
      <4>2. ASSUME NEW r \in Request,
                   Select(r) \/ WriteNothing(r) \/ Commit(r) \/ Invalidate(r) \/ Publish(r)
            PROVE  FALSE
        <5>1. CASE Invalidate(r)
          <6>1. req[r].worker \in Worker
            BY <5>1, HandlerShape DEF Invalidate, Idle, TypeOK
          <6>. QED BY <3>3, <5>1, <6>1 DEF Invalidate
        <5>. QED BY <3>3, <4>2, <5>1 DEF Select, WriteNothing, Commit, Publish
      <4>3. ASSUME NEW x \in Worker, Receive(x) \/ LoseSubscription(x) \/ Resubscribe(x) \/ Crash(x)
            PROVE  FALSE
        BY <3>3, <4>3 DEF Receive, LoseSubscription, Resubscribe, Crash
      <4>4. CASE Tick \/ RedisFails \/ RedisRecovers \/ UNCHANGED vars
        BY <3>3, <4>4 DEF Tick, RedisFails, RedisRecovers
      <4>. QED BY <3>4, <4>1, <4>2, <4>3, <4>4 DEF Next
    <3>. QED BY <3>1, <3>2, <3>4
  <2>. QED BY <2>2, <2>3
<1>. QED BY <1>1, <1>2, <1>3 DEF Ages

(***************************************************************************)
(* A row that has been replaced is served from the memory of any worker    *)
(* for less than one life of each level, whatever handlers, events,        *)
(* outages and crashes there are.                                          *)
(***************************************************************************)
THEOREM StalenessIsBounded == Spec => []StalenessBounded
<1>. DEFINE Inv == TypeOK /\ EventsCounted /\ Ages
<1>1. Init => Inv
  <2>1. Init => Ages
    BY DEF Init, Ages, HandlerAge, EntryAge
  <2>. QED BY <2>1, InitTyped, InitCounted
<1>2. Inv /\ [Next]_vars => Inv'
  BY StepCounted, AgesKept
<1>3. Inv => StalenessBounded
  <2>. SUFFICES ASSUME Inv, NEW w \in Worker, Stale(l1[w])
                PROVE  now < replaced[l1[w].v] + L2Ttl + L1Ttl
    BY DEF StalenessBounded
  <2>1. l1[w] \in {None} \cup Entry /\ now \in Nat /\ now < l1[w].until
    BY ConstantsAssumption DEF TypeOK, Stale, Fresh
  <2>2. l1[w] # None
    BY <2>1 DEF None
  <2>3. l1[w].until \in Nat /\ replaced[l1[w].v] \in Nat
    BY <2>1, <2>2, ConstantsAssumption DEF Entry, TypeOK
  <2>4. l1[w].until <= replaced[l1[w].v] + L2Ttl + L1Ttl
    BY <2>2 DEF Ages, EntryAge, Stale
  <2>. QED BY <2>1, <2>3, <2>4, ConstantsAssumption
<1>. QED BY <1>1, <1>2, <1>3, PTL DEF Spec

------------------------------------------------------------------------------
(* What holds once every announcement has been handled *)

\* A step that changes one handler, which announces nothing, and stores no
\* replaced row that was not stored before.
LEMMA AnnouncedApart ==
    ASSUME TypeOK, Announced, ~troubled, UNCHANGED <<redisUp, subscribed, version>>,
           inbox' \in [Worker -> Nat],
           Replaced(l2)' => Replaced(l2),
           \A w \in Worker : Replaced(l1[w])' =>
              \/ Replaced(l1[w]) /\ inbox'[w] >= inbox[w]
              \/ Replaced(l2),
           \A r \in Announcing : req'[r] = req[r]
    PROVE  Announced'
<1>1. \A r \in Request : req[r].pc = "committed" => req'[r].pc = "committed"
  BY DEF Announcing
<1>2. Announcing \subseteq Announcing'
  BY DEF Announcing
<1>3. Replaced(l2) => \E r \in Announcing : TRUE
  BY DEF Announced, Announcing
<1>4. Replaced(l2)' => \E r \in Request : req'[r].pc = "committed"
  BY <1>1 DEF Announced
<1>5. ASSUME NEW w \in Worker, Replaced(l1[w])'
      PROVE  inbox'[w] > 0 \/ Announcing' # {}
  <2>1. CASE Replaced(l1[w]) /\ inbox'[w] >= inbox[w]
    <3>1. inbox[w] > 0 \/ Announcing # {}
      BY <2>1 DEF Announced
    <3>2. inbox[w] \in Nat
      BY ConstantsAssumption DEF TypeOK
    <3>3. inbox'[w] \in Nat
      OBVIOUS
    <3>. QED BY <1>2, <2>1, <3>1, <3>2, <3>3
  <2>2. CASE Replaced(l2)
    BY <1>2, <1>3, <2>2
  <2>. QED BY <1>5, <2>1, <2>2
<1>. QED BY <1>4, <1>5 DEF Announced

LEMMA AnnouncedKept == TypeOK /\ Announced /\ [Next]_vars => Announced'
<1>. SUFFICES ASSUME TypeOK, Announced, [Next]_vars, ~troubled' PROVE Announced'
  BY DEF Announced
<1>. USE DEF vars, env, row, bus
<1>a. /\ req \in [Request -> {Idle} \cup Busy] /\ \A r \in Request : req[r] \in {Idle} \cup Busy
      /\ l1 \in [Worker -> {None} \cup Entry] /\ l2 \in {None} \cup Entry
      /\ inbox \in [Worker -> Nat] /\ \A w \in Worker : inbox[w] >= inbox[w]
      /\ inbox' \in [Worker -> Nat] /\ now \in Nat
  BY StepTyped, ConstantsAssumption DEF TypeOK, Typed
<1>b. ~troubled
  BY DEF Next, Trouble, ReadThrough, ReadByIdentifier, StartWrite, Select, Fill, WriteNothing,
         Commit, Invalidate, Publish, Receive, LoseSubscription, Resubscribe, Crash, Tick,
         RedisFails, RedisRecovers
<1>c. redisUp /\ subscribed = Worker
  BY <1>b DEF Announced
<1>d. Idle \notin Busy /\ Idle.pc = "idle"
  BY DEF Idle, Busy
<1>1. ASSUME NEW r \in Request, NEW w \in Worker, ReadThrough(r, w)
      PROVE  Announced'
  <2>1. \A x \in Announcing : req'[x] = req[x]
    BY <1>1, <1>a, <1>d DEF ReadThrough, Begin, Announcing
  <2>2. ASSUME NEW x \in Worker, Replaced(l1[x])'
        PROVE  Replaced(l1[x]) \/ Replaced(l2)
    <3>1. CASE redisUp /\ Fresh(l2)
      <4>1. l2 # None
        BY <1>a, <3>1 DEF Fresh, None
      <4>2. l1' = [l1 EXCEPT ![w] = [v |-> l2.v, until |-> now + L1Ttl]] /\ version' = version
        BY <1>1, <3>1 DEF ReadThrough
      <4>3. CASE x = w
        BY <1>a, <2>2, <4>1, <4>2, <4>3 DEF Replaced
      <4>4. CASE x # w
        BY <1>a, <2>2, <4>2, <4>4 DEF Replaced, None
      <4>. QED BY <4>3, <4>4
    <3>2. CASE ~(redisUp /\ Fresh(l2))
      BY <1>1, <1>a, <2>2, <3>2 DEF ReadThrough, Replaced, None
    <3>. QED BY <3>1, <3>2
  <2>3. Replaced(l2)' => Replaced(l2)
    BY <1>1 DEF ReadThrough, Replaced, None
  <2>. QED BY <1>1, <1>a, <1>b, <2>1, <2>2, <2>3, AnnouncedApart DEF ReadThrough
<1>2. ASSUME UNCHANGED <<redisUp, subscribed, version, l1, l2, inbox>>,
             \A x \in Announcing : req'[x] = req[x]
      PROVE  Announced'
  BY <1>2, <1>a, <1>b, AnnouncedApart DEF Replaced, None
<1>3. ASSUME NEW r \in Request, NEW w \in Worker, ReadByIdentifier(r, w) \/ StartWrite(r, w)
      PROVE  Announced'
  <2>1. \A x \in Announcing : req'[x] = req[x]
    BY <1>3, <1>a, <1>d DEF ReadByIdentifier, StartWrite, Begin, Announcing
  <2>. QED BY <1>2, <1>3, <2>1 DEF ReadByIdentifier, StartWrite
<1>4. ASSUME NEW r \in Request, Select(r) \/ WriteNothing(r)
      PROVE  Announced'
  <2>1. \A x \in Announcing : req'[x] = req[x]
    BY <1>4, <1>a DEF Select, WriteNothing, Finish, Announcing
  <2>. QED BY <1>2, <1>4, <2>1 DEF Select, WriteNothing
<1>5. ASSUME NEW r \in Request, Fill(r)
      PROVE  Announced'
  <2>1. req[r].v = version
    BY <1>5 DEF Fill, Trouble
  <2>2. \A x \in Announcing : req'[x] = req[x]
    BY <1>5, <1>a DEF Fill, Finish, Announcing
  <2>3. /\ l1' = [l1 EXCEPT ![req[r].worker] = [v |-> version, until |-> now + L1Ttl]]
        /\ l2' = [v |-> version, until |-> now + L2Ttl]
        /\ UNCHANGED <<redisUp, subscribed, version, inbox>>
    BY <1>5, <1>c, <2>1 DEF Fill
  <2>4. ~Replaced(l2)'
    BY <2>3 DEF Replaced
  <2>5. \A x \in Worker : Replaced(l1[x])' => Replaced(l1[x])
    BY <1>a, <2>3 DEF Replaced, None
  <2>. QED BY <1>a, <1>b, <2>2, <2>3, <2>4, <2>5, AnnouncedApart
<1>6. ASSUME NEW r \in Request, Commit(r)
      PROVE  Announced'
  <2>1. req' = [req EXCEPT ![r] = [pc |-> "committed", worker |-> req[r].worker,
                                   began |-> req[r].began]]
    BY <1>6, Goes DEF Commit
  <2>2. req'[r].pc = "committed"
    BY <1>a, <2>1
  <2>3. Announcing' # {}
    BY <2>2 DEF Announcing
  <2>. QED BY <1>6, <1>c, <2>2, <2>3 DEF Commit, Announced
<1>7. ASSUME NEW r \in Request, Invalidate(r)
      PROVE  Announced'
  <2>1. req' = [req EXCEPT ![r] = [pc |-> "publish", worker |-> req[r].worker,
                                   began |-> req[r].began]]
    BY <1>7, <1>c, Goes DEF Invalidate
  <2>2. req'[r].pc = "publish"
    BY <1>a, <2>1
  <2>3. Announcing' # {}
    BY <2>2 DEF Announcing
  <2>4. ~Replaced(l2)'
    BY <1>7, <1>c DEF Invalidate, Replaced, None
  <2>. QED BY <1>7, <1>c, <2>3, <2>4 DEF Invalidate, Announced
<1>8. ASSUME NEW r \in Request, Publish(r)
      PROVE  Announced'
  <2>1. \A w \in Worker : inbox'[w] > 0
    BY <1>8, <1>a, <1>c DEF Publish
  <2>2. \A x \in Request : req[x].pc = "committed" => req'[x].pc = "committed"
    BY <1>8, <1>a DEF Publish, Finish
  <2>3. Replaced(l2)' => Replaced(l2)
    BY <1>8 DEF Publish, Replaced, None
  <2>. QED BY <1>8, <1>b, <1>c, <2>1, <2>2, <2>3 DEF Publish, Announced
<1>9. ASSUME NEW w \in Worker, Receive(w)
      PROVE  Announced'
  <2>1. ~Replaced(l2)'
    BY <1>9, <1>c DEF Receive, Replaced, None
  <2>2. ASSUME NEW x \in Worker, Replaced(l1[x])'
        PROVE  Replaced(l1[x]) /\ inbox'[x] >= inbox[x]
    <3>1. x # w
      BY <1>9, <1>a, <2>2 DEF Receive, Replaced, None
    <3>2. l1'[x] = l1[x] /\ inbox'[x] = inbox[x] /\ version' = version
      BY <1>9, <1>a, <3>1 DEF Receive
    <3>3. Replaced(l1[x])
      BY <2>2, <3>2 DEF Replaced
    <3>. QED BY <1>a, <3>2, <3>3
  <2>3. UNCHANGED <<redisUp, subscribed, version, req>>
    BY <1>9 DEF Receive
  <2>. QED BY <1>a, <1>b, <2>1, <2>2, <2>3, AnnouncedApart
<1>10. ASSUME NEW w \in Worker, LoseSubscription(w) \/ Resubscribe(w)
       PROVE  Announced'
  BY <1>10, <1>c DEF LoseSubscription, Resubscribe, Trouble
<1>11. ASSUME NEW w \in Worker, Crash(w)
       PROVE  Announced'
  <2>1. \A x \in Announcing : req'[x] = req[x]
    BY <1>11, <1>a DEF Crash, Trouble, Announcing
  <2>2. ASSUME NEW x \in Worker, Replaced(l1[x])'
        PROVE  Replaced(l1[x]) /\ inbox'[x] >= inbox[x]
    <3>1. x # w
      BY <1>11, <1>a, <2>2 DEF Crash, Replaced, None
    <3>2. l1'[x] = l1[x] /\ inbox'[x] = inbox[x] /\ version' = version
      BY <1>11, <1>a, <3>1 DEF Crash
    <3>3. Replaced(l1[x])
      BY <2>2, <3>2 DEF Replaced
    <3>. QED BY <1>a, <3>2, <3>3
  <2>3. Replaced(l2)' => Replaced(l2)
    BY <1>11 DEF Crash, Replaced, None
  <2>4. UNCHANGED <<redisUp, subscribed, version>>
    BY <1>11, <1>c DEF Crash
  <2>. QED BY <1>a, <1>b, <2>1, <2>2, <2>3, <2>4, AnnouncedApart
<1>12. CASE Tick \/ RedisRecovers \/ UNCHANGED vars
  BY <1>2, <1>12, <1>c DEF Tick, RedisRecovers
<1>13. CASE RedisFails
  BY <1>13 DEF RedisFails, Trouble
<1>. QED BY <1>1, <1>3, <1>4, <1>5, <1>6, <1>7, <1>8, <1>9, <1>10, <1>11, <1>12, <1>13 DEF Next

(***************************************************************************)
(* When every change has been announced and every announcement handled, no *)
(* level serves a replaced row, unless one of the named causes occurred.   *)
(***************************************************************************)
THEOREM SettledCacheIsFresh == Spec => []SettledIsFresh
<1>. DEFINE Inv == TypeOK /\ EventsCounted /\ Announced
<1>1. Init => Inv
  <2>1. Init => Announced
    BY DEF Init, Announced, Replaced
  <2>. QED BY <2>1, InitTyped, InitCounted
<1>2. Inv /\ [Next]_vars => Inv'
  BY StepCounted, AnnouncedKept
<1>3. Inv => SettledIsFresh
  <2>. SUFFICES ASSUME Inv, Settled, ~troubled
                PROVE  ~Stale(l2) /\ \A w \in Worker : ~Stale(l1[w])
    BY DEF SettledIsFresh
  <2>1. Announcing = {} /\ \A r \in Request : req[r].pc # "committed"
    BY DEF Settled, Announcing
  <2>2. ~Replaced(l2) /\ \A w \in Worker : ~Replaced(l1[w])
    BY <2>1 DEF Announced, Settled
  <2>3. ~Stale(None)
    BY ConstantsAssumption DEF Stale, Fresh, None, TypeOK
  <2>. QED BY <2>2, <2>3 DEF Replaced, Stale
<1>. QED BY <1>1, <1>2, <1>3, PTL DEF Spec
===============================================================================
