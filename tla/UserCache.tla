------------------------------- MODULE UserCache -------------------------------
(***************************************************************************)
(* The two-level cache of user rows (UserProfileCache, user_repository.py) *)
(* and the listener that invalidates it across workers                     *)
(* (redis_ws_pubsub_listener, api/v1/websocket_router.py).                 *)
(*                                                                         *)
(* A row is a version number: every committed change makes a new one.      *)
(* Entries of different users never meet, so the module follows one user.  *)
(* Handlers of a worker interleave where they await the database; a Redis  *)
(* call blocks its worker, and what that worker does to its own memory     *)
(* next to the call is one step with it.                                   *)
(***************************************************************************)
EXTENDS Integers, FiniteSets

CONSTANTS
    Worker,        \* uvicorn worker processes
    Request,       \* slots for handlers running at the same time
    L1Ttl,         \* ticks an entry of a worker's memory lives (30 s)
    L2Ttl,         \* ticks an entry of Redis lives (60 s)
    MaxTime,       \* bound on the clock
    MaxVersion,    \* bound on the versions of the row
    MaxOutages,    \* bound: how often Redis calls start to raise
    MaxLosses      \* bound: crashes of workers and lost subscriptions

ASSUME ConstantsAssumption ==
    /\ L1Ttl \in Nat \ {0} /\ L2Ttl \in Nat \ {0}
    /\ {MaxTime, MaxOutages, MaxLosses} \subseteq Nat
    /\ MaxVersion \in Nat \ {0}
    /\ IsFiniteSet(Request)

Version == 1..MaxVersion

VARIABLES
    now, redisUp, outages, losses,
    version,     \* the committed row
    gone,        \* the row has been deleted
    replaced,    \* when each earlier version was replaced
    l1,          \* _l1_cache of each worker
    l2,          \* authnz:cache:user:<id>
    subscribed,  \* the listener of a worker is connected
    inbox,       \* invalidations published and not yet handled by a worker
    req,         \* state of each handler
    troubled     \* a cause for stale entries has occurred (history)

env  == <<redisUp, outages, losses>>
row  == <<version, gone, replaced>>
bus  == <<subscribed, inbox>>
vars == <<now, env, row, l1, l2, bus, req, troubled>>

None  == [v |-> 0, until |-> 0]
Entry == [v: Version, until: Nat]
Idle  == [pc |-> "idle"]
Busy  == [pc: {"query",      \* awaiting the SELECT of a cache miss
               "update",     \* awaiting the UPDATE or DELETE and its commit
               "committed",  \* the change is committed, the handler not yet resumed
               "publish"},   \* both levels invalidated, the event still unpublished
          worker: Worker, began: Nat]
         \cup [pc: {"filled"},   \* the row is read, the handler not yet resumed
               worker: Worker, began: Nat, v: Version]

TypeOK ==
    /\ now \in 0..MaxTime
    /\ redisUp \in BOOLEAN /\ outages \in 0..MaxOutages /\ losses \in 0..MaxLosses
    /\ version \in Version /\ gone \in BOOLEAN
    /\ replaced \in [Version -> 0..MaxTime]
    /\ l1 \in [Worker -> {None} \cup Entry]
    /\ l2 \in {None} \cup Entry
    /\ subscribed \subseteq Worker
    /\ inbox \in [Worker -> 0..MaxVersion]
    /\ \A w \in Worker \ subscribed : inbox[w] = 0
    /\ req \in [Request -> {Idle} \cup Busy]
    /\ troubled \in BOOLEAN

Init ==
    /\ now = 0 /\ redisUp = TRUE /\ outages = 0 /\ losses = 0
    /\ version = 1 /\ gone = FALSE
    /\ replaced = [v \in Version |-> 0]
    /\ l1 = [w \in Worker |-> None] /\ l2 = None
    /\ subscribed = Worker
    /\ inbox = [w \in Worker |-> 0]
    /\ req = [r \in Request |-> Idle]
    /\ troubled = FALSE

\* No handler of w is between two Redis calls.
LoopFree(w) == \A r \in Request : req[r] # Idle /\ req[r].worker = w => req[r].pc # "publish"

Fresh(entry)    == now < entry.until
Begin(r, w, pc) == req' = [req EXCEPT ![r] = [pc |-> pc, worker |-> w, began |-> now]]
Goto(r, pc)     == req' = [req EXCEPT ![r].pc = pc]
Finish(r)       == req' = [req EXCEPT ![r] = Idle]
Trouble(cause)  == troubled' = (troubled \/ cause)

------------------------------------------------------------------------------
(* Readers: get_by_id, get_by_identifier *)

\* Mutant: a hit in Redis is stored again in both levels.
ReadThroughSliding(r, w) ==
    /\ req[r] = Idle /\ LoopFree(w) /\ ~Fresh(l1[w])
    /\ IF redisUp /\ Fresh(l2)
       THEN /\ l1' = [l1 EXCEPT ![w] = [v |-> l2.v, until |-> now + L1Ttl]]
            /\ l2' = [l2 EXCEPT !.until = now + L2Ttl]
            /\ UNCHANGED req
       ELSE Begin(r, w, "query") /\ UNCHANGED <<l1, l2>>
    /\ UNCHANGED <<now, env, row, bus, troubled>>

\* get_user: a fresh entry in memory is served and nothing changes; else a hit
\* in Redis is copied to memory; else the row is selected.
ReadThrough(r, w) ==
    /\ req[r] = Idle /\ LoopFree(w) /\ ~Fresh(l1[w])
    /\ IF redisUp /\ Fresh(l2)
       THEN l1' = [l1 EXCEPT ![w] = [v |-> l2.v, until |-> now + L1Ttl]] /\ UNCHANGED req
       ELSE l1' = [l1 EXCEPT ![w] = None] /\ Begin(r, w, "query")
    /\ UNCHANGED <<now, env, row, l2, bus, troubled>>

\* get_user_by_identifier finds no mapping of the identifier in either level.
ReadByIdentifier(r, w) ==
    /\ req[r] = Idle /\ LoopFree(w)
    /\ Begin(r, w, "query")
    /\ UNCHANGED <<now, env, row, l1, l2, bus, troubled>>

\* The database answers; a row that does not exist is not cached.
Select(r) ==
    /\ req[r].pc = "query"
    /\ IF gone THEN Finish(r)
       ELSE req' = [req EXCEPT ![r] = [pc |-> "filled", worker |-> req[r].worker,
                                       began |-> req[r].began, v |-> version]]
    /\ UNCHANGED <<now, env, row, l1, l2, bus, troubled>>

\* set_user, with the row as it was selected.
Fill(r) ==
    LET w == req[r].worker
        v == req[r].v
    IN  /\ req[r].pc = "filled" /\ LoopFree(w)
        /\ l1' = [l1 EXCEPT ![w] = [v |-> v, until |-> now + L1Ttl]]
        /\ l2' = IF redisUp THEN [v |-> v, until |-> now + L2Ttl] ELSE l2
        /\ Trouble(v # version)
        /\ Finish(r)
        /\ UNCHANGED <<now, env, row, bus>>

------------------------------------------------------------------------------
(* Writers: update_user, set_status, delete_user, consume_password_reset_token *)

StartWrite(r, w) ==
    /\ req[r] = Idle /\ LoopFree(w)
    /\ Begin(r, w, "update")
    /\ UNCHANGED <<now, env, row, l1, l2, bus, troubled>>

\* No row matches, or the statement raises: nothing is invalidated.
WriteNothing(r) ==
    /\ req[r].pc = "update"
    /\ Finish(r)
    /\ UNCHANGED <<now, env, row, l1, l2, bus, troubled>>

Commit(r) ==
    /\ req[r].pc = "update" /\ ~gone /\ version < MaxVersion
    /\ version' = version + 1
    /\ replaced' = [replaced EXCEPT ![version] = now]
    /\ gone' \in BOOLEAN
    /\ Goto(r, "committed")
    /\ UNCHANGED <<now, env, l1, l2, bus, troubled>>

\* invalidate: the memory of the worker, then the key in Redis.
Invalidate(r) ==
    /\ req[r].pc = "committed" /\ LoopFree(req[r].worker)
    /\ l1' = [l1 EXCEPT ![req[r].worker] = None]
    /\ IF redisUp THEN l2' = None /\ Goto(r, "publish") ELSE Finish(r) /\ UNCHANGED l2
    /\ Trouble(~redisUp)
    /\ UNCHANGED <<now, env, row, bus>>

\* Mutant: the event is never sent.
PublishNothing(r) ==
    /\ req[r].pc = "publish"
    /\ Finish(r)
    /\ UNCHANGED <<now, env, row, l1, l2, bus, troubled>>

\* The origin id is the one of the cache and the listener compares it with the
\* id of the connection manager, so a worker handles its own events as well.
Publish(r) ==
    /\ req[r].pc = "publish"
    /\ inbox' = IF redisUp
                THEN [w \in Worker |-> IF w \in subscribed THEN inbox[w] + 1 ELSE inbox[w]]
                ELSE inbox
    /\ Trouble(~redisUp)
    /\ Finish(r)
    /\ UNCHANGED <<now, env, row, l1, l2, subscribed>>

------------------------------------------------------------------------------
(* The listener *)

\* invalidate(publish_event=False): both levels again.
Receive(w) ==
    /\ LoopFree(w) /\ inbox[w] > 0
    /\ inbox' = [inbox EXCEPT ![w] = @ - 1]
    /\ l1' = [l1 EXCEPT ![w] = None]
    /\ l2' = IF redisUp THEN None ELSE l2
    /\ UNCHANGED <<now, env, row, subscribed, req, troubled>>

\* Mutant: events sent before the connection was lost are still handled.
LoseSubscriptionLater(w) ==
    /\ w \in subscribed /\ losses < MaxLosses
    /\ losses' = losses + 1
    /\ subscribed' = subscribed \ {w}
    /\ Trouble(TRUE)
    /\ UNCHANGED <<now, redisUp, outages, row, l1, l2, inbox, req>>

\* The connection is lost: events on their way are lost with it.
LoseSubscription(w) ==
    /\ w \in subscribed /\ losses < MaxLosses
    /\ losses' = losses + 1
    /\ subscribed' = subscribed \ {w}
    /\ inbox' = [inbox EXCEPT ![w] = 0]
    /\ Trouble(TRUE)
    /\ UNCHANGED <<now, redisUp, outages, row, l1, l2, req>>

\* After its pause the listener subscribes again, and drops nothing it missed.
Resubscribe(w) ==
    /\ w \notin subscribed /\ redisUp
    /\ subscribed' = subscribed \cup {w}
    /\ UNCHANGED <<now, env, row, l1, l2, inbox, req, troubled>>

------------------------------------------------------------------------------
(* The environment *)

\* Code between two awaits takes no noticeable time, and a handler that waits
\* for the database waits for at most one tick; events may take any time.
Tick ==
    /\ now < MaxTime
    /\ \A r \in Request : req[r] # Idle => req[r].pc # "publish" /\ req[r].began = now
    /\ now' = now + 1
    /\ UNCHANGED <<env, row, l1, l2, bus, req, troubled>>

\* The listeners lose their connection together with everybody else.
RedisFails ==
    /\ redisUp /\ outages < MaxOutages
    /\ redisUp' = FALSE /\ outages' = outages + 1
    /\ subscribed' = {} /\ inbox' = [w \in Worker |-> 0]
    /\ Trouble(TRUE)
    /\ UNCHANGED <<now, losses, row, l1, l2, req>>

RedisRecovers ==
    /\ ~redisUp /\ redisUp' = TRUE
    /\ UNCHANGED <<now, outages, losses, row, l1, l2, bus, req, troubled>>

\* A worker dies, perhaps with a change committed and not yet announced, and
\* starts again with an empty memory.
Crash(w) ==
    LET mine == {r \in Request : req[r] # Idle /\ req[r].worker = w} IN
    /\ losses < MaxLosses /\ redisUp
    /\ losses' = losses + 1
    /\ l1' = [l1 EXCEPT ![w] = None]
    /\ inbox' = [inbox EXCEPT ![w] = 0]
    /\ subscribed' = subscribed \cup {w}
    /\ req' = [r \in Request |-> IF r \in mine THEN Idle ELSE req[r]]
    /\ Trouble(\E r \in mine : req[r].pc \in {"committed", "publish"})
    /\ UNCHANGED <<now, redisUp, outages, row, l2>>

Next ==
    \/ \E r \in Request, w \in Worker :
          ReadThrough(r, w) \/ ReadByIdentifier(r, w) \/ StartWrite(r, w)
    \/ \E r \in Request :
          Select(r) \/ Fill(r) \/ WriteNothing(r) \/ Commit(r) \/ Invalidate(r) \/ Publish(r)
    \/ \E w \in Worker : Receive(w) \/ LoseSubscription(w) \/ Resubscribe(w) \/ Crash(w)
    \/ Tick \/ RedisFails \/ RedisRecovers

Spec == Init /\ [][Next]_vars

------------------------------------------------------------------------------
(* Properties *)

Stale(entry) == Fresh(entry) /\ entry.v # version

\* Every change has been announced and every announcement handled.
Settled ==
    /\ \A r \in Request : req[r].pc \notin {"committed", "publish"}
    /\ \A w \in Worker : inbox[w] = 0

\* Whatever races, outages, crashes and lost events there are, a row is served
\* for less than one life of each level after it was replaced: the tick a
\* handler may take from reading it to storing it is the one in which Redis no
\* longer serves it.
StalenessBounded ==
    \A w \in Worker : Stale(l1[w]) => now < replaced[l1[w].v] + L2Ttl + L1Ttl

\* Once the announcements have been handled no level serves a replaced row,
\* unless a handler stored a row that had been replaced meanwhile, or a worker
\* died, or Redis calls failed, between the change and its announcement, or a
\* subscription was lost.
SettledIsFresh ==
    Settled /\ ~troubled => ~Stale(l2) /\ \A w \in Worker : ~Stale(l1[w])
==============================================================================
