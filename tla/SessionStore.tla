----------------------------- MODULE SessionStore -----------------------------
(***************************************************************************)
(* Stateful sessions (session_store.py): a hash session:<id> and an index  *)
(* user_sessions:<user> in Redis, both with a time to live, and, when a    *)
(* Redis call raises, a copy in the memory of the worker.  Every operation *)
(* is a sequence of separate Redis calls; the client is synchronous, so a  *)
(* worker finishes an operation before it starts the next, and operations  *)
(* of different workers interleave at every call.                          *)
(***************************************************************************)
EXTENDS Integers, FiniteSets

CONSTANTS
    Worker,      \* uvicorn worker processes
    Session,     \* session ids
    User,        \* accounts
    Owner,       \* the user of each session
    Ttl,         \* ticks a session lives unused (3600 s in the code)
    MaxTime,     \* bound on the clock
    MaxFaults    \* bound: outages of Redis and deaths of workers, together

ASSUME ConstantsAssumption ==
    /\ Owner \in [Session -> User]
    /\ Ttl \in Nat \ {0} /\ MaxTime \in Nat /\ MaxFaults \in Nat

NoTtl == MaxTime + Ttl + 1   \* later than any expiry: a key that never expires

VARIABLES
    now, redisUp, faults,
    hash,        \* fields of session:<id>; no field: the key does not exist
    until,       \* when session:<id> expires
    index,       \* members of user_sessions:<user>; none: no such key
    indexUntil,  \* when that key expires
    memory,      \* ids in _in_memory_sessions and its index, per worker
    job,         \* the operation each worker is in the middle of
    born,        \* when create_session returned each id
    returned,    \* ids that create_session has returned
    ended,       \* how a session was ended for its user (history)
    troubled,    \* sessions about which a Redis call has raised (history)
    dropped      \* sessions taken off the index before, or without, being deleted (history)

redis   == <<redisUp, faults>>
keys    == <<hash, until, index, indexUntil>>
history == <<born, returned, ended, troubled, dropped>>
vars    == <<now, redis, keys, memory, job, history>>

Rest == [op |-> "rest"]
Job  == [op: {"create"}, step: {"hset", "expire", "sadd", "expireIndex"}, s: Session]
        \cup [op: {"update"}, s: Session]
        \cup [op: {"delete"}, step: {"srem", "delete"}, s: Session, user: BOOLEAN]
        \cup [op: {"purge"}, u: User, found: SUBSET Session, known: SUBSET Session]

TypeOK ==
    /\ now \in Nat /\ redisUp \in BOOLEAN /\ faults \in 0..MaxFaults
    /\ hash \in [Session -> SUBSET {"user", "data"}]
    /\ until \in [Session -> 0..NoTtl]
    /\ index \in [User -> SUBSET Session]
    /\ indexUntil \in [User -> 0..NoTtl]
    /\ memory \in [Worker -> SUBSET Session]
    /\ job \in [Worker -> {Rest} \cup Job]
    /\ born \in [Session -> Nat]
    /\ returned \subseteq Session /\ troubled \subseteq Session /\ dropped \subseteq Session
    /\ ended \in [Session -> {"no", "logout", "purgedFresh", "purgedOld"}]

Init ==
    /\ now = 0 /\ redisUp = TRUE /\ faults = 0
    /\ hash = [s \in Session |-> {}] /\ until = [s \in Session |-> 0]
    /\ index = [u \in User |-> {}] /\ indexUntil = [u \in User |-> 0]
    /\ memory = [w \in Worker |-> {}]
    /\ job = [w \in Worker |-> Rest]
    /\ born = [s \in Session |-> 0]
    /\ returned = {} /\ troubled = {} /\ dropped = {}
    /\ ended = [s \in Session |-> "no"]

Finish(w)     == job' = [job EXCEPT ![w] = Rest]
Trouble(S)    == troubled' = troubled \cup S
End(S, how)   == ended' = [s \in Session |-> IF s \in S THEN how ELSE ended[s]]

\* get_session: Redis first; an empty answer, like an error, falls to memory.
InRedis(s)   == redisUp /\ hash[s] # {}
Found(w, s)  == InRedis(s) \/ s \in memory[w]

\* The session names its user, so authenticate_session accepts it.
Alive(w, s) == IF InRedis(s) THEN "user" \in hash[s] ELSE s \in memory[w]

------------------------------------------------------------------------------
(* create_session *)

StartCreate(w, s) ==
    /\ job[w] = Rest
    /\ s \notin returned \cup memory[w] /\ hash[s] = {}
    /\ \A v \in Worker : job[v].op = "create" => job[v].s # s
    /\ job' = [job EXCEPT ![w] = [op |-> "create", step |-> "hset", s |-> s]]
    /\ UNCHANGED <<now, redis, keys, memory, history>>

Creating(w, step) == job[w].op = "create" /\ job[w].step = step
Advance(w, step)  == job' = [job EXCEPT ![w].step = step]
Return(w)         == /\ returned' = returned \cup {job[w].s}
                     /\ born' = [born EXCEPT ![job[w].s] = now]
                     /\ Finish(w)

SetHash(w) ==
    /\ Creating(w, "hset") /\ redisUp
    /\ hash' = [hash EXCEPT ![job[w].s] = {"user", "data"}]
    /\ until' = [until EXCEPT ![job[w].s] = NoTtl]
    /\ Advance(w, "expire")
    /\ UNCHANGED <<now, redis, index, indexUntil, memory, history>>

\* Mutant: the time to live is never set.
SkipExpire(w) ==
    /\ Creating(w, "expire") /\ redisUp
    /\ Advance(w, "sadd")
    /\ UNCHANGED <<now, redis, keys, memory, history>>

\* Mutant: the time to live is applied twice.
SetExpireTwice(w) ==
    /\ Creating(w, "expire") /\ redisUp
    /\ until' = [until EXCEPT ![job[w].s] = now + Ttl + Ttl]
    /\ Advance(w, "sadd")
    /\ UNCHANGED <<now, redis, hash, index, indexUntil, memory, history>>

SetExpire(w) ==
    /\ Creating(w, "expire") /\ redisUp
    /\ until' = [until EXCEPT ![job[w].s] = now + Ttl]
    /\ Advance(w, "sadd")
    /\ UNCHANGED <<now, redis, hash, index, indexUntil, memory, history>>

\* SADD keeps the time to live of an index that exists.
AddToIndex(w) ==
    LET u == Owner[job[w].s] IN
    /\ Creating(w, "sadd") /\ redisUp
    /\ index' = [index EXCEPT ![u] = @ \cup {job[w].s}]
    /\ indexUntil' = IF index[u] = {} THEN [indexUntil EXCEPT ![u] = NoTtl] ELSE indexUntil
    /\ Advance(w, "expireIndex")
    /\ UNCHANGED <<now, redis, hash, until, memory, history>>

\* Mutant: only a new index gets a time to live.
ExpireNewIndexOnly(w) ==
    LET u == Owner[job[w].s] IN
    /\ Creating(w, "expireIndex") /\ redisUp
    /\ indexUntil' = IF indexUntil[u] = NoTtl
                     THEN [indexUntil EXCEPT ![u] = now + Ttl] ELSE indexUntil
    /\ Return(w)
    /\ UNCHANGED <<now, redis, hash, until, index, memory, ended, troubled, dropped>>

\* EXPIRE does nothing when a purge has deleted the index in the meantime.
ExpireIndex(w) ==
    LET u == Owner[job[w].s] IN
    /\ Creating(w, "expireIndex") /\ redisUp
    /\ indexUntil' = IF index[u] # {} THEN [indexUntil EXCEPT ![u] = now + Ttl] ELSE indexUntil
    /\ Return(w)
    /\ UNCHANGED <<now, redis, hash, until, index, memory, ended, troubled, dropped>>

\* Any of the four calls raises: the session is stored in memory as well.
FallBack(w) ==
    /\ job[w].op = "create" /\ ~redisUp
    /\ memory' = [memory EXCEPT ![w] = @ \cup {job[w].s}]
    /\ Return(w)
    /\ Trouble({job[w].s})
    /\ UNCHANGED <<now, redis, keys, ended, dropped>>

CreateStep(w) ==
    SetHash(w) \/ SetExpire(w) \/ AddToIndex(w) \/ ExpireIndex(w) \/ FallBack(w)

------------------------------------------------------------------------------
(* refresh_session_ttl, called by authenticate_session for a session that *)
(* names its user: the session key is extended, the index is not.         *)
Authenticate(w, s) ==
    /\ job[w] = Rest /\ s \in returned
    /\ InRedis(s) /\ Alive(w, s)
    /\ until' = [until EXCEPT ![s] = now + Ttl]
    /\ UNCHANGED <<now, redis, hash, index, indexUntil, memory, job, history>>

(* update_session_data: a read, then a write of one field. *)
StartUpdate(w, s) ==
    /\ job[w] = Rest /\ s \in returned /\ Found(w, s)
    /\ job' = [job EXCEPT ![w] = [op |-> "update", s |-> s]]
    /\ UNCHANGED <<now, redis, keys, memory, history>>

\* Mutant: the whole session is written back.
WriteAll(w) ==
    LET s == job[w].s IN
    /\ job[w].op = "update" /\ redisUp
    /\ hash' = [hash EXCEPT ![s] = {"user", "data"}]
    /\ until' = IF hash[s] = {} THEN [until EXCEPT ![s] = NoTtl] ELSE until
    /\ Finish(w)
    /\ UNCHANGED <<now, redis, index, indexUntil, memory, history>>

\* HSET creates the hash anew when the session has gone in the meantime.
WriteData(w) ==
    LET s == job[w].s IN
    /\ job[w].op = "update" /\ redisUp
    /\ hash' = [hash EXCEPT ![s] = @ \cup {"data"}]
    /\ until' = IF hash[s] = {} THEN [until EXCEPT ![s] = NoTtl] ELSE until
    /\ Finish(w)
    /\ UNCHANGED <<now, redis, index, indexUntil, memory, history>>

WriteFails(w) ==
    /\ job[w].op = "update" /\ ~redisUp
    /\ Finish(w) /\ Trouble({job[w].s})
    /\ UNCHANGED <<now, redis, keys, memory, born, returned, ended, dropped>>

------------------------------------------------------------------------------
(* delete_session *)

StartDelete(w, s) ==
    /\ job[w] = Rest /\ s \in returned
    /\ job' = [job EXCEPT ![w] = [op |-> "delete", step |-> "srem", s |-> s,
                                  user |-> Alive(w, s)]]
    /\ UNCHANGED <<now, redis, keys, memory, history>>

Deleting(w, step) == job[w].op = "delete" /\ job[w].step = step

RemoveFromIndex(w) ==
    LET u == Owner[job[w].s] IN
    /\ Deleting(w, "srem") /\ redisUp
    /\ index' = IF job[w].user THEN [index EXCEPT ![u] = @ \ {job[w].s}] ELSE index
    /\ dropped' = dropped \cup (index[u] \ index'[u])
    /\ Advance(w, "delete")
    /\ UNCHANGED <<now, redis, hash, until, indexUntil, memory, born, returned, ended, troubled>>

\* Returns at once: a copy in memory stays.
DeleteKey(w) ==
    /\ Deleting(w, "delete") /\ redisUp
    /\ hash' = [hash EXCEPT ![job[w].s] = {}]
    /\ End({job[w].s}, "logout")
    /\ Finish(w)
    /\ UNCHANGED <<now, redis, until, index, indexUntil, memory, born, returned, troubled, dropped>>

\* Either call raises: only the copy in memory is removed.
DeleteFails(w) ==
    /\ job[w].op = "delete" /\ ~redisUp
    /\ memory' = [memory EXCEPT ![w] = @ \ {job[w].s}]
    /\ End({job[w].s}, "logout") /\ Trouble({job[w].s})
    /\ Finish(w)
    /\ UNCHANGED <<now, redis, keys, born, returned, dropped>>

DeleteStep(w) == RemoveFromIndex(w) \/ DeleteKey(w) \/ DeleteFails(w)

------------------------------------------------------------------------------
(* delete_all_user_sessions; no caller passes except_session_id. *)

Owned(u) == {s \in Session : Owner[s] = u}

\* The sessions of u, at the end of a purge that began when `known' were known.
PurgeEnds(known) ==
    ended' = [s \in Session |->
                IF s \in known /\ ended[s] = "no"
                THEN IF now < born[s] + Ttl THEN "purgedFresh" ELSE "purgedOld"
                ELSE ended[s]]

\* SMEMBERS.  `known' are the sessions a user can expect the purge to end.
StartPurge(w, u) ==
    LET known == Owned(u) \cap returned IN
    /\ job[w] = Rest
    /\ IF redisUp /\ index[u] # {}
       THEN /\ job' = [job EXCEPT ![w] = [op |-> "purge", u |-> u, found |-> index[u],
                                          known |-> known]]
            /\ UNCHANGED <<memory, ended, troubled>>
       ELSE /\ memory' = [memory EXCEPT ![w] = @ \ Owned(u)]
            /\ PurgeEnds(known)
            /\ troubled' = IF redisUp THEN troubled ELSE troubled \cup Owned(u)
            /\ UNCHANGED job
    /\ UNCHANGED <<now, redis, keys, born, returned, dropped>>

\* The pipeline deletes what SMEMBERS found, and the whole index.
PurgePipeline(w) ==
    LET u == job[w].u IN
    /\ job[w].op = "purge" /\ redisUp
    /\ hash' = [s \in Session |-> IF s \in job[w].found THEN {} ELSE hash[s]]
    /\ index' = [index EXCEPT ![u] = {}]
    /\ memory' = [memory EXCEPT ![w] = @ \ Owned(u)]
    /\ PurgeEnds(job[w].known)
    /\ dropped' = dropped \cup (index[u] \ job[w].found)
    /\ Finish(w)
    /\ UNCHANGED <<now, redis, until, indexUntil, born, returned, troubled>>

PurgeFails(w) ==
    LET u == job[w].u IN
    /\ job[w].op = "purge" /\ ~redisUp
    /\ memory' = [memory EXCEPT ![w] = @ \ Owned(u)]
    /\ PurgeEnds(job[w].known) /\ Trouble(Owned(u))
    /\ Finish(w)
    /\ UNCHANGED <<now, redis, keys, born, returned, dropped>>

------------------------------------------------------------------------------
(* The environment *)

\* An operation takes no noticeable time; keys whose time has come disappear.
Tick ==
    /\ now < MaxTime
    /\ \A w \in Worker : job[w] = Rest
    /\ now' = now + 1
    /\ hash' = [s \in Session |-> IF until[s] <= now' THEN {} ELSE hash[s]]
    /\ index' = [u \in User |-> IF indexUntil[u] <= now' THEN {} ELSE index[u]]
    /\ UNCHANGED <<redis, until, indexUntil, memory, job, history>>

RedisFails ==
    /\ redisUp /\ faults < MaxFaults
    /\ redisUp' = FALSE /\ faults' = faults + 1
    /\ UNCHANGED <<now, keys, memory, job, history>>

RedisRecovers ==
    /\ ~redisUp /\ redisUp' = TRUE
    /\ UNCHANGED <<now, faults, keys, memory, job, history>>

\* SessionStore refuses to start while a Redis it requires is unreachable.
Crash(w) ==
    /\ redisUp /\ faults < MaxFaults
    /\ faults' = faults + 1
    /\ memory' = [memory EXCEPT ![w] = {}]
    /\ Finish(w)
    /\ UNCHANGED <<now, redisUp, keys, history>>

Next ==
    \/ \E w \in Worker, s \in Session :
          StartCreate(w, s) \/ Authenticate(w, s) \/ StartUpdate(w, s) \/ StartDelete(w, s)
    \/ \E w \in Worker, u \in User : StartPurge(w, u)
    \/ \E w \in Worker :
          \/ CreateStep(w) \/ DeleteStep(w)
          \/ WriteData(w) \/ WriteFails(w)
          \/ PurgePipeline(w) \/ PurgeFails(w)
          \/ Crash(w)
    \/ Tick \/ RedisFails \/ RedisRecovers

Spec == Init /\ [][Next]_vars

------------------------------------------------------------------------------
(* Properties *)

\* Logout is final: a session that delete_session has ended is never accepted
\* again by any worker, whatever refresh_session_ttl, update_session_data and
\* purges of other workers do meanwhile, unless a Redis call about it raised.
LogoutIsFinal ==
    \A s \in Session \ troubled, w \in Worker : ended[s] = "logout" => ~Alive(w, s)

\* A purge ends every session that was returned before it began and created
\* within the last Ttl, unless a Redis call about it raised, an earlier purge
\* had taken it off the index without having read it, or a logout of it has
\* removed it from the index only.
FreshSessionsPurged ==
    \A s \in Session \ (troubled \cup dropped), w \in Worker :
        ended[s] = "purgedFresh" => ~Alive(w, s)

\* A session a client can present expires: its key has a time to live, unless
\* a Redis call about it raised (then SetHash may have been the last to succeed).
SessionsExpire ==
    \A s \in returned \ troubled : "user" \in hash[s] => until[s] <= now + Ttl

\* delete_all_user_sessions: "Invalidate all active sessions belonging to a
\* specific user", those created long ago and kept alive by use included.
\* (The exceptions are those of FreshSessionsPurged.)
AllSessionsPurged ==
    \A s \in Session \ (troubled \cup dropped), w \in Worker :
        ended[s] \in {"purgedFresh", "purgedOld"} => ~Alive(w, s)
==============================================================================
