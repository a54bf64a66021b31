-------------------------------- MODULE RateLimit --------------------------------
(***************************************************************************)
(* The rate limiter of the login and reset endpoints (check_rate_limit,    *)
(* api/dependencies.py): a Redis counter with a time to live, and a fixed  *)
(* window in the memory of the worker when the call raises.  Keys never    *)
(* meet, so the module follows one.  A call that raises may have been      *)
(* carried out; a check takes no noticeable time.                          *)
(***************************************************************************)
EXTENDS Deployment, Sequences

CONSTANTS
    HitMax,        \* requests admitted in a window
    HitWindow,     \* ticks of a window (60 s)
    MaxHits,       \* bound on the requests
    MaxDeaths      \* bound on the deaths of workers

ASSUME RateLimitAssumption ==
    {HitMax, HitWindow} \subseteq Nat \ {0} /\ {MaxHits, MaxDeaths} \subseteq Nat

NoExpiry == MaxTime + HitWindow + 1   \* later than any expiry: the key has none

VARIABLES
    hits, hitsUntil,   \* rate_limit:<key> and when it expires
    hitMemory,         \* _in_memory_rate_limits of each worker
    hitting,           \* workers between INCR and EXPIRE
    asked,             \* requests so far
    admitted,          \* the ticks at which requests were let through (history)
    refusedEarly,      \* a request was refused though few had been let through (history)
    severed,           \* an INCR without its EXPIRE, or of a request that the memory of
                       \* its worker refused (history)
    restarts           \* deaths of workers (history)

hitHistory == <<admitted, refusedEarly, severed, restarts>>
rateVars == <<hits, hitsUntil, hitMemory, hitting, asked, hitHistory>>

NoWindow == [count |-> 0, reset |-> 0]

RateTypeOK ==
    /\ hits \in 0..MaxHits /\ hitsUntil \in 0..NoExpiry
    /\ hitMemory \in [Worker -> [count: 0..MaxHits, reset: 0..NoExpiry]]
    /\ hitting \subseteq Worker /\ asked \in 0..MaxHits
    /\ admitted \in Seq(0..MaxTime) /\ Len(admitted) <= MaxHits
    /\ refusedEarly \in BOOLEAN /\ severed \in BOOLEAN /\ restarts \in 0..MaxDeaths

RateInit ==
    /\ hits = 0 /\ hitsUntil = 0
    /\ hitMemory = [w \in Worker |-> NoWindow]
    /\ hitting = {} /\ asked = 0
    /\ admitted = <<>>
    /\ refusedEarly = FALSE /\ severed = FALSE /\ restarts = 0

LastWindow == Cardinality({i \in DOMAIN admitted : now - HitWindow < admitted[i]})

Decide(count) ==
    IF count <= HitMax
    THEN admitted' = Append(admitted, now) /\ UNCHANGED refusedEarly
    ELSE /\ refusedEarly' = (refusedEarly \/ LastWindow + Cardinality(hitting) < HitMax)
         /\ UNCHANGED admitted

NewHit(w) == w \notin hitting /\ asked < MaxHits /\ asked' = asked + 1

\* Mutant: every request starts the window anew.
CountHitSliding(w) ==
    /\ NewHit(w) /\ redisUp
    /\ hits' = hits + 1
    /\ hitting' = IF hits = 0 THEN hitting \cup {w} ELSE hitting
    /\ hitsUntil' = IF hits = 0 THEN NoExpiry ELSE now + HitWindow
    /\ IF hits = 0 THEN UNCHANGED <<admitted, refusedEarly>> ELSE Decide(hits')
    /\ UNCHANGED <<deployment, hitMemory, severed, restarts>>

\* INCR; the answer waits for EXPIRE when the counter is new.
CountHit(w) ==
    /\ NewHit(w) /\ redisUp
    /\ hits' = hits + 1
    /\ IF hits = 0
       THEN /\ hitting' = hitting \cup {w} /\ hitsUntil' = NoExpiry
            /\ UNCHANGED <<admitted, refusedEarly>>
       ELSE Decide(hits') /\ UNCHANGED <<hitting, hitsUntil>>
    /\ UNCHANGED <<deployment, hitMemory, severed, restarts>>

\* The fallback: a window that starts with its first request.
HitInMemory(w) ==
    LET m == IF now < hitMemory[w].reset
             THEN [hitMemory[w] EXCEPT !.count = @ + 1]
             ELSE [count |-> 1, reset |-> now + HitWindow]
    IN  hitMemory' = [hitMemory EXCEPT ![w] = m] /\ Decide(m.count)

ExpireHit(w) ==
    /\ w \in hitting /\ redisUp
    /\ hitsUntil' = IF hits > 0 THEN now + HitWindow ELSE hitsUntil
    /\ hitting' = hitting \ {w}
    /\ Decide(1)
    /\ UNCHANGED <<deployment, hits, hitMemory, asked, severed, restarts>>

\* EXPIRE, or INCR, raises.
ExpireRaises(w, done) ==
    /\ w \in hitting /\ ~redisUp
    /\ hitsUntil' = IF done /\ hits > 0 THEN now + HitWindow ELSE hitsUntil
    /\ HitInMemory(w)
    /\ severed' = (severed \/ ~done \/ admitted' = admitted)
    /\ hitting' = hitting \ {w}
    /\ UNCHANGED <<deployment, hits, asked, restarts>>

CountRaises(w, done) ==
    /\ NewHit(w) /\ ~redisUp
    /\ hits' = IF done THEN hits + 1 ELSE hits
    /\ hitsUntil' = IF done /\ hits = 0 THEN NoExpiry ELSE hitsUntil
    /\ severed' = (severed \/ done)
    /\ HitInMemory(w)
    /\ UNCHANGED <<deployment, hitting, restarts>>

HitterDies(w) ==
    /\ restarts < MaxDeaths
    /\ restarts' = restarts + 1
    /\ hitMemory' = [hitMemory EXCEPT ![w] = NoWindow]
    /\ severed' = (severed \/ w \in hitting)
    /\ hitting' = hitting \ {w}
    /\ UNCHANGED <<deployment, hits, hitsUntil, asked, admitted, refusedEarly>>

\* The counter disappears when its time has come.
HitTick ==
    /\ hitting = {} /\ TimePasses
    /\ hits' = IF hitsUntil <= now' THEN 0 ELSE hits
    /\ UNCHANGED <<hitsUntil, hitMemory, hitting, asked, hitHistory>>

RateNext ==
    \/ \E w \in Worker : CountHit(w) \/ ExpireHit(w) \/ HitterDies(w)
    \/ \E w \in Worker, done \in BOOLEAN : ExpireRaises(w, done) \/ CountRaises(w, done)
    \/ HitTick
    \/ (RedisFails \/ RedisRecovers) /\ UNCHANGED rateVars

------------------------------------------------------------------------------
(* Properties *)

\* In the last HitWindow ticks no more requests were let through than two
\* windows of Redis hold without the request that opened the first, as many by
\* each worker's memory once calls have raised, and HitMax more by a memory that
\* was lost; and a request is refused only after HitMax were let through in that
\* time, unless some EXPIRE never followed its INCR (then the key may stay for
\* ever), or calls raised again and the memory refused what Redis had counted.
RateKept ==
    /\ LastWindow <= (2 * HitMax - 1) * (IF outages = 0 THEN 1 ELSE 1 + Cardinality(Worker))
                     + HitMax * restarts
    /\ refusedEarly => severed
================================================================================
