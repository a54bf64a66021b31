--------------------------------- MODULE OneTime ---------------------------------
(***************************************************************************)
(* Entries that are saved to be consumed once: the challenge of a passkey  *)
(* ceremony (webauthn_service.py) and the state of an OAuth login          *)
(* (oauth_provider.py).  Both live in Redis or, when the call raises, in   *)
(* the memory of the worker; both are consumed by a GET and a DEL.         *)
(*                                                                         *)
(* The Redis client is synchronous: a worker consumes one entry at a time. *)
(* A call that raises may have been carried out.  Entries never meet, so   *)
(* the module follows one.                                                 *)
(***************************************************************************)
EXTENDS Deployment

CONSTANT EntryLife     \* ticks an entry lives (300 s, 600 s)

ASSUME OneTimeAssumption == EntryLife \in Nat \ {0}

VARIABLES
    kind,        \* "challenge" or "state"
    saved,       \* where it was saved
    savedAt,
    stash,       \* when its Redis key expires; 0: no such key
    memo,        \* when its copy in a worker's memory expires; 0: none
    taking,      \* consumption of the entry between GET and DEL
    uses,        \* requests that it let through (history)
    usedLate     \* ... one of them after its time (history)

oneTimeVars == <<kind, saved, savedAt, stash, memo, taking, uses, usedLate>>

Untaken == [right |-> FALSE, at |-> -1]

OneTimeTypeOK ==
    /\ kind \in {"challenge", "state"}
    /\ saved \in {"no", "redis", "memory", "both"} /\ savedAt \in 0..MaxTime
    /\ stash \in 0..(MaxTime + EntryLife)
    /\ memo \in [Worker -> 0..(MaxTime + EntryLife)]
    /\ taking \in [Worker -> {Untaken} \cup [right: BOOLEAN, at: 0..MaxTime]]
    /\ uses \in 0..(Cardinality(Worker) + 1) /\ usedLate \in BOOLEAN

OneTimeInit ==
    /\ kind \in {"challenge", "state"}
    /\ saved = "no" /\ savedAt = 0 /\ stash = 0
    /\ memo = [w \in Worker |-> 0] /\ taking = [w \in Worker |-> Untaken]
    /\ uses = 0 /\ usedLate = FALSE

Untroubled(w) == taking[w] = Untaken

\* _save_challenge, save_state; carried out although it raised, or not.
SaveEntry(w, done) ==
    /\ saved = "no" /\ (redisUp => done)
    /\ saved' = IF redisUp THEN "redis" ELSE IF done THEN "both" ELSE "memory"
    /\ savedAt' = now
    /\ stash' = IF done THEN now + EntryLife ELSE 0
    /\ memo' = IF redisUp THEN memo ELSE [memo EXCEPT ![w] = now + EntryLife]
    /\ UNCHANGED <<deployment, kind, taking, uses, usedLate>>

StartCeremony(w, done) == kind = "challenge" /\ SaveEntry(w, done)
StartLogin(w, done)    == kind = "state" /\ SaveEntry(w, done)

\* A request with the entry goes on if the entry is of its purpose and user.
Let(right, at) ==
    /\ uses' = IF right THEN uses + 1 ELSE uses
    /\ usedLate' = (usedLate \/ (right /\ at > savedAt + EntryLife))

InStash == redisUp /\ now < stash

\* GET of _consume_challenge, consume_state.
GetEntry(w, right) ==
    /\ Untroubled(w) /\ InStash
    /\ taking' = [taking EXCEPT ![w] = [right |-> right, at |-> now]]
    /\ UNCHANGED <<deployment, kind, saved, savedAt, stash, memo, uses, usedLate>>

\* Mutant: the copy in memory is only read.
PeekMemory(w, right) ==
    /\ IF memo[w] # 0 /\ (kind = "challenge" => now <= memo[w])
       THEN Let(right, now)
       ELSE UNCHANGED <<uses, usedLate>>
    /\ UNCHANGED memo

\* Nothing in Redis, or an error: the memory of the worker.  Only a challenge
\* has a time there.
PopMemory(w, right) ==
    /\ IF memo[w] # 0 /\ (kind = "challenge" => now <= memo[w])
       THEN Let(right, now)
       ELSE UNCHANGED <<uses, usedLate>>
    /\ memo' = [memo EXCEPT ![w] = 0]

TakeFromMemory(w, right) ==
    /\ Untroubled(w) /\ ~InStash /\ memo[w] # 0
    /\ PopMemory(w, right)
    /\ UNCHANGED <<deployment, kind, saved, savedAt, stash, taking>>

\* DEL, and the request goes on; when it raises, the memory decides.
DelEntry(w, done) ==
    /\ ~Untroubled(w) /\ (redisUp => done)
    /\ stash' = IF done THEN 0 ELSE stash
    /\ IF redisUp
       THEN Let(taking[w].right, taking[w].at) /\ UNCHANGED memo
       ELSE PopMemory(w, taking[w].right)
    /\ taking' = [taking EXCEPT ![w] = Untaken]
    /\ UNCHANGED <<deployment, kind, saved, savedAt>>

RestartTaker(w) ==
    /\ memo[w] # 0 \/ ~Untroubled(w)
    /\ memo' = [memo EXCEPT ![w] = 0]
    /\ taking' = [taking EXCEPT ![w] = Untaken]
    /\ UNCHANGED <<deployment, kind, saved, savedAt, stash, uses, usedLate>>

OneTimeNext ==
    \/ \E w \in Worker, flag \in BOOLEAN :
           \/ StartCeremony(w, flag) \/ StartLogin(w, flag) \/ GetEntry(w, flag) \/ TakeFromMemory(w, flag)
           \/ DelEntry(w, flag)
    \/ \E w \in Worker : RestartTaker(w)
    \/ (TimePasses \/ RedisFails \/ RedisRecovers) /\ UNCHANGED oneTimeVars

------------------------------------------------------------------------------
(* Properties *)

\* However requests, outages and restarts fall between the GET and the DEL, an
\* entry lets through one request of each worker at most, one if it is in memory
\* and one more if it is in both; and none that presents it after its time, but
\* for an OAuth state in memory, which has no time.
OneTimeUse ==
    /\ uses <= (IF saved = "memory" THEN 0 ELSE Cardinality(Worker))
               + (IF saved = "redis" THEN 0 ELSE 1)
    /\ usedLate => kind = "state" /\ saved # "redis"
================================================================================
