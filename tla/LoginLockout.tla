----------------------------- MODULE LoginLockout -----------------------------
(***************************************************************************)
(* Password login and its lockout (authenticator.py): a counter of failed  *)
(* attempts and a lock, both Redis keys with a time to live, and copies in *)
(* the memory of each worker.  The keys of different accounts never meet,  *)
(* so the module follows one account.                                      *)
(*                                                                         *)
(* Between the lookup of the user and the answer a login awaits nothing,   *)
(* so a worker runs one check-verify-count section at a time; sections of  *)
(* different workers interleave at every Redis call.                       *)
(***************************************************************************)
EXTENDS Integers, FiniteSets, Sequences

CONSTANTS
    Worker,         \* uvicorn worker processes
    Threshold,      \* failures that lock the account (5 in the code)
    LongThreshold,  \* failures that lock it for Long (10)
    Window,         \* ticks a new counter lives (300 s)
    Short, Long,    \* ticks the account stays locked (900 s, 3600 s)
    MaxTime,        \* bound on the clock
    MaxGuesses,     \* bound on wrong passwords in one behaviour
    MaxOutages,     \* bound: how often Redis calls start to raise
    MaxCrashes      \* bound: how often a worker dies

ASSUME ConstantsAssumption ==
    /\ {Threshold, LongThreshold, Window, Short, Long} \subseteq Nat \ {0}
    /\ 1 < Threshold /\ Threshold < LongThreshold
    /\ Window < Short /\ Short < Long
    /\ {MaxTime, MaxGuesses, MaxOutages, MaxCrashes} \subseteq Nat
ASSUME FiniteWorkers == IsFiniteSet(Worker)

NoTtl == MaxTime + Window + 1   \* later than any expiry: a key that never expires

VARIABLES
    now, redisUp, outages, crashes,
    count, countUntil,  \* failed_logins:<user> and when it expires
    lockUntil,          \* when lockout:<user> expires
    memCount, memLock,  \* _in_memory_failed_attempts, _in_memory_lockouts
    job,                \* what each worker is doing with a login
    fails,              \* ticks of the wrong passwords since the last clearing (history)
    guesses             \* wrong passwords in the behaviour (history)

env     == <<redisUp, outages, crashes>>
keys    == <<count, countUntil, lockUntil>>
memory  == <<memCount, memLock>>
history == <<fails, guesses>>
vars    == <<now, env, keys, memory, job, history>>

Rest == [step |-> "rest"]
Job  == [step: {"verify"}]
        \cup [step: {"expire"}, attempts: {1}, recent: 0..MaxGuesses]
        \cup [step: {"lock"}, attempts: Threshold..MaxGuesses, recent: 0..MaxGuesses]

TypeOK ==
    /\ now \in 0..MaxTime
    /\ redisUp \in BOOLEAN /\ outages \in 0..MaxOutages /\ crashes \in 0..MaxCrashes
    /\ count \in 0..MaxGuesses /\ countUntil \in 0..NoTtl
    /\ lockUntil \in 0..(MaxTime + Long)
    /\ memCount \in [Worker -> 0..MaxGuesses]
    /\ memLock \in [Worker -> 0..(MaxTime + Long)]
    /\ job \in [Worker -> {Rest} \cup Job]
    /\ fails \in Seq(0..MaxTime) /\ Len(fails) <= guesses /\ guesses \in 0..MaxGuesses

Init ==
    /\ now = 0 /\ redisUp = TRUE /\ outages = 0 /\ crashes = 0
    /\ count = 0 /\ countUntil = 0 /\ lockUntil = 0
    /\ memCount = [w \in Worker |-> 0] /\ memLock = [w \in Worker |-> 0]
    /\ job = [w \in Worker |-> Rest]
    /\ fails = <<>> /\ guesses = 0

Finish(w) == job' = [job EXCEPT ![w] = Rest]

\* Wrong passwords in the last Window ticks.
Recent(f) == Cardinality({i \in DOMAIN f : now - Window < f[i]})

------------------------------------------------------------------------------
(* One login *)

\* _check_account_lockout: the time to live in Redis, else the memory of w.
Locked(w) == (redisUp /\ now < lockUntil) \/ now < memLock[w]

\* Mutant: the lock is not looked up.
CheckNothing(w) ==
    /\ job[w] = Rest
    /\ job' = [job EXCEPT ![w] = [step |-> "verify"]]
    /\ UNCHANGED <<now, env, keys, memory, history>>

\* A locked account is refused and nothing changes; an expired entry of the
\* memory is dropped.
Check(w) ==
    /\ job[w] = Rest /\ ~Locked(w)
    /\ memLock' = [memLock EXCEPT ![w] = 0]
    /\ job' = [job EXCEPT ![w] = [step |-> "verify"]]
    /\ UNCHANGED <<now, env, keys, memCount, history>>

\* The failed login is counted: `attempts' decides what happens to the lock.
Counted(w, attempts, next) ==
    /\ fails' = Append(fails, now)
    /\ guesses' = guesses + 1
    /\ IF next = "rest" THEN Finish(w)
       ELSE job' = [job EXCEPT ![w] = [step |-> next, attempts |-> attempts,
                                       recent |-> Recent(fails')]]

\* Wrong password: INCR, which creates the key without a time to live.
CountInRedis(w) ==
    LET attempts == count + 1 IN
    /\ job[w].step = "verify" /\ redisUp /\ guesses < MaxGuesses
    /\ count' = attempts
    /\ countUntil' = IF count = 0 THEN NoTtl ELSE countUntil
    /\ Counted(w, attempts, IF attempts = 1 THEN "expire"
                            ELSE IF attempts >= Threshold THEN "lock" ELSE "rest")
    /\ UNCHANGED <<now, env, lockUntil, memory>>

\* Mutant: a Redis error counts nothing.
CountNowhere(w) ==
    /\ job[w].step = "verify" /\ ~redisUp /\ guesses < MaxGuesses
    /\ Counted(w, 1, "rest")
    /\ UNCHANGED <<now, env, keys, memory>>

\* Mutant: locked one failure early.
CountInMemoryEarly(w) ==
    LET attempts == memCount[w] + 1 IN
    /\ job[w].step = "verify" /\ ~redisUp /\ guesses < MaxGuesses
    /\ memCount' = [memCount EXCEPT ![w] = attempts]
    /\ Counted(w, attempts, IF attempts >= Threshold - 1 THEN "lock" ELSE "rest")
    /\ UNCHANGED <<now, env, keys, memLock>>

\* Wrong password while Redis calls raise: the memory of w counts.
CountInMemory(w) ==
    LET attempts == memCount[w] + 1 IN
    /\ job[w].step = "verify" /\ ~redisUp /\ guesses < MaxGuesses
    /\ memCount' = [memCount EXCEPT ![w] = attempts]
    /\ Counted(w, attempts, IF attempts >= Threshold THEN "lock" ELSE "rest")
    /\ UNCHANGED <<now, env, keys, memLock>>

\* Mutant: the counter gets the time to live of the lock.
ExpireCounterShort(w) ==
    /\ job[w].step = "expire" /\ redisUp
    /\ countUntil' = IF count > 0 THEN now + Short ELSE countUntil
    /\ Finish(w)
    /\ UNCHANGED <<now, env, count, lockUntil, memory, history>>

\* EXPIRE of a counter that was 1; when it raises, the memory counts as well.
ExpireCounter(w) ==
    LET attempts == memCount[w] + 1 IN
    /\ job[w].step = "expire"
    /\ IF redisUp
       THEN /\ countUntil' = IF count > 0 THEN now + Window ELSE countUntil
            /\ Finish(w)
            /\ UNCHANGED memCount
       ELSE /\ memCount' = [memCount EXCEPT ![w] = attempts]
            /\ IF attempts < Threshold THEN Finish(w)
               ELSE job' = [job EXCEPT ![w] = [step |-> "lock", attempts |-> attempts,
                                               recent |-> job[w].recent]]
            /\ UNCHANGED countUntil
    /\ UNCHANGED <<now, env, count, lockUntil, memLock, history>>

\* The lock, in Redis and always in the memory of w.
SetLock(w) ==
    LET length == IF job[w].attempts < LongThreshold THEN Short ELSE Long IN
    /\ job[w].step = "lock"
    /\ lockUntil' = IF redisUp THEN now + length ELSE lockUntil
    /\ memLock' = [memLock EXCEPT ![w] = now + length]
    /\ Finish(w)
    /\ UNCHANGED <<now, env, count, countUntil, memCount, fails, guesses>>

\* _clear_failed_attempts: both keys in one DEL, and the memory of w.
Clear(w) ==
    /\ count' = IF redisUp THEN 0 ELSE count
    /\ lockUntil' = IF redisUp THEN 0 ELSE lockUntil
    /\ memCount' = [memCount EXCEPT ![w] = 0]
    /\ memLock' = [memLock EXCEPT ![w] = 0]
    /\ fails' = <<>>

\* Right password.
Succeed(w) ==
    /\ job[w].step = "verify"
    /\ Clear(w)
    /\ Finish(w)
    /\ UNCHANGED <<now, env, countUntil, guesses>>

\* unlock_account, the last step of a password reset.
Unlock(w) ==
    /\ job[w] = Rest
    /\ Clear(w)
    /\ UNCHANGED <<now, env, countUntil, job, guesses>>

------------------------------------------------------------------------------
(* The environment *)

\* A section takes no noticeable time; keys whose time has come disappear.
Tick ==
    /\ now < MaxTime
    /\ \A w \in Worker : job[w] = Rest
    /\ now' = now + 1
    /\ count' = IF countUntil <= now' THEN 0 ELSE count
    /\ UNCHANGED <<env, countUntil, lockUntil, memory, job, history>>

RedisFails ==
    /\ redisUp /\ outages < MaxOutages
    /\ redisUp' = FALSE /\ outages' = outages + 1
    /\ UNCHANGED <<now, crashes, keys, memory, job, history>>

RedisRecovers ==
    /\ ~redisUp /\ redisUp' = TRUE
    /\ UNCHANGED <<now, outages, crashes, keys, memory, job, history>>

\* A worker does not start while a Redis it requires is unreachable.
Crash(w) ==
    /\ crashes < MaxCrashes /\ redisUp
    /\ crashes' = crashes + 1
    /\ memCount' = [memCount EXCEPT ![w] = 0]
    /\ memLock' = [memLock EXCEPT ![w] = 0]
    /\ Finish(w)
    /\ UNCHANGED <<now, redisUp, outages, keys, history>>

Next ==
    \/ \E w \in Worker :
          \/ Check(w) \/ CountInRedis(w) \/ CountInMemory(w) \/ ExpireCounter(w)
          \/ SetLock(w) \/ Succeed(w) \/ Unlock(w) \/ Crash(w)
    \/ Tick \/ RedisFails \/ RedisRecovers

Spec == Init /\ [][Next]_vars

------------------------------------------------------------------------------
(* Properties *)

Healthy == outages = 0 /\ crashes = 0

\* The counter stops soon after the lock: at most one section of each other
\* worker can have passed _check_account_lockout before the lock was set.  Fewer
\* than LongThreshold - Threshold + 2 workers therefore never lock for Long.
CounterStopsAtLock == Healthy => count <= Threshold - 1 + Cardinality(Worker)

\* Without a restart or an outage a login locks the account only after
\* Threshold wrong passwords within the last Window (the INCR and EXPIRE of
\* _record_failed_attempt).
LockNeedsBurst ==
    Healthy => \A w \in Worker : job[w].step = "lock" => job[w].recent >= Threshold

\* The wrong passwords tried within one Window, over any number of outages and
\* restarts: those before and after the end of a counter's window in Redis, and
\* those of one counter in the memory of each worker and each restarted one.
WrongGuessesBounded ==
    Recent(fails) <= 2 * Threshold - 3 + Threshold * (Cardinality(Worker) + crashes)
==============================================================================
