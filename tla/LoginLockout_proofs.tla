-------------------------- MODULE LoginLockout_proofs --------------------------
(***************************************************************************)
(* The lockout for every number of workers, every threshold, window and    *)
(* length of a lock, and any number of guesses, outages and restarts.      *)
(***************************************************************************)
EXTENDS LoginLockout, FiniteSetTheorems, SequenceTheorems, TLAPS

Expiring(w) == job[w].step = "expire"

\* Nothing is counted twice in one place.
CountsGuessed ==
    /\ count <= guesses
    /\ \A w \in Worker : memCount[w] + (IF Expiring(w) THEN 1 ELSE 0) <= guesses

Typed == TypeOK /\ CountsGuessed

------------------------------------------------------------------------------
(* What the counter stands for *)

\* The tick that the counter's window starts with; the present one for a
\* counter that has no window yet, or is still to come.
Born == IF count = 0 \/ countUntil = NoTtl THEN now ELSE countUntil - Window

\* A counter that has not been given its window was created in this tick.
BornNow == (\E w \in Worker : Expiring(w)) => Born = now

CounterAlive ==
    /\ count > 0 => now < countUntil
    /\ count > 0 /\ countUntil # NoTtl => countUntil <= now + Window

\* No wrong password is noted for a tick that is still to come.
TriesPast == \A i \in DOMAIN fails : fails[i] <= now

Since(tries, b) == {i \in DOMAIN tries : b <= tries[i]}

------------------------------------------------------------------------------
(* Without outages and restarts *)

\* Somebody is about to give the counter its window.
WindowComes == count > 0 /\ countUntil = NoTtl => \E w \in Worker : Expiring(w)

CountIsBurst == count > 0 => count <= Cardinality(Since(fails, Born))

\* A lock on which somebody still works was set in this tick.
LockIsFresh == now < lockUntil /\ (\E w \in Worker : job[w] # Rest) => now + Short <= lockUntil

\* The lock is set and outlives the counter.
LockCovers == now < lockUntil /\ (countUntil = NoTtl \/ countUntil <= lockUntil)

\* Workers that count no more: about to lock, or they will find the lock.
Done == {w \in Worker : job[w].step = "lock" \/ (job[w].step # "verify" /\ LockCovers)}

OvershootDone == Threshold <= count => count <= Threshold - 1 + Cardinality(Done)

QuietInv ==
    Healthy => /\ redisUp /\ WindowComes /\ CountIsBurst /\ LockIsFresh /\ OvershootDone
               /\ LockNeedsBurst

------------------------------------------------------------------------------
(* Wrong passwords since a tick b of the present window *)

\* Those before the counter was born: an earlier one's, but for its first.
Earlier(b) == IF b < Born THEN Threshold - 2 ELSE 0

Present(b) ==
    IF count = 0 THEN 0
    ELSE (IF count < Threshold THEN count ELSE Threshold - 1) - (IF Born < b THEN 1 ELSE 0)

\* The worker is about to lock, or locked since b.
Locking(w, b) == job[w].step = "lock" \/ b + Short <= memLock[w]

\* What each worker has tried: Threshold - 1 guesses its memory counted and the
\* one that locked.
Spent(b) ==
    {x \in Worker \X (1..Threshold) :
        IF x[2] < Threshold THEN x[2] <= memCount[x[1]] ELSE Locking(x[1], b)}

Tried(b) ==
    Cardinality(Since(fails, b)) <=
        Earlier(b) + Present(b) + Cardinality(Spent(b)) + Threshold * crashes

GuessInv ==
    /\ \A b \in (now - Window + 1)..now : Tried(b)
    /\ \A w \in Worker : job[w].step = "verify" => memLock[w] = 0

LockoutInv == Typed /\ TriesPast /\ BornNow /\ CounterAlive /\ QuietInv /\ GuessInv

------------------------------------------------------------------------------
(* Numbers and sets *)

LEMMA Numbers ==
    /\ Threshold \in Nat /\ LongThreshold \in Nat /\ 1 < Threshold
    /\ Window \in Nat /\ 0 < Window /\ Short \in Nat /\ Long \in Nat
    /\ Window < Short /\ Short < Long
    /\ MaxTime \in Nat /\ MaxGuesses \in Nat /\ MaxOutages \in Nat /\ MaxCrashes \in Nat
    /\ NoTtl \in Nat /\ MaxTime + Window < NoTtl
<1>1. /\ Threshold \in Nat /\ LongThreshold \in Nat /\ 1 < Threshold
      /\ Window \in Nat \ {0} /\ Short \in Nat /\ Long \in Nat
      /\ Window < Short /\ Short < Long
      /\ MaxTime \in Nat /\ MaxGuesses \in Nat /\ MaxOutages \in Nat /\ MaxCrashes \in Nat
  BY ConstantsAssumption
<1>. QED BY <1>1 DEF NoTtl

LEMMA IntervalCounted ==
    ASSUME NEW n \in Nat
    PROVE  IsFiniteSet(1..n) /\ Cardinality(1..n) = n
BY FS_Interval

LEMMA TicksAreNumbers ==
    ASSUME NEW f \in Seq(0..MaxTime)
    PROVE  \A i \in DOMAIN f : f[i] \in 0..MaxTime /\ f[i] \in Int
<1>1. DOMAIN f = 1..Len(f)
  OBVIOUS
<1>2. \A i \in DOMAIN f : f[i] \in 0..MaxTime
  BY <1>1, ElementOfSeq
<1>. QED BY <1>2, Numbers

LEMMA SinceCounted ==
    ASSUME NEW f \in Seq(0..MaxTime), NEW b \in Int
    PROVE  /\ IsFiniteSet(Since(f, b)) /\ Cardinality(Since(f, b)) \in Nat
           /\ Cardinality(Since(f, b)) <= Len(f)
<1>1. Since(f, b) \in SUBSET (1..Len(f)) /\ Len(f) \in Nat
  BY DEF Since
<1>2. IsFiniteSet(1..Len(f)) /\ Cardinality(1..Len(f)) = Len(f)
  BY <1>1, IntervalCounted
<1>. QED BY <1>1, <1>2, FS_Subset, FS_CardinalityType

LEMMA OneMore ==
    ASSUME NEW f \in Seq(0..MaxTime), NEW t \in 0..MaxTime, NEW b \in Int, b <= t
    PROVE  Cardinality(Since(Append(f, t), b)) = Cardinality(Since(f, b)) + 1
<1>1. Len(f) \in Nat /\ DOMAIN f = 1..Len(f)
  OBVIOUS
<1>2. /\ DOMAIN Append(f, t) = 1..(Len(f) + 1)
      /\ Append(f, t)[Len(f) + 1] = t
      /\ \A i \in 1..Len(f) : Append(f, t)[i] = f[i]
  BY <1>1
<1>3. Since(Append(f, t), b) = Since(f, b) \cup {Len(f) + 1}
  BY <1>1, <1>2 DEF Since
<1>4. Len(f) + 1 \notin Since(f, b)
  BY <1>1 DEF Since
<1>. QED BY <1>3, <1>4, SinceCounted, FS_AddElement

\* Nothing was tried in a tick that is still to come.
LEMMA NoneToCome ==
    ASSUME NEW f \in Seq(0..MaxTime), NEW b \in Int, \A i \in DOMAIN f : f[i] < b
    PROVE  Cardinality(Since(f, b)) = 0
<1>1. \A i \in DOMAIN f : f[i] \in Int
  BY TicksAreNumbers
<1>2. Since(f, b) = {}
  BY <1>1 DEF Since
<1>. QED BY <1>2, FS_EmptySet

\* Fewer were tried since a later tick.
LEMMA SinceLater ==
    ASSUME NEW f \in Seq(0..MaxTime), NEW b \in Int, NEW c \in Int, b <= c
    PROVE  Cardinality(Since(f, c)) <= Cardinality(Since(f, b))
<1>1. \A i \in DOMAIN f : f[i] \in Int
  BY TicksAreNumbers
<1>2. Since(f, c) \in SUBSET Since(f, b)
  BY <1>1 DEF Since
<1>. QED BY <1>2, SinceCounted, FS_Subset

LEMMA RecentSince ==
    ASSUME NEW f \in Seq(0..MaxTime), now \in 0..MaxTime
    PROVE  Recent(f) = Cardinality(Since(f, now - Window + 1))
<1>1. \A i \in DOMAIN f : f[i] \in Int
  BY TicksAreNumbers
<1>2. {i \in DOMAIN f : now - Window < f[i]} = Since(f, now - Window + 1)
  BY <1>1, Numbers DEF Since
<1>. QED BY <1>2 DEF Recent

\* What the workers have spent.
Share == Worker \X (1..Threshold)

LEMMA SharesCounted ==
    ASSUME NEW S \in SUBSET Share
    PROVE  /\ IsFiniteSet(S) /\ Cardinality(S) \in Nat
           /\ Cardinality(S) <= Cardinality(Worker) * Threshold
           /\ Cardinality(Worker) \in Nat
<1>1. IsFiniteSet(1..Threshold) /\ Cardinality(1..Threshold) = Threshold
  BY Numbers, IntervalCounted
<1>2. IsFiniteSet(Share) /\ Cardinality(Share) = Cardinality(Worker) * Threshold
  BY <1>1, FiniteWorkers, FS_Product DEF Share
<1>. QED BY <1>2, FiniteWorkers, FS_Subset, FS_CardinalityType

LEMMA SharesGrow ==
    ASSUME NEW S \in SUBSET Share, NEW T \in SUBSET Share, S \subseteq T
    PROVE  /\ Cardinality(S) <= Cardinality(T)
           /\ \A x \in T : x \notin S => Cardinality(S) + 1 <= Cardinality(T)
<1>1. Cardinality(S) <= Cardinality(T)
  BY SharesCounted, FS_Subset
<1>2. ASSUME NEW x \in T, x \notin S PROVE Cardinality(S) + 1 <= Cardinality(T)
  <2>1. S \cup {x} \in SUBSET T /\ Cardinality(S \cup {x}) = Cardinality(S) + 1
    BY <1>2, SharesCounted, FS_AddElement
  <2>. QED BY <2>1, SharesCounted, FS_Subset
<1>. QED BY <1>1, <1>2

LEMMA SpentShare ==
    /\ \A b : Spent(b) \in SUBSET Share
    /\ \A b : Spent(b)' \in SUBSET Share
BY DEF Spent, Share

\* A worker that dies loses Threshold of them at most.
LEMMA SharesLost ==
    ASSUME NEW S \in SUBSET Share, NEW T \in SUBSET Share, NEW w \in Worker,
           S \ ({w} \X (1..Threshold)) \subseteq T
    PROVE  Cardinality(S) <= Cardinality(T) + Threshold
<1>. DEFINE own == {w} \X (1..Threshold)
<1>1. IsFiniteSet(1..Threshold) /\ Cardinality(1..Threshold) = Threshold
  BY Numbers, IntervalCounted
<1>2. IsFiniteSet({w}) /\ Cardinality({w}) = 1
  BY FS_Singleton
<1>. DEFINE parts == 1..Threshold
<1>. HIDE DEF parts
<1>3. IsFiniteSet(own) /\ Cardinality(own) = 1 * Threshold
  <2>1. /\ IsFiniteSet({w} \X parts)
        /\ Cardinality({w} \X parts) = Cardinality({w}) * Cardinality(parts)
    BY <1>1, <1>2, FS_Product DEF parts
  <2>. QED BY <1>1, <1>2, <2>1 DEF parts
<1>4. Cardinality(own) = Threshold
  BY <1>3, Numbers
<1>5. S \in SUBSET (T \cup own)
  OBVIOUS
<1>. HIDE DEF own
<1>6. /\ IsFiniteSet(T \cup own)
      /\ Cardinality(T \cup own) = Cardinality(T) + Cardinality(own) - Cardinality(T \cap own)
  BY <1>3, SharesCounted, FS_Union
<1>7. T \cap own \in SUBSET Share /\ Cardinality(T \cap own) \in Nat
  BY SharesCounted
<1>8. Cardinality(S) <= Cardinality(T \cup own)
  BY <1>5, <1>6, FS_Subset
<1>. QED BY <1>4, <1>6, <1>7, <1>8, SharesCounted, Numbers

------------------------------------------------------------------------------
(* What a login does to its own worker *)

LEMMA JobStep ==
    ASSUME Typed, NEW w \in Worker, NEW x \in {Rest} \cup Job, job' = [job EXCEPT ![w] = x]
    PROVE  /\ job' \in [Worker -> {Rest} \cup Job]
           /\ \A v \in Worker : job'[v] = IF v = w THEN x ELSE job[v]
BY DEF Typed, TypeOK

LEMMA TriesGrow ==
    ASSUME Typed, fails' = Append(fails, now), guesses < MaxGuesses, guesses' = guesses + 1
    PROVE  /\ fails' \in Seq(0..MaxTime) /\ Len(fails') <= guesses' /\ guesses' \in 0..MaxGuesses
           /\ Recent(fails') \in 0..MaxGuesses
<1>. USE Numbers DEF Typed, TypeOK
<1>1. fails' \in Seq(0..MaxTime) /\ Len(fails') = Len(fails) + 1
  OBVIOUS
<1>2. Len(fails') <= guesses' /\ guesses' \in 0..MaxGuesses /\ Len(fails') \in Nat
  BY <1>1
<1>3. now - Window + 1 \in Int
  OBVIOUS
<1>4. Recent(fails') \in Nat /\ Recent(fails') <= Len(fails')
  BY <1>1, <1>3, RecentSince, SinceCounted
<1>. QED BY <1>1, <1>2, <1>4

LEMMA CountedInRedis ==
    ASSUME Typed, NEW w \in Worker, CountInRedis(w)
    PROVE  /\ job[w].step = "verify" /\ redisUp /\ guesses < MaxGuesses
           /\ count' = count + 1 /\ countUntil' = (IF count = 0 THEN NoTtl ELSE countUntil)
           /\ fails' = Append(fails, now) /\ guesses' = guesses + 1
           /\ UNCHANGED <<now, env, lockUntil, memory>>
           /\ \E x \in {Rest} \cup Job :
                  /\ job' = [job EXCEPT ![w] = x]
                  /\ count = 0 => x.step = "expire"
                  /\ count # 0 /\ count + 1 < Threshold => x = Rest
                  /\ count + 1 >= Threshold => x.step = "lock" /\ x.recent = Recent(fails')
<1>. USE DEF CountInRedis, Counted
<1>1. /\ job[w].step = "verify" /\ redisUp /\ guesses < MaxGuesses
      /\ count' = count + 1 /\ countUntil' = (IF count = 0 THEN NoTtl ELSE countUntil)
      /\ fails' = Append(fails, now) /\ guesses' = guesses + 1
      /\ UNCHANGED <<now, env, lockUntil, memory>>
  OBVIOUS
<1>2. Recent(fails') \in 0..MaxGuesses /\ count \in Nat /\ count + 1 <= MaxGuesses
  BY <1>1, TriesGrow, Numbers DEF Typed, TypeOK, CountsGuessed
<1>. DEFINE n == count + 1
<1>3. CASE count = 0
  <2>. DEFINE x == [step |-> "expire", attempts |-> n, recent |-> Recent(fails')]
  <2>1. job' = [job EXCEPT ![w] = x]
    BY <1>3
  <2>2. x \in Job /\ x.step = "expire"
    BY <1>2, <1>3 DEF Job
  <2>3. ~(count + 1 >= Threshold)
    BY <1>3, Numbers
  <2>. HIDE DEF x, CountInRedis, Counted
  <2>. QED BY <1>1, <1>3, <2>1, <2>2, <2>3
<1>4. CASE count # 0 /\ n < Threshold
  <2>1. job' = [job EXCEPT ![w] = Rest]
    BY <1>2, <1>4, Numbers DEF Finish
  <2>2. ~(count + 1 >= Threshold)
    BY <1>2, <1>4, Numbers
  <2>. QED BY <1>1, <1>4, <2>1, <2>2
<1>5. CASE count # 0 /\ n >= Threshold
  <2>. DEFINE x == [step |-> "lock", attempts |-> n, recent |-> Recent(fails')]
  <2>1. job' = [job EXCEPT ![w] = x]
    BY <1>2, <1>5, Numbers
  <2>2. n \in Threshold..MaxGuesses
    BY <1>2, <1>5, Numbers
  <2>3. x \in Job /\ x.step = "lock" /\ x.recent = Recent(fails')
    BY <1>2, <2>2 DEF Job
  <2>4. ~(count + 1 < Threshold)
    BY <1>2, <1>5, Numbers
  <2>. HIDE DEF x, CountInRedis, Counted
  <2>. QED BY <1>1, <1>5, <2>1, <2>3, <2>4
<1>. QED BY <1>2, <1>3, <1>4, <1>5, Numbers

LEMMA CountedInMemory ==
    ASSUME Typed, NEW w \in Worker, CountInMemory(w)
    PROVE  /\ job[w].step = "verify" /\ ~redisUp /\ guesses < MaxGuesses
           /\ memCount' = [memCount EXCEPT ![w] = memCount[w] + 1]
           /\ fails' = Append(fails, now) /\ guesses' = guesses + 1
           /\ UNCHANGED <<now, env, keys, memLock>>
           /\ \E x \in {Rest} \cup Job :
                  /\ job' = [job EXCEPT ![w] = x]
                  /\ memCount[w] + 1 < Threshold => x = Rest
                  /\ memCount[w] + 1 >= Threshold => x.step = "lock"
<1>. USE DEF CountInMemory, Counted
<1>1. /\ job[w].step = "verify" /\ ~redisUp /\ guesses < MaxGuesses
      /\ memCount' = [memCount EXCEPT ![w] = memCount[w] + 1]
      /\ fails' = Append(fails, now) /\ guesses' = guesses + 1
      /\ UNCHANGED <<now, env, keys, memLock>>
  OBVIOUS
<1>. DEFINE n == memCount[w] + 1
<1>2. memCount[w] \in Nat /\ memCount[w] <= guesses /\ guesses \in Nat
  <2>1. memCount[w] \in Nat /\ guesses \in Nat
    BY Numbers DEF Typed, TypeOK
  <2>2. memCount[w] + (IF Expiring(w) THEN 1 ELSE 0) <= guesses /\ ~Expiring(w)
    BY <1>1 DEF Typed, CountsGuessed, Expiring
  <2>. QED BY <2>1, <2>2
<1>3. Recent(fails') \in 0..MaxGuesses /\ n \in 0..MaxGuesses
  BY <1>1, <1>2, TriesGrow, Numbers
<1>4. CASE n < Threshold
  <2>1. job' = [job EXCEPT ![w] = Rest]
    BY <1>2, <1>4, Numbers DEF Finish
  <2>2. ~(memCount[w] + 1 >= Threshold)
    BY <1>2, <1>4, Numbers
  <2>. QED BY <1>1, <2>1, <2>2
<1>5. CASE n >= Threshold
  <2>. DEFINE x == [step |-> "lock", attempts |-> n, recent |-> Recent(fails')]
  <2>1. job' = [job EXCEPT ![w] = x]
    BY <1>2, <1>5, Numbers
  <2>2. n \in Threshold..MaxGuesses
    BY <1>3, <1>5, Numbers
  <2>3. x \in Job /\ x.step = "lock"
    BY <1>3, <2>2 DEF Job
  <2>4. ~(memCount[w] + 1 < Threshold)
    BY <1>2, <1>5, Numbers
  <2>. HIDE DEF x, CountInMemory, Counted
  <2>. QED BY <1>1, <2>1, <2>3, <2>4
<1>6. n < Threshold \/ n >= Threshold
  BY <1>2, Numbers
<1>. QED BY <1>4, <1>5, <1>6

\* EXPIRE raises.
LEMMA ExpiredInMemory ==
    ASSUME Typed, NEW w \in Worker, ExpireCounter(w), ~redisUp
    PROVE  /\ Expiring(w)
           /\ memCount' = [memCount EXCEPT ![w] = memCount[w] + 1]
           /\ UNCHANGED <<now, env, keys, memLock, history>>
           /\ \E x \in {Rest} \cup Job :
                  /\ job' = [job EXCEPT ![w] = x]
                  /\ x.step \in {"rest", "lock"}
<1>. USE DEF ExpireCounter
<1>1. /\ Expiring(w) /\ memCount' = [memCount EXCEPT ![w] = memCount[w] + 1]
      /\ UNCHANGED <<now, env, keys, memLock, history>>
  BY DEF Expiring, keys
<1>. DEFINE n == memCount[w] + 1
<1>2. memCount[w] \in Nat /\ n <= guesses /\ guesses \in Nat /\ guesses <= MaxGuesses
  BY <1>1, Numbers DEF Typed, TypeOK, CountsGuessed
<1>3. job[w] \in Job /\ job[w].step = "expire"
  BY <1>1 DEF Typed, TypeOK, Expiring, Rest
<1>4. job[w].recent \in 0..MaxGuesses
  BY <1>3 DEF Job
<1>5. CASE n < Threshold
  <2>1. job' = [job EXCEPT ![w] = Rest]
    BY <1>2, <1>5, Numbers DEF Finish
  <2>2. Rest.step = "rest"
    BY DEF Rest
  <2>. HIDE DEF ExpireCounter
  <2>. QED BY <1>1, <2>1, <2>2
<1>6. CASE ~(n < Threshold)
  <2>. DEFINE x == [step |-> "lock", attempts |-> n, recent |-> job[w].recent]
  <2>1. job' = [job EXCEPT ![w] = x]
    BY <1>6
  <2>2. n \in Threshold..MaxGuesses
    BY <1>2, <1>6, Numbers
  <2>3. x \in Job /\ x.step = "lock"
    BY <1>4, <2>2 DEF Job
  <2>. QED BY <1>1, <2>1, <2>3
<1>. QED BY <1>5, <1>6

------------------------------------------------------------------------------
(* Types and counts *)

LEMMA CheckTyped == ASSUME Typed, NEW w \in Worker, Check(w) PROVE Typed'
<1>. USE DEF Check
<1>1. [step |-> "verify"] \in {Rest} \cup Job
  BY DEF Job
<1>2. /\ job' \in [Worker -> {Rest} \cup Job]
      /\ \A v \in Worker : Expiring(v)' => Expiring(v)
  BY <1>1, JobStep DEF Expiring
<1>3. memLock' \in [Worker -> 0..(MaxTime + Long)]
  BY Numbers DEF Typed, TypeOK
<1>4. TypeOK'
  BY <1>2, <1>3 DEF Typed, TypeOK, env, keys, history
<1>5. \A v \in Worker : memCount[v] + (IF Expiring(v)' THEN 1 ELSE 0) <= guesses
  <2>. SUFFICES ASSUME NEW v \in Worker
                PROVE  memCount[v] + (IF Expiring(v)' THEN 1 ELSE 0) <= guesses
    OBVIOUS
  <2>1. /\ memCount[v] \in Nat /\ guesses \in Nat
        /\ memCount[v] + (IF Expiring(v) THEN 1 ELSE 0) <= guesses
    BY Numbers DEF Typed, TypeOK, CountsGuessed
  <2>. QED BY <1>2, <2>1
<1>. QED BY <1>4, <1>5 DEF Typed, CountsGuessed, keys, history

LEMMA InRedisTyped == ASSUME Typed, NEW w \in Worker, CountInRedis(w) PROVE Typed'
<1>1. /\ guesses < MaxGuesses /\ count' = count + 1
      /\ countUntil' = (IF count = 0 THEN NoTtl ELSE countUntil)
      /\ fails' = Append(fails, now) /\ guesses' = guesses + 1
      /\ UNCHANGED <<now, env, lockUntil, memory>>
  BY CountedInRedis
<1>2. PICK x \in {Rest} \cup Job : job' = [job EXCEPT ![w] = x]
  BY CountedInRedis
<1>3. /\ job' \in [Worker -> {Rest} \cup Job]
      /\ \A v \in Worker : v # w => job'[v] = job[v]
  BY <1>2, JobStep
<1>4. job[w].step = "verify"
  BY CountedInRedis
<1>5. /\ fails' \in Seq(0..MaxTime) /\ Len(fails') <= guesses' /\ guesses' \in 0..MaxGuesses
  BY <1>1, TriesGrow
<1>6. count \in Nat /\ count <= guesses /\ guesses \in Nat
  BY Numbers DEF Typed, TypeOK, CountsGuessed
<1>7. count' \in 0..MaxGuesses /\ countUntil' \in 0..NoTtl /\ count' <= guesses'
  BY <1>1, <1>6, Numbers DEF Typed, TypeOK
<1>8. TypeOK'
  BY <1>1, <1>3, <1>5, <1>7 DEF Typed, TypeOK, env, memory
<1>9. \A v \in Worker : memCount[v] + (IF Expiring(v)' THEN 1 ELSE 0) <= guesses'
  <2>. SUFFICES ASSUME NEW v \in Worker
                PROVE  memCount[v] + (IF Expiring(v)' THEN 1 ELSE 0) <= guesses'
    OBVIOUS
  <2>1. /\ memCount[v] \in Nat
        /\ memCount[v] + (IF Expiring(v) THEN 1 ELSE 0) <= guesses
    BY Numbers DEF Typed, TypeOK, CountsGuessed
  <2>2. memCount[v] <= guesses
    BY <1>6, <2>1
  <2>. QED BY <1>1, <1>6, <2>1, <2>2
<1>. QED BY <1>1, <1>7, <1>8, <1>9 DEF Typed, CountsGuessed, memory

LEMMA InMemoryTyped == ASSUME Typed, NEW w \in Worker, CountInMemory(w) PROVE Typed'
<1>1. /\ guesses < MaxGuesses /\ memCount' = [memCount EXCEPT ![w] = memCount[w] + 1]
      /\ fails' = Append(fails, now) /\ guesses' = guesses + 1
      /\ UNCHANGED <<now, env, keys, memLock>>
  BY CountedInMemory
<1>2. PICK x \in {Rest} \cup Job :
          /\ job' = [job EXCEPT ![w] = x]
          /\ memCount[w] + 1 < Threshold => x = Rest
          /\ memCount[w] + 1 >= Threshold => x.step = "lock"
  BY CountedInMemory
<1>3. /\ job' \in [Worker -> {Rest} \cup Job]
      /\ \A v \in Worker : job'[v] = IF v = w THEN x ELSE job[v]
  BY <1>2, JobStep
<1>4. /\ fails' \in Seq(0..MaxTime) /\ Len(fails') <= guesses' /\ guesses' \in 0..MaxGuesses
  BY <1>1, TriesGrow
<1>5. \A v \in Worker : /\ memCount[v] \in Nat
                        /\ memCount[v] + (IF Expiring(v) THEN 1 ELSE 0) <= guesses
  BY Numbers DEF Typed, TypeOK, CountsGuessed
<1>6. /\ guesses \in Nat /\ guesses + 1 <= MaxGuesses /\ MaxGuesses \in Nat
      /\ count \in Nat /\ count <= guesses
  BY <1>1, Numbers DEF Typed, TypeOK, CountsGuessed
<1>7. memCount[w] + 1 \in 0..MaxGuesses
  BY <1>5, <1>6
<1>8. memCount' \in [Worker -> 0..MaxGuesses]
  BY <1>1, <1>7 DEF Typed, TypeOK
<1>9. TypeOK'
  BY <1>1, <1>3, <1>4, <1>8 DEF Typed, TypeOK, env, keys
<1>10. x.step # "expire"
  <2>1. memCount[w] + 1 < Threshold \/ memCount[w] + 1 >= Threshold
    BY <1>5, Numbers
  <2>. QED BY <1>2, <2>1 DEF Rest
<1>11. ~Expiring(w)' /\ \A v \in Worker : v # w => (Expiring(v)' <=> Expiring(v))
  BY <1>3, <1>10 DEF Expiring
<1>12. ASSUME NEW v \in Worker
       PROVE  memCount'[v] + (IF Expiring(v)' THEN 1 ELSE 0) <= guesses'
  <2>1. CASE v = w
    <3>1. memCount'[v] = memCount[w] + 1
      BY <1>1, <2>1 DEF Typed, TypeOK
    <3>2. memCount[w] \in Nat /\ memCount[w] <= guesses
      BY <1>5, <1>6
    <3>. QED BY <1>1, <1>6, <1>11, <2>1, <3>1, <3>2
  <2>2. CASE v # w
    <3>1. memCount'[v] = memCount[v]
      BY <1>1, <2>2 DEF Typed, TypeOK
    <3>. QED BY <1>1, <1>5, <1>6, <1>11, <2>2, <3>1
  <2>. QED BY <2>1, <2>2
<1>13. count' <= guesses'
  BY <1>1, <1>6 DEF keys
<1>. QED BY <1>9, <1>12, <1>13 DEF Typed, CountsGuessed

LEMMA ExpireTyped == ASSUME Typed, NEW w \in Worker, ExpireCounter(w) PROVE Typed'
<1>1. \A v \in Worker : /\ memCount[v] \in Nat
                        /\ memCount[v] + (IF Expiring(v) THEN 1 ELSE 0) <= guesses
  BY Numbers DEF Typed, TypeOK, CountsGuessed
<1>2. guesses \in Nat /\ guesses <= MaxGuesses /\ count <= guesses /\ MaxGuesses \in Nat
  BY Numbers DEF Typed, TypeOK, CountsGuessed
<1>3. CASE redisUp
  <2>1. /\ job' = [job EXCEPT ![w] = Rest]
        /\ countUntil' = (IF count > 0 THEN now + Window ELSE countUntil)
        /\ UNCHANGED <<now, env, count, lockUntil, memory, history>>
    BY <1>3 DEF ExpireCounter, Finish, memory
  <2>2. /\ job' \in [Worker -> {Rest} \cup Job]
        /\ \A v \in Worker : job'[v] = IF v = w THEN Rest ELSE job[v]
    BY <2>1, JobStep
  <2>3. countUntil' \in 0..NoTtl
    BY <2>1, Numbers DEF Typed, TypeOK
  <2>4. TypeOK'
    BY <2>1, <2>2, <2>3 DEF Typed, TypeOK, env, memory, history
  <2>5. \A v \in Worker : Expiring(v)' => Expiring(v)
    BY <2>2 DEF Expiring, Rest
  <2>6. \A v \in Worker : memCount[v] + (IF Expiring(v)' THEN 1 ELSE 0) <= guesses
    BY <1>1, <1>2, <2>5
  <2>. QED BY <1>2, <2>1, <2>4, <2>6 DEF Typed, CountsGuessed, memory, history
<1>4. CASE ~redisUp
  <2>1. /\ Expiring(w) /\ memCount' = [memCount EXCEPT ![w] = memCount[w] + 1]
        /\ UNCHANGED <<now, env, keys, memLock, history>>
    BY <1>4, ExpiredInMemory
  <2>2. PICK x \in {Rest} \cup Job :
            job' = [job EXCEPT ![w] = x] /\ x.step \in {"rest", "lock"}
    BY <1>4, ExpiredInMemory
  <2>3. /\ job' \in [Worker -> {Rest} \cup Job]
        /\ \A v \in Worker : job'[v] = IF v = w THEN x ELSE job[v]
    BY <2>2, JobStep
  <2>4. memCount[w] + 1 \in 0..MaxGuesses /\ memCount[w] + 1 <= guesses
    BY <1>1, <1>2, <2>1
  <2>5. memCount' \in [Worker -> 0..MaxGuesses]
    BY <2>1, <2>4 DEF Typed, TypeOK
  <2>6. TypeOK'
    BY <2>1, <2>3, <2>5 DEF Typed, TypeOK, env, keys, history
  <2>7. ~Expiring(w)' /\ \A v \in Worker : v # w => (Expiring(v)' <=> Expiring(v))
    BY <2>2, <2>3 DEF Expiring
  <2>8. ASSUME NEW v \in Worker
        PROVE  memCount'[v] + (IF Expiring(v)' THEN 1 ELSE 0) <= guesses
    <3>1. CASE v = w
      <4>1. memCount'[v] = memCount[w] + 1
        BY <2>1, <3>1 DEF Typed, TypeOK
      <4>. QED BY <1>1, <1>2, <2>4, <2>7, <3>1, <4>1
    <3>2. CASE v # w
      <4>1. memCount'[v] = memCount[v]
        BY <2>1, <3>2 DEF Typed, TypeOK
      <4>. QED BY <1>1, <1>2, <2>7, <3>2, <4>1
    <3>. QED BY <3>1, <3>2
  <2>. QED BY <1>2, <2>1, <2>6, <2>8 DEF Typed, CountsGuessed, keys, history
<1>. QED BY <1>3, <1>4

\* The lock that a worker sets.
LEMMA LockLength ==
    ASSUME Typed, NEW w \in Worker, SetLock(w)
    PROVE  \E until \in 0..(MaxTime + Long) :
               /\ now + Short <= until
               /\ lockUntil' = (IF redisUp THEN until ELSE lockUntil)
               /\ memLock' = [memLock EXCEPT ![w] = until]
<1>. DEFINE length == IF job[w].attempts < LongThreshold THEN Short ELSE Long
            until == now + length
<1>1. until \in 0..(MaxTime + Long) /\ now + Short <= until
  BY Numbers DEF Typed, TypeOK
<1>2. /\ lockUntil' = (IF redisUp THEN until ELSE lockUntil)
      /\ memLock' = [memLock EXCEPT ![w] = until]
  BY DEF SetLock
<1>. HIDE DEF until
<1>. QED BY <1>1, <1>2

LEMMA LockTyped == ASSUME Typed, NEW w \in Worker, SetLock(w) PROVE Typed'
<1>1. PICK until \in 0..(MaxTime + Long) :
          /\ lockUntil' = (IF redisUp THEN until ELSE lockUntil)
          /\ memLock' = [memLock EXCEPT ![w] = until]
  BY LockLength
<1>2. /\ job' = [job EXCEPT ![w] = Rest]
      /\ UNCHANGED <<now, env, count, countUntil, memCount, fails, guesses>>
  BY DEF SetLock, Finish
<1>3. /\ job' \in [Worker -> {Rest} \cup Job]
      /\ \A v \in Worker : job'[v] = IF v = w THEN Rest ELSE job[v]
  BY <1>2, JobStep
<1>4. lockUntil' \in 0..(MaxTime + Long) /\ memLock' \in [Worker -> 0..(MaxTime + Long)]
  BY <1>1 DEF Typed, TypeOK
<1>5. TypeOK'
  BY <1>2, <1>3, <1>4 DEF Typed, TypeOK, env
<1>6. \A v \in Worker : Expiring(v)' => Expiring(v)
  BY <1>3 DEF Expiring, Rest
<1>7. \A v \in Worker : /\ memCount[v] \in Nat /\ guesses \in Nat
                        /\ memCount[v] + (IF Expiring(v) THEN 1 ELSE 0) <= guesses
  BY Numbers DEF Typed, TypeOK, CountsGuessed
<1>8. \A v \in Worker : memCount[v] + (IF Expiring(v)' THEN 1 ELSE 0) <= guesses
  BY <1>6, <1>7
<1>. QED BY <1>2, <1>5, <1>8 DEF Typed, CountsGuessed

\* After a clearing, by a login that succeeds or a reset.
LEMMA ClearTyped ==
    ASSUME Typed, NEW w \in Worker, Succeed(w) \/ Unlock(w)
    PROVE  Typed'
<1>1. Clear(w) /\ UNCHANGED <<now, env, countUntil, guesses>>
  BY DEF Succeed, Unlock
<1>2. \/ job' = [job EXCEPT ![w] = Rest]
      \/ job' = job /\ job[w] = Rest
  BY DEF Succeed, Unlock, Finish
<1>3. /\ job' \in [Worker -> {Rest} \cup Job]
      /\ \A v \in Worker : job'[v] = IF v = w THEN Rest ELSE job[v]
  BY <1>2, JobStep DEF Typed, TypeOK
<1>4. /\ lockUntil' \in 0..(MaxTime + Long) /\ memLock' \in [Worker -> 0..(MaxTime + Long)]
      /\ memCount' \in [Worker -> 0..MaxGuesses] /\ count' \in 0..MaxGuesses
  BY <1>1, Numbers DEF Clear, Typed, TypeOK
<1>5. fails' \in Seq(0..MaxTime) /\ Len(fails') = 0 /\ guesses \in Nat
  BY <1>1, Numbers DEF Clear, Typed, TypeOK
<1>6. TypeOK'
  BY <1>1, <1>3, <1>4, <1>5 DEF Typed, TypeOK, env
<1>7. count' <= guesses
  BY <1>1, <1>5 DEF Clear, Typed, CountsGuessed
<1>8. ~Expiring(w)' /\ \A v \in Worker : v # w => (Expiring(v)' <=> Expiring(v))
  BY <1>3 DEF Expiring, Rest
<1>9. \A v \in Worker : memCount'[v] = IF v = w THEN 0 ELSE memCount[v]
  BY <1>1 DEF Clear, Typed, TypeOK
<1>10. \A v \in Worker : /\ memCount[v] \in Nat
                         /\ memCount[v] + (IF Expiring(v) THEN 1 ELSE 0) <= guesses
  BY Numbers DEF Typed, TypeOK, CountsGuessed
<1>11. \A v \in Worker : memCount'[v] + (IF Expiring(v)' THEN 1 ELSE 0) <= guesses
  BY <1>5, <1>8, <1>9, <1>10
<1>. QED BY <1>1, <1>6, <1>7, <1>11 DEF Typed, CountsGuessed

LEMMA CrashTyped == ASSUME Typed, NEW w \in Worker, Crash(w) PROVE Typed'
<1>1. /\ job' = [job EXCEPT ![w] = Rest] /\ crashes' = crashes + 1 /\ crashes < MaxCrashes
      /\ memCount' = [memCount EXCEPT ![w] = 0] /\ memLock' = [memLock EXCEPT ![w] = 0]
      /\ UNCHANGED <<now, redisUp, outages, keys, history>>
  BY DEF Crash, Finish
<1>3. /\ job' \in [Worker -> {Rest} \cup Job]
      /\ \A v \in Worker : job'[v] = IF v = w THEN Rest ELSE job[v]
  BY <1>1, JobStep
<1>4. /\ memLock' \in [Worker -> 0..(MaxTime + Long)]
      /\ memCount' \in [Worker -> 0..MaxGuesses]
  BY <1>1, Numbers DEF Typed, TypeOK
<1>5. crashes' \in 0..MaxCrashes
  BY <1>1, Numbers DEF Typed, TypeOK
<1>6. TypeOK'
  BY <1>1, <1>3, <1>4, <1>5 DEF Typed, TypeOK, keys, history
<1>8. ~Expiring(w)' /\ \A v \in Worker : v # w => (Expiring(v)' <=> Expiring(v))
  BY <1>3 DEF Expiring, Rest
<1>9. \A v \in Worker : memCount'[v] = IF v = w THEN 0 ELSE memCount[v]
  BY <1>1 DEF Typed, TypeOK
<1>10. guesses \in Nat /\ \A v \in Worker : /\ memCount[v] \in Nat
                         /\ memCount[v] + (IF Expiring(v) THEN 1 ELSE 0) <= guesses
  BY Numbers DEF Typed, TypeOK, CountsGuessed
<1>11. \A v \in Worker : memCount'[v] + (IF Expiring(v)' THEN 1 ELSE 0) <= guesses
  BY <1>8, <1>9, <1>10
<1>. QED BY <1>1, <1>6, <1>11 DEF Typed, CountsGuessed, keys, history

\* The clock and Redis.
LEMMA WorldTyped ==
    ASSUME Typed, Tick \/ RedisFails \/ RedisRecovers \/ UNCHANGED vars
    PROVE  Typed'
<1>1. UNCHANGED <<countUntil, lockUntil, memory, job, history>>
  BY DEF Tick, RedisFails, RedisRecovers, vars, keys
<1>2. now' \in 0..MaxTime /\ count' \in {0, count}
  BY Numbers DEF Tick, RedisFails, RedisRecovers, vars, keys, Typed, TypeOK
<1>3. redisUp' \in BOOLEAN
  BY DEF Tick, RedisFails, RedisRecovers, vars, env, Typed, TypeOK
<1>4. outages' \in 0..MaxOutages /\ crashes' \in 0..MaxCrashes
  BY Numbers DEF Tick, RedisFails, RedisRecovers, vars, env, Typed, TypeOK
<1>5. /\ count' \in 0..MaxGuesses /\ count' <= guesses
      /\ guesses \in Nat
  BY <1>2, Numbers DEF Typed, TypeOK, CountsGuessed
<1>6. TypeOK'
  BY <1>1, <1>2, <1>3, <1>4, <1>5 DEF Typed, TypeOK, memory, history
<1>. QED BY <1>1, <1>5, <1>6 DEF Typed, CountsGuessed, Expiring, memory, history

------------------------------------------------------------------------------
(* The window of the counter *)

LEMMA BornLately ==
    ASSUME Typed, CounterAlive
    PROVE  /\ Born \in Int /\ now - Window < Born /\ Born <= now
           /\ now \in Nat /\ count \in Nat /\ countUntil \in Nat /\ now <= MaxTime
BY Numbers DEF Typed, TypeOK, CounterAlive, Born

LEMMA CounterAtRest ==
    ASSUME BornNow, CounterAlive, UNCHANGED <<now, count, countUntil>>,
           \A v \in Worker : Expiring(v)' => Expiring(v)
    PROVE  BornNow' /\ CounterAlive' /\ Born' = Born
BY DEF BornNow, CounterAlive, Born

\* What a step does to the jobs of the workers.
LEMMA JobsMove ==
    ASSUME Typed, NEW w \in Worker,
           Check(w) \/ CountInMemory(w) \/ SetLock(w) \/ Crash(w) \/ Succeed(w) \/ Unlock(w)
           \/ (ExpireCounter(w) /\ ~redisUp)
    PROVE  \A v \in Worker : /\ Expiring(v)' => Expiring(v)
                             /\ v # w => job'[v] = job[v]
<1>1. CASE Check(w)
  <2>1. [step |-> "verify"] \in {Rest} \cup Job
    BY DEF Job
  <2>. QED BY <1>1, <2>1, JobStep DEF Check, Expiring
<1>2. CASE CountInMemory(w)
  <2>1. PICK x \in {Rest} \cup Job :
            /\ job' = [job EXCEPT ![w] = x]
            /\ memCount[w] + 1 < Threshold => x = Rest
            /\ memCount[w] + 1 >= Threshold => x.step = "lock"
    BY <1>2, CountedInMemory
  <2>2. memCount[w] + 1 < Threshold \/ memCount[w] + 1 >= Threshold
    BY Numbers DEF Typed, TypeOK
  <2>3. x.step # "expire"
    BY <2>1, <2>2 DEF Rest
  <2>. QED BY <2>1, <2>3, JobStep DEF Expiring
<1>3. CASE SetLock(w) \/ Crash(w) \/ Succeed(w)
  <2>1. job' = [job EXCEPT ![w] = Rest]
    BY <1>3 DEF SetLock, Crash, Succeed, Finish
  <2>. QED BY <2>1, JobStep DEF Expiring, Rest
<1>4. CASE Unlock(w)
  BY <1>4 DEF Unlock, Expiring
<1>5. CASE ExpireCounter(w) /\ ~redisUp
  <2>1. PICK x \in {Rest} \cup Job :
            job' = [job EXCEPT ![w] = x] /\ x.step \in {"rest", "lock"}
    BY <1>5, ExpiredInMemory
  <2>. QED BY <2>1, JobStep DEF Expiring
<1>. QED BY <1>1, <1>2, <1>3, <1>4, <1>5

LEMMA InRedisBorn ==
    ASSUME Typed, BornNow, CounterAlive, NEW w \in Worker, CountInRedis(w)
    PROVE  BornNow' /\ CounterAlive' /\ Born' = Born
<1>1. /\ count' = count + 1 /\ countUntil' = (IF count = 0 THEN NoTtl ELSE countUntil)
      /\ now' = now
  BY CountedInRedis
<1>2. PICK x \in {Rest} \cup Job :
          /\ job' = [job EXCEPT ![w] = x]
          /\ count # 0 /\ count + 1 < Threshold => x = Rest
          /\ count + 1 >= Threshold => x.step = "lock" /\ x.recent = Recent(fails')
  BY CountedInRedis
<1>3. \A v \in Worker : job'[v] = IF v = w THEN x ELSE job[v]
  BY <1>2, JobStep
<1>4. CASE count = 0
  <2>1. Born' = now /\ Born = now
    BY <1>1, <1>4 DEF Born
  <2>2. CounterAlive'
    BY <1>1, <1>4, Numbers DEF CounterAlive, Typed, TypeOK
  <2>. QED BY <1>1, <2>1, <2>2 DEF BornNow
<1>5. CASE count # 0
  <2>1. count \in Nat /\ (count + 1 < Threshold \/ count + 1 >= Threshold)
    BY Numbers DEF Typed, TypeOK
  <2>2. x.step # "expire"
    BY <1>2, <1>5, <2>1 DEF Rest
  <2>3. \A v \in Worker : Expiring(v)' => Expiring(v)
    BY <1>3, <2>2 DEF Expiring
  <2>4. count' # 0 /\ count > 0
    BY <1>1, <1>5, <2>1
  <2>5. Born' = Born
    BY <1>1, <1>5, <2>4 DEF Born
  <2>6. CounterAlive'
    BY <1>1, <1>5, <2>4 DEF CounterAlive
  <2>. QED BY <1>1, <2>3, <2>5, <2>6 DEF BornNow
<1>. QED BY <1>4, <1>5

LEMMA ExpireBorn ==
    ASSUME Typed, BornNow, CounterAlive, NEW w \in Worker, ExpireCounter(w), redisUp
    PROVE  /\ BornNow' /\ CounterAlive' /\ Born' = Born /\ Born = now
           /\ Expiring(w) /\ job' = [job EXCEPT ![w] = Rest]
           /\ countUntil' = (IF count > 0 THEN now + Window ELSE countUntil)
           /\ UNCHANGED <<now, env, count, lockUntil, memory, history>>
<1>1. /\ Expiring(w) /\ job' = [job EXCEPT ![w] = Rest]
      /\ countUntil' = (IF count > 0 THEN now + Window ELSE countUntil)
      /\ UNCHANGED <<now, env, count, lockUntil, memory, history>>
  BY DEF ExpireCounter, Finish, memory, Expiring
<1>2. Born = now
  BY <1>1 DEF BornNow
<1>3. Born' = now
  BY <1>1, Numbers DEF Born, Typed, TypeOK
<1>4. CounterAlive'
  BY <1>1, Numbers DEF CounterAlive, Typed, TypeOK
<1>. QED BY <1>1, <1>2, <1>3, <1>4 DEF BornNow

LEMMA TickBorn ==
    ASSUME Typed, BornNow, CounterAlive, Tick
    PROVE  /\ BornNow' /\ CounterAlive'
           /\ now' = now + 1 /\ now' \in 0..MaxTime
           /\ \A v \in Worker : job[v] = Rest
           /\ count' \in {0, count}
           /\ count' = 0 /\ count # 0 => countUntil = now' /\ Born = now' - Window
           /\ count' # 0 => count' = count /\ now' < countUntil
           /\ UNCHANGED <<env, countUntil, lockUntil, memory, job, history>>
<1>1. /\ now' = now + 1 /\ now < MaxTime /\ \A v \in Worker : job[v] = Rest
      /\ count' = (IF countUntil <= now + 1 THEN 0 ELSE count)
      /\ UNCHANGED <<env, countUntil, lockUntil, memory, job, history>>
  BY DEF Tick
<1>2. now' \in 0..MaxTime
  BY <1>1, Numbers DEF Typed, TypeOK
<1>3. BornNow'
  BY <1>1 DEF BornNow, Expiring, Rest
<1>4. CounterAlive'
  BY <1>1, Numbers DEF CounterAlive, Typed, TypeOK
<1>5. count' = 0 /\ count # 0 => countUntil = now' /\ Born = now' - Window
  BY <1>1, Numbers DEF CounterAlive, Typed, TypeOK, Born
<1>6. count' # 0 => count' = count /\ now' < countUntil
  BY <1>1, Numbers DEF Typed, TypeOK
<1>. QED BY <1>1, <1>2, <1>3, <1>4, <1>5, <1>6

\* A clearing takes the counter as a whole, or leaves it.
LEMMA ClearBorn ==
    ASSUME Typed, BornNow, CounterAlive, NEW w \in Worker, Succeed(w) \/ Unlock(w)
    PROVE  /\ BornNow' /\ CounterAlive'
           /\ redisUp => count' = 0 /\ lockUntil' = 0
           /\ fails' = <<>> /\ UNCHANGED <<now, env, countUntil>>
<1>1. /\ count' = (IF redisUp THEN 0 ELSE count) /\ fails' = <<>>
      /\ redisUp => lockUntil' = 0
      /\ UNCHANGED <<now, env, countUntil>>
  BY DEF Succeed, Unlock, Clear
<1>2. \A v \in Worker : Expiring(v)' => Expiring(v)
  BY JobsMove
<1>3. CASE redisUp
  BY <1>1, <1>3 DEF BornNow, Born, CounterAlive
<1>4. CASE ~redisUp
  BY <1>1, <1>2, <1>4, CounterAtRest
<1>. QED BY <1>1, <1>3, <1>4

------------------------------------------------------------------------------
(* Without outages and restarts *)

LEMMA DoneCounted ==
    /\ IsFiniteSet(Done) /\ Cardinality(Done) \in Nat
    /\ Cardinality(Done) <= Cardinality(Worker) /\ Cardinality(Worker) \in Nat
<1>1. Done \in SUBSET Worker
  BY DEF Done
<1>. QED BY <1>1, FiniteWorkers, FS_Subset, FS_CardinalityType

LEMMA DoneGrows ==
    ASSUME NEW S \in SUBSET Worker, NEW T \in SUBSET Worker, S \subseteq T
    PROVE  /\ Cardinality(S) \in Nat /\ Cardinality(T) \in Nat
           /\ Cardinality(S) <= Cardinality(T)
           /\ \A w \in T : w \notin S => Cardinality(S) + 1 <= Cardinality(T)
<1>1. IsFiniteSet(S) /\ IsFiniteSet(T) /\ Cardinality(S) \in Nat /\ Cardinality(T) \in Nat
  BY FiniteWorkers, FS_Subset, FS_CardinalityType
<1>2. Cardinality(S) <= Cardinality(T)
  BY <1>1, FS_Subset
<1>3. ASSUME NEW w \in T, w \notin S PROVE Cardinality(S) + 1 <= Cardinality(T)
  <2>1. S \cup {w} \in SUBSET T /\ Cardinality(S \cup {w}) = Cardinality(S) + 1
    BY <1>1, <1>3, FS_AddElement
  <2>. QED BY <1>1, <2>1, FS_Subset
<1>. QED BY <1>1, <1>2, <1>3

\* Steps that leave the keys in Redis alone.
LEMMA KeysAtRest ==
    ASSUME Typed, QuietInv,
           UNCHANGED <<now, redisUp, outages, crashes, count, countUntil, lockUntil, fails>>,
           Healthy => WindowComes' /\ LockIsFresh' /\ LockNeedsBurst' /\ Done \subseteq Done'
    PROVE  QuietInv'
<1>. SUFFICES ASSUME Healthy'
              PROVE  (/\ redisUp /\ WindowComes /\ CountIsBurst /\ LockIsFresh
                      /\ OvershootDone /\ LockNeedsBurst)'
  BY DEF QuietInv
<1>1. Healthy
  BY DEF Healthy
<1>2. redisUp' /\ WindowComes' /\ LockIsFresh' /\ LockNeedsBurst'
  BY <1>1 DEF QuietInv
<1>3. CountIsBurst'
  BY <1>1 DEF QuietInv, CountIsBurst, Since, Born
<1>4. Done \in SUBSET Worker /\ Done' \in SUBSET Worker /\ Done \subseteq Done'
  BY <1>1 DEF Done
<1>5. Cardinality(Done) <= Cardinality(Done') /\ Cardinality(Done) \in Nat /\ Cardinality(Done') \in Nat
  BY ONLY <1>4, DoneGrows
<1>6. Threshold <= count => count <= Threshold - 1 + Cardinality(Done)
  BY <1>1 DEF QuietInv, OvershootDone
<1>7. ASSUME Threshold <= count' PROVE count' <= Threshold - 1 + Cardinality(Done')
  <2>1. count <= Threshold - 1 + Cardinality(Done) /\ count' = count
    BY <1>1, <1>6, <1>7
  <2>2. count \in Nat
    BY Numbers DEF Typed, TypeOK
  <2>. QED BY <1>5, <2>1, <2>2, Numbers
<1>8. OvershootDone'
  BY <1>7 DEF OvershootDone
<1>. QED BY <1>2, <1>3, <1>8

LEMMA CheckQuiet ==
    ASSUME Typed, QuietInv, NEW w \in Worker, Check(w)
    PROVE  QuietInv'
<1>1. /\ job' = [job EXCEPT ![w] = [step |-> "verify"]] /\ job[w] = Rest /\ ~Locked(w)
      /\ UNCHANGED <<now, redisUp, outages, crashes, count, countUntil, lockUntil, fails>>
  BY DEF Check, env, keys, history
<1>2. [step |-> "verify"] \in {Rest} \cup Job
  BY DEF Job
<1>3. \A v \in Worker : job'[v] = IF v = w THEN [step |-> "verify"] ELSE job[v]
  BY <1>1, <1>2, JobStep
<1>. SUFFICES ASSUME Healthy
              PROVE  WindowComes' /\ LockIsFresh' /\ LockNeedsBurst' /\ Done \subseteq Done'
  BY <1>1, KeysAtRest
<1>4. redisUp /\ ~(now < lockUntil)
  BY <1>1 DEF QuietInv, Locked
<1>5. LockIsFresh' /\ Done \subseteq Done'
  BY <1>1, <1>3, <1>4 DEF LockIsFresh, Done, LockCovers, Rest
<1>6. WindowComes' /\ LockNeedsBurst'
  BY <1>1, <1>3 DEF QuietInv, WindowComes, LockNeedsBurst, Healthy, Expiring, Rest
<1>. QED BY <1>5, <1>6

LEMMA LockQuiet ==
    ASSUME Typed, CounterAlive, QuietInv, NEW w \in Worker, SetLock(w)
    PROVE  QuietInv'
<1>1. /\ job' = [job EXCEPT ![w] = Rest] /\ job[w].step = "lock"
      /\ UNCHANGED <<now, redisUp, outages, crashes, count, countUntil, fails>>
  BY DEF SetLock, Finish, env
<1>2. \A v \in Worker : job'[v] = IF v = w THEN Rest ELSE job[v]
  BY <1>1, JobStep
<1>. SUFFICES ASSUME Healthy, Healthy'
              PROVE  (/\ redisUp /\ WindowComes /\ CountIsBurst /\ LockIsFresh
                      /\ OvershootDone /\ LockNeedsBurst)'
  BY <1>1 DEF QuietInv, Healthy
<1>3. redisUp /\ WindowComes /\ CountIsBurst /\ LockIsFresh /\ OvershootDone /\ LockNeedsBurst
  BY DEF QuietInv
<1>4. lockUntil' \in Nat /\ now + Short <= lockUntil' /\ now \in Nat
  <2>1. PICK until \in 0..(MaxTime + Long) :
            /\ now + Short <= until
            /\ lockUntil' = (IF redisUp THEN until ELSE lockUntil)
    BY LockLength
  <2>. QED BY <1>3, <2>1, Numbers DEF Typed, TypeOK
<1>5. redisUp' /\ CountIsBurst'
  BY <1>1, <1>3 DEF CountIsBurst, Since, Born
<1>6. WindowComes' /\ LockNeedsBurst'
  BY <1>1, <1>2, <1>3 DEF WindowComes, LockNeedsBurst, Expiring, Rest, Healthy
<1>7. LockIsFresh'
  BY <1>1, <1>4 DEF LockIsFresh
<1>8. ASSUME Threshold <= count' PROVE count' <= Threshold - 1 + Cardinality(Done')
  <2>1. count > 0 /\ countUntil \in Nat /\ count \in Nat
    BY <1>1, <1>8, Numbers DEF Typed, TypeOK
  <2>2. LockCovers'
    BY <1>1, <1>4, <2>1, Numbers DEF LockCovers, CounterAlive
  <2>3. Done \in SUBSET Worker /\ Done' \in SUBSET Worker /\ Done \subseteq Done'
    BY <1>2, <2>2 DEF Done, Rest
  <2>4. Cardinality(Done) <= Cardinality(Done') /\ Cardinality(Done) \in Nat
        /\ Cardinality(Done') \in Nat
    BY ONLY <2>3, DoneGrows
  <2>5. count <= Threshold - 1 + Cardinality(Done) /\ count' = count
    BY <1>1, <1>3, <1>8 DEF OvershootDone
  <2>. QED BY <2>1, <2>4, <2>5, Numbers
<1>9. OvershootDone'
  BY <1>8 DEF OvershootDone
<1>. QED BY <1>5, <1>6, <1>7, <1>9

LEMMA ClearQuiet ==
    ASSUME Typed, BornNow, CounterAlive, QuietInv, NEW w \in Worker, Succeed(w) \/ Unlock(w)
    PROVE  QuietInv'
<1>1. /\ redisUp => count' = 0 /\ lockUntil' = 0
      /\ UNCHANGED <<now, redisUp, outages, crashes>>
  BY ClearBorn DEF env
<1>. SUFFICES ASSUME Healthy, Healthy'
              PROVE  (/\ redisUp /\ WindowComes /\ CountIsBurst /\ LockIsFresh
                      /\ OvershootDone /\ LockNeedsBurst)'
  BY <1>1 DEF QuietInv, Healthy
<1>2. redisUp /\ LockNeedsBurst
  BY DEF QuietInv
<1>3. redisUp' /\ WindowComes' /\ CountIsBurst'
  BY <1>1, <1>2 DEF WindowComes, CountIsBurst
<1>4. LockIsFresh' /\ OvershootDone'
  BY <1>1, <1>2, Numbers DEF LockIsFresh, OvershootDone, Typed, TypeOK
<1>5. LockNeedsBurst'
  <2>1. \/ job' = [job EXCEPT ![w] = Rest]
        \/ job' = job
    BY DEF Succeed, Unlock, Finish
  <2>2. \A v \in Worker : job'[v] = job[v] \/ job'[v].step = "rest"
    <3>1. CASE job' = [job EXCEPT ![w] = Rest]
      BY <3>1, JobStep DEF Rest
    <3>2. CASE job' = job
      BY <3>2
    <3>. QED BY <2>1, <3>1, <3>2
  <2>3. \A v \in Worker : job[v].step = "lock" => job[v].recent >= Threshold
    BY <1>2 DEF LockNeedsBurst
  <2>4. \A v \in Worker : job'[v].step = "lock" => job'[v].recent >= Threshold
    BY <2>2, <2>3
  <2>. QED BY <2>4 DEF LockNeedsBurst
<1>. QED BY <1>3, <1>4, <1>5

LEMMA InRedisQuiet ==
    ASSUME Typed, BornNow, CounterAlive, QuietInv, NEW w \in Worker, CountInRedis(w)
    PROVE  QuietInv'
<1>1. /\ job[w].step = "verify" /\ count' = count + 1 /\ fails' = Append(fails, now)
      /\ countUntil' = (IF count = 0 THEN NoTtl ELSE countUntil)
      /\ UNCHANGED <<now, redisUp, outages, crashes, lockUntil>>
      /\ guesses < MaxGuesses /\ guesses' = guesses + 1
  BY CountedInRedis DEF env
<1>2. PICK x \in {Rest} \cup Job :
          /\ job' = [job EXCEPT ![w] = x]
          /\ count = 0 => x.step = "expire"
          /\ count # 0 /\ count + 1 < Threshold => x = Rest
          /\ count + 1 >= Threshold => x.step = "lock" /\ x.recent = Recent(fails')
  BY CountedInRedis
<1>3. \A v \in Worker : job'[v] = IF v = w THEN x ELSE job[v]
  BY <1>2, JobStep
<1>. SUFFICES ASSUME Healthy, Healthy'
              PROVE  (/\ redisUp /\ WindowComes /\ CountIsBurst /\ LockIsFresh
                      /\ OvershootDone /\ LockNeedsBurst)'
  BY <1>1 DEF QuietInv, Healthy
<1>4. redisUp /\ WindowComes /\ CountIsBurst /\ LockIsFresh /\ OvershootDone /\ LockNeedsBurst
  BY DEF QuietInv
<1>5. /\ Born' = Born /\ Born \in Int /\ now - Window < Born /\ Born <= now
      /\ count \in Nat /\ now \in 0..MaxTime
  BY InRedisBorn, BornLately, Numbers
<1>6. fails \in Seq(0..MaxTime) /\ fails' \in Seq(0..MaxTime)
  BY <1>1, TriesGrow DEF Typed, TypeOK
<1>7. WindowComes'
  <2>1. CASE count = 0
    <3>1. Expiring(w)'
      BY <1>2, <1>3, <2>1 DEF Expiring
    <3>. QED BY <3>1 DEF WindowComes
  <2>2. CASE count # 0 /\ countUntil = NoTtl
    <3>1. PICK v \in Worker : Expiring(v)
      BY <1>4, <1>5, <2>2 DEF WindowComes
    <3>2. Expiring(v)'
      BY <1>1, <1>3, <3>1 DEF Expiring
    <3>. QED BY <3>2 DEF WindowComes
  <2>3. CASE count # 0 /\ countUntil # NoTtl
    BY <1>1, <2>3 DEF WindowComes
  <2>. QED BY <2>1, <2>2, <2>3
<1>8. Cardinality(Since(fails', Born)) = Cardinality(Since(fails, Born)) + 1
  BY <1>1, <1>5, <1>6, OneMore
<1>9. count' <= Cardinality(Since(fails', Born'))
  <2>1. Cardinality(Since(fails, Born)) \in Nat
    BY <1>5, <1>6, SinceCounted
  <2>2. count <= Cardinality(Since(fails, Born))
    BY <1>4, <1>5, <2>1 DEF CountIsBurst
  <2>. QED BY <1>1, <1>5, <1>8, <2>1, <2>2
<1>10. CountIsBurst'
  BY <1>9 DEF CountIsBurst
<1>11. LockIsFresh'
  BY <1>1, <1>4 DEF LockIsFresh, Rest
<1>12. LockNeedsBurst'
  <2>1. ASSUME count + 1 >= Threshold PROVE Recent(fails') >= Threshold
    <3>1. now - Window + 1 \in Int /\ now - Window + 1 <= Born
      BY <1>5, Numbers
    <3>2. Cardinality(Since(fails', Born)) <= Recent(fails') /\ Recent(fails') \in Nat
      BY <1>5, <1>6, <3>1, SinceLater, SinceCounted, RecentSince
    <3>3. Cardinality(Since(fails', Born)) \in Nat
      BY <1>5, <1>6, SinceCounted
    <3>. QED BY <1>1, <1>5, <1>9, <2>1, <3>2, <3>3, Numbers
  <2>2. x.step = "lock" => count + 1 >= Threshold
    <3>1. count + 1 < Threshold \/ count + 1 >= Threshold
      BY <1>5, Numbers
    <3>. QED BY <1>2, <3>1 DEF Rest
  <2>3. x.step = "lock" => x.recent >= Threshold
    BY <1>2, <2>1, <2>2
  <2>4. \A v \in Worker : job[v].step = "lock" => job[v].recent >= Threshold
    BY <1>4 DEF LockNeedsBurst
  <2>5. \A v \in Worker : job'[v].step = "lock" => job'[v].recent >= Threshold
    BY <1>3, <2>3, <2>4
  <2>. QED BY <2>5 DEF LockNeedsBurst
<1>13. ASSUME Threshold <= count' PROVE count' <= Threshold - 1 + Cardinality(Done')
  <2>1. count # 0 /\ count + 1 >= Threshold
    BY <1>1, <1>5, <1>13, Numbers
  <2>2. LockCovers' <=> LockCovers
    BY <1>1, <2>1 DEF LockCovers
  <2>3. x.step = "lock"
    BY <1>2, <2>1
  <2>4. Done \in SUBSET Worker /\ Done' \in SUBSET Worker /\ Done \subseteq Done'
    BY <1>1, <1>3, <2>2, <2>3 DEF Done
  <2>5. w \in Done' /\ w \notin Done
    BY <1>1, <1>3, <2>3 DEF Done
  <2>6. /\ Cardinality(Done) \in Nat /\ Cardinality(Done') \in Nat
        /\ Cardinality(Done) + 1 <= Cardinality(Done')
    BY ONLY <2>4, <2>5, DoneGrows
  <2>7. count <= Threshold - 1 + Cardinality(Done)
    <3>1. CASE Threshold <= count
      BY <1>4, <3>1 DEF OvershootDone
    <3>2. CASE ~(Threshold <= count)
      BY <1>5, <2>6, <3>2, Numbers
    <3>. QED BY <3>1, <3>2
  <2>. QED BY <1>1, <1>5, <2>6, <2>7, Numbers
<1>14. OvershootDone'
  BY <1>13 DEF OvershootDone
<1>. QED BY <1>1, <1>4, <1>7, <1>10, <1>11, <1>12, <1>14

LEMMA ExpireQuiet ==
    ASSUME Typed, BornNow, CounterAlive, QuietInv, NEW w \in Worker, ExpireCounter(w), redisUp
    PROVE  QuietInv'
<1>1. /\ Born' = Born /\ Expiring(w) /\ job' = [job EXCEPT ![w] = Rest]
      /\ countUntil' = (IF count > 0 THEN now + Window ELSE countUntil)
      /\ UNCHANGED <<now, redisUp, outages, crashes, count, lockUntil, fails>>
  BY ExpireBorn DEF env, history
<1>2. \A v \in Worker : job'[v] = IF v = w THEN Rest ELSE job[v]
  BY <1>1, JobStep
<1>. SUFFICES ASSUME Healthy, Healthy'
              PROVE  (/\ redisUp /\ WindowComes /\ CountIsBurst /\ LockIsFresh
                      /\ OvershootDone /\ LockNeedsBurst)'
  BY <1>1 DEF QuietInv, Healthy
<1>3. redisUp /\ WindowComes /\ CountIsBurst /\ LockIsFresh /\ OvershootDone /\ LockNeedsBurst
  BY DEF QuietInv
<1>4. now \in 0..MaxTime /\ count \in Nat /\ lockUntil \in Nat
  BY Numbers DEF Typed, TypeOK
<1>5. WindowComes'
  BY <1>1, <1>4, Numbers DEF WindowComes
<1>6. CountIsBurst'
  BY <1>1, <1>3 DEF CountIsBurst, Since
<1>7. job[w] # Rest
  BY <1>1 DEF Expiring, Rest
<1>8. LockIsFresh'
  BY <1>1, <1>2, <1>3, <1>7 DEF LockIsFresh
<1>9. LockNeedsBurst'
  <2>1. \A v \in Worker : job[v].step = "lock" => job[v].recent >= Threshold
    BY <1>3 DEF LockNeedsBurst
  <2>2. Rest.step # "lock"
    BY DEF Rest
  <2>3. \A v \in Worker : job'[v].step = "lock" => job'[v].recent >= Threshold
    BY <1>2, <2>1, <2>2
  <2>. QED BY <2>3 DEF LockNeedsBurst
<1>10. ASSUME Threshold <= count' PROVE count' <= Threshold - 1 + Cardinality(Done')
  <2>0. count > 0
    BY <1>1, <1>4, <1>10, Numbers
  <2>1. count > 0 /\ countUntil' = now + Window
    BY <1>1, <2>0
  <2>2. LockCovers => LockCovers'
    BY <1>1, <1>3, <1>4, <1>7, <2>1, Numbers DEF LockCovers, LockIsFresh
  <2>3. Done \in SUBSET Worker /\ Done' \in SUBSET Worker /\ Done \subseteq Done'
    BY <1>1, <1>2, <2>2 DEF Done, Rest, Expiring
  <2>4. Cardinality(Done) <= Cardinality(Done') /\ Cardinality(Done) \in Nat
        /\ Cardinality(Done') \in Nat
    BY ONLY <2>3, DoneGrows
  <2>5. count <= Threshold - 1 + Cardinality(Done) /\ count' = count
    BY <1>1, <1>3, <1>10 DEF OvershootDone
  <2>. QED BY <1>4, <2>4, <2>5, Numbers
<1>11. OvershootDone'
  BY <1>10 DEF OvershootDone
<1>. QED BY <1>1, <1>3, <1>5, <1>6, <1>8, <1>9, <1>11

LEMMA TickQuiet ==
    ASSUME Typed, BornNow, CounterAlive, QuietInv, Tick
    PROVE  QuietInv'
<1>1. /\ now' = now + 1 /\ \A v \in Worker : job[v] = Rest
      /\ count' \in {0, count}
      /\ count' # 0 => count' = count /\ now' < countUntil
      /\ UNCHANGED <<redisUp, outages, crashes, countUntil, lockUntil, job, fails>>
  BY TickBorn DEF env, history
<1>. SUFFICES ASSUME Healthy, Healthy'
              PROVE  (/\ redisUp /\ WindowComes /\ CountIsBurst /\ LockIsFresh
                      /\ OvershootDone /\ LockNeedsBurst)'
  BY <1>1 DEF QuietInv, Healthy
<1>2. redisUp /\ WindowComes /\ CountIsBurst /\ LockIsFresh /\ OvershootDone /\ LockNeedsBurst
  BY DEF QuietInv
<1>3. now \in Nat /\ count \in Nat /\ count' \in Nat /\ lockUntil \in Nat /\ countUntil \in Nat
  BY <1>1, Numbers DEF Typed, TypeOK
<1>4. count' # 0 => countUntil # NoTtl /\ Born' = Born
  <2>. SUFFICES ASSUME count' # 0 PROVE countUntil # NoTtl /\ Born' = Born
    OBVIOUS
  <2>1. count > 0 /\ count' = count
    BY <1>1, <1>3
  <2>2. countUntil # NoTtl
    BY <1>1, <1>2, <2>1 DEF WindowComes, Expiring, Rest
  <2>. QED BY <1>1, <2>1, <2>2 DEF Born
<1>5. WindowComes'
  BY <1>1, <1>3, <1>4 DEF WindowComes
<1>6. CountIsBurst'
  <2>. SUFFICES ASSUME count' > 0 PROVE count' <= Cardinality(Since(fails', Born'))
    BY DEF CountIsBurst
  <2>1. count' = count /\ Born' = Born /\ fails' = fails
    BY <1>1, <1>3, <1>4
  <2>. QED BY <1>2, <1>3, <2>1 DEF CountIsBurst
<1>7. LockIsFresh'
  BY <1>1 DEF LockIsFresh
<1>8. LockNeedsBurst'
  BY <1>1 DEF LockNeedsBurst, Rest
<1>9. ASSUME Threshold <= count' PROVE count' <= Threshold - 1 + Cardinality(Done')
  <2>1. count' = count /\ count > 0 /\ now' < countUntil /\ countUntil # NoTtl
    BY <1>1, <1>3, <1>4, <1>9, Numbers
  <2>2. count <= Threshold - 1 + Cardinality(Done)
    BY <1>2, <1>9, <2>1 DEF OvershootDone
  <2>3. Done # {}
    <3>1. Cardinality({}) = 0
      BY FS_EmptySet
    <3>2. Threshold <= Threshold - 1 + Cardinality(Done) /\ Cardinality(Done) \in Nat
      BY <1>3, <1>9, <2>1, <2>2, DoneCounted, Numbers
    <3>. QED BY <3>1, <3>2, Numbers
  <2>4. LockCovers
    BY <1>1, <2>3 DEF Done, Rest
  <2>5. LockCovers'
    BY <1>1, <1>3, <2>1, <2>4 DEF LockCovers
  <2>6. Done' = Done
    BY <1>1, <2>4, <2>5 DEF Done
  <2>. QED BY <2>1, <2>2, <2>6
<1>10. OvershootDone'
  BY <1>9 DEF OvershootDone
<1>. QED BY <1>1, <1>2, <1>5, <1>6, <1>7, <1>8, <1>10

\* Redis raises only after an outage began.
LEMMA TroubledQuiet ==
    ASSUME Typed, QuietInv,
           \/ \E w \in Worker : CountInMemory(w) \/ Crash(w) \/ (ExpireCounter(w) /\ ~redisUp)
           \/ RedisFails \/ RedisRecovers \/ UNCHANGED vars
    PROVE  QuietInv'
<1>1. CASE \/ \E w \in Worker : CountInMemory(w) \/ (ExpireCounter(w) /\ ~redisUp)
           \/ RedisRecovers
  <2>1. ~redisUp
    BY <1>1 DEF CountInMemory, RedisRecovers
  <2>2. outages' = outages /\ crashes' = crashes
    BY <1>1 DEF CountInMemory, RedisRecovers, ExpireCounter, env
  <2>. QED BY <2>1, <2>2 DEF QuietInv, Healthy
<1>2. CASE RedisFails
  <2>1. outages' = outages + 1 /\ outages \in Nat
    BY <1>2, Numbers DEF RedisFails, Typed, TypeOK
  <2>. QED BY <2>1 DEF QuietInv, Healthy
<1>3. CASE \E w \in Worker : Crash(w)
  <2>1. crashes' = crashes + 1 /\ crashes \in Nat
    BY <1>3, Numbers DEF Crash, Typed, TypeOK
  <2>. QED BY <2>1 DEF QuietInv, Healthy
<1>4. CASE UNCHANGED vars
  <2>1. Done' = Done
    BY <1>4 DEF vars, keys, Done, LockCovers
  <2>. QED BY <1>4, <2>1 DEF vars, env, keys, history, QuietInv, Healthy, WindowComes, CountIsBurst, LockIsFresh,
              OvershootDone, LockNeedsBurst, Expiring, Since, Born
<1>. QED BY <1>1, <1>2, <1>3, <1>4

------------------------------------------------------------------------------
(* Wrong passwords within a window *)

\* The ticks of the window.
Ticks == (now - Window + 1)..now

LEMMA TickSpan ==
    ASSUME Typed
    PROVE  /\ now \in Nat /\ now - Window + 1 \in Int
           /\ \A b \in Ticks : b \in Int /\ b <= now /\ now - Window < b /\ 0 < b + Short
BY Numbers DEF Typed, TypeOK, Ticks

LEMMA PartsAreNumbers ==
    ASSUME Typed, CounterAlive, NEW b \in Int
    PROVE  /\ Earlier(b) \in Nat /\ Present(b) \in Nat /\ Cardinality(Spent(b)) \in Nat
           /\ Threshold * crashes \in Nat /\ Cardinality(Since(fails, b)) \in Nat
           /\ Earlier(b) + Present(b) <= 2 * Threshold - 3
<1>1. count \in Nat /\ crashes \in Nat /\ fails \in Seq(0..MaxTime) /\ Born \in Int
  BY BornLately, Numbers DEF Typed, TypeOK
<1>2. Earlier(b) \in Nat /\ Present(b) \in Nat
  BY <1>1, Numbers DEF Earlier, Present
<1>3. Earlier(b) + Present(b) <= 2 * Threshold - 3
  BY <1>1, Numbers DEF Earlier, Present
<1>4. Cardinality(Spent(b)) \in Nat
  BY SpentShare, SharesCounted
<1>5. Cardinality(Since(fails, b)) \in Nat
  BY <1>1, SinceCounted
<1>6. Threshold * crashes \in Nat
  BY <1>1, Numbers
<1>. QED BY <1>2, <1>3, <1>4, <1>5, <1>6

\* What the parts of a bound and the guesses that they cover gain.
LEMMA BoundKept ==
    ASSUME NEW s \in Nat, NEW e \in Nat, NEW p \in Nat, NEW q \in Nat, NEW c \in Nat,
           NEW f \in Nat, NEW g \in Nat, NEW r \in Nat, s <= e + p + q + c
    PROVE  /\ e + p <= f + g /\ q <= r => s <= f + g + r + c
           /\ e + p + 1 <= f + g /\ q <= r => s + 1 <= f + g + r + c
           /\ e + p <= f + g /\ q + 1 <= r => s + 1 <= f + g + r + c
OBVIOUS

\* No new guess, and nothing that was spent is forgotten.
LEMMA TriedKept ==
    ASSUME Typed, CounterAlive, NEW b \in Int, Tried(b),
           UNCHANGED <<fails, crashes>>, Spent(b) \subseteq Spent(b)',
           Earlier(b)' \in Nat, Present(b)' \in Nat,
           Earlier(b) + Present(b) <= Earlier(b)' + Present(b)'
    PROVE  Tried(b)'
<1>1. /\ Cardinality(Spent(b)) <= Cardinality(Spent(b)')
      /\ Cardinality(Spent(b)') \in Nat
  BY SpentShare, SharesGrow, SharesCounted
<1>2. Cardinality(Since(fails, b)) <= Earlier(b) + Present(b) + Cardinality(Spent(b)) + Threshold * crashes
  BY DEF Tried
<1>3. /\ Earlier(b) \in Nat /\ Present(b) \in Nat /\ Cardinality(Spent(b)) \in Nat
      /\ Threshold * crashes \in Nat /\ Cardinality(Since(fails, b)) \in Nat
  BY PartsAreNumbers
<1>4. Cardinality(Since(fails, b)) <=
        Earlier(b)' + Present(b)' + Cardinality(Spent(b)') + Threshold * crashes
  BY <1>1, <1>2, <1>3, BoundKept
<1>5. Cardinality(Since(fails', b)) <= Earlier(b)' + Present(b)' + Cardinality(Spent(b)') + Threshold * crashes'
  BY <1>3, <1>4
<1>. QED BY <1>5 DEF Tried

\* A new guess is covered by the counter ...
LEMMA TriedInRedis ==
    ASSUME Typed, CounterAlive, NEW b \in Int, Tried(b), b <= now,
           fails' = Append(fails, now), crashes' = crashes, Spent(b) \subseteq Spent(b)',
           Earlier(b)' \in Nat, Present(b)' \in Nat,
           Earlier(b) + Present(b) + 1 <= Earlier(b)' + Present(b)'
    PROVE  Tried(b)'
<1>1. /\ Cardinality(Spent(b)) <= Cardinality(Spent(b)')
      /\ Cardinality(Spent(b)') \in Nat
  BY SpentShare, SharesGrow, SharesCounted
<1>2. Cardinality(Since(fails', b)) = Cardinality(Since(fails, b)) + 1
  BY OneMore DEF Typed, TypeOK
<1>3. Cardinality(Since(fails, b)) <= Earlier(b) + Present(b) + Cardinality(Spent(b)) + Threshold * crashes
  BY DEF Tried
<1>4. /\ Earlier(b) \in Nat /\ Present(b) \in Nat /\ Cardinality(Spent(b)) \in Nat
      /\ Threshold * crashes \in Nat /\ Cardinality(Since(fails, b)) \in Nat
  BY PartsAreNumbers
<1>5. Cardinality(Since(fails, b)) + 1 <=
        Earlier(b)' + Present(b)' + Cardinality(Spent(b)') + Threshold * crashes
  BY <1>1, <1>3, <1>4, BoundKept
<1>6. Cardinality(Since(fails', b)) <= Earlier(b)' + Present(b)' + Cardinality(Spent(b)') + Threshold * crashes'
  BY <1>2, <1>4, <1>5
<1>. QED BY <1>6 DEF Tried

\* ... or by its worker.
LEMMA TriedByWorker ==
    ASSUME Typed, CounterAlive, NEW b \in Int, Tried(b), b <= now,
           fails' = Append(fails, now), crashes' = crashes, Spent(b) \subseteq Spent(b)',
           NEW x \in Spent(b)', x \notin Spent(b),
           Earlier(b)' \in Nat, Present(b)' \in Nat,
           Earlier(b) + Present(b) <= Earlier(b)' + Present(b)'
    PROVE  Tried(b)'
<1>1. /\ Cardinality(Spent(b)) + 1 <= Cardinality(Spent(b)')
      /\ Cardinality(Spent(b)') \in Nat
  BY SpentShare, SharesGrow, SharesCounted
<1>2. Cardinality(Since(fails', b)) = Cardinality(Since(fails, b)) + 1
  BY OneMore DEF Typed, TypeOK
<1>3. Cardinality(Since(fails, b)) <= Earlier(b) + Present(b) + Cardinality(Spent(b)) + Threshold * crashes
  BY DEF Tried
<1>4. /\ Earlier(b) \in Nat /\ Present(b) \in Nat /\ Cardinality(Spent(b)) \in Nat
      /\ Threshold * crashes \in Nat /\ Cardinality(Since(fails, b)) \in Nat
  BY PartsAreNumbers
<1>5. Cardinality(Since(fails, b)) + 1 <=
        Earlier(b)' + Present(b)' + Cardinality(Spent(b)') + Threshold * crashes
  BY <1>1, <1>3, <1>4, BoundKept
<1>6. Cardinality(Since(fails', b)) <= Earlier(b)' + Present(b)' + Cardinality(Spent(b)') + Threshold * crashes'
  BY <1>2, <1>4, <1>5
<1>. QED BY <1>6 DEF Tried

LEMMA NextParts ==
    ASSUME Typed', NEW b \in Int
    PROVE  /\ Earlier(b)' \in Nat /\ Present(b)' \in Nat /\ Cardinality(Spent(b)') \in Nat
           /\ Threshold * crashes' \in Nat
<1>1. /\ count' \in Nat /\ crashes' \in Nat /\ countUntil' \in Nat /\ now' \in Nat
  BY Numbers DEF Typed, TypeOK
<1>2. Earlier(b)' \in Nat
  BY <1>1, Numbers DEF Earlier
<1>3. Present(b)' \in Nat
  <2>1. CASE count' = 0
    BY <2>1 DEF Present
  <2>2. CASE count' # 0
    <3>1. PICK m \in Nat \ {0} : m = IF count' < Threshold THEN count' ELSE Threshold - 1
      BY <1>1, <2>2, Numbers
    <3>2. Present(b)' = m - (IF Born' < b THEN 1 ELSE 0)
      BY <2>2, <3>1 DEF Present
    <3>3. CASE Born' < b
      <4>1. Present(b)' = m - 1
        BY <3>2, <3>3
      <4>. QED BY <4>1
    <3>4. CASE ~(Born' < b)
      <4>1. Present(b)' = m - 0
        BY <3>2, <3>4
      <4>. QED BY <4>1
    <3>. QED BY <3>3, <3>4
  <2>. QED BY <2>1, <2>2
<1>4. Cardinality(Spent(b)') \in Nat
  BY SpentShare, SharesCounted
<1>5. Threshold * crashes' \in Nat
  <2>1. \A c \in Nat : Threshold * c \in Nat
    BY Numbers
  <2>. QED BY <1>1, <2>1
<1>. QED BY <1>2, <1>3, <1>4, <1>5

\* Nothing was tried yet.
LEMMA NothingTried ==
    ASSUME Typed', NEW b \in Int, Cardinality(Since(fails', b)) = 0
    PROVE  Tried(b)'
<1>1. 0 <= Earlier(b)' + Present(b)' + Cardinality(Spent(b)') + Threshold * crashes'
  BY NextParts
<1>. QED BY <1>1 DEF Tried

LEMMA SameParts ==
    ASSUME count' = count, Born' = Born, NEW b
    PROVE  Earlier(b)' = Earlier(b) /\ Present(b)' = Present(b)
BY DEF Earlier, Present

\* Steps without a guess, a clearing, a crash or a tick.
LEMMA GuessesAtRest ==
    ASSUME Typed, Typed', CounterAlive, GuessInv, UNCHANGED <<now, count, crashes, fails>>,
           Born' = Born,
           \A b \in Ticks : Spent(b) \subseteq Spent(b)',
           \A v \in Worker : job'[v].step = "verify" => memLock'[v] = 0
    PROVE  GuessInv'
<1>1. ASSUME NEW b \in Ticks PROVE Tried(b)'
  <2>1. b \in Int /\ Tried(b)
    BY TickSpan DEF GuessInv, Ticks
  <2>2. Earlier(b)' = Earlier(b) /\ Present(b)' = Present(b)
    BY SameParts
  <2>3. Earlier(b)' \in Nat /\ Present(b)' \in Nat
    BY <2>1, NextParts
  <2>4. Earlier(b) + Present(b) <= Earlier(b)' + Present(b)'
    BY <2>2, <2>3
  <2>. QED BY <2>1, <2>3, <2>4, TriedKept
<1>. QED BY <1>1 DEF GuessInv, Ticks

\* What is spent stays so unless the memory or the lock of the worker goes.
LEMMA SpentStays ==
    ASSUME NEW b,
           \A v \in Worker : /\ \A k \in 1..Threshold : k <= memCount[v] => k <= memCount'[v]
                             /\ Locking(v, b) => Locking(v, b)'
    PROVE  Spent(b) \subseteq Spent(b)'
BY DEF Spent

LEMMA CheckGuess ==
    ASSUME Typed, Typed', BornNow, CounterAlive, GuessInv, NEW w \in Worker, Check(w)
    PROVE  GuessInv'
<1>1. /\ job' = [job EXCEPT ![w] = [step |-> "verify"]] /\ job[w] = Rest /\ ~(now < memLock[w])
      /\ memLock' = [memLock EXCEPT ![w] = 0]
      /\ UNCHANGED <<now, count, countUntil, crashes, fails, memCount>>
  BY DEF Check, Locked, env, keys, history
<1>2. [step |-> "verify"] \in {Rest} \cup Job
  BY DEF Job
<1>3. \A v \in Worker : job'[v] = IF v = w THEN [step |-> "verify"] ELSE job[v]
  BY <1>1, <1>2, JobStep
<1>4. \A v \in Worker : /\ memLock[v] \in Nat
                        /\ memLock'[v] = IF v = w THEN 0 ELSE memLock[v]
  BY <1>1, Numbers DEF Typed, TypeOK
<1>5. Born' = Born
  BY <1>1 DEF Born
<1>6. \A v \in Worker : job'[v].step = "verify" => memLock'[v] = 0
  BY <1>3, <1>4 DEF GuessInv
<1>7. ASSUME NEW b \in Ticks PROVE Spent(b) \subseteq Spent(b)'
  <2>1. ~Locking(w, b)
    <3>1. job[w].step # "lock"
      BY <1>1 DEF Rest
    <3>2. ~(b + Short <= memLock[w])
      BY <1>1, <1>4, TickSpan, Numbers
    <3>. QED BY <3>1, <3>2 DEF Locking
  <2>2. \A v \in Worker : v # w => (Locking(v, b) => Locking(v, b)')
    BY <1>3, <1>4 DEF Locking
  <2>. QED BY <1>1, <2>1, <2>2, SpentStays
<1>. QED BY <1>1, <1>5, <1>6, <1>7, GuessesAtRest

LEMMA LockGuess ==
    ASSUME Typed, Typed', BornNow, CounterAlive, GuessInv, NEW w \in Worker, SetLock(w)
    PROVE  GuessInv'
<1>1. /\ job' = [job EXCEPT ![w] = Rest]
      /\ UNCHANGED <<now, count, countUntil, crashes, fails, memCount>>
  BY DEF SetLock, Finish, env
<1>2. PICK until \in 0..(MaxTime + Long) :
          now + Short <= until /\ memLock' = [memLock EXCEPT ![w] = until]
  BY LockLength
<1>3. \A v \in Worker : job'[v] = IF v = w THEN Rest ELSE job[v]
  BY <1>1, JobStep
<1>4. \A v \in Worker : memLock'[v] = IF v = w THEN until ELSE memLock[v]
  BY <1>2 DEF Typed, TypeOK
<1>5. Born' = Born
  BY <1>1 DEF Born
<1>6. \A v \in Worker : job'[v].step = "verify" => memLock'[v] = 0
  BY <1>3, <1>4 DEF GuessInv, Rest
<1>7. ASSUME NEW b \in Ticks PROVE Spent(b) \subseteq Spent(b)'
  <2>1. Locking(w, b)'
    <3>1. b + Short <= until
      BY <1>2, TickSpan, Numbers
    <3>. QED BY <1>4, <3>1 DEF Locking
  <2>2. \A v \in Worker : v # w => (Locking(v, b) => Locking(v, b)')
    BY <1>3, <1>4 DEF Locking
  <2>. QED BY <1>1, <2>1, <2>2, SpentStays
<1>. QED BY <1>1, <1>5, <1>6, <1>7, GuessesAtRest

LEMMA ExpireGuess ==
    ASSUME Typed, Typed', BornNow, CounterAlive, GuessInv, NEW w \in Worker, ExpireCounter(w)
    PROVE  GuessInv'
<1>1. /\ Expiring(w) /\ UNCHANGED <<now, count, crashes, fails, memLock>>
  BY DEF ExpireCounter, Expiring, env, history
<1>2. PICK x \in {Rest} \cup Job : job' = [job EXCEPT ![w] = x] /\ x.step \in {"rest", "lock"}
  <2>1. CASE redisUp
    <3>1. job' = [job EXCEPT ![w] = Rest] /\ Rest.step = "rest"
      BY <2>1, ExpireBorn DEF Rest
    <3>. QED BY <3>1
  <2>2. CASE ~redisUp
    BY <2>2, ExpiredInMemory
  <2>. QED BY <2>1, <2>2
<1>3. \A v \in Worker : job'[v] = IF v = w THEN x ELSE job[v]
  BY <1>2, JobStep
<1>4. Born' = Born
  <2>1. CASE redisUp
    BY <2>1, ExpireBorn
  <2>2. CASE ~redisUp
    BY <2>2, ExpiredInMemory DEF Born, keys
  <2>. QED BY <2>1, <2>2
<1>5. ASSUME NEW v \in Worker, NEW k \in 1..Threshold, k <= memCount[v]
      PROVE  k <= memCount'[v]
  <2>1. CASE redisUp
    BY <1>5, <2>1, ExpireBorn DEF memory
  <2>2. CASE ~redisUp
    <3>1. memCount' = [memCount EXCEPT ![w] = memCount[w] + 1]
      BY <2>2, ExpiredInMemory
    <3>2. memCount'[v] = IF v = w THEN memCount[v] + 1 ELSE memCount[v]
      BY <3>1 DEF Typed, TypeOK
    <3>3. memCount[v] \in Nat
      BY Numbers DEF Typed, TypeOK
    <3>. QED BY <1>5, <3>2, <3>3
  <2>. QED BY <2>1, <2>2
<1>6. \A v \in Worker : job'[v].step = "verify" => memLock'[v] = 0
  BY <1>1, <1>2, <1>3 DEF GuessInv
<1>7. ASSUME NEW b \in Ticks PROVE Spent(b) \subseteq Spent(b)'
  <2>1. \A v \in Worker : Locking(v, b) => Locking(v, b)'
    BY <1>1, <1>3 DEF Locking, Expiring
  <2>. QED BY <1>5, <2>1, SpentStays
<1>. QED BY <1>1, <1>4, <1>6, <1>7, GuessesAtRest

LEMMA ClearGuess ==
    ASSUME Typed, Typed', GuessInv, NEW w \in Worker, Succeed(w) \/ Unlock(w)
    PROVE  GuessInv'
<1>1. /\ fails' = <<>> /\ now' = now /\ memLock' = [memLock EXCEPT ![w] = 0]
  BY DEF Succeed, Unlock, Clear
<1>2. \A v \in Worker : v # w => job'[v] = job[v]
  BY JobsMove
<1>3. \A v \in Worker : memLock'[v] = IF v = w THEN 0 ELSE memLock[v]
  BY <1>1 DEF Typed, TypeOK
<1>4. \A v \in Worker : job'[v].step = "verify" => memLock'[v] = 0
  BY <1>2, <1>3 DEF GuessInv
<1>5. ASSUME NEW b \in Ticks PROVE Tried(b)'
  <2>1. b \in Int
    BY TickSpan
  <2>2. Since(fails', b) = {}
    BY <1>1 DEF Since
  <2>3. Cardinality(Since(fails', b)) = 0
    BY <2>2, FS_EmptySet
  <2>. QED BY <2>1, <2>3, NothingTried
<1>. QED BY <1>1, <1>4, <1>5 DEF GuessInv, Ticks

LEMMA InRedisGuess ==
    ASSUME Typed, Typed', BornNow, CounterAlive, GuessInv, NEW w \in Worker, CountInRedis(w)
    PROVE  GuessInv'
<1>1. /\ job[w].step = "verify" /\ count' = count + 1 /\ fails' = Append(fails, now)
      /\ UNCHANGED <<now, crashes, memCount, memLock>>
  BY CountedInRedis DEF env, memory
<1>2. PICK x \in {Rest} \cup Job :
          /\ job' = [job EXCEPT ![w] = x]
          /\ count = 0 => x.step = "expire"
          /\ count # 0 /\ count + 1 < Threshold => x = Rest
          /\ count + 1 >= Threshold => x.step = "lock" /\ x.recent = Recent(fails')
  BY CountedInRedis
<1>3. \A v \in Worker : job'[v] = IF v = w THEN x ELSE job[v]
  BY <1>2, JobStep
<1>4. Born' = Born /\ Born \in Int /\ Born <= now /\ count \in Nat /\ now \in Nat
  BY InRedisBorn, BornLately
<1>5. x.step # "verify"
  <2>1. count = 0 \/ (count # 0 /\ count + 1 < Threshold) \/ count + 1 >= Threshold
    BY <1>4, Numbers
  <2>. QED BY <1>2, <2>1 DEF Rest
<1>6. \A v \in Worker : job'[v].step = "verify" => memLock'[v] = 0
  BY <1>1, <1>3, <1>5 DEF GuessInv
<1>7. ASSUME NEW b \in Ticks PROVE Tried(b)'
  <2>1. b \in Int /\ b <= now /\ Tried(b) /\ 0 < b + Short
    BY TickSpan DEF GuessInv, Ticks
  <2>2. Earlier(b)' = Earlier(b) /\ Earlier(b) \in Nat
    BY <1>4, <2>1, PartsAreNumbers DEF Earlier
  <2>3. Earlier(b)' \in Nat /\ Present(b)' \in Nat /\ Present(b) \in Nat
    BY <2>1, NextParts, PartsAreNumbers
  <2>4. memLock[w] = 0
    BY <1>1 DEF GuessInv
  <2>5. ~Locking(w, b)
    <3>1. ~(b + Short <= memLock[w])
      BY <2>1, <2>4, Numbers
    <3>. QED BY <1>1, <3>1 DEF Locking
  <2>6. Spent(b) \subseteq Spent(b)'
    <3>1. \A v \in Worker : v # w => (Locking(v, b) => Locking(v, b)')
      BY <1>1, <1>3 DEF Locking
    <3>. QED BY <1>1, <2>5, <3>1, SpentStays
  <2>7. CASE count + 1 < Threshold
    <3>1. Present(b)' = Present(b) + 1
      <4>1. CASE count = 0
        BY <1>1, <1>4, <2>1, <2>7, <4>1, Numbers DEF Present, Born
      <4>2. CASE count # 0
        BY <1>1, <1>4, <2>7, <4>2, Numbers DEF Present
      <4>. QED BY <4>1, <4>2
    <3>. QED BY <1>1, <2>1, <2>2, <2>3, <2>6, <3>1, TriedInRedis
  <2>8. CASE count + 1 >= Threshold
    <3>1. Present(b) <= Present(b)'
      BY <1>1, <1>4, <2>1, <2>8, Numbers DEF Present
    <3>2. Locking(w, b)'
      BY <1>2, <1>3, <2>8 DEF Locking
    <3>3. <<w, Threshold>> \in Spent(b)' /\ <<w, Threshold>> \notin Spent(b)
      BY <2>5, <3>2, Numbers DEF Spent
    <3>4. Earlier(b) + Present(b) <= Earlier(b)' + Present(b)'
      BY <2>2, <2>3, <3>1
    <3>. QED BY <1>1, <2>1, <2>3, <2>6, <3>3, <3>4, TriedByWorker
  <2>. QED BY <1>4, <2>7, <2>8, Numbers
<1>. QED BY <1>1, <1>6, <1>7 DEF GuessInv, Ticks

LEMMA InMemoryGuess ==
    ASSUME Typed, Typed', BornNow, CounterAlive, GuessInv, NEW w \in Worker, CountInMemory(w)
    PROVE  GuessInv'
<1>1. /\ job[w].step = "verify" /\ memCount' = [memCount EXCEPT ![w] = memCount[w] + 1]
      /\ fails' = Append(fails, now)
      /\ UNCHANGED <<now, count, countUntil, crashes, memLock>>
  BY CountedInMemory DEF env, keys
<1>2. PICK x \in {Rest} \cup Job :
          /\ job' = [job EXCEPT ![w] = x]
          /\ memCount[w] + 1 < Threshold => x = Rest
          /\ memCount[w] + 1 >= Threshold => x.step = "lock"
  BY CountedInMemory
<1>3. \A v \in Worker : job'[v] = IF v = w THEN x ELSE job[v]
  BY <1>2, JobStep
<1>4. /\ \A v \in Worker : memCount[v] \in Nat
      /\ \A v \in Worker : memCount'[v] = IF v = w THEN memCount[v] + 1 ELSE memCount[v]
  BY <1>1, Numbers DEF Typed, TypeOK
<1>5. Born' = Born
  BY <1>1 DEF Born
<1>6. memCount[w] + 1 < Threshold \/ memCount[w] + 1 >= Threshold
  BY <1>4, Numbers
<1>7. \A v \in Worker : job'[v].step = "verify" => memLock'[v] = 0
  BY <1>1, <1>2, <1>3, <1>6 DEF GuessInv, Rest
<1>8. ASSUME NEW b \in Ticks PROVE Tried(b)'
  <2>1. b \in Int /\ b <= now /\ Tried(b) /\ 0 < b + Short
    BY TickSpan DEF GuessInv, Ticks
  <2>2. Earlier(b)' = Earlier(b) /\ Present(b)' = Present(b)
    BY <1>1, <1>5, SameParts
  <2>3. Earlier(b)' \in Nat /\ Present(b)' \in Nat
    BY <2>1, NextParts
  <2>4. Earlier(b) + Present(b) <= Earlier(b)' + Present(b)'
    BY <2>2, <2>3
  <2>5. ~Locking(w, b)
    <3>1. ~(b + Short <= memLock[w])
      BY <1>1, <2>1, Numbers DEF GuessInv
    <3>. QED BY <1>1, <3>1 DEF Locking
  <2>6. Spent(b) \subseteq Spent(b)'
    <3>1. \A v \in Worker : v # w => (Locking(v, b) => Locking(v, b)')
      BY <1>1, <1>3 DEF Locking
    <3>2. \A v \in Worker : \A k \in 1..Threshold : k <= memCount[v] => k <= memCount'[v]
      BY <1>4
    <3>. QED BY <2>5, <3>1, <3>2, SpentStays
  <2>7. CASE memCount[w] + 1 < Threshold
    <3>. DEFINE k == memCount[w] + 1
    <3>1. k \in 1..Threshold /\ k < Threshold /\ ~(k <= memCount[w]) /\ k <= memCount'[w]
      BY <1>4, <2>7, Numbers
    <3>. HIDE DEF k
    <3>2. <<w, k>> \in Spent(b)' /\ <<w, k>> \notin Spent(b)
      BY <3>1 DEF Spent
    <3>. QED BY <1>1, <2>1, <2>3, <2>4, <2>6, <3>2, TriedByWorker
  <2>8. CASE memCount[w] + 1 >= Threshold
    <3>2. Locking(w, b)'
      BY <1>2, <1>3, <2>8 DEF Locking
    <3>3. <<w, Threshold>> \in Spent(b)' /\ <<w, Threshold>> \notin Spent(b)
      BY <2>5, <3>2, Numbers DEF Spent
    <3>. QED BY <1>1, <2>1, <2>3, <2>4, <2>6, <3>3, TriedByWorker
  <2>. QED BY <1>6, <2>7, <2>8
<1>. QED BY <1>1, <1>7, <1>8 DEF GuessInv, Ticks

LEMMA CrashGuess ==
    ASSUME Typed, Typed', BornNow, CounterAlive, GuessInv, NEW w \in Worker, Crash(w)
    PROVE  GuessInv'
<1>1. /\ job' = [job EXCEPT ![w] = Rest] /\ crashes' = crashes + 1
      /\ memCount' = [memCount EXCEPT ![w] = 0] /\ memLock' = [memLock EXCEPT ![w] = 0]
      /\ UNCHANGED <<now, count, countUntil, fails>>
  BY DEF Crash, Finish, keys, history
<1>2. \A v \in Worker : v # w => /\ job'[v] = job[v] /\ memCount'[v] = memCount[v]
                                /\ memLock'[v] = memLock[v]
  BY <1>1 DEF Typed, TypeOK
<1>3. memLock'[w] = 0
  BY <1>1 DEF Typed, TypeOK
<1>4. \A v \in Worker : job'[v].step = "verify" => memLock'[v] = 0
  BY <1>2, <1>3 DEF GuessInv
<1>5. ASSUME NEW b \in Ticks PROVE Tried(b)'
  <2>1. b \in Int /\ Tried(b)
    BY TickSpan DEF GuessInv, Ticks
  <2>2. Spent(b) \in SUBSET Share /\ Spent(b)' \in SUBSET Share
    BY SpentShare
  <2>3. Spent(b) \ ({w} \X (1..Threshold)) \subseteq Spent(b)'
    <3>1. \A v \in Worker : v # w => (Locking(v, b) <=> Locking(v, b)')
      BY <1>2 DEF Locking
    <3>. QED BY <1>2, <3>1 DEF Spent
  <2>4. Cardinality(Spent(b)) <= Cardinality(Spent(b)') + Threshold
    BY ONLY <2>2, <2>3, w \in Worker, SharesLost
  <2>5. Earlier(b)' = Earlier(b) /\ Present(b)' = Present(b)
    BY <1>1, SameParts DEF Born
  <2>6. /\ Earlier(b) \in Nat /\ Present(b) \in Nat /\ Cardinality(Spent(b)) \in Nat
        /\ Threshold * crashes \in Nat /\ Cardinality(Since(fails, b)) \in Nat
    BY <2>1, PartsAreNumbers
  <2>7. Threshold * crashes' = Threshold * crashes + Threshold
    BY <1>1, Numbers DEF Typed, TypeOK
  <2>8. Cardinality(Spent(b)') \in Nat
    BY <2>2, SharesCounted
  <2>9. Cardinality(Since(fails, b)) <= Earlier(b) + Present(b) + Cardinality(Spent(b)) + Threshold * crashes
    BY <2>1 DEF Tried
  <2>10. Cardinality(Since(fails, b)) <=
             Earlier(b) + Present(b) + Cardinality(Spent(b)') + (Threshold * crashes + Threshold)
    BY <2>4, <2>6, <2>8, <2>9, Numbers
  <2>. QED BY <1>1, <2>5, <2>7, <2>10 DEF Tried
<1>. QED BY <1>1, <1>4, <1>5 DEF GuessInv, Ticks

LEMMA TickGuess ==
    ASSUME Typed, Typed', TriesPast, BornNow, CounterAlive, GuessInv, Tick
    PROVE  GuessInv'
<1>1. /\ now' = now + 1 /\ now' \in 0..MaxTime
      /\ count' \in {0, count}
      /\ count' = 0 /\ count # 0 => countUntil = now' /\ Born = now' - Window
      /\ count' # 0 => count' = count /\ now' < countUntil
      /\ UNCHANGED <<crashes, countUntil, memCount, memLock, job, fails>>
  BY TickBorn DEF env, memory, history
<1>2. /\ Born \in Int /\ now - Window < Born /\ Born <= now /\ now \in Nat /\ count \in Nat
  BY BornLately
<1>3. fails \in Seq(0..MaxTime)
  BY DEF Typed, TypeOK
<1>4. \A v \in Worker : job'[v].step = "verify" => memLock'[v] = 0
  BY <1>1 DEF GuessInv
<1>5. ASSUME NEW b \in (now' - Window + 1)..now' PROVE Tried(b)'
  <2>1. b \in Int /\ (b \in Ticks \/ b = now')
    BY <1>1, <1>2, Numbers DEF Ticks
  <2>2. CASE b = now'
    <3>1. \A i \in DOMAIN fails' : fails'[i] < b
      <4>1. \A i \in DOMAIN fails : fails[i] <= now
        BY DEF TriesPast
      <4>. QED BY <1>1, <1>2, <1>3, <2>2, <4>1, TicksAreNumbers
    <3>2. Cardinality(Since(fails', b)) = 0
      BY <1>1, <1>3, <2>1, <3>1, NoneToCome
    <3>. QED BY <2>1, <3>2, NothingTried
  <2>3. CASE b \in Ticks
    <3>1. Tried(b) /\ b <= now
      BY <2>3, TickSpan DEF GuessInv, Ticks
    <3>2. Spent(b) \subseteq Spent(b)'
      BY <1>1 DEF Spent, Locking
    <3>3. Earlier(b)' \in Nat /\ Present(b)' \in Nat
      BY <2>1, NextParts
    <3>4. Earlier(b) + Present(b) <= Earlier(b)' + Present(b)'
      <4>1. CASE count' = 0
        <5>1. Earlier(b)' = Threshold - 2 /\ Present(b)' = 0
          BY <1>1, <1>2, <2>1, <3>1, <4>1, Numbers DEF Earlier, Present, Born
        <5>2. CASE count = 0
          <6>1. Present(b) = 0 /\ Earlier(b) \in {0, Threshold - 2}
            BY <5>2 DEF Present, Earlier
          <6>. QED BY <5>1, <6>1, Numbers
        <5>3. CASE count # 0
          <6>1. Born < b
            BY <1>1, <1>2, <2>1, <4>1, <5>3, Numbers
          <6>2. Earlier(b) = 0 /\ Present(b) <= Threshold - 2 /\ Present(b) \in Int
            BY <1>2, <2>1, <5>3, <6>1, Numbers DEF Earlier, Present
          <6>. QED BY <5>1, <6>2, Numbers
        <5>. QED BY <5>2, <5>3
      <4>2. CASE count' # 0
        <5>1. count' = count
          BY <1>1, <4>2
        <5>2. Born' \in Int /\ Born <= Born'
          BY <1>1, <1>2, <4>2, <5>1, Numbers DEF Born
        <5>3. Earlier(b) <= Earlier(b)' /\ Earlier(b) \in Int
          BY <1>2, <2>1, <5>2, Numbers DEF Earlier
        <5>4. Present(b) <= Present(b)' /\ Present(b) \in Int
          BY <1>2, <2>1, <5>1, <5>2, Numbers DEF Present
        <5>. QED BY <3>3, <5>3, <5>4
      <4>. QED BY <4>1, <4>2
    <3>. QED BY <1>1, <2>1, <3>1, <3>2, <3>3, <3>4, TriedKept
  <2>. QED BY <2>1, <2>2, <2>3
<1>. QED BY <1>4, <1>5 DEF GuessInv

\* Nothing that the guesses depend on changes.
LEMMA TroubledGuess ==
    ASSUME Typed, Typed', BornNow, CounterAlive, GuessInv,
           RedisFails \/ RedisRecovers \/ UNCHANGED vars
    PROVE  GuessInv'
<1>1. UNCHANGED <<now, crashes, keys, memory, job, fails>>
  BY DEF RedisFails, RedisRecovers, vars, env, history
<1>2. /\ count' = count /\ countUntil' = countUntil /\ now' = now
      /\ crashes' = crashes /\ fails' = fails
      /\ memCount' = memCount /\ memLock' = memLock /\ job' = job
  BY <1>1 DEF keys, memory
<1>. QED BY <1>2, GuessesAtRest DEF GuessInv, Spent, Locking, Born

------------------------------------------------------------------------------
(* The invariant *)

LEMMA TriesStayPast ==
    ASSUME Typed, TriesPast, [Next]_vars
    PROVE  TriesPast'
<1>1. /\ fails \in Seq(0..MaxTime) /\ Len(fails) \in Nat /\ now \in Nat
      /\ \A i \in DOMAIN fails : fails[i] \in Int
  BY TicksAreNumbers, Numbers DEF Typed, TypeOK
<1>2. CASE fails' = Append(fails, now) /\ now' = now
  BY <1>1, <1>2 DEF TriesPast
<1>3. CASE fails' = <<>>
  BY <1>3 DEF TriesPast
<1>4. CASE fails' = fails /\ now' \in {now, now + 1}
  BY <1>1, <1>4 DEF TriesPast
<1>5. ASSUME NEW w \in Worker,
             Check(w) \/ CountInRedis(w) \/ CountInMemory(w) \/ ExpireCounter(w)
             \/ SetLock(w) \/ Succeed(w) \/ Unlock(w) \/ Crash(w)
      PROVE  \/ fails' = Append(fails, now) /\ now' = now
             \/ fails' = <<>>
             \/ fails' = fails /\ now' \in {now, now + 1}
  BY <1>5 DEF Check, CountInRedis, CountInMemory, Counted, ExpireCounter, SetLock,
     Succeed, Unlock, Clear, Crash, history
<1>6. Tick \/ RedisFails \/ RedisRecovers \/ UNCHANGED vars
      => fails' = fails /\ now' \in {now, now + 1}
  BY DEF Tick, RedisFails, RedisRecovers, vars, history
<1>. QED BY <1>2, <1>3, <1>4, <1>5, <1>6 DEF Next

LEMMA CounterStaysAlive ==
    ASSUME Typed, BornNow, CounterAlive, [Next]_vars
    PROVE  BornNow' /\ CounterAlive'
<1>1. ASSUME NEW w \in Worker,
             \/ Check(w) \/ CountInMemory(w) \/ SetLock(w) \/ Crash(w)
             \/ (ExpireCounter(w) /\ ~redisUp)
      PROVE  BornNow' /\ CounterAlive'
  <2>1. UNCHANGED <<now, count, countUntil>>
    BY <1>1 DEF Check, CountInMemory, SetLock, Crash, ExpireCounter, keys
  <2>2. \A v \in Worker : Expiring(v)' => Expiring(v)
    BY <1>1, JobsMove
  <2>. QED BY <2>1, <2>2, CounterAtRest
<1>2. ASSUME RedisFails \/ RedisRecovers \/ UNCHANGED vars
      PROVE  BornNow' /\ CounterAlive'
  <2>1. UNCHANGED <<now, count, countUntil, job>>
    BY <1>2 DEF RedisFails, RedisRecovers, vars, keys
  <2>2. \A v \in Worker : Expiring(v)' => Expiring(v)
    BY <2>1 DEF Expiring
  <2>. QED BY <2>1, <2>2, CounterAtRest
<1>3. ASSUME NEW w \in Worker, CountInRedis(w) PROVE BornNow' /\ CounterAlive'
  BY <1>3, InRedisBorn
<1>4. ASSUME NEW w \in Worker, ExpireCounter(w), redisUp PROVE BornNow' /\ CounterAlive'
  BY <1>4, ExpireBorn
<1>5. ASSUME NEW w \in Worker, Succeed(w) \/ Unlock(w) PROVE BornNow' /\ CounterAlive'
  BY <1>5, ClearBorn
<1>6. ASSUME Tick PROVE BornNow' /\ CounterAlive'
  BY <1>6, TickBorn
<1>. QED BY <1>1, <1>2, <1>3, <1>4, <1>5, <1>6 DEF Next

LEMMA TypedStays ==
    ASSUME Typed, [Next]_vars
    PROVE  Typed'
BY CheckTyped, InRedisTyped, InMemoryTyped, ExpireTyped, LockTyped, ClearTyped, CrashTyped,
   WorldTyped DEF Next

LEMMA QuietStays ==
    ASSUME Typed, BornNow, CounterAlive, QuietInv, [Next]_vars
    PROVE  QuietInv'
<1>1. ASSUME NEW w \in Worker, ExpireCounter(w) PROVE QuietInv'
  <2>1. CASE redisUp
    BY <1>1, <2>1, ExpireQuiet
  <2>2. CASE ~redisUp
    BY <1>1, <2>2, TroubledQuiet
  <2>. QED BY <2>1, <2>2
<1>2. ASSUME NEW w \in Worker, CountInMemory(w) \/ Crash(w) PROVE QuietInv'
  BY <1>2, TroubledQuiet
<1>3. ASSUME RedisFails \/ RedisRecovers \/ UNCHANGED vars PROVE QuietInv'
  BY <1>3, TroubledQuiet
<1>. QED BY <1>1, <1>2, <1>3, CheckQuiet, LockQuiet, ClearQuiet, InRedisQuiet, TickQuiet DEF Next

LEMMA GuessStays ==
    ASSUME Typed, Typed', TriesPast, BornNow, CounterAlive, GuessInv, [Next]_vars
    PROVE  GuessInv'
BY CheckGuess, InRedisGuess, InMemoryGuess, ExpireGuess, LockGuess, ClearGuess, CrashGuess,
   TickGuess, TroubledGuess DEF Next

LEMMA LockoutStep ==
    ASSUME LockoutInv, [Next]_vars
    PROVE  LockoutInv'
<1>. Typed /\ TriesPast /\ BornNow /\ CounterAlive /\ QuietInv /\ GuessInv
  BY DEF LockoutInv
<1>1. Typed'
  BY TypedStays
<1>. QED BY <1>1, TriesStayPast, CounterStaysAlive, QuietStays, GuessStays DEF LockoutInv

LEMMA InitLockout ==
    ASSUME Init
    PROVE  LockoutInv
<1>1. /\ now = 0 /\ redisUp = TRUE /\ outages = 0 /\ crashes = 0
      /\ count = 0 /\ countUntil = 0 /\ lockUntil = 0
      /\ memCount = [w \in Worker |-> 0] /\ memLock = [w \in Worker |-> 0]
      /\ job = [w \in Worker |-> Rest] /\ fails = <<>> /\ guesses = 0
  BY DEF Init
<1>2. \A w \in Worker : job[w] = Rest /\ job[w].step = "rest" /\ memCount[w] = 0 /\ memLock[w] = 0
  BY <1>1 DEF Rest
<1>3. TypeOK
  <2>1. fails \in Seq(0..MaxTime) /\ Len(fails) = 0
    BY <1>1
  <2>2. 0 \in 0..MaxTime /\ 0 \in 0..MaxOutages /\ 0 \in 0..MaxCrashes /\ 0 \in 0..MaxGuesses
        /\ 0 \in 0..NoTtl /\ 0 \in 0..(MaxTime + Long)
    BY Numbers
  <2>. QED BY <1>1, <2>1, <2>2 DEF TypeOK
<1>4. CountsGuessed
  BY <1>1, <1>2 DEF CountsGuessed, Expiring
<1>5. Typed
  BY <1>3, <1>4 DEF Typed
<1>6. TriesPast
  BY <1>1 DEF TriesPast
<1>7. BornNow /\ CounterAlive
  BY <1>1, <1>2 DEF BornNow, Expiring, CounterAlive
<1>8. QuietInv
  <2>1. WindowComes /\ CountIsBurst /\ LockIsFresh /\ LockNeedsBurst
    BY <1>1, <1>2 DEF WindowComes, CountIsBurst, LockIsFresh, LockNeedsBurst
  <2>2. OvershootDone
    BY <1>1, Numbers DEF OvershootDone
  <2>. QED BY <1>1, <2>1, <2>2 DEF QuietInv
<1>9. GuessInv
  <2>1. ASSUME NEW b \in Ticks PROVE Tried(b)
    <3>1. b \in Int
      BY <1>5, <2>1, TickSpan
    <3>2. DOMAIN fails = {} /\ Since(fails, b) = {}
      BY <1>1 DEF Since
    <3>3. Cardinality(Since(fails, b)) = 0
      BY <3>2, FS_EmptySet
    <3>4. /\ Earlier(b) \in Nat /\ Present(b) \in Nat /\ Cardinality(Spent(b)) \in Nat
          /\ Threshold * crashes \in Nat
      BY <1>5, <1>7, <3>1, PartsAreNumbers
    <3>5. 0 <= Earlier(b) + Present(b) + Cardinality(Spent(b)) + Threshold * crashes
      BY <3>4
    <3>. QED BY <3>3, <3>5 DEF Tried
  <2>2. \A w \in Worker : job[w].step = "verify" => memLock[w] = 0
    BY <1>2
  <2>. QED BY <2>1, <2>2 DEF GuessInv, Ticks
<1>. QED BY <1>5, <1>6, <1>7, <1>8, <1>9 DEF LockoutInv

LEMMA LockoutAlways == Spec => []LockoutInv
<1>1. Init => LockoutInv
  BY InitLockout
<1>2. LockoutInv /\ [Next]_vars => LockoutInv'
  BY LockoutStep
<1>. QED BY <1>1, <1>2, PTL DEF Spec

------------------------------------------------------------------------------
(* The theorems *)

\* The keys, the memories and the sections keep their types; no counter passes
\* the number of wrong passwords.
THEOREM LockoutTypes == Spec => []TypeOK
<1>1. LockoutInv => TypeOK
  BY DEF LockoutInv, Typed
<1>. QED BY <1>1, LockoutAlways, PTL

(***************************************************************************)
(* Of any number of workers whose sections interleave at every Redis call, *)
(* each counts at most once past the lock: it is then about to lock, or    *)
(* will find the lock, which outlives the counter.                         *)
(***************************************************************************)
THEOREM CounterStops == Spec => []CounterStopsAtLock
<1>1. ASSUME LockoutInv PROVE CounterStopsAtLock
  <2>1. CASE ~Healthy
    BY <2>1 DEF CounterStopsAtLock
  <2>2. CASE Healthy
    <3>1. OvershootDone /\ count \in Nat
      BY <1>1, <2>2 DEF LockoutInv, QuietInv, Typed, TypeOK
    <3>2. Threshold \in Nat /\ 1 < Threshold
      BY Numbers
    <3>3. /\ Cardinality(Done) \in Nat /\ Cardinality(Worker) \in Nat
          /\ Cardinality(Done) <= Cardinality(Worker)
      BY DoneCounted
    <3>4. count <= Threshold - 1 + Cardinality(Worker)
      BY <3>1, <3>2, <3>3 DEF OvershootDone
    <3>. QED BY <3>4 DEF CounterStopsAtLock
  <2>. QED BY <2>1, <2>2
<1>. QED BY <1>1, LockoutAlways, PTL

(***************************************************************************)
(* Without a restart or an outage, whatever the order in which workers     *)
(* count, give the counter its window and lock, a lock follows Threshold   *)
(* wrong passwords of one window.                                          *)
(***************************************************************************)
THEOREM LocksNeedBursts == Spec => []LockNeedsBurst
<1>1. LockoutInv => LockNeedsBurst
  BY DEF LockoutInv, QuietInv, LockNeedsBurst
<1>. QED BY <1>1, LockoutAlways, PTL

LEMMA Distribute ==
    ASSUME NEW a \in Nat, NEW b \in Nat, NEW c \in Nat
    PROVE  a * (b + c) = a * b + a * c /\ b * a = a * b /\ a * b \in Nat /\ a * c \in Nat
OBVIOUS

(***************************************************************************)
(* Whatever fails, restarts and interleaves: the wrong passwords tried     *)
(* within one window, for every threshold and number of workers.           *)
(***************************************************************************)
THEOREM GuessesPerWindow == Spec => []WrongGuessesBounded
<1>1. ASSUME LockoutInv PROVE WrongGuessesBounded
  <2>. DEFINE b == now - Window + 1
  <2>1. Typed /\ CounterAlive /\ GuessInv
    BY <1>1 DEF LockoutInv
  <2>2. /\ fails \in Seq(0..MaxTime) /\ now \in 0..MaxTime /\ now \in Nat /\ crashes \in Nat
    BY <2>1, Numbers DEF Typed, TypeOK
  <2>3. b \in Int /\ b \in Ticks
    BY <2>2, Numbers DEF Ticks
  <2>4. Recent(fails) = Cardinality(Since(fails, b))
    BY <2>2, RecentSince
  <2>5. Tried(b)
    BY <2>1, <2>3 DEF GuessInv, Ticks
  <2>. HIDE DEF b
  <2>6. /\ Earlier(b) \in Nat /\ Present(b) \in Nat /\ Cardinality(Spent(b)) \in Nat
        /\ Threshold * crashes \in Nat /\ Cardinality(Since(fails, b)) \in Nat
        /\ Earlier(b) + Present(b) <= 2 * Threshold - 3
    BY <2>1, <2>3, PartsAreNumbers
  <2>7. /\ Cardinality(Spent(b)) <= Cardinality(Worker) * Threshold
        /\ Cardinality(Worker) \in Nat
    BY SpentShare, SharesCounted
  <2>8. /\ Threshold * (Cardinality(Worker) + crashes)
              = Threshold * Cardinality(Worker) + Threshold * crashes
        /\ Cardinality(Worker) * Threshold = Threshold * Cardinality(Worker)
        /\ Threshold * Cardinality(Worker) \in Nat
    BY <2>2, <2>7, Distribute, Numbers
  <2>9. Cardinality(Since(fails, b)) <=
          Earlier(b) + Present(b) + Cardinality(Spent(b)) + Threshold * crashes
    BY <2>5 DEF Tried
  <2>. HIDE DEF Earlier, Present
  <2>10. Cardinality(Since(fails, b)) <=
           2 * Threshold - 3 + Threshold * (Cardinality(Worker) + crashes)
    BY <2>6, <2>7, <2>8, <2>9, Numbers
  <2>. QED BY <2>4, <2>10 DEF WrongGuessesBounded
<1>. QED BY <1>1, LockoutAlways, PTL
==============================================================================
