-------------------------- MODULE SessionStore_proofs --------------------------
(***************************************************************************)
(* Sessions for every number of workers, sessions and users, any Ttl, any  *)
(* clock and any number of outages: types, the finality of a logout, the   *)
(* expiry of sessions and what a purge ends.                               *)
(*                                                                         *)
(* All four rest on who an operation is about: a session that is being     *)
(* created belongs to one worker and has not been returned, every other    *)
(* operation is about returned ones.  So the field that names the user,    *)
(* which only a creation writes, never comes back to a returned session.   *)
(* The purge needs in addition that the index knows every recent session   *)
(* for as long as it is recent, across all steps of other workers.         *)
(***************************************************************************)
EXTENDS SessionStore, TLAPS

TypeInv ==
    /\ TypeOK
    /\ now <= MaxTime
    /\ \A s \in Session : born[s] <= now

\* A session being created has not been returned, and one worker creates it.
CreatesApart ==
    \A v \in Worker : job[v].op = "create" =>
        /\ job[v].s \notin returned
        /\ \A x \in Worker \ {v} : job[x].op = "create" => job[x].s # job[v].s

\* Every other operation is about returned sessions.
JobsKnown ==
    \A v \in Worker :
        /\ job[v].op \in {"update", "delete"} => job[v].s \in returned
        /\ job[v].op = "purge" => job[v].known \subseteq returned \cap Owned(job[v].u)

\* A copy in memory is of a session that was returned, in trouble.
CopiesTroubled == \A v \in Worker : memory[v] \subseteq returned \cap troubled

\* Only returned sessions are ended.
EndedReturned == \A s \in Session : ended[s] # "no" => s \in returned

LoggedOut == \A s \in Session \ troubled : ended[s] = "logout" => "user" \notin hash[s]

\* A session being created has its time to live once the second call is done.
Expiring(s) == "user" \in hash[s] => until[s] <= now + Ttl
CreatedExpires ==
    \A v \in Worker :
        job[v].op = "create" /\ job[v].step \in {"sadd", "expireIndex"} => Expiring(job[v].s)

\* A session created within the last Ttl that names its user is in an index
\* that lives at least as long, unless it was taken off it.
Recent(s)  == now < born[s] + Ttl
Exempt     == troubled \cup dropped
Indexed(s) == s \in index[Owner[s]] /\ born[s] + Ttl <= indexUntil[Owner[s]]
RecentIndexed ==
    \A s \in returned \ Exempt : Recent(s) /\ "user" \in hash[s] => Indexed(s)

\* After the third call a session being created is in the index, unless it was
\* taken off it or a purge has deleted it already.
CreatedIndexed ==
    \A v \in Worker :
        job[v].op = "create" /\ job[v].step = "expireIndex" /\ "user" \in hash[job[v].s]
          => job[v].s \in index[Owner[job[v].s]] \cup dropped

\* A purge has found every session it will be held to.
PurgeFinds ==
    \A v \in Worker : job[v].op = "purge" =>
        \A s \in job[v].known \ Exempt :
            Recent(s) /\ "user" \in hash[s] => s \in job[v].found

PurgedFresh == \A s \in Session \ Exempt : ended[s] = "purgedFresh" => "user" \notin hash[s]

------------------------------------------------------------------------------
(***************************************************************************)
(* What a job is, by its operation, and what Advance makes of it.          *)
(***************************************************************************)
CreateStepName == {"hset", "expire", "sadd", "expireIndex"}

LEMMA JobShape ==
    ASSUME NEW j \in {Rest} \cup Job
    PROVE  /\ j.op \in {"rest", "create", "update", "delete", "purge"}
           /\ j.op = "rest" => j = Rest
           /\ j.op = "create" => j.s \in Session /\ j.step \in CreateStepName
           /\ j.op = "update" => j.s \in Session
           /\ j.op = "delete" => j.s \in Session /\ j.step \in {"srem", "delete"} /\ j.user \in BOOLEAN
           /\ j.op = "purge" => j.u \in User /\ j.found \subseteq Session /\ j.known \subseteq Session
BY DEF Rest, Job, CreateStepName

LEMMA NextCreateStep ==
    ASSUME NEW j \in {Rest} \cup Job, j.op = "create", NEW st \in CreateStepName
    PROVE  [j EXCEPT !.step = st] = [op |-> "create", step |-> st, s |-> j.s]
BY DEF Rest, Job, CreateStepName

LEMMA NextDeleteStep ==
    ASSUME NEW j \in {Rest} \cup Job, j.op = "delete", NEW st \in {"srem", "delete"}
    PROVE  [j EXCEPT !.step = st]
             = [op |-> "delete", step |-> st, s |-> j.s, user |-> j.user]
BY DEF Rest, Job

LEMMA CreateAdvances ==
    ASSUME TypeOK, NEW w \in Worker, job[w].op = "create", NEW st \in CreateStepName,
           Advance(w, st)
    PROVE  job' = [job EXCEPT ![w] = [op |-> "create", step |-> st, s |-> job[w].s]]
<1>1. job[w] \in {Rest} \cup Job /\ job' = [job EXCEPT ![w] = [job[w] EXCEPT !.step = st]]
  BY DEF TypeOK, Advance
<1>. QED BY <1>1, NextCreateStep

LEMMA DeleteAdvances ==
    ASSUME TypeOK, NEW w \in Worker, job[w].op = "delete", Advance(w, "delete")
    PROVE  job' = [job EXCEPT ![w] = [op |-> "delete", step |-> "delete",
                                      s |-> job[w].s, user |-> job[w].user]]
<1>1. job[w] \in {Rest} \cup Job /\ job' = [job EXCEPT ![w] = [job[w] EXCEPT !.step = "delete"]]
  BY DEF TypeOK, Advance
<1>. QED BY <1>1, NextDeleteStep

------------------------------------------------------------------------------
(* Types *)

LEMMA InitTyped == Init => TypeInv
BY ConstantsAssumption DEF Init, TypeInv, TypeOK, NoTtl

LEMMA StepTyped == TypeInv /\ [Next]_vars => TypeInv'
<1>. SUFFICES ASSUME TypeInv, [Next]_vars PROVE TypeInv'
  OBVIOUS
<1>. USE ConstantsAssumption DEF TypeInv, TypeOK, vars, redis, keys, history
<1>0. now + Ttl \in 0..NoTtl /\ NoTtl \in 0..NoTtl
  BY DEF NoTtl
<1>1. \A v \in Worker : job[v] \in {Rest} \cup Job
  OBVIOUS
<1>2. ASSUME NEW w \in Worker, NEW s \in Session, StartCreate(w, s)
      PROVE TypeInv'
  <2>1. [op |-> "create", step |-> "hset", s |-> s] \in Job
    BY DEF Job
  <2>. QED BY <1>2, <2>1 DEF StartCreate
<1>3. ASSUME NEW w \in Worker, CreateStep(w)
      PROVE TypeInv'
  <2>1. job[w].op = "create" /\ job[w].s \in Session /\ Owner[job[w].s] \in User
    BY <1>1, <1>3, JobShape DEF CreateStep, SetHash, SetExpire, AddToIndex, ExpireIndex,
                                FallBack, Creating
  <2>2. \A st \in CreateStepName :
          /\ [op |-> "create", step |-> st, s |-> job[w].s] \in Job
          /\ Advance(w, st) => job' \in [Worker -> {Rest} \cup Job]
    <3>. TAKE st \in CreateStepName
    <3>1. [op |-> "create", step |-> st, s |-> job[w].s] \in Job
      BY <2>1 DEF Job, CreateStepName
    <3>. QED BY <3>1, <2>1, CreateAdvances
  <2>3. Finish(w) => job' \in [Worker -> {Rest} \cup Job]
    BY DEF Finish
  <2>4. CASE SetHash(w)
    BY <1>0, <2>1, <2>2, <2>4 DEF SetHash, CreateStepName
  <2>5. CASE SetExpire(w)
    BY <1>0, <2>1, <2>2, <2>5 DEF SetExpire, CreateStepName
  <2>6. CASE AddToIndex(w)
    BY <1>0, <2>1, <2>2, <2>6 DEF AddToIndex, CreateStepName
  <2>7. CASE ExpireIndex(w)
    BY <1>0, <2>1, <2>3, <2>7 DEF ExpireIndex, Return
  <2>8. CASE FallBack(w)
    BY <2>1, <2>3, <2>8 DEF FallBack, Return, Trouble
  <2>. QED BY <1>3, <2>4, <2>5, <2>6, <2>7, <2>8 DEF CreateStep
<1>4. ASSUME NEW w \in Worker, NEW s \in Session, Authenticate(w, s)
      PROVE TypeInv'
  BY <1>0, <1>4 DEF Authenticate
<1>5. ASSUME NEW w \in Worker, NEW s \in Session, StartUpdate(w, s)
      PROVE TypeInv'
  <2>1. [op |-> "update", s |-> s] \in Job
    BY DEF Job
  <2>. QED BY <1>5, <2>1 DEF StartUpdate
<1>6. ASSUME NEW w \in Worker, WriteData(w)
      PROVE TypeInv'
  <2>1. job[w].s \in Session
    BY <1>1, <1>6, JobShape DEF WriteData
  <2>. QED BY <1>0, <1>6, <2>1 DEF WriteData, Finish
<1>7. ASSUME NEW w \in Worker, WriteFails(w)
      PROVE TypeInv'
  <2>1. job[w].s \in Session
    BY <1>1, <1>7, JobShape DEF WriteFails
  <2>. QED BY <1>7, <2>1 DEF WriteFails, Finish, Trouble
<1>8. ASSUME NEW w \in Worker, NEW s \in Session, StartDelete(w, s)
      PROVE TypeInv'
  <2>1. Alive(w, s) \in BOOLEAN
    <3>1. ("user" \in hash[s]) \in BOOLEAN /\ (s \in memory[w]) \in BOOLEAN
      OBVIOUS
    <3>. QED BY ONLY <3>1, Zenon DEF Alive
  <2>2. [op |-> "delete", step |-> "srem", s |-> s, user |-> Alive(w, s)] \in Job
    BY <2>1 DEF Job
  <2>. HIDE DEF Job
  <2>. QED BY <1>8, <2>2 DEF StartDelete
<1>9. ASSUME NEW w \in Worker, DeleteStep(w)
      PROVE TypeInv'
  <2>1. job[w].op = "delete" /\ job[w].s \in Session /\ Owner[job[w].s] \in User
        /\ job[w].user \in BOOLEAN
    BY <1>1, <1>9, JobShape DEF DeleteStep, RemoveFromIndex, DeleteKey, DeleteFails, Deleting
  <2>2. CASE RemoveFromIndex(w)
    <3>1. [op |-> "delete", step |-> "delete", s |-> job[w].s, user |-> job[w].user] \in Job
      BY ONLY <2>1 DEF Job
    <3>2. job' \in [Worker -> {Rest} \cup Job]
      <4>1. job' = [job EXCEPT ![w] = [op |-> "delete", step |-> "delete", s |-> job[w].s,
                                       user |-> job[w].user]]
        BY <2>1, <2>2, DeleteAdvances DEF RemoveFromIndex
      <4>2. job \in [Worker -> {Rest} \cup Job]
        OBVIOUS
      <4>. HIDE DEF Job, Rest
      <4>. QED BY ONLY <3>1, <4>1, <4>2
    <3>. QED BY <2>1, <2>2, <3>2 DEF RemoveFromIndex
  <2>3. CASE DeleteKey(w)
    BY <2>1, <2>3 DEF DeleteKey, Finish, End
  <2>4. CASE DeleteFails(w)
    BY <2>1, <2>4 DEF DeleteFails, Finish, End, Trouble
  <2>. QED BY <1>9, <2>2, <2>3, <2>4 DEF DeleteStep
<1>10. ASSUME NEW w \in Worker, NEW u \in User, StartPurge(w, u)
      PROVE TypeInv'
  <2>1. Owned(u) \subseteq Session
    BY DEF Owned
  <2>2. [op |-> "purge", u |-> u, found |-> index[u], known |-> Owned(u) \cap returned] \in Job
    BY <2>1 DEF Job
  <2>3. CASE redisUp /\ index[u] # {}
    BY <1>10, <2>2, <2>3 DEF StartPurge
  <2>4. CASE ~(redisUp /\ index[u] # {})
    BY <1>10, <2>1, <2>4 DEF StartPurge, PurgeEnds
  <2>. QED BY <2>3, <2>4
<1>11. ASSUME NEW w \in Worker, PurgePipeline(w)
      PROVE TypeInv'
  <2>1. job[w].u \in User
    BY <1>1, <1>11, JobShape DEF PurgePipeline
  <2>. QED BY <1>11, <2>1 DEF PurgePipeline, PurgeEnds, Finish
<1>12. ASSUME NEW w \in Worker, PurgeFails(w)
      PROVE TypeInv'
  BY <1>12 DEF PurgeFails, PurgeEnds, Finish, Trouble, Owned
<1>13. CASE Tick
  BY <1>13 DEF Tick
<1>14. CASE RedisFails
  <2>1. faults' \in 0..MaxFaults
    BY <1>14 DEF RedisFails
  <2>2. redisUp' \in BOOLEAN
    BY ONLY <1>14, Zenon DEF RedisFails
  <2>. QED BY <1>14, <2>1, <2>2 DEF RedisFails
<1>17. CASE RedisRecovers
  BY <1>17 DEF RedisRecovers
<1>15. ASSUME NEW w \in Worker, Crash(w)
      PROVE TypeInv'
  BY <1>15 DEF Crash, Finish
<1>16. CASE UNCHANGED vars
  BY <1>16
<1>. QED BY <1>2, <1>3, <1>4, <1>5, <1>6, <1>7, <1>8, <1>9, <1>10, <1>11, <1>12, <1>13,
            <1>14, <1>15, <1>16, <1>17 DEF Next

(***************************************************************************)
(* The state of the sessions, of the index, of the memory of every worker  *)
(* and of the operations under way has its type in every reachable state.  *)
(***************************************************************************)
THEOREM SessionTypes == Spec => []TypeOK
<1>1. TypeInv => TypeOK
  BY DEF TypeInv
<1>. QED BY <1>1, InitTyped, StepTyped, PTL DEF Spec

------------------------------------------------------------------------------
(* Whose session an operation is about *)

JobsInv == CreatesApart /\ JobsKnown /\ CopiesTroubled /\ EndedReturned

LEMMA InitJobs == Init => JobsInv
BY DEF Init, JobsInv, CreatesApart, JobsKnown, CopiesTroubled, EndedReturned, Rest

(***************************************************************************)
(* A worker that rests, or returns to rest, breaks nothing.                *)
(***************************************************************************)
LEMMA RestingJob ==
    ASSUME TypeInv, JobsInv, NEW w \in Worker, Finish(w), returned' = returned
    PROVE  CreatesApart' /\ JobsKnown'
<1>1. job'[w] = Rest /\ \A v \in Worker \ {w} : job'[v] = job[v]
  BY DEF Finish, TypeInv, TypeOK
<1>. QED BY <1>1 DEF JobsInv, CreatesApart, JobsKnown, Rest, Owned

LEMMA StepJobs == TypeInv /\ JobsInv /\ [Next]_vars => JobsInv'
<1>. SUFFICES ASSUME TypeInv, JobsInv, [Next]_vars PROVE JobsInv'
  OBVIOUS
<1>. USE DEF vars, redis, keys, history
<1>a. \A v \in Worker : job[v] \in {Rest} \cup Job
  BY DEF TypeInv, TypeOK
<1>2. ASSUME NEW w \in Worker, NEW s \in Session, StartCreate(w, s)
      PROVE JobsInv'
  <2>1. job'[w] = [op |-> "create", step |-> "hset", s |-> s]
        /\ \A v \in Worker \ {w} : job'[v] = job[v]
    BY <1>2 DEF StartCreate, TypeInv, TypeOK
  <2>. QED BY <1>2, <2>1 DEF StartCreate, JobsInv, CreatesApart, JobsKnown, CopiesTroubled,
                             EndedReturned, Owned
<1>3. ASSUME NEW w \in Worker, CreateStep(w)
      PROVE JobsInv'
  <2>1. job[w].op = "create" /\ job[w].s \in Session
    BY <1>a, <1>3, JobShape DEF CreateStep, SetHash, SetExpire, AddToIndex, ExpireIndex,
                                FallBack, Creating
  <2>2. ASSUME NEW st \in CreateStepName, Advance(w, st),
               UNCHANGED <<returned, memory, ended, troubled>>
        PROVE  JobsInv'
    <3>1. job'[w] = [op |-> "create", step |-> st, s |-> job[w].s]
          /\ \A v \in Worker \ {w} : job'[v] = job[v]
      BY <2>1, <2>2, CreateAdvances DEF TypeInv, TypeOK
    <3>. QED BY <2>1, <2>2, <3>1 DEF JobsInv, CreatesApart, JobsKnown, CopiesTroubled,
                                     EndedReturned, Owned
  <2>3. ASSUME Return(w), ended' = ended, troubled \subseteq troubled',
               \A v \in Worker : memory'[v] \subseteq memory[v] \cup (returned' \cap troubled')
        PROVE  JobsInv'
    <3>1. job'[w] = Rest /\ \A v \in Worker \ {w} : job'[v] = job[v]
      BY <2>3 DEF Return, Finish, TypeInv, TypeOK
    <3>2. returned' = returned \cup {job[w].s}
      BY <2>3 DEF Return
    <3>3. CreatesApart'
      BY <2>1, <3>1, <3>2 DEF JobsInv, CreatesApart, Rest
    <3>4. JobsKnown'
      BY <3>1, <3>2 DEF JobsInv, JobsKnown, Rest, Owned
    <3>5. CopiesTroubled' /\ EndedReturned'
      BY <2>3, <3>2 DEF JobsInv, CopiesTroubled, EndedReturned
    <3>. QED BY <3>3, <3>4, <3>5 DEF JobsInv
  <2>4. CASE SetHash(w) \/ SetExpire(w) \/ AddToIndex(w)
    BY <2>2, <2>4 DEF SetHash, SetExpire, AddToIndex, CreateStepName
  <2>5. CASE ExpireIndex(w)
    BY <2>3, <2>5 DEF ExpireIndex
  <2>6. CASE FallBack(w)
    <3>1. \A v \in Worker : memory'[v] \subseteq memory[v] \cup {job[w].s}
      BY <2>6 DEF FallBack, TypeInv, TypeOK
    <3>. QED BY <2>3, <2>6, <3>1 DEF FallBack, Return, Trouble
  <2>. QED BY <1>3, <2>4, <2>5, <2>6 DEF CreateStep
<1>4. ASSUME NEW w \in Worker, NEW s \in Session, Authenticate(w, s)
      PROVE JobsInv'
  BY <1>4 DEF Authenticate, JobsInv, CreatesApart, JobsKnown, CopiesTroubled, EndedReturned, Owned
<1>5. ASSUME NEW w \in Worker, NEW s \in Session, StartUpdate(w, s)
      PROVE JobsInv'
  <2>1. job'[w] = [op |-> "update", s |-> s] /\ \A v \in Worker \ {w} : job'[v] = job[v]
    BY <1>5 DEF StartUpdate, TypeInv, TypeOK
  <2>. QED BY <1>5, <2>1 DEF StartUpdate, JobsInv, CreatesApart, JobsKnown, CopiesTroubled,
                             EndedReturned, Owned
<1>6. ASSUME NEW w \in Worker, WriteData(w)
      PROVE JobsInv'
  BY <1>6, RestingJob DEF WriteData, JobsInv, CopiesTroubled, EndedReturned
<1>7. ASSUME NEW w \in Worker, WriteFails(w)
      PROVE JobsInv'
  BY <1>7, RestingJob DEF WriteFails, Trouble, JobsInv, CopiesTroubled, EndedReturned
<1>8. ASSUME NEW w \in Worker, NEW s \in Session, StartDelete(w, s)
      PROVE JobsInv'
  <2>1. job'[w] = [op |-> "delete", step |-> "srem", s |-> s, user |-> Alive(w, s)]
        /\ \A v \in Worker \ {w} : job'[v] = job[v]
    BY <1>8 DEF StartDelete, TypeInv, TypeOK
  <2>. QED BY <1>8, <2>1 DEF StartDelete, JobsInv, CreatesApart, JobsKnown, CopiesTroubled,
                             EndedReturned, Owned
<1>9. ASSUME NEW w \in Worker, DeleteStep(w)
      PROVE JobsInv'
  <2>1. job[w].op = "delete" /\ job[w].s \in Session
    BY <1>a, <1>9, JobShape DEF DeleteStep, RemoveFromIndex, DeleteKey, DeleteFails, Deleting
  <2>2. job[w].s \in returned
    BY <2>1 DEF JobsInv, JobsKnown
  <2>3. CASE RemoveFromIndex(w)
    <3>1. job'[w] = [op |-> "delete", step |-> "delete", s |-> job[w].s, user |-> job[w].user]
          /\ \A v \in Worker \ {w} : job'[v] = job[v]
      BY <2>1, <2>3, DeleteAdvances DEF RemoveFromIndex, TypeInv, TypeOK
    <3>2. UNCHANGED <<returned, memory, ended, troubled>>
      BY <2>3 DEF RemoveFromIndex
    <3>3. CreatesApart' /\ JobsKnown'
      BY <2>2, <3>1, <3>2 DEF JobsInv, CreatesApart, JobsKnown, Owned
    <3>. QED BY <3>2, <3>3 DEF JobsInv, CopiesTroubled, EndedReturned
  <2>4. CASE DeleteKey(w)
    BY <2>2, <2>4, RestingJob DEF DeleteKey, End, JobsInv, CopiesTroubled, EndedReturned
  <2>5. CASE DeleteFails(w)
    <3>1. \A v \in Worker : memory'[v] \subseteq memory[v]
      BY <2>5 DEF DeleteFails, TypeInv, TypeOK
    <3>. QED BY <2>2, <2>5, <3>1, RestingJob DEF DeleteFails, End, Trouble, JobsInv,
                                                 CopiesTroubled, EndedReturned
  <2>. QED BY <1>9, <2>3, <2>4, <2>5 DEF DeleteStep
<1>10. ASSUME NEW w \in Worker, NEW u \in User, StartPurge(w, u)
      PROVE JobsInv'
  <2>1. CASE redisUp /\ index[u] # {}
    <3>1. job'[w] = [op |-> "purge", u |-> u, found |-> index[u], known |-> Owned(u) \cap returned]
          /\ \A v \in Worker \ {w} : job'[v] = job[v]
      BY <1>10, <2>1 DEF StartPurge, TypeInv, TypeOK
    <3>. QED BY <1>10, <2>1, <3>1 DEF StartPurge, JobsInv, CreatesApart, JobsKnown,
                                      CopiesTroubled, EndedReturned, Owned
  <2>2. CASE ~(redisUp /\ index[u] # {})
    <3>1. \A v \in Worker : memory'[v] \subseteq memory[v]
      BY <1>10, <2>2 DEF StartPurge, TypeInv, TypeOK
    <3>2. job' = job /\ returned' = returned /\ troubled \subseteq troubled'
      BY <1>10, <2>2 DEF StartPurge
    <3>3. EndedReturned'
      BY <1>10, <2>2, <3>2 DEF StartPurge, PurgeEnds, JobsInv, EndedReturned
    <3>. QED BY <3>1, <3>2, <3>3 DEF JobsInv, CreatesApart, JobsKnown, CopiesTroubled, Owned
  <2>. QED BY <2>1, <2>2
<1>11. ASSUME NEW w \in Worker, PurgePipeline(w) \/ PurgeFails(w)
      PROVE JobsInv'
  <2>1. \A v \in Worker : memory'[v] \subseteq memory[v]
    BY <1>11 DEF PurgePipeline, PurgeFails, TypeInv, TypeOK
  <2>2. job[w].known \subseteq returned
    BY <1>11 DEF PurgePipeline, PurgeFails, JobsInv, JobsKnown
  <2>3. returned' = returned /\ troubled \subseteq troubled' /\ Finish(w) /\ PurgeEnds(job[w].known)
    BY <1>11 DEF PurgePipeline, PurgeFails, Trouble
  <2>4. EndedReturned'
    BY <2>2, <2>3 DEF PurgeEnds, JobsInv, EndedReturned
  <2>. QED BY <2>1, <2>3, <2>4, RestingJob DEF JobsInv, CopiesTroubled
<1>12. CASE Tick \/ RedisFails \/ RedisRecovers \/ UNCHANGED vars
  BY <1>12 DEF Tick, RedisFails, RedisRecovers, JobsInv, CreatesApart, JobsKnown, CopiesTroubled,
               EndedReturned, Owned
<1>13. ASSUME NEW w \in Worker, Crash(w)
      PROVE JobsInv'
  <2>1. \A v \in Worker : memory'[v] \subseteq memory[v]
    BY <1>13 DEF Crash, TypeInv, TypeOK
  <2>. QED BY <1>13, <2>1, RestingJob DEF Crash, JobsInv, CopiesTroubled, EndedReturned
<1>. QED BY <1>2, <1>3, <1>4, <1>5, <1>6, <1>7, <1>8, <1>9, <1>10, <1>11, <1>12, <1>13 DEF Next

------------------------------------------------------------------------------
(* What the steps do to the keys *)

\* Only a session that is being created gets the field that names its user,
\* and no step but a new creation lets a key live longer than Ttl from now.
KeysStep ==
    \A s \in Session :
        \/ "user" \in hash'[s] => "user" \in hash[s] /\ until'[s] \in {until[s], now + Ttl}
        \/ \E w \in Worker : Creating(w, "hset") /\ job[w].s = s /\ job'[w].op = "create"
                             /\ job'[w].step = "expire"

LEMMA StepKeys == TypeInv /\ [Next]_vars => KeysStep
<1>. SUFFICES ASSUME TypeInv, [Next]_vars, NEW s \in Session,
                     ~ \E w \in Worker : Creating(w, "hset") /\ job[w].s = s
                                         /\ job'[w].op = "create" /\ job'[w].step = "expire",
                     "user" \in hash'[s]
              PROVE  "user" \in hash[s] /\ until'[s] \in {until[s], now + Ttl}
  BY DEF KeysStep
<1>. USE DEF vars, redis, keys, history, TypeInv, TypeOK
<1>a. \A v \in Worker : job[v] \in {Rest} \cup Job
  OBVIOUS
<1>1. CASE hash' = hash /\ until' = until
  BY <1>1
<1>2. ASSUME NEW w \in Worker, CreateStep(w)
      PROVE  "user" \in hash[s] /\ until'[s] \in {until[s], now + Ttl}
  <2>1. CASE SetHash(w)
    <3>1. job[w].op = "create" /\ job[w].s \in Session
      BY <1>a, <2>1, JobShape DEF SetHash, Creating
    <3>2. job'[w] = [op |-> "create", step |-> "expire", s |-> job[w].s]
      BY <2>1, <3>1, CreateAdvances DEF SetHash, CreateStepName
    <3>3. s # job[w].s
      BY <2>1, <3>2 DEF SetHash
    <3>. QED BY <2>1, <3>3 DEF SetHash
  <2>2. CASE SetExpire(w)
    BY <2>2 DEF SetExpire
  <2>. QED BY <1>1, <1>2, <2>1, <2>2 DEF CreateStep, AddToIndex, ExpireIndex, FallBack
<1>3. ASSUME NEW w \in Worker, NEW x \in Session, Authenticate(w, x)
      PROVE  "user" \in hash[s] /\ until'[s] \in {until[s], now + Ttl}
  BY <1>3 DEF Authenticate
<1>4. ASSUME NEW w \in Worker, WriteData(w)
      PROVE  "user" \in hash[s] /\ until'[s] \in {until[s], now + Ttl}
  <2>1. "user" \in hash[s]
    BY <1>4 DEF WriteData
  <2>2. until'[s] = until[s]
    BY <1>4, <2>1 DEF WriteData
  <2>. QED BY <2>1, <2>2
<1>5. ASSUME NEW w \in Worker, DeleteStep(w)
      PROVE  "user" \in hash[s] /\ until'[s] \in {until[s], now + Ttl}
  <2>1. CASE DeleteKey(w)
    BY <2>1 DEF DeleteKey
  <2>. QED BY <1>1, <1>5, <2>1 DEF DeleteStep, RemoveFromIndex, DeleteFails
<1>6. ASSUME NEW w \in Worker, PurgePipeline(w)
      PROVE  "user" \in hash[s] /\ until'[s] \in {until[s], now + Ttl}
  BY <1>6 DEF PurgePipeline
<1>7. CASE Tick
  BY <1>7 DEF Tick
<1>8. CASE \E w \in Worker, x \in Session :
             StartCreate(w, x) \/ StartUpdate(w, x) \/ StartDelete(w, x)
  BY <1>1, <1>8 DEF StartCreate, StartUpdate, StartDelete
<1>9. CASE \E w \in Worker : WriteFails(w) \/ PurgeFails(w) \/ Crash(w)
  BY <1>1, <1>9 DEF WriteFails, PurgeFails, Crash
<1>10. CASE \E w \in Worker, u \in User : StartPurge(w, u)
  BY <1>1, <1>10 DEF StartPurge
<1>11. CASE RedisFails \/ RedisRecovers \/ UNCHANGED vars
  BY <1>1, <1>11 DEF RedisFails, RedisRecovers
<1>. QED BY <1>2, <1>3, <1>4, <1>5, <1>6, <1>7, <1>8, <1>9, <1>10, <1>11 DEF Next

------------------------------------------------------------------------------
(* Logout *)

\* Who is logged out by a step: only a session whose key the step deletes, or
\* one in trouble.
LogoutStep ==
    /\ troubled \subseteq troubled'
    /\ \A s \in Session : ended'[s] = "logout" =>
          \/ ended[s] = "logout"
          \/ "user" \notin hash'[s]
          \/ s \in troubled'

LEMMA StepLogout == TypeInv /\ [Next]_vars => LogoutStep
<1>. SUFFICES ASSUME TypeInv, [Next]_vars PROVE LogoutStep
  OBVIOUS
<1>. USE DEF vars, redis, keys, history, TypeInv, TypeOK
<1>1. CASE UNCHANGED <<ended, troubled>>
  BY <1>1 DEF LogoutStep
<1>2. ASSUME NEW w \in Worker, CreateStep(w) \/ WriteFails(w)
      PROVE  LogoutStep
  BY <1>1, <1>2 DEF CreateStep, SetHash, SetExpire, AddToIndex, ExpireIndex, FallBack, Return,
                    WriteFails, Trouble, LogoutStep
<1>3. ASSUME NEW w \in Worker, DeleteStep(w)
      PROVE  LogoutStep
  <2>1. CASE DeleteKey(w)
    BY <2>1 DEF DeleteKey, End, LogoutStep
  <2>2. CASE DeleteFails(w)
    BY <2>2 DEF DeleteFails, End, Trouble, LogoutStep
  <2>. QED BY <1>1, <1>3, <2>1, <2>2 DEF DeleteStep, RemoveFromIndex
<1>4. ASSUME NEW w \in Worker, NEW u \in User, StartPurge(w, u)
      PROVE  LogoutStep
  BY <1>1, <1>4 DEF StartPurge, PurgeEnds, LogoutStep
<1>5. ASSUME NEW w \in Worker, PurgePipeline(w) \/ PurgeFails(w)
      PROVE  LogoutStep
  BY <1>5 DEF PurgePipeline, PurgeFails, PurgeEnds, Trouble, LogoutStep
<1>6. CASE \E w \in Worker, x \in Session :
             StartCreate(w, x) \/ Authenticate(w, x) \/ StartUpdate(w, x) \/ StartDelete(w, x)
  BY <1>1, <1>6 DEF StartCreate, Authenticate, StartUpdate, StartDelete
<1>7. CASE \E w \in Worker : WriteData(w) \/ Crash(w)
  BY <1>1, <1>7 DEF WriteData, Crash
<1>8. CASE Tick \/ RedisFails \/ RedisRecovers \/ UNCHANGED vars
  BY <1>1, <1>8 DEF Tick, RedisFails, RedisRecovers
<1>. QED BY <1>2, <1>3, <1>4, <1>5, <1>6, <1>7, <1>8 DEF Next

LEMMA LogoutKept == TypeInv /\ JobsInv /\ LoggedOut /\ [Next]_vars => LoggedOut'
<1>. SUFFICES ASSUME TypeInv, JobsInv, LoggedOut, [Next]_vars,
                     NEW s \in Session, s \notin troubled', ended'[s] = "logout",
                     "user" \in hash'[s]
              PROVE  FALSE
  BY DEF LoggedOut
<1>1. ended[s] = "logout" /\ s \notin troubled /\ "user" \notin hash[s]
  BY StepLogout DEF LogoutStep, LoggedOut
<1>2. s \in returned
  BY <1>1 DEF JobsInv, EndedReturned
<1>3. \A w \in Worker : Creating(w, "hset") => job[w].s # s
  BY <1>2 DEF Creating, JobsInv, CreatesApart
<1>. QED BY <1>1, <1>3, StepKeys DEF KeysStep

(***************************************************************************)
(* delete_session is final: once it has ended a session, no worker accepts *)
(* the session again, whatever updates, refreshes and purges run beside it *)
(* on however many workers, unless a Redis call about it has raised.       *)
(***************************************************************************)
THEOREM LogoutFinal == Spec => []LogoutIsFinal
<1>. DEFINE Inv == TypeInv /\ JobsInv /\ LoggedOut
<1>1. Init => Inv
  <2>1. Init => LoggedOut
    BY DEF Init, LoggedOut
  <2>. QED BY <2>1, InitTyped, InitJobs
<1>2. Inv /\ [Next]_vars => Inv'
  BY StepTyped, StepJobs, LogoutKept
<1>3. Inv => LogoutIsFinal
  BY DEF LogoutIsFinal, Alive, JobsInv, CopiesTroubled, LoggedOut
<1>. QED BY <1>1, <1>2, <1>3, PTL DEF Spec

------------------------------------------------------------------------------
(* Expiry *)

\* Time and the histories only grow, and a session is returned by the worker
\* that creates it.
GrowingStep ==
    /\ now <= now'
    /\ returned \subseteq returned' /\ troubled \subseteq troubled' /\ dropped \subseteq dropped'
    /\ \A s \in returned : born'[s] = born[s]
    /\ \A s \in returned' \ returned :
          \E w \in Worker : /\ job[w].op = "create" /\ job[w].s = s
                            /\ ExpireIndex(w) \/ FallBack(w)

LEMMA StepGrowing == TypeInv /\ JobsInv /\ [Next]_vars => GrowingStep
<1>. SUFFICES ASSUME TypeInv, JobsInv, [Next]_vars PROVE GrowingStep
  OBVIOUS
<1>. USE DEF vars, redis, keys, history
<1>0. now <= now
  BY DEF TypeInv, TypeOK
<1>1. CASE UNCHANGED <<now, born, returned>> /\ troubled \subseteq troubled' /\ dropped \subseteq dropped'
  BY <1>0, <1>1 DEF GrowingStep
<1>2. ASSUME NEW w \in Worker, CreateStep(w)
      PROVE  GrowingStep
  <2>1. CASE ExpireIndex(w) \/ FallBack(w)
    <3>1. job[w].op = "create" /\ Return(w) /\ UNCHANGED <<now, dropped>>
          /\ troubled \subseteq troubled'
      BY <2>1 DEF ExpireIndex, FallBack, Creating, Trouble
    <3>2. job[w].s \notin returned
      BY <3>1 DEF JobsInv, CreatesApart
    <3>3. \A s \in returned : born'[s] = born[s]
      BY <3>1, <3>2 DEF Return, TypeInv, TypeOK
    <3>4. \A s \in returned' \ returned : s = job[w].s
      BY <3>1 DEF Return
    <3>. QED BY <1>0, <2>1, <3>1, <3>3, <3>4 DEF GrowingStep, Return
  <2>. QED BY <1>1, <1>2, <2>1 DEF CreateStep, SetHash, SetExpire, AddToIndex
<1>3. ASSUME NEW w \in Worker, DeleteStep(w)
      PROVE  GrowingStep
  BY <1>1, <1>3 DEF DeleteStep, RemoveFromIndex, DeleteKey, DeleteFails, Trouble
<1>4. ASSUME NEW w \in Worker, NEW u \in User, StartPurge(w, u)
      PROVE  GrowingStep
  BY <1>1, <1>4 DEF StartPurge
<1>5. CASE \E w \in Worker : PurgePipeline(w) \/ PurgeFails(w)
  BY <1>1, <1>5 DEF PurgePipeline, PurgeFails, Trouble
<1>6. CASE \E w \in Worker, x \in Session :
             StartCreate(w, x) \/ Authenticate(w, x) \/ StartUpdate(w, x) \/ StartDelete(w, x)
  BY <1>1, <1>6 DEF StartCreate, Authenticate, StartUpdate, StartDelete
<1>7. CASE \E w \in Worker : WriteData(w) \/ WriteFails(w) \/ Crash(w)
  BY <1>1, <1>7 DEF WriteData, WriteFails, Crash, Trouble
<1>8. CASE Tick
  BY <1>8 DEF Tick, TypeInv, TypeOK, GrowingStep
<1>9. CASE RedisFails \/ RedisRecovers \/ UNCHANGED vars
  BY <1>1, <1>9 DEF RedisFails, RedisRecovers
<1>. QED BY <1>2, <1>3, <1>4, <1>5, <1>6, <1>7, <1>8, <1>9 DEF Next

\* A worker that is past a call of create_session has just made it, or was past
\* it before.
StageStep ==
    \A v \in Worker : job'[v] # job[v] =>
        /\ job'[v].op = "create" /\ job'[v].step = "sadd" => SetExpire(v)
        /\ job'[v].op = "create" /\ job'[v].step = "expireIndex" => AddToIndex(v)
        /\ job'[v].op = "purge" =>
              \E u \in User : /\ StartPurge(v, u) /\ job'[v].found = index[u]
                              /\ job'[v].known = Owned(u) \cap returned

LEMMA StepStages == TypeInv /\ [Next]_vars => StageStep
<1>. SUFFICES ASSUME TypeInv, [Next]_vars, NEW v \in Worker, job'[v] # job[v]
              PROVE  /\ job'[v].op = "create" /\ job'[v].step = "sadd" => SetExpire(v)
                     /\ job'[v].op = "create" /\ job'[v].step = "expireIndex" => AddToIndex(v)
                     /\ job'[v].op = "purge" =>
                           \E u \in User : /\ StartPurge(v, u) /\ job'[v].found = index[u]
                                           /\ job'[v].known = Owned(u) \cap returned
  BY DEF StageStep
<1>. USE DEF vars, redis, keys, history
<1>a. job \in [Worker -> {Rest} \cup Job] /\ \A w \in Worker : job[w] \in {Rest} \cup Job
  BY DEF TypeInv, TypeOK
<1>b. \A w \in Worker : Finish(w) => job'[v] = Rest
  BY <1>a DEF Finish
<1>c. Rest.op = "rest"
  BY DEF Rest
<1>1. ASSUME NEW w \in Worker, NEW s \in Session,
             StartCreate(w, s) \/ StartUpdate(w, s) \/ StartDelete(w, s)
      PROVE  \/ job'[v].op \in {"update", "delete"}
             \/ job'[v].op = "create" /\ job'[v].step = "hset"
  <2>1. CASE StartCreate(w, s)
    BY <1>a, <2>1 DEF StartCreate
  <2>2. CASE StartUpdate(w, s)
    BY <1>a, <2>2 DEF StartUpdate
  <2>3. CASE StartDelete(w, s)
    BY <1>a, <2>3 DEF StartDelete
  <2>. QED BY <1>1, <2>1, <2>2, <2>3
<1>2. ASSUME NEW w \in Worker, CreateStep(w)
      PROVE  \/ job'[v].op = "rest"
             \/ job'[v].op = "create" /\ job'[v].step = "expire"
             \/ job'[v].op = "create" /\ job'[v].step = "sadd" /\ SetExpire(v)
             \/ job'[v].op = "create" /\ job'[v].step = "expireIndex" /\ AddToIndex(v)
  <2>1. CASE ExpireIndex(w) \/ FallBack(w)
    BY <1>b, <1>c, <2>1 DEF ExpireIndex, FallBack, Return
  <2>2. CASE SetHash(w) \/ SetExpire(w) \/ AddToIndex(w)
    <3>1. job[w].op = "create"
      BY <2>2 DEF SetHash, SetExpire, AddToIndex, Creating
    <3>2. \A st \in CreateStepName : Advance(w, st) =>
             v = w /\ job'[w] = [op |-> "create", step |-> st, s |-> job[w].s]
      BY <1>a, <3>1, CreateAdvances DEF TypeInv
    <3>3. CASE SetHash(w)
      BY <3>2, <3>3 DEF SetHash, CreateStepName
    <3>4. CASE SetExpire(w)
      <4>1. v = w /\ job'[w] = [op |-> "create", step |-> "sadd", s |-> job[w].s]
        BY <3>2, <3>4 DEF SetExpire, CreateStepName
      <4>. QED BY <3>4, <4>1
    <3>5. CASE AddToIndex(w)
      <4>1. v = w /\ job'[w] = [op |-> "create", step |-> "expireIndex", s |-> job[w].s]
        BY <3>2, <3>5 DEF AddToIndex, CreateStepName
      <4>. QED BY <3>5, <4>1
    <3>. QED BY <2>2, <3>3, <3>4, <3>5
  <2>. QED BY <1>2, <2>1, <2>2 DEF CreateStep
<1>3. ASSUME NEW w \in Worker, DeleteStep(w)
      PROVE  job'[v].op \in {"rest", "delete"}
  <2>1. CASE RemoveFromIndex(w)
    <3>1. job[w].op = "delete"
      BY <2>1 DEF RemoveFromIndex, Deleting
    <3>2. job' = [job EXCEPT ![w] = [op |-> "delete", step |-> "delete",
                                     s |-> job[w].s, user |-> job[w].user]]
      BY <2>1, <3>1, DeleteAdvances DEF RemoveFromIndex, TypeInv
    <3>. QED BY <1>a, <3>2
  <2>2. CASE DeleteKey(w) \/ DeleteFails(w)
    BY <1>b, <1>c, <2>2 DEF DeleteKey, DeleteFails
  <2>. QED BY <1>3, <2>1, <2>2 DEF DeleteStep
<1>4. ASSUME NEW w \in Worker, NEW u \in User, StartPurge(w, u)
      PROVE  /\ v = w /\ job'[v].op = "purge"
             /\ job'[v].found = index[u] /\ job'[v].known = Owned(u) \cap returned
  BY <1>a, <1>4 DEF StartPurge
<1>5. ASSUME NEW w \in Worker,
             \/ WriteData(w) \/ WriteFails(w) \/ PurgePipeline(w) \/ PurgeFails(w) \/ Crash(w)
      PROVE  job'[v].op = "rest"
  BY <1>b, <1>c, <1>5 DEF WriteData, WriteFails, PurgePipeline, PurgeFails, Crash
<1>6. CASE Tick \/ RedisFails \/ RedisRecovers \/ UNCHANGED vars
  BY <1>6 DEF Tick, RedisFails, RedisRecovers
<1>7. CASE \E w \in Worker, s \in Session : Authenticate(w, s)
  BY <1>7 DEF Authenticate
<1>8. CASE \E w \in Worker, s \in Session :
             StartCreate(w, s) \/ StartUpdate(w, s) \/ StartDelete(w, s)
  BY <1>1, <1>8
<1>9. CASE \E w \in Worker : CreateStep(w)
  BY <1>2, <1>9
<1>10. CASE \E w \in Worker : DeleteStep(w)
  BY <1>3, <1>10
<1>11. CASE \E w \in Worker, u \in User : StartPurge(w, u)
  <2>1. PICK w \in Worker, u \in User : StartPurge(w, u)
    BY <1>11
  <2>2. /\ v = w /\ job'[v].op = "purge"
        /\ job'[v].found = index[u] /\ job'[v].known = Owned(u) \cap returned
    BY <1>4, <2>1
  <2>. QED BY <2>1, <2>2
<1>12. CASE \E w \in Worker :
              \/ WriteData(w) \/ WriteFails(w) \/ PurgePipeline(w) \/ PurgeFails(w) \/ Crash(w)
  BY <1>5, <1>12
<1>. QED BY <1>6, <1>7, <1>8, <1>9, <1>10, <1>11, <1>12 DEF Next

\* Nobody else creates a session that has been returned, or that a worker past
\* the first call is creating.
LEMMA KeyKept ==
    ASSUME TypeInv, JobsInv, [Next]_vars, NEW s \in Session, "user" \in hash'[s],
           \/ s \in returned
           \/ \E v \in Worker : job[v].op = "create" /\ job[v].step # "hset" /\ job[v].s = s
    PROVE  "user" \in hash[s] /\ until'[s] \in {until[s], now + Ttl}
<1>1. \A w \in Worker : Creating(w, "hset") => job[w].s # s
  BY DEF Creating, JobsInv, CreatesApart
<1>. QED BY <1>1, StepKeys DEF KeysStep

LEMMA ExpiryKept ==
    TypeInv /\ JobsInv /\ CreatedExpires /\ SessionsExpire /\ [Next]_vars
      => CreatedExpires' /\ SessionsExpire'
<1>. SUFFICES ASSUME TypeInv, JobsInv, CreatedExpires, SessionsExpire, [Next]_vars
              PROVE  CreatedExpires' /\ SessionsExpire'
  OBVIOUS
<1>0. now \in Nat /\ now' \in Nat /\ now <= now' /\ Ttl \in Nat
      /\ \A s \in Session : until[s] \in Int
  BY ConstantsAssumption, StepTyped, StepGrowing DEF TypeInv, TypeOK, NoTtl, GrowingStep
<1>1. ASSUME NEW s \in Session, Expiring(s), "user" \in hash'[s],
             \/ s \in returned
             \/ \E v \in Worker : job[v].op = "create" /\ job[v].step # "hset" /\ job[v].s = s
      PROVE  until'[s] <= now' + Ttl
  BY <1>0, <1>1, KeyKept DEF Expiring
<1>2. ASSUME NEW v \in Worker, job'[v].op = "create", job'[v].step \in {"sadd", "expireIndex"},
             "user" \in hash'[job'[v].s]
      PROVE  until'[job'[v].s] <= now' + Ttl
  <2>0. job[v] \in {Rest} \cup Job
    BY DEF TypeInv, TypeOK
  <2>1. CASE job'[v] = job[v]
    <3>1. job[v].s \in Session
      BY <1>2, <2>0, <2>1, JobShape
    <3>. QED BY <1>1, <1>2, <2>1, <3>1 DEF CreatedExpires
  <2>2. CASE SetExpire(v)
    <3>1. job[v].op = "create" /\ job[v].s \in Session
      BY <2>0, <2>2, JobShape DEF SetExpire, Creating
    <3>2. job'[v] = [op |-> "create", step |-> "sadd", s |-> job[v].s]
      BY <2>2, <3>1, CreateAdvances DEF SetExpire, CreateStepName, TypeInv, TypeOK
    <3>. QED BY <1>0, <2>2, <3>1, <3>2 DEF SetExpire, TypeInv, TypeOK
  <2>3. CASE AddToIndex(v)
    <3>1. job[v].op = "create" /\ job[v].step = "sadd" /\ job[v].s \in Session
      BY <2>0, <2>3, JobShape DEF AddToIndex, Creating
    <3>2. job'[v] = [op |-> "create", step |-> "expireIndex", s |-> job[v].s]
      BY <2>3, <3>1, CreateAdvances DEF AddToIndex, CreateStepName, TypeInv, TypeOK
    <3>. QED BY <1>1, <1>2, <3>1, <3>2 DEF CreatedExpires
  <2>. QED BY <1>2, <2>1, <2>2, <2>3, StepStages DEF StageStep
<1>3. ASSUME NEW s \in returned' \ troubled', "user" \in hash'[s]
      PROVE  until'[s] <= now' + Ttl
  <2>0. s \in Session
    BY StepTyped DEF TypeInv, TypeOK
  <2>1. CASE s \in returned
    <3>1. s \notin troubled
      BY StepGrowing DEF GrowingStep
    <3>2. "user" \in hash[s]
      BY <1>3, <2>0, <2>1, KeyKept
    <3>. QED BY <1>1, <1>3, <2>0, <2>1, <3>1, <3>2 DEF SessionsExpire, Expiring
  <2>2. CASE s \notin returned
    <3>1. PICK w \in Worker : job[w].op = "create" /\ job[w].s = s /\ (ExpireIndex(w) \/ FallBack(w))
      BY <2>2, StepGrowing DEF GrowingStep
    <3>2. ~FallBack(w)
      BY <3>1 DEF FallBack, Trouble
    <3>3. job[w].step = "expireIndex"
      BY <3>1, <3>2 DEF ExpireIndex, Creating
    <3>. QED BY <1>1, <1>3, <2>0, <3>1, <3>3 DEF CreatedExpires
  <2>. QED BY <2>1, <2>2
<1>. QED BY <1>2, <1>3 DEF CreatedExpires, Expiring, SessionsExpire

(***************************************************************************)
(* The key of every session a client can present has a time to live of at  *)
(* most Ttl from now, so that an unused session disappears, unless a Redis *)
(* call about it has raised.                                               *)
(***************************************************************************)
THEOREM SessionsExpireAlways == Spec => []SessionsExpire
<1>. DEFINE Inv == TypeInv /\ JobsInv /\ CreatedExpires /\ SessionsExpire
<1>1. Init => Inv
  <2>1. Init => CreatedExpires /\ SessionsExpire
    BY DEF Init, CreatedExpires, SessionsExpire, Rest
  <2>. QED BY <2>1, InitTyped, InitJobs
<1>2. Inv /\ [Next]_vars => Inv'
  BY StepTyped, StepJobs, ExpiryKept
<1>. QED BY <1>1, <1>2, PTL DEF Spec

------------------------------------------------------------------------------
(* Purges *)

IndexedInv == RecentIndexed /\ CreatedIndexed /\ PurgeFinds /\ PurgedFresh

\* What leaves an index was dropped, deleted by the purge that emptied it, or
\* left it with the time to live of the index; and an index that exists is
\* never given less than Ttl from now.
IndexStep ==
    \A s \in Session : s \in index[Owner[s]] =>
        \/ "user" \notin hash'[s]
        \/ s \in dropped'
        \/ /\ s \in index'[Owner[s]]
           /\ indexUntil'[Owner[s]] \in {indexUntil[Owner[s]], now + Ttl}
        \/ indexUntil[Owner[s]] <= now' /\ \A w \in Worker : job'[w] = Rest

LEMMA StepIndex == TypeInv /\ [Next]_vars => IndexStep
<1>. SUFFICES ASSUME TypeInv, [Next]_vars PROVE IndexStep
  OBVIOUS
<1>. USE ConstantsAssumption DEF vars, redis, keys, history, TypeInv, TypeOK
<1>a. \A v \in Worker : job[v] \in {Rest} \cup Job
  OBVIOUS
<1>1. CASE UNCHANGED <<index, indexUntil>>
  BY <1>1 DEF IndexStep
<1>2. ASSUME NEW w \in Worker, CreateStep(w)
      PROVE  IndexStep
  <2>1. CASE AddToIndex(w)
    BY <2>1 DEF AddToIndex, IndexStep
  <2>2. CASE ExpireIndex(w)
    BY <2>2 DEF ExpireIndex, IndexStep
  <2>. QED BY <1>1, <1>2, <2>1, <2>2 DEF CreateStep, SetHash, SetExpire, FallBack
<1>3. ASSUME NEW w \in Worker, DeleteStep(w)
      PROVE  IndexStep
  <2>1. CASE RemoveFromIndex(w)
    <3>1. job[w].s \in Session
      BY <1>a, <2>1, JobShape DEF RemoveFromIndex, Deleting
    <3>2. \A s \in Session : s \in index[Owner[s]] => s \in dropped' \/ s \in index'[Owner[s]]
      BY <2>1, <3>1 DEF RemoveFromIndex
    <3>. QED BY <2>1, <3>2 DEF RemoveFromIndex, IndexStep
  <2>. QED BY <1>1, <1>3, <2>1 DEF DeleteStep, DeleteKey, DeleteFails
<1>4. ASSUME NEW w \in Worker, PurgePipeline(w)
      PROVE  IndexStep
  BY <1>4 DEF PurgePipeline, IndexStep
<1>5. CASE Tick
  BY <1>5 DEF Tick, IndexStep
<1>6. CASE \E w \in Worker, x \in Session :
             StartCreate(w, x) \/ Authenticate(w, x) \/ StartUpdate(w, x) \/ StartDelete(w, x)
  BY <1>1, <1>6 DEF StartCreate, Authenticate, StartUpdate, StartDelete
<1>7. CASE \E w \in Worker : WriteData(w) \/ WriteFails(w) \/ PurgeFails(w) \/ Crash(w)
  BY <1>1, <1>7 DEF WriteData, WriteFails, PurgeFails, Crash
<1>8. CASE \E w \in Worker, u \in User : StartPurge(w, u)
  BY <1>1, <1>8 DEF StartPurge
<1>9. CASE RedisFails \/ RedisRecovers \/ UNCHANGED vars
  BY <1>1, <1>9 DEF RedisFails, RedisRecovers
<1>. QED BY <1>2, <1>3, <1>4, <1>5, <1>6, <1>7, <1>8, <1>9 DEF Next

\* The facts every proof below starts from.
LEMMA PurgeFacts ==
    ASSUME TypeInv, JobsInv, [Next]_vars
    PROVE  /\ now \in Nat /\ now' \in Nat /\ now <= now' /\ Ttl \in Nat /\ now <= MaxTime
           /\ \A s \in Session : born[s] \in Nat /\ born[s] <= now /\ Owner[s] \in User
           /\ \A u \in User : indexUntil[u] \in Int
           /\ Exempt \subseteq Exempt'
           /\ \A s \in returned : s \in Session /\ (Recent(s)' => Recent(s))
<1>1. now \in Nat /\ now' \in Nat /\ now <= now' /\ Ttl \in Nat /\ now <= MaxTime
  BY ConstantsAssumption, StepTyped, StepGrowing DEF TypeInv, TypeOK, GrowingStep
<1>2. \A s \in Session : born[s] \in Nat /\ born[s] <= now /\ Owner[s] \in User
  BY ConstantsAssumption DEF TypeInv, TypeOK
<1>3. \A u \in User : indexUntil[u] \in Int
  BY ConstantsAssumption DEF TypeInv, TypeOK, NoTtl
<1>4. Exempt \subseteq Exempt'
  BY StepGrowing DEF GrowingStep, Exempt
<1>5. \A s \in returned : s \in Session /\ (Recent(s)' => Recent(s))
  <2>. TAKE s \in returned
  <2>1. s \in Session /\ born'[s] = born[s]
    BY StepGrowing DEF GrowingStep, TypeInv, TypeOK
  <2>. QED BY <1>1, <1>2, <2>1 DEF Recent
<1>. QED BY <1>1, <1>2, <1>3, <1>4, <1>5

LEMMA RecentIndexedKept ==
    TypeInv /\ JobsInv /\ IndexedInv /\ [Next]_vars => RecentIndexed'
<1>. SUFFICES ASSUME TypeInv, JobsInv, IndexedInv, [Next]_vars,
                     NEW s \in returned', s \notin Exempt', Recent(s)', "user" \in hash'[s]
              PROVE  Indexed(s)'
  BY DEF RecentIndexed
<1>1. s \in Session /\ Owner[s] \in User
  BY StepTyped, ConstantsAssumption DEF TypeInv, TypeOK
<1>2. CASE s \in returned
  <2>1. Recent(s) /\ "user" \in hash[s] /\ s \notin Exempt /\ born'[s] = born[s]
    BY <1>1, <1>2, PurgeFacts, KeyKept, StepGrowing DEF GrowingStep
  <2>2. Indexed(s)
    BY <1>2, <2>1 DEF IndexedInv, RecentIndexed
  <2>3. ~(indexUntil[Owner[s]] <= now')
    BY <1>1, <2>1, <2>2, PurgeFacts DEF Indexed, Recent
  <2>4. s \in index'[Owner[s]] /\ indexUntil'[Owner[s]] \in {indexUntil[Owner[s]], now + Ttl}
    BY <1>1, <2>2, <2>3, StepIndex DEF IndexStep, Indexed, Exempt
  <2>. QED BY <1>1, <2>1, <2>2, <2>4, PurgeFacts DEF Indexed
<1>3. CASE s \notin returned
  <2>1. PICK w \in Worker : job[w].op = "create" /\ job[w].s = s /\ (ExpireIndex(w) \/ FallBack(w))
    BY <1>3, StepGrowing DEF GrowingStep
  <2>2. ExpireIndex(w)
    BY <2>1 DEF FallBack, Trouble, Exempt
  <2>3. job[w].step = "expireIndex" /\ index' = index /\ hash' = hash /\ dropped' = dropped
        /\ now' = now
    BY <2>2 DEF ExpireIndex, Creating
  <2>4. s \in index[Owner[s]]
    BY <2>1, <2>3 DEF IndexedInv, CreatedIndexed, Exempt
  <2>5. born'[s] = now /\ indexUntil'[Owner[s]] = now + Ttl
    BY <1>1, <2>1, <2>2, <2>4 DEF ExpireIndex, Return, TypeInv, TypeOK
  <2>. QED BY <1>1, <2>3, <2>4, <2>5, PurgeFacts DEF Indexed
<1>. QED BY <1>2, <1>3

LEMMA CreatedIndexedKept ==
    TypeInv /\ JobsInv /\ IndexedInv /\ [Next]_vars => CreatedIndexed'
<1>. SUFFICES ASSUME TypeInv, JobsInv, IndexedInv, [Next]_vars, NEW v \in Worker,
                     job'[v].op = "create", job'[v].step = "expireIndex",
                     "user" \in hash'[job'[v].s]
              PROVE  job'[v].s \in index'[Owner[job'[v].s]] \cup dropped'
  BY DEF CreatedIndexed
<1>0. job[v] \in {Rest} \cup Job
  BY DEF TypeInv, TypeOK
<1>1. CASE job'[v] = job[v]
  <2>1. job[v].s \in Session
    BY <1>0, <1>1, JobShape
  <2>2. job[v].s \in index[Owner[job[v].s]] \cup dropped
    BY <1>1, <2>1, KeyKept DEF IndexedInv, CreatedIndexed
  <2>3. job'[v] # Rest
    BY DEF Rest
  <2>. QED BY <1>1, <2>1, <2>2, <2>3, StepIndex, StepGrowing DEF IndexStep, GrowingStep
<1>2. CASE AddToIndex(v)
  <2>1. job[v].op = "create" /\ job[v].s \in Session /\ Owner[job[v].s] \in User
    BY <1>0, <1>2, JobShape, ConstantsAssumption DEF AddToIndex, Creating
  <2>2. job'[v] = [op |-> "create", step |-> "expireIndex", s |-> job[v].s]
    BY <1>2, <2>1, CreateAdvances DEF AddToIndex, CreateStepName, TypeInv, TypeOK
  <2>. QED BY <1>2, <2>1, <2>2 DEF AddToIndex, TypeInv, TypeOK
<1>. QED BY <1>1, <1>2, StepStages DEF StageStep

LEMMA PurgeFindsKept ==
    TypeInv /\ JobsInv /\ IndexedInv /\ [Next]_vars => PurgeFinds'
<1>. SUFFICES ASSUME TypeInv, JobsInv, IndexedInv, [Next]_vars, NEW v \in Worker,
                     job'[v].op = "purge",
                     NEW s \in job'[v].known \ Exempt', Recent(s)', "user" \in hash'[s]
              PROVE  s \in job'[v].found
  BY DEF PurgeFinds
<1>1. CASE job'[v] = job[v]
  <2>1. s \in returned
    BY <1>1 DEF JobsInv, JobsKnown
  <2>2. Recent(s) /\ "user" \in hash[s] /\ s \notin Exempt
    BY <2>1, PurgeFacts, KeyKept
  <2>. QED BY <1>1, <2>2 DEF IndexedInv, PurgeFinds
<1>2. CASE job'[v] # job[v]
  <2>1. PICK u \in User : /\ job'[v].found = index[u]
                          /\ job'[v].known = Owned(u) \cap returned
    BY <1>2, StepStages DEF StageStep
  <2>2. s \in returned /\ Owner[s] = u
    BY <2>1 DEF Owned
  <2>3. Recent(s) /\ "user" \in hash[s] /\ s \notin Exempt
    BY <2>2, PurgeFacts, KeyKept
  <2>. QED BY <2>1, <2>2, <2>3 DEF IndexedInv, RecentIndexed, Indexed
<1>. QED BY <1>1, <1>2

LEMMA PurgedFreshKept ==
    TypeInv /\ JobsInv /\ IndexedInv /\ [Next]_vars => PurgedFresh'
<1>. SUFFICES ASSUME TypeInv, JobsInv, IndexedInv, [Next]_vars,
                     NEW s \in Session, s \notin Exempt', ended'[s] = "purgedFresh",
                     "user" \in hash'[s]
              PROVE  FALSE
  BY DEF PurgedFresh
<1>. USE DEF vars, redis, keys, history
<1>0. s \notin Exempt
  BY PurgeFacts
<1>1. CASE ended[s] = "purgedFresh"
  <2>1. s \in returned
    BY <1>1 DEF JobsInv, EndedReturned
  <2>. QED BY <1>0, <1>1, <2>1, KeyKept DEF IndexedInv, PurgedFresh
<1>2. ASSUME NEW known, known \subseteq returned, PurgeEnds(known), ended[s] # "purgedFresh"
      PROVE  s \in known /\ Recent(s) /\ "user" \in hash[s]
  <2>1. s \in known /\ Recent(s)
    BY <1>2 DEF PurgeEnds, Recent
  <2>. QED BY <1>2, <2>1, KeyKept
<1>3. CASE ended[s] # "purgedFresh"
  <2>1. ASSUME NEW w \in Worker, DeleteStep(w) PROVE FALSE
    BY <1>3, <2>1 DEF DeleteStep, RemoveFromIndex, DeleteKey, DeleteFails, End
  <2>2. ASSUME NEW w \in Worker, NEW u \in User, StartPurge(w, u) PROVE FALSE
    <3>1. PurgeEnds(Owned(u) \cap returned) /\ ~(redisUp /\ index[u] # {})
      BY <1>3, <2>2 DEF StartPurge
    <3>2. s \in Owned(u) \cap returned /\ Recent(s) /\ "user" \in hash[s]
      BY <1>2, <1>3, <3>1
    <3>3. redisUp
      BY <2>2, <3>1, <3>2 DEF StartPurge, Exempt
    <3>4. s \in index[u]
      BY <1>0, <3>2 DEF IndexedInv, RecentIndexed, Indexed, Owned
    <3>. QED BY <3>1, <3>3, <3>4
  <2>3. ASSUME NEW w \in Worker, PurgePipeline(w) \/ PurgeFails(w) PROVE FALSE
    <3>1. job[w].op = "purge" /\ PurgeEnds(job[w].known)
      BY <2>3 DEF PurgePipeline, PurgeFails
    <3>2. job[w].known \subseteq returned \cap Owned(job[w].u)
      BY <3>1 DEF JobsInv, JobsKnown
    <3>3. s \in job[w].known /\ Recent(s) /\ "user" \in hash[s]
      BY <1>2, <1>3, <3>1, <3>2
    <3>4. s \in job[w].found
      BY <1>0, <3>1, <3>3 DEF IndexedInv, PurgeFinds
    <3>5. ~PurgePipeline(w)
      BY <3>4 DEF PurgePipeline
    <3>6. ~PurgeFails(w)
      BY <3>2, <3>3 DEF PurgeFails, Trouble, Exempt
    <3>. QED BY <2>3, <3>5, <3>6
  <2>4. ended' # ended
    BY <1>3
  <2>5. ASSUME NEW w \in Worker, CreateStep(w) PROVE FALSE
    BY <2>4, <2>5 DEF CreateStep, SetHash, SetExpire, AddToIndex, ExpireIndex, FallBack
  <2>6. ASSUME NEW w \in Worker, NEW x \in Session,
               StartCreate(w, x) \/ Authenticate(w, x) \/ StartUpdate(w, x) \/ StartDelete(w, x)
        PROVE FALSE
    BY <2>4, <2>6 DEF StartCreate, Authenticate, StartUpdate, StartDelete
  <2>7. ASSUME NEW w \in Worker, WriteData(w) \/ WriteFails(w) \/ Crash(w) PROVE FALSE
    BY <2>4, <2>7 DEF WriteData, WriteFails, Crash
  <2>8. CASE Tick \/ RedisFails \/ RedisRecovers \/ UNCHANGED vars
    BY <2>4, <2>8 DEF Tick, RedisFails, RedisRecovers
  <2>. QED BY <2>1, <2>2, <2>3, <2>5, <2>6, <2>7, <2>8 DEF Next
<1>. QED BY <1>1, <1>3

(***************************************************************************)
(* A purge ends every session returned before it began and created within  *)
(* the last Ttl: no worker accepts one again, unless a Redis call about it *)
(* has raised or it had been taken off the index without being deleted.    *)
(***************************************************************************)
THEOREM PurgeEndsFresh == Spec => []FreshSessionsPurged
<1>. DEFINE Inv == TypeInv /\ JobsInv /\ IndexedInv
<1>1. Init => Inv
  <2>1. Init => IndexedInv
    BY DEF Init, IndexedInv, RecentIndexed, CreatedIndexed, PurgeFinds, PurgedFresh, Rest
  <2>. QED BY <2>1, InitTyped, InitJobs
<1>2. Inv /\ [Next]_vars => Inv'
  <2>1. TypeInv /\ JobsInv /\ IndexedInv /\ [Next]_vars => IndexedInv'
    BY RecentIndexedKept, CreatedIndexedKept, PurgeFindsKept, PurgedFreshKept DEF IndexedInv
  <2>. QED BY <2>1, StepTyped, StepJobs
<1>3. Inv => FreshSessionsPurged
  BY DEF FreshSessionsPurged, Alive, JobsInv, CopiesTroubled, IndexedInv, PurgedFresh, Exempt
<1>. QED BY <1>1, <1>2, <1>3, PTL DEF Spec

==============================================================================
