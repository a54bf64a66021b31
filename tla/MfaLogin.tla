------------------------------- MODULE MfaLogin -------------------------------
(***************************************************************************)
(* The second factor of a login (authenticator.py): challenges kept in     *)
(* Redis, or in the memory of a worker when a Redis call raises, with a    *)
(* count of wrong answers; and backup codes, a list inside the metadata of *)
(* the user row, which complete_mfa_challenge reads through the cache of   *)
(* UserCache and writes back as a whole.                                   *)
(*                                                                         *)
(* One user, enrolled.  Entries of the cache may expire at any time here   *)
(* (UserCache counts their lives).  Handlers of one worker interleave      *)
(* where they await the database; a Redis call blocks its worker.          *)
(***************************************************************************)
EXTENDS Integers, FiniteSets, Combinatorics

CONSTANTS
    Worker,      \* uvicorn worker processes
    Request,     \* slots for handlers running at the same time
    Code,        \* backup codes issued at enrolment
    Challenge,   \* challenge ids
    Life,        \* ticks a challenge lives (300 s)
    Attempts,    \* wrong answers that end a challenge (3)
    MaxTime,     \* bound on the clock
    MaxWrong,    \* bound on the wrong answers per challenge
    MaxOutages,  \* bound: how often Redis calls start to raise
    CanCrash     \* a worker process may die and be restarted

ASSUME ConstantsAssumption ==
    /\ Life \in Nat \ {0} /\ Attempts \in Nat \ {0}
    /\ {MaxTime, MaxWrong, MaxOutages} \subseteq Nat
    /\ CanCrash \in BOOLEAN
    /\ {"totp", "wrong", "none"} \cap Code = {}

ASSUME FiniteWorkers == IsFiniteSet(Worker)

VARIABLES
    now, redisUp, outages,
    stored,      \* mfa_challenge:<id> in Redis: wrong answers so far
    until,       \* when that key disappears
    pending,     \* _pending_mfa_challenges of each worker
    born,        \* when each challenge was created
    codes,       \* backup codes in the committed row
    l1, l2,      \* backup codes in the cached row, per worker and in Redis
    event,       \* workers that have an invalidation still to handle
    req,         \* state of each handler
    wrong,       \* wrong answers the handler has judged, per challenge (history)
    completed,   \* when a login with each challenge last succeeded (history)
    used,        \* logins that succeeded with each backup code (history)
    overlap      \* a handler began beside another or before an event, or an
                 \* invalidation did not get through (history)

env        == <<redisUp, outages>>
challenges == <<stored, until, pending, born>>
rows       == <<codes, l1, l2, event>>
history    == <<wrong, completed, used, overlap>>
vars       == <<now, env, challenges, rows, req, history>>

None   == [wrong |-> -1]            \* no such challenge
Record == [wrong: 0..(Attempts - 1)]
Miss   == {"none"}                  \* no cached row
Answer == {"totp", "wrong"} \cup Code
Idle   == [pc |-> "idle"]
Asked  == [worker: Worker, c: Challenge, answer: Answer, began: Nat]

\* What a handler holds at each point, on top of what it was asked.
Busy ==
    [pc: {"query"}, ask: Asked]                                \* awaiting the row
    \cup [pc: {"filled", "user"}, ask: Asked, codes: SUBSET Code]
    \cup [pc: {"expired"}, ask: Asked]
    \cup [pc: {"judge"}, ask: Asked, codes: SUBSET Code, record: Record]
    \cup [pc: {"update", "committed", "publish", "right"}, ask: Asked, codes: SUBSET Code]

TypeOK ==
    /\ now \in 0..MaxTime /\ redisUp \in BOOLEAN /\ outages \in 0..MaxOutages
    /\ stored \in [Challenge -> {None} \cup Record]
    /\ until \in [Challenge -> Nat]
    /\ pending \in [Worker -> [Challenge -> {None} \cup Record]]
    /\ born \in [Challenge -> -1..MaxTime]
    /\ codes \subseteq Code
    /\ l1 \in [Worker -> {Miss} \cup SUBSET Code] /\ l2 \in {Miss} \cup SUBSET Code
    /\ event \subseteq Worker
    /\ req \in [Request -> {Idle} \cup Busy]
    /\ wrong \in [Challenge -> 0..MaxWrong]
    /\ completed \in [Challenge -> -1..MaxTime]
    /\ used \in [Code -> Nat]
    /\ overlap \in BOOLEAN

Init ==
    /\ now = 0 /\ redisUp = TRUE /\ outages = 0
    /\ stored = [c \in Challenge |-> None]
    /\ until = [c \in Challenge |-> 0]
    /\ pending = [w \in Worker |-> [c \in Challenge |-> None]]
    /\ born = [c \in Challenge |-> -1]
    /\ codes = Code
    /\ l1 = [w \in Worker |-> Miss] /\ l2 = Miss
    /\ event = {}
    /\ req = [r \in Request |-> Idle]
    /\ wrong = [c \in Challenge |-> 0]
    /\ completed = [c \in Challenge |-> -1]
    /\ used = [b \in Code |-> 0]
    /\ overlap = FALSE

Awaiting == {"query", "filled", "update", "committed"}
LoopFree(w) == \A r \in Request :
    req[r] # Idle /\ req[r].ask.worker = w => req[r].pc \in Awaiting

Goto(r, state) == req' = [req EXCEPT ![r] = state]
Finish(r)      == Goto(r, Idle)

------------------------------------------------------------------------------
(* The challenge store *)

\* _get_mfa_challenge, in worker w: a miss in Redis falls through to memory.
Lookup(w, c) == IF redisUp /\ stored[c] # None THEN stored[c] ELSE pending[w][c]

\* _save_mfa_challenge: the key gets a whole new life.
Save(w, c, record) ==
    IF redisUp
    THEN /\ stored' = [stored EXCEPT ![c] = record]
         /\ until' = [until EXCEPT ![c] = now + Life]
         /\ UNCHANGED pending
    ELSE /\ pending' = [pending EXCEPT ![w][c] = record]
         /\ UNCHANGED <<stored, until>>

\* _delete_mfa_challenge: a Redis error is swallowed.
Delete(w, c) ==
    /\ stored' = IF redisUp THEN [stored EXCEPT ![c] = None] ELSE stored
    /\ pending' = [pending EXCEPT ![w][c] = None]
    /\ UNCHANGED until

\* initiate_mfa_challenge, at the end of a password login.
Initiate(w, c) ==
    /\ LoopFree(w) /\ born[c] = -1
    /\ born' = [born EXCEPT ![c] = now]
    /\ Save(w, c, [wrong |-> 0])
    /\ UNCHANGED <<now, env, rows, req, history>>

------------------------------------------------------------------------------
(* complete_mfa_challenge *)

Others(r) == \E q \in Request \ {r} : req[q] # Idle

\* get_by_id: the memory of the worker, else Redis, else the database.
Begin(r, w, c, answer) ==
    LET ask == [worker |-> w, c |-> c, answer |-> answer, began |-> now]
        hit == IF l1[w] # Miss THEN l1[w] ELSE IF redisUp THEN l2 ELSE Miss
    IN  /\ req[r] = Idle /\ LoopFree(w) /\ born[c] # -1
        /\ IF hit # Miss
           THEN Goto(r, [pc |-> "user", ask |-> ask, codes |-> hit])
           ELSE Goto(r, [pc |-> "query", ask |-> ask])
        /\ l1' = [l1 EXCEPT ![w] = hit]
        /\ overlap' = (overlap \/ Others(r) \/ event # {})
        /\ UNCHANGED <<now, env, challenges, codes, l2, event, wrong, completed, used>>

Select(r) ==
    /\ req[r].pc = "query"
    /\ Goto(r, [pc |-> "filled", ask |-> req[r].ask, codes |-> codes])
    /\ UNCHANGED <<now, env, challenges, rows, history>>

\* set_user, and the handler goes on.
Fill(r) ==
    LET w == req[r].ask.worker IN
    /\ req[r].pc = "filled" /\ LoopFree(w)
    /\ l1' = [l1 EXCEPT ![w] = req[r].codes]
    /\ l2' = IF redisUp THEN req[r].codes ELSE l2
    /\ Goto(r, [req[r] EXCEPT !.pc = "user"])
    /\ UNCHANGED <<now, env, challenges, codes, event, history>>

\* Mutant: the expiry inside the record is not looked at.
FetchUnchecked(r) ==
    LET ask == req[r].ask
        found == Lookup(ask.worker, ask.c)
    IN  /\ req[r].pc = "user"
        /\ IF found = None THEN Finish(r)
           ELSE Goto(r, [pc |-> "judge", ask |-> ask, codes |-> req[r].codes, record |-> found])
        /\ UNCHANGED <<now, env, challenges, rows, history>>

Fetch(r) ==
    LET ask == req[r].ask
        found == Lookup(ask.worker, ask.c)
    IN  /\ req[r].pc = "user"
        /\ IF found = None THEN Finish(r)
           ELSE IF now > born[ask.c] + Life THEN Goto(r, [pc |-> "expired", ask |-> ask])
           ELSE Goto(r, [pc |-> "judge", ask |-> ask, codes |-> req[r].codes, record |-> found])
        /\ UNCHANGED <<now, env, challenges, rows, history>>

Expire(r) ==
    /\ req[r].pc = "expired"
    /\ Delete(req[r].ask.worker, req[r].ask.c)
    /\ Finish(r)
    /\ UNCHANGED <<now, env, born, rows, history>>

Succeed(r) ==
    LET ask == req[r].ask IN
    /\ Delete(ask.worker, ask.c)
    /\ completed' = [completed EXCEPT ![ask.c] = now]
    /\ used' = IF ask.answer \in Code THEN [used EXCEPT ![ask.answer] = @ + 1] ELSE used
    /\ Finish(r)
    /\ UNCHANGED <<now, env, born, rows, wrong, overlap>>

JudgeTotp(r) == req[r].pc = "judge" /\ req[r].ask.answer = "totp" /\ Succeed(r)

\* Mutant: the code is taken from the list only when the row is written.
JudgeCodeLater(r) ==
    LET ask == req[r].ask IN
    /\ req[r].pc = "judge" /\ ask.answer \in req[r].codes
    /\ Goto(r, [pc |-> "update", ask |-> ask, codes |-> req[r].codes])
    /\ UNCHANGED <<now, env, challenges, rows, history>>

\* A backup code of the list: removed from the metadata, which is the object
\* the memory of the worker caches, before the row is written.
JudgeCode(r) ==
    LET ask == req[r].ask
        rest == req[r].codes \ {ask.answer}
    IN  /\ req[r].pc = "judge" /\ ask.answer \in req[r].codes
        /\ l1' = [l1 EXCEPT ![ask.worker] = rest]
        /\ Goto(r, [pc |-> "update", ask |-> ask, codes |-> rest])
        /\ UNCHANGED <<now, env, challenges, codes, l2, event, history>>

\* Mutant: the count is compared with the limit before it is raised.
JudgeWrongLate(r) ==
    LET ask == req[r].ask
        count == req[r].record.wrong + 1
    IN  /\ req[r].pc = "judge" /\ ask.answer \notin {"totp"} \cup req[r].codes
        /\ wrong[ask.c] < MaxWrong
        /\ wrong' = [wrong EXCEPT ![ask.c] = @ + 1]
        /\ IF count - 1 >= Attempts THEN Delete(ask.worker, ask.c)
           ELSE Save(ask.worker, ask.c, [wrong |-> count])
        /\ Finish(r)
        /\ UNCHANGED <<now, env, born, rows, completed, used, overlap>>

\* Neither: one more wrong answer, or the last.
JudgeWrong(r) ==
    LET ask == req[r].ask
        count == req[r].record.wrong + 1
    IN  /\ req[r].pc = "judge" /\ ask.answer \notin {"totp"} \cup req[r].codes
        /\ wrong[ask.c] < MaxWrong
        /\ wrong' = [wrong EXCEPT ![ask.c] = @ + 1]
        /\ IF count >= Attempts THEN Delete(ask.worker, ask.c)
           ELSE Save(ask.worker, ask.c, [wrong |-> count])
        /\ Finish(r)
        /\ UNCHANGED <<now, env, born, rows, completed, used, overlap>>

\* update_user: the whole list is replaced ...
Commit(r) ==
    /\ req[r].pc = "update"
    /\ codes' = req[r].codes
    /\ Goto(r, [req[r] EXCEPT !.pc = "committed"])
    /\ UNCHANGED <<now, env, challenges, l1, l2, event, history>>

\* ... or the statement raises and the request fails.
CommitFails(r) ==
    /\ req[r].pc = "update"
    /\ Finish(r)
    /\ UNCHANGED <<now, env, challenges, rows, history>>

Invalidate(r) ==
    LET w == req[r].ask.worker IN
    /\ req[r].pc = "committed" /\ LoopFree(w)
    /\ l1' = [l1 EXCEPT ![w] = Miss]
    /\ l2' = IF redisUp THEN Miss ELSE l2
    /\ Goto(r, [req[r] EXCEPT !.pc = IF redisUp THEN "publish" ELSE "right"])
    /\ overlap' = (overlap \/ ~redisUp)
    /\ UNCHANGED <<now, env, challenges, codes, event, wrong, completed, used>>

Publish(r) ==
    /\ req[r].pc = "publish"
    /\ event' = IF redisUp THEN Worker ELSE event
    /\ Goto(r, [req[r] EXCEPT !.pc = "right"])
    /\ overlap' = (overlap \/ ~redisUp)
    /\ UNCHANGED <<now, env, challenges, codes, l1, l2, wrong, completed, used>>

CodeSucceeds(r) == req[r].pc = "right" /\ Succeed(r)

------------------------------------------------------------------------------
(* The cache and the environment *)

\* The listener of w handles an invalidation.
Receive(w) ==
    /\ w \in event /\ LoopFree(w)
    /\ event' = event \ {w}
    /\ l1' = [l1 EXCEPT ![w] = Miss]
    /\ l2' = IF redisUp THEN Miss ELSE l2
    /\ UNCHANGED <<now, env, challenges, codes, req, history>>

\* A cached row expires.
Forget(w) ==
    /\ LoopFree(w) /\ l1[w] # Miss
    /\ l1' = [l1 EXCEPT ![w] = Miss]
    /\ UNCHANGED <<now, env, challenges, codes, l2, event, req, history>>

ForgetL2 ==
    /\ l2 # Miss
    /\ l2' = Miss
    /\ UNCHANGED <<now, env, challenges, codes, l1, event, req, history>>

\* Code between two awaits takes no noticeable time, and a handler spends at
\* most one tick waiting for the database.
Tick ==
    /\ now < MaxTime
    /\ \A r \in Request : req[r] # Idle => req[r].pc \in Awaiting /\ req[r].ask.began = now
    /\ now' = now + 1
    /\ stored' = [c \in Challenge |-> IF until[c] <= now' THEN None ELSE stored[c]]
    /\ UNCHANGED <<env, until, pending, born, rows, req, history>>

RedisFails ==
    /\ redisUp /\ outages < MaxOutages
    /\ redisUp' = FALSE /\ outages' = outages + 1
    /\ event' = {}
    /\ overlap' = (overlap \/ event # {})
    /\ UNCHANGED <<now, challenges, codes, l1, l2, req, wrong, completed, used>>

RedisRecovers ==
    /\ ~redisUp /\ redisUp' = TRUE
    /\ UNCHANGED <<now, outages, challenges, rows, req, history>>

Crash(w) ==
    /\ CanCrash
    /\ pending' = [pending EXCEPT ![w] = [c \in Challenge |-> None]]
    /\ l1' = [l1 EXCEPT ![w] = Miss]
    /\ event' = event \ {w}
    /\ req' = [r \in Request |->
                 IF req[r] # Idle /\ req[r].ask.worker = w THEN Idle ELSE req[r]]
    /\ UNCHANGED <<now, env, stored, until, born, codes, l2, history>>

Handler(r) ==
    \/ Select(r) \/ Fill(r) \/ Fetch(r) \/ Expire(r)
    \/ JudgeTotp(r) \/ JudgeCode(r) \/ JudgeWrong(r)
    \/ Commit(r) \/ CommitFails(r) \/ Invalidate(r) \/ Publish(r) \/ CodeSucceeds(r)

Next ==
    \/ \E w \in Worker, c \in Challenge : Initiate(w, c)
    \/ \E r \in Request, w \in Worker, c \in Challenge, answer \in Answer :
          Begin(r, w, c, answer)
    \/ \E r \in Request : Handler(r)
    \/ \E w \in Worker : Receive(w) \/ Forget(w) \/ Crash(w)
    \/ ForgetL2 \/ Tick \/ RedisFails \/ RedisRecovers

Spec == Init /\ [][Next]_vars

------------------------------------------------------------------------------
(* Properties *)

\* Workers that judge answers side by side may lose each other's counts and
\* bring an ended challenge back, but while Redis answers only so often: the
\* wrong answers are those of one worker, Attempts, for a single worker, and
\* with W of them as many as there are ways to delay their writes.
GuessesBounded ==
    outages = 0 =>
        LET W == Cardinality(Worker) IN
        \A c \in Challenge : wrong[c] <= choose(W + Attempts, Attempts) - 1

\* No answer completes a challenge later than its life after it was created,
\* and the tick an awaited write may take, although every wrong answer renews
\* the key in Redis and a copy in memory never expires.
CompletedInTime ==
    \A c \in Challenge : completed[c] # -1 => completed[c] <= born[c] + Life + 1

\* Single use: a backup code logs in once, over deaths of workers, failed writes
\* and outages, unless two handlers overlapped, a worker had an invalidation
\* still to handle, or Redis did not take one.
CodeUsedOnceApart == ~overlap => \A b \in Code : used[b] <= 1
==============================================================================
