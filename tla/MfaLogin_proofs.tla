---------------------------- MODULE MfaLogin_proofs ----------------------------
(***************************************************************************)
(* The second factor for every number of workers, handlers, codes and      *)
(* challenges, every length of a challenge's life, and any number of wrong *)
(* answers, outages and deaths of workers.                                 *)
(***************************************************************************)
EXTENDS MfaLogin, FiniteSetTheorems, WellFoundedInduction, TLAPS

------------------------------------------------------------------------------
(* The time an answer takes *)

\* The challenge was found and not too old, and a backup code matched.
Judged  == {"update", "committed", "publish", "right"}
\* Handlers that hold a list of codes.
Holding == {"filled", "user", "judge"} \cup Judged

\* A handler lives through one tick at most, so one that saw its challenge
\* alive does not complete it later than a tick after its life.
InTime(r) ==
    req[r] # Idle =>
        /\ req[r].ask.began <= now /\ now <= req[r].ask.began + 1
        /\ req[r].pc = "judge" => now <= born[req[r].ask.c] + Life
        /\ req[r].pc \in Judged => req[r].ask.began <= born[req[r].ask.c] + Life

TimesInv == CompletedInTime /\ \A r \in Request : InTime(r)

------------------------------------------------------------------------------
(* Where a backup code can still be found *)

\* No handler finds or holds b, except in a cached row that is to be dropped.
Gone(b) ==
    /\ b \notin codes /\ b \notin l2
    /\ \A w \in Worker : w \in event \/ b \notin l1[w]
    /\ \A r \in Request : req[r].pc \in Holding => b \notin req[r].codes

Alone ==
    /\ \A r, q \in Request : req[r] # Idle /\ req[q] # Idle => r = q
    /\ \A r \in Request : req[r] # Idle /\ req[r].pc # "right" => event = {}

\* The code that a handler has accepted disappears step by step.
Disappears(r) ==
    LET b == req[r].ask.answer IN
    /\ b \in Code /\ used[b] = 0 /\ b \notin req[r].codes
    /\ req[r].pc # "update" => b \notin codes
    /\ req[r].pc \in {"publish", "right"} => b \notin l2
    /\ req[r].pc = "right" => Gone(b)

Spared == \A b \in Code : used[b] <= 1 /\ (used[b] = 1 => Gone(b))

SingleInv ==
    ~overlap => /\ Alone /\ Spared
                /\ \A r \in Request : req[r].pc \in Judged => Disappears(r)

------------------------------------------------------------------------------
(* Handlers *)

LEMMA Numbers ==
    /\ Life \in Nat /\ 0 < Life /\ Attempts \in Nat /\ 0 < Attempts
    /\ MaxTime \in Nat /\ MaxWrong \in Nat /\ MaxOutages \in Nat
BY ConstantsAssumption

LEMMA NoCodes ==
    \A b \in Code : b \notin Miss /\ b # "totp" /\ b # "wrong"
BY ConstantsAssumption DEF Miss

\* What a handler holds.
LEMMA Holds ==
    ASSUME NEW x \in {Idle} \cup Busy
    PROVE  /\ x = Idle <=> x.pc = "idle"
           /\ x.pc = "idle" \/ x.pc \in Awaiting \/ x.pc \in Holding \/ x.pc = "expired"
           /\ x # Idle => /\ x.ask \in Asked
                          /\ x.ask.worker \in Worker /\ x.ask.c \in Challenge
                          /\ x.ask.answer \in Answer /\ x.ask.began \in Nat
           /\ x.pc \in Holding => x.codes \in SUBSET Code
           /\ x.pc = "judge" => x.record \in Record /\ x.record.wrong \in 0..(Attempts - 1)
<1>1. CASE x = Idle
  BY <1>1 DEF Idle, Holding, Judged
<1>2. CASE x \in [pc: {"query"}, ask: Asked]
  BY <1>2 DEF Idle, Holding, Judged, Asked, Awaiting
<1>3. CASE x \in [pc: {"filled", "user"}, ask: Asked, codes: SUBSET Code]
  BY <1>3 DEF Idle, Holding, Judged, Asked
<1>4. CASE x \in [pc: {"expired"}, ask: Asked]
  BY <1>4 DEF Idle, Holding, Judged, Asked
<1>5. CASE x \in [pc: {"judge"}, ask: Asked, codes: SUBSET Code, record: Record]
  BY <1>5 DEF Idle, Holding, Judged, Asked, Record
<1>6. CASE x \in [pc: {"update", "committed", "publish", "right"}, ask: Asked, codes: SUBSET Code]
  BY <1>6 DEF Idle, Holding, Judged, Asked
<1>. QED BY <1>1, <1>2, <1>3, <1>4, <1>5, <1>6 DEF Busy

\* A step of a handler that writes a row.
LEMMA NextPc ==
    ASSUME NEW x \in {Idle} \cup Busy, NEW p \in {"user", "committed", "publish", "right"},
           \/ x.pc = "filled" /\ p = "user"
           \/ x.pc \in {"update", "committed", "publish"} /\ p # "user"
    PROVE  /\ [x EXCEPT !.pc = p] \in Busy
           /\ [x EXCEPT !.pc = p].pc = p
           /\ [x EXCEPT !.pc = p].ask = x.ask
           /\ [x EXCEPT !.pc = p].codes = x.codes
<1>1. CASE x.pc = "filled" /\ p = "user"
  <2>1. x \in [pc: {"filled", "user"}, ask: Asked, codes: SUBSET Code]
    BY <1>1 DEF Busy, Idle
  <2>2. [x EXCEPT !.pc = p] \in [pc: {"filled", "user"}, ask: Asked, codes: SUBSET Code]
    BY <1>1, <2>1
  <2>. QED BY <1>1, <2>1, <2>2 DEF Busy
<1>2. CASE x.pc \in {"update", "committed", "publish"} /\ p # "user"
  <2>1. x \in [pc: {"update", "committed", "publish", "right"}, ask: Asked, codes: SUBSET Code]
    BY <1>2 DEF Busy, Idle
  <2>2. [x EXCEPT !.pc = p]
            \in [pc: {"update", "committed", "publish", "right"}, ask: Asked, codes: SUBSET Code]
    BY <1>2, <2>1
  <2>. QED BY <1>2, <2>1, <2>2 DEF Busy
<1>. QED BY <1>1, <1>2

LEMMA Going ==
    ASSUME TypeOK, NEW r \in Request, NEW x \in {Idle} \cup Busy, Goto(r, x)
    PROVE  /\ req' \in [Request -> {Idle} \cup Busy]
           /\ \A q \in Request : req'[q] = IF q = r THEN x ELSE req[q]
BY DEF Goto, TypeOK

LEMMA Standing ==
    ASSUME TypeOK, NEW r \in Request
    PROVE  req[r] \in {Idle} \cup Busy
BY DEF TypeOK


------------------------------------------------------------------------------
(* Types *)

LEMMA StoreTyped ==
    ASSUME TypeOK, NEW w \in Worker, NEW c \in Challenge, NEW record \in Record,
           Save(w, c, record) \/ Delete(w, c)
    PROVE  /\ stored' \in [Challenge -> {None} \cup Record]
           /\ until' \in [Challenge -> Nat]
           /\ pending' \in [Worker -> [Challenge -> {None} \cup Record]]
<1>1. /\ stored \in [Challenge -> {None} \cup Record] /\ until \in [Challenge -> Nat]
      /\ pending \in [Worker -> [Challenge -> {None} \cup Record]]
      /\ now + Life \in Nat
  BY Numbers DEF TypeOK
<1>2. pending[w] \in [Challenge -> {None} \cup Record]
  BY <1>1
<1>3. \A x \in {None} \cup Record :
          [pending EXCEPT ![w][c] = x] \in [Worker -> [Challenge -> {None} \cup Record]]
  BY <1>1, <1>2
<1>. QED BY <1>1, <1>3 DEF Save, Delete

\* The oldest record, which a challenge starts with.
LEMMA FirstRecord == [wrong |-> 0] \in Record
BY Numbers DEF Record

LEMMA InitiateTyped ==
    ASSUME TypeOK, NEW w \in Worker, NEW c \in Challenge, Initiate(w, c)
    PROVE  TypeOK'
<1>1. /\ stored' \in [Challenge -> {None} \cup Record]
      /\ until' \in [Challenge -> Nat]
      /\ pending' \in [Worker -> [Challenge -> {None} \cup Record]]
  BY FirstRecord, StoreTyped DEF Initiate
<1>2. born' \in [Challenge -> -1..MaxTime]
  <2>1. now \in -1..MaxTime /\ born \in [Challenge -> -1..MaxTime]
    BY Numbers DEF TypeOK
  <2>. QED BY <2>1 DEF Initiate
<1>3. UNCHANGED <<now, env, rows, req, history>>
  BY DEF Initiate
<1>. QED BY <1>1, <1>2, <1>3 DEF TypeOK, env, rows, history

\* Found in a cache, or to be read from the row.
LEMMA Begun ==
    ASSUME TypeOK, NEW r \in Request, NEW w \in Worker, NEW c \in Challenge,
           NEW answer \in Answer, Begin(r, w, c, answer)
    PROVE  /\ req[r] = Idle
           /\ \E x \in Busy :
                 /\ Goto(r, x) /\ x.ask.began = now /\ x.ask.c = c
                 /\ \/ x.pc = "query"
                    \/ x.pc = "user" /\ x.codes \in SUBSET Code /\ x.codes \in {l1[w], l2}
           /\ \E hit \in {l1[w], l2, Miss} : l1' = [l1 EXCEPT ![w] = hit]
           /\ l1' \in [Worker -> {Miss} \cup SUBSET Code]
           /\ overlap' = (overlap \/ Others(r) \/ event # {})
           /\ UNCHANGED <<now, env, challenges, codes, l2, event, wrong, completed, used>>
<1>. DEFINE ask == [worker |-> w, c |-> c, answer |-> answer, began |-> now]
            hit == IF l1[w] # Miss THEN l1[w] ELSE IF redisUp THEN l2 ELSE Miss
<1>1. /\ l1 \in [Worker -> {Miss} \cup SUBSET Code] /\ l2 \in {Miss} \cup SUBSET Code
      /\ now \in Nat
  BY DEF TypeOK
<1>2. ask \in Asked /\ ask.began = now /\ ask.c = c
  BY <1>1 DEF Asked
<1>3. hit \in {l1[w], l2, Miss} /\ hit \in {Miss} \cup SUBSET Code
      /\ (hit # Miss => hit \in SUBSET Code /\ hit \in {l1[w], l2})
  BY <1>1
<1>. HIDE DEF ask, hit
<1>4. /\ req[r] = Idle
      /\ IF hit # Miss
         THEN Goto(r, [pc |-> "user", ask |-> ask, codes |-> hit])
         ELSE Goto(r, [pc |-> "query", ask |-> ask])
      /\ l1' = [l1 EXCEPT ![w] = hit]
      /\ overlap' = (overlap \/ Others(r) \/ event # {})
      /\ UNCHANGED <<now, env, challenges, codes, l2, event, wrong, completed, used>>
  BY DEF Begin, ask, hit
<1>5. \E x \in Busy :
          /\ Goto(r, x) /\ x.ask.began = now /\ x.ask.c = c
          /\ \/ x.pc = "query"
             \/ x.pc = "user" /\ x.codes \in SUBSET Code /\ x.codes \in {l1[w], l2}
  <2>1. CASE hit # Miss
    <3>. DEFINE x == [pc |-> "user", ask |-> ask, codes |-> hit]
    <3>1. x \in Busy /\ x.ask = ask /\ x.pc = "user" /\ x.codes = hit
      BY <1>2, <1>3, <2>1 DEF Busy
    <3>2. Goto(r, x)
      BY <1>4, <2>1
    <3>. HIDE DEF x
    <3>. QED BY <1>2, <1>3, <2>1, <3>1, <3>2
  <2>2. CASE hit = Miss
    <3>. DEFINE x == [pc |-> "query", ask |-> ask]
    <3>1. x \in Busy /\ x.ask = ask /\ x.pc = "query"
      BY <1>2 DEF Busy
    <3>2. Goto(r, x)
      BY <1>4, <2>2
    <3>. HIDE DEF x
    <3>. QED BY <1>2, <3>1, <3>2
  <2>. QED BY <2>1, <2>2
<1>. QED BY <1>1, <1>3, <1>4, <1>5

LEMMA BeginTyped ==
    ASSUME TypeOK, NEW r \in Request, NEW w \in Worker, NEW c \in Challenge,
           NEW answer \in Answer, Begin(r, w, c, answer)
    PROVE  TypeOK'
<1>1. req' \in [Request -> {Idle} \cup Busy]
  BY Begun, Going
<1>2. l1' \in [Worker -> {Miss} \cup SUBSET Code]
  BY Begun
<1>3. overlap' \in BOOLEAN
  BY Begun
<1>4. UNCHANGED <<now, env, challenges, codes, l2, event, wrong, completed, used>>
  BY Begun
<1>. QED BY <1>1, <1>2, <1>3, <1>4 DEF TypeOK, env, challenges


\* What each step of a handler does with it.
LEMMA Selected ==
    ASSUME TypeOK, NEW r \in Request, Select(r)
    PROVE  /\ req[r].pc = "query"
           /\ \E x \in Busy : /\ Goto(r, x) /\ x.pc = "filled" /\ x.ask = req[r].ask
                              /\ x.codes = codes
           /\ UNCHANGED <<now, env, challenges, rows, history>>
<1>1. req[r].pc = "query" /\ req[r].ask \in Asked /\ codes \in SUBSET Code
  BY Standing, Holds DEF Select, TypeOK, Idle
<1>. DEFINE x == [pc |-> "filled", ask |-> req[r].ask, codes |-> codes]
<1>2. x \in Busy /\ x.pc = "filled" /\ x.ask = req[r].ask /\ x.codes = codes
  BY <1>1 DEF Busy
<1>3. Goto(r, x) /\ UNCHANGED <<now, env, challenges, rows, history>>
  BY DEF Select
<1>. HIDE DEF x
<1>. QED BY <1>1, <1>2, <1>3

LEMMA Filled ==
    ASSUME TypeOK, NEW r \in Request, Fill(r)
    PROVE  /\ req[r].pc = "filled" /\ req[r].ask.worker \in Worker
           /\ req[r].codes \in SUBSET Code
           /\ \E x \in Busy : /\ Goto(r, x) /\ x.pc = "user" /\ x.ask = req[r].ask
                              /\ x.codes = req[r].codes
           /\ l1' = [l1 EXCEPT ![req[r].ask.worker] = req[r].codes]
           /\ l2' \in {l2, req[r].codes}
           /\ UNCHANGED <<now, env, challenges, codes, event, history>>
<1>1. req[r].pc = "filled" /\ req[r].ask.worker \in Worker /\ req[r].codes \in SUBSET Code
  BY Standing, Holds DEF Fill, Idle, Holding
<1>. DEFINE x == [req[r] EXCEPT !.pc = "user"]
<1>2. x \in Busy /\ x.pc = "user" /\ x.ask = req[r].ask /\ x.codes = req[r].codes
  BY <1>1, Standing, NextPc
<1>3. /\ Goto(r, x)
      /\ l1' = [l1 EXCEPT ![req[r].ask.worker] = req[r].codes]
      /\ l2' \in {l2, req[r].codes}
      /\ UNCHANGED <<now, env, challenges, codes, event, history>>
  BY DEF Fill
<1>. HIDE DEF x
<1>. QED BY <1>1, <1>2, <1>3

LEMMA Fetched ==
    ASSUME TypeOK, NEW r \in Request, Fetch(r)
    PROVE  /\ req[r].pc = "user"
           /\ \E x \in {Idle} \cup Busy :
                 /\ Goto(r, x)
                 /\ \/ x = Idle
                    \/ x.pc = "expired" /\ x.ask = req[r].ask
                    \/ /\ x.pc = "judge" /\ x.ask = req[r].ask /\ x.codes = req[r].codes
                       /\ now <= born[x.ask.c] + Life
           /\ UNCHANGED <<now, env, challenges, rows, history>>
<1>. DEFINE ask == req[r].ask
            found == Lookup(ask.worker, ask.c)
<1>1. /\ req[r].pc = "user" /\ ask \in Asked /\ ask.worker \in Worker /\ ask.c \in Challenge
      /\ req[r].codes \in SUBSET Code
  BY Standing, Holds DEF Fetch, Idle, Holding
<1>2. found \in {None} \cup Record
  BY <1>1 DEF Lookup, TypeOK
<1>3. now \in Int /\ born[ask.c] + Life \in Int
  BY <1>1, Numbers DEF TypeOK
<1>4. UNCHANGED <<now, env, challenges, rows, history>>
  BY DEF Fetch
<1>5. \/ Goto(r, Idle)
      \/ now > born[ask.c] + Life /\ Goto(r, [pc |-> "expired", ask |-> ask])
      \/ /\ found # None /\ ~(now > born[ask.c] + Life)
         /\ Goto(r, [pc |-> "judge", ask |-> ask, codes |-> req[r].codes, record |-> found])
  BY DEF Fetch, Finish
<1>6. CASE Goto(r, Idle)
  BY <1>1, <1>4, <1>6
<1>7. CASE Goto(r, [pc |-> "expired", ask |-> ask])
  <2>. DEFINE x == [pc |-> "expired", ask |-> ask]
  <2>1. x \in Busy /\ x.pc = "expired" /\ x.ask = ask
    BY <1>1 DEF Busy
  <2>2. Goto(r, x)
    BY <1>7
  <2>. HIDE DEF x
  <2>. QED BY <1>1, <1>4, <2>1, <2>2
<1>8. CASE /\ found # None /\ ~(now > born[ask.c] + Life)
           /\ Goto(r, [pc |-> "judge", ask |-> ask, codes |-> req[r].codes, record |-> found])
  <2>. DEFINE x == [pc |-> "judge", ask |-> ask, codes |-> req[r].codes, record |-> found]
  <2>1. found \in Record
    BY <1>2, <1>8
  <2>. HIDE DEF found
  <2>2. x \in Busy /\ x.pc = "judge" /\ x.ask = ask /\ x.codes = req[r].codes
    BY <1>1, <2>1 DEF Busy
  <2>3. Goto(r, x) /\ now <= born[x.ask.c] + Life
    BY <1>3, <1>8, <2>2
  <2>. HIDE DEF x
  <2>. QED BY <1>1, <1>4, <2>2, <2>3
<1>. QED BY <1>5, <1>6, <1>7, <1>8

LEMMA CodeJudged ==
    ASSUME TypeOK, NEW r \in Request, JudgeCode(r)
    PROVE  /\ req[r].pc = "judge" /\ req[r].ask.worker \in Worker
           /\ req[r].ask.answer \in req[r].codes /\ req[r].codes \in SUBSET Code
           /\ \E x \in Busy : /\ Goto(r, x) /\ x.pc = "update" /\ x.ask = req[r].ask
                              /\ x.codes = req[r].codes \ {req[r].ask.answer}
           /\ l1' = [l1 EXCEPT ![req[r].ask.worker] = req[r].codes \ {req[r].ask.answer}]
           /\ UNCHANGED <<now, env, challenges, codes, l2, event, history>>
<1>. DEFINE rest == req[r].codes \ {req[r].ask.answer}
<1>1. /\ req[r].pc = "judge" /\ req[r].ask \in Asked /\ req[r].ask.worker \in Worker
      /\ req[r].ask.answer \in req[r].codes
      /\ req[r].codes \in SUBSET Code
  BY Standing, Holds DEF JudgeCode, Idle, Holding
<1>. DEFINE x == [pc |-> "update", ask |-> req[r].ask, codes |-> rest]
<1>2. x \in Busy /\ x.pc = "update" /\ x.ask = req[r].ask /\ x.codes = rest
  BY <1>1 DEF Busy
<1>3. /\ Goto(r, x)
      /\ l1' = [l1 EXCEPT ![req[r].ask.worker] = rest]
      /\ UNCHANGED <<now, env, challenges, codes, l2, event, history>>
  BY DEF JudgeCode
<1>. HIDE DEF x
<1>. QED BY <1>1, <1>2, <1>3

LEMMA WrongJudged ==
    ASSUME TypeOK, NEW r \in Request, JudgeWrong(r)
    PROVE  /\ req[r].pc = "judge" /\ req[r].ask.c \in Challenge /\ req[r].ask.worker \in Worker
           /\ Goto(r, Idle)
           /\ wrong' \in [Challenge -> 0..MaxWrong]
           /\ \E record \in Record : \/ Save(req[r].ask.worker, req[r].ask.c, record)
                                     \/ Delete(req[r].ask.worker, req[r].ask.c)
           /\ UNCHANGED <<now, env, born, rows, completed, used, overlap>>
<1>. DEFINE ask == req[r].ask
            count == req[r].record.wrong + 1
<1>1. /\ req[r].pc = "judge" /\ ask.c \in Challenge /\ ask.worker \in Worker
      /\ req[r].record.wrong \in 0..(Attempts - 1)
  BY Standing, Holds DEF JudgeWrong, Idle
<1>2. wrong' \in [Challenge -> 0..MaxWrong]
  <2>1. wrong \in [Challenge -> 0..MaxWrong] /\ wrong[ask.c] < MaxWrong
        /\ wrong' = [wrong EXCEPT ![ask.c] = wrong[ask.c] + 1]
    BY <1>1 DEF JudgeWrong, TypeOK
  <2>2. wrong[ask.c] + 1 \in 0..MaxWrong
    BY <1>1, <2>1, Numbers
  <2>. QED BY <1>1, <2>1, <2>2
<1>3. \E record \in Record : Save(ask.worker, ask.c, record) \/ Delete(ask.worker, ask.c)
  <2>1. CASE count >= Attempts
    BY <2>1, FirstRecord DEF JudgeWrong
  <2>2. CASE ~(count >= Attempts)
    <3>1. [wrong |-> count] \in Record
      BY <1>1, <2>2, Numbers DEF Record
    <3>2. Save(ask.worker, ask.c, [wrong |-> count])
      BY <2>2 DEF JudgeWrong
    <3>. QED BY <3>1, <3>2
  <2>. QED BY <2>1, <2>2
<1>4. Goto(r, Idle) /\ UNCHANGED <<now, env, born, rows, completed, used, overlap>>
  BY DEF JudgeWrong, Finish
<1>. QED BY <1>1, <1>2, <1>3, <1>4

LEMMA Committed ==
    ASSUME TypeOK, NEW r \in Request, Commit(r)
    PROVE  /\ req[r].pc = "update" /\ req[r].codes \in SUBSET Code
           /\ codes' = req[r].codes
           /\ \E x \in Busy : /\ Goto(r, x) /\ x.pc = "committed" /\ x.ask = req[r].ask
                              /\ x.codes = req[r].codes
           /\ UNCHANGED <<now, env, challenges, l1, l2, event, history>>
<1>1. req[r].pc = "update" /\ req[r].codes \in SUBSET Code
  BY Standing, Holds DEF Commit, Holding, Judged
<1>. DEFINE x == [req[r] EXCEPT !.pc = "committed"]
<1>2. x \in Busy /\ x.pc = "committed" /\ x.ask = req[r].ask /\ x.codes = req[r].codes
  BY <1>1, Standing, NextPc
<1>3. Goto(r, x) /\ codes' = req[r].codes /\ UNCHANGED <<now, env, challenges, l1, l2, event, history>>
  BY DEF Commit
<1>. HIDE DEF x
<1>. QED BY <1>1, <1>2, <1>3

LEMMA Invalidated ==
    ASSUME TypeOK, NEW r \in Request, Invalidate(r)
    PROVE  /\ req[r].pc = "committed" /\ req[r].ask.worker \in Worker
           /\ \E x \in Busy : /\ Goto(r, x) /\ x.ask = req[r].ask /\ x.codes = req[r].codes
                              /\ x.pc = IF redisUp THEN "publish" ELSE "right"
           /\ l1' = [l1 EXCEPT ![req[r].ask.worker] = Miss]
           /\ l2' = IF redisUp THEN Miss ELSE l2
           /\ overlap' = (overlap \/ ~redisUp)
           /\ UNCHANGED <<now, env, challenges, codes, event, wrong, completed, used>>
<1>. DEFINE p == IF redisUp THEN "publish" ELSE "right"
            x == [req[r] EXCEPT !.pc = p]
<1>1. req[r].pc = "committed" /\ req[r].ask.worker \in Worker
  BY Standing, Holds DEF Invalidate, Idle
<1>2. p \in {"user", "committed", "publish", "right"} /\ p # "user"
  OBVIOUS
<1>3. /\ Goto(r, x)
      /\ l1' = [l1 EXCEPT ![req[r].ask.worker] = Miss]
      /\ l2' = IF redisUp THEN Miss ELSE l2
      /\ overlap' = (overlap \/ ~redisUp)
      /\ UNCHANGED <<now, env, challenges, codes, event, wrong, completed, used>>
  BY DEF Invalidate
<1>. HIDE DEF p
<1>4. x \in Busy /\ x.pc = p /\ x.ask = req[r].ask /\ x.codes = req[r].codes
  <2>1. req[r] \in {Idle} \cup Busy /\ req[r].pc \in {"update", "committed", "publish"}
    BY <1>1, Standing
  <2>. QED BY <1>2, <2>1, NextPc
<1>. HIDE DEF x
<1>. QED BY <1>1, <1>3, <1>4 DEF p

LEMMA Published ==
    ASSUME TypeOK, NEW r \in Request, Publish(r)
    PROVE  /\ req[r].pc = "publish"
           /\ \E x \in Busy : /\ Goto(r, x) /\ x.pc = "right" /\ x.ask = req[r].ask
                              /\ x.codes = req[r].codes
           /\ event' = IF redisUp THEN Worker ELSE event
           /\ overlap' = (overlap \/ ~redisUp)
           /\ UNCHANGED <<now, env, challenges, codes, l1, l2, wrong, completed, used>>
<1>1. req[r].pc = "publish"
  BY DEF Publish
<1>. DEFINE x == [req[r] EXCEPT !.pc = "right"]
<1>2. x \in Busy /\ x.pc = "right" /\ x.ask = req[r].ask /\ x.codes = req[r].codes
  BY <1>1, Standing, NextPc
<1>3. /\ Goto(r, x)
      /\ event' = IF redisUp THEN Worker ELSE event
      /\ overlap' = (overlap \/ ~redisUp)
      /\ UNCHANGED <<now, env, challenges, codes, l1, l2, wrong, completed, used>>
  BY DEF Publish
<1>. HIDE DEF x
<1>. QED BY <1>1, <1>2, <1>3

\* The login succeeds, by a password generator or by a code.
LEMMA Succeeded ==
    ASSUME TypeOK, NEW r \in Request, JudgeTotp(r) \/ CodeSucceeds(r)
    PROVE  /\ req[r].ask.worker \in Worker /\ req[r].ask.c \in Challenge /\ Goto(r, Idle)
           /\ (req[r].pc = "judge" /\ req[r].ask.answer = "totp") \/ req[r].pc = "right"
           /\ Delete(req[r].ask.worker, req[r].ask.c)
           /\ completed' = [completed EXCEPT ![req[r].ask.c] = now]
           /\ used' = IF req[r].ask.answer \in Code
                      THEN [used EXCEPT ![req[r].ask.answer] = used[req[r].ask.answer] + 1]
                      ELSE used
           /\ UNCHANGED <<now, env, born, rows, wrong, overlap>>
<1>1. req[r].pc \in {"judge", "right"} /\ req[r].ask.worker \in Worker /\ req[r].ask.c \in Challenge
  BY Standing, Holds DEF JudgeTotp, CodeSucceeds, Idle
<1>2. used \in [Code -> Nat]
  BY DEF TypeOK
<1>. QED BY <1>1, <1>2 DEF JudgeTotp, CodeSucceeds, Succeed, Finish


LEMMA HandlerTyped ==
    ASSUME TypeOK, NEW r \in Request, Handler(r)
    PROVE  TypeOK'
<1>1. CASE Select(r)
  <2>1. req' \in [Request -> {Idle} \cup Busy]
    BY <1>1, Selected, Going
  <2>. QED BY <1>1, <2>1 DEF Select, TypeOK, env, challenges, rows, history
<1>2. CASE Fill(r)
  <2>1. req' \in [Request -> {Idle} \cup Busy]
    BY <1>2, Filled, Going
  <2>2. l1' \in [Worker -> {Miss} \cup SUBSET Code] /\ l2' \in {Miss} \cup SUBSET Code
    BY <1>2, Filled DEF TypeOK
  <2>. QED BY <1>2, <2>1, <2>2 DEF Fill, TypeOK, env, challenges, history
<1>3. CASE Fetch(r)
  <2>1. req' \in [Request -> {Idle} \cup Busy]
    BY <1>3, Fetched, Going
  <2>. QED BY <1>3, <2>1 DEF Fetch, TypeOK, env, challenges, rows, history
<1>4. CASE Expire(r)
  <2>1. req' \in [Request -> {Idle} \cup Busy]
    BY <1>4, Going DEF Expire, Finish
  <2>2. req[r].ask.worker \in Worker /\ req[r].ask.c \in Challenge
    BY <1>4, Standing, Holds DEF Expire, Idle
  <2>3. /\ stored' \in [Challenge -> {None} \cup Record]
        /\ until' \in [Challenge -> Nat]
        /\ pending' \in [Worker -> [Challenge -> {None} \cup Record]]
    BY <1>4, <2>2, FirstRecord, StoreTyped DEF Expire
  <2>. QED BY <1>4, <2>1, <2>3 DEF Expire, TypeOK, env, rows, history
<1>5. CASE JudgeTotp(r) \/ CodeSucceeds(r)
  <2>1. req' \in [Request -> {Idle} \cup Busy]
    BY <1>5, Succeeded, Going
  <2>2. /\ stored' \in [Challenge -> {None} \cup Record]
        /\ until' \in [Challenge -> Nat]
        /\ pending' \in [Worker -> [Challenge -> {None} \cup Record]]
    BY <1>5, Succeeded, FirstRecord, StoreTyped
  <2>3. completed' \in [Challenge -> -1..MaxTime]
    <3>1. now \in -1..MaxTime /\ completed \in [Challenge -> -1..MaxTime]
      BY Numbers DEF TypeOK
    <3>. QED BY <1>5, <3>1, Succeeded
  <2>4. used' \in [Code -> Nat]
    <3>1. used \in [Code -> Nat]
      BY DEF TypeOK
    <3>2. CASE req[r].ask.answer \in Code
      <4>1. used' = [used EXCEPT ![req[r].ask.answer] = used[req[r].ask.answer] + 1]
        BY <1>5, <3>2, Succeeded
      <4>. QED BY <3>1, <3>2, <4>1
    <3>3. CASE req[r].ask.answer \notin Code
      BY <1>5, <3>1, <3>3, Succeeded
    <3>. QED BY <3>2, <3>3
  <2>5. UNCHANGED <<now, env, born, rows, wrong, overlap>>
    BY <1>5, Succeeded
  <2>. QED BY <2>1, <2>2, <2>3, <2>4, <2>5 DEF TypeOK, env, rows
<1>6. CASE JudgeCode(r)
  <2>1. req' \in [Request -> {Idle} \cup Busy]
    BY <1>6, CodeJudged, Going
  <2>2. l1' \in [Worker -> {Miss} \cup SUBSET Code]
    <3>1. req[r].codes \ {req[r].ask.answer} \in SUBSET Code
      BY <1>6, CodeJudged
    <3>. QED BY <1>6, <3>1, CodeJudged DEF TypeOK
  <2>. QED BY <1>6, <2>1, <2>2 DEF JudgeCode, TypeOK, env, challenges, history
<1>7. CASE JudgeWrong(r)
  <2>1. req' \in [Request -> {Idle} \cup Busy]
    BY <1>7, WrongJudged, Going
  <2>2. /\ stored' \in [Challenge -> {None} \cup Record]
        /\ until' \in [Challenge -> Nat]
        /\ pending' \in [Worker -> [Challenge -> {None} \cup Record]]
    BY <1>7, WrongJudged, StoreTyped
  <2>3. wrong' \in [Challenge -> 0..MaxWrong] /\ UNCHANGED <<now, env, born, rows, completed, used, overlap>>
    BY <1>7, WrongJudged
  <2>. QED BY <2>1, <2>2, <2>3 DEF TypeOK, env, rows
<1>8. CASE Commit(r)
  <2>1. req' \in [Request -> {Idle} \cup Busy] /\ codes' \subseteq Code
    BY <1>8, Committed, Going
  <2>. QED BY <1>8, <2>1 DEF Commit, TypeOK, env, challenges, history
<1>9. CASE CommitFails(r)
  <2>1. req' \in [Request -> {Idle} \cup Busy]
    BY <1>9, Going DEF CommitFails, Finish
  <2>. QED BY <1>9, <2>1 DEF CommitFails, TypeOK, env, challenges, rows, history
<1>10. CASE Invalidate(r)
  <2>1. req' \in [Request -> {Idle} \cup Busy]
    BY <1>10, Invalidated, Going
  <2>2. l1' \in [Worker -> {Miss} \cup SUBSET Code] /\ l2' \in {Miss} \cup SUBSET Code
    BY <1>10, Invalidated DEF TypeOK
  <2>3. overlap' \in BOOLEAN /\ UNCHANGED <<now, env, challenges, codes, event, wrong, completed, used>>
    BY <1>10, Invalidated
  <2>. QED BY <2>1, <2>2, <2>3 DEF TypeOK, env, challenges
<1>11. CASE Publish(r)
  <2>1. req' \in [Request -> {Idle} \cup Busy]
    BY <1>11, Published, Going
  <2>2. event' \subseteq Worker
    BY <1>11, Published DEF TypeOK
  <2>3. overlap' \in BOOLEAN /\ UNCHANGED <<now, env, challenges, codes, l1, l2, wrong, completed, used>>
    BY <1>11, Published
  <2>. QED BY <2>1, <2>2, <2>3 DEF TypeOK, env, challenges
<1>. QED BY <1>1, <1>2, <1>3, <1>4, <1>5, <1>6, <1>7, <1>8, <1>9, <1>10, <1>11 DEF Handler

\* A worker that dies takes its handlers with it.
LEMMA Crashed ==
    ASSUME TypeOK, NEW w \in Worker, Crash(w)
    PROVE  /\ req' \in [Request -> {Idle} \cup Busy]
           /\ \A r \in Request : req'[r] = Idle \/ req'[r] = req[r]
           /\ event' = event \ {w}
           /\ l1' = [l1 EXCEPT ![w] = Miss]
           /\ pending' \in [Worker -> [Challenge -> {None} \cup Record]]
           /\ UNCHANGED <<now, env, stored, until, born, codes, l2, history>>
BY DEF Crash, TypeOK

LEMMA WorldTyped ==
    ASSUME TypeOK,
           \/ \E w \in Worker : Receive(w) \/ Forget(w) \/ Crash(w)
           \/ ForgetL2 \/ Tick \/ RedisFails \/ RedisRecovers \/ UNCHANGED vars
    PROVE  TypeOK'
<1>1. ASSUME NEW w \in Worker, Receive(w) \/ Forget(w) PROVE TypeOK'
  <2>1. /\ l1' \in [Worker -> {Miss} \cup SUBSET Code] /\ l2' \in {Miss} \cup SUBSET Code
        /\ event' \subseteq Worker
        /\ UNCHANGED <<now, env, challenges, codes, req, history>>
    BY <1>1 DEF Receive, Forget, TypeOK
  <2>. QED BY <2>1 DEF TypeOK, env, challenges, history
<1>2. ASSUME NEW w \in Worker, Crash(w) PROVE TypeOK'
  <2>1. /\ req' \in [Request -> {Idle} \cup Busy] /\ event' \subseteq Worker
        /\ l1' \in [Worker -> {Miss} \cup SUBSET Code]
        /\ pending' \in [Worker -> [Challenge -> {None} \cup Record]]
        /\ UNCHANGED <<now, env, stored, until, born, codes, l2, history>>
    BY <1>2, Crashed DEF TypeOK
  <2>. QED BY <2>1 DEF TypeOK, env, history
<1>3. CASE ForgetL2
  BY <1>3 DEF ForgetL2, TypeOK, env, challenges, history
<1>4. CASE Tick
  <2>1. now' \in 0..MaxTime
    BY <1>4, Numbers DEF Tick, TypeOK
  <2>2. stored' \in [Challenge -> {None} \cup Record]
    BY <1>4 DEF Tick, TypeOK
  <2>. QED BY <1>4, <2>1, <2>2 DEF Tick, TypeOK, env, rows, history
<1>5. CASE RedisFails
  <2>1. outages' \in 0..MaxOutages
    BY <1>5, Numbers DEF RedisFails, TypeOK
  <2>2. /\ redisUp' \in BOOLEAN /\ event' \subseteq Worker /\ overlap' \in BOOLEAN
        /\ UNCHANGED <<now, challenges, codes, l1, l2, req, wrong, completed, used>>
    BY <1>5 DEF RedisFails
  <2>. QED BY <2>1, <2>2 DEF TypeOK, challenges
<1>6. CASE RedisRecovers
  BY <1>6 DEF RedisRecovers, TypeOK, challenges, rows, history
<1>7. CASE UNCHANGED vars
  BY <1>7 DEF vars, TypeOK, env, challenges, rows, history
<1>. QED BY <1>1, <1>2, <1>3, <1>4, <1>5, <1>6, <1>7

LEMMA TypeStep ==
    ASSUME TypeOK, [Next]_vars
    PROVE  TypeOK'
BY InitiateTyped, BeginTyped, HandlerTyped, WorldTyped DEF Next

LEMMA InitTyped ==
    ASSUME Init
    PROVE  TypeOK
<1>1. /\ 0 \in 0..MaxTime /\ 0 \in 0..MaxOutages /\ -1 \in -1..MaxTime /\ 0 \in 0..MaxWrong
  BY Numbers
<1>. QED BY <1>1 DEF Init, TypeOK

(***************************************************************************)
(* A challenge's stored count stays below Attempts in Redis, in every      *)
(* memory and in every handler, and no handler acts on more than it holds. *)
(***************************************************************************)
THEOREM ChallengeTypes == Spec => []TypeOK
<1>. QED BY InitTyped, TypeStep, PTL DEF Spec


------------------------------------------------------------------------------
(* Challenges and time *)

LEMMA Ticks ==
    ASSUME TypeOK
    PROVE  /\ now \in Int
           /\ \A c \in Challenge : born[c] \in Int /\ completed[c] \in Int /\ -1 <= born[c]
           /\ \A r \in Request : req[r] # Idle => /\ req[r].ask.began \in Int
                                                 /\ req[r].ask.c \in Challenge
<1>1. \A r \in Request : req[r] # Idle => req[r].ask.began \in Nat /\ req[r].ask.c \in Challenge
  BY Standing, Holds
<1>. QED BY <1>1, Numbers DEF TypeOK

LEMMA StaysInTime ==
    ASSUME TypeOK, TypeOK', TimesInv, now' = now, \A c \in Challenge : born[c] <= born'[c],
           NEW r \in Request, req'[r] \in {req[r], Idle}
    PROVE  InTime(r)'
<1>1. CASE req'[r] = Idle
  BY <1>1 DEF InTime
<1>2. CASE req'[r] = req[r] /\ req[r] # Idle
  <2>1. /\ req[r].ask.began <= now /\ now <= req[r].ask.began + 1
        /\ req[r].pc = "judge" => now <= born[req[r].ask.c] + Life
        /\ req[r].pc \in Judged => req[r].ask.began <= born[req[r].ask.c] + Life
    BY <1>2 DEF TimesInv, InTime
  <2>2. req[r].ask.c \in Challenge /\ req[r].ask.began \in Int /\ now \in Int
        /\ born[req[r].ask.c] \in Int /\ born[req[r].ask.c] <= born'[req[r].ask.c]
    BY <1>2, Ticks
  <2>3. born'[req[r].ask.c] \in Int
    BY <2>2 DEF TypeOK
  <2>4. /\ req[r].pc = "judge" => now <= born'[req[r].ask.c] + Life
        /\ req[r].pc \in Judged => req[r].ask.began <= born'[req[r].ask.c] + Life
    BY <2>1, <2>2, <2>3, Numbers
  <2>. QED BY <1>2, <2>1, <2>4 DEF InTime
<1>. QED BY <1>1, <1>2

\* A step of the handler itself.
LEMMA GoesInTime ==
    ASSUME TypeOK, TimesInv, now' = now, born' = born, NEW r \in Request, req[r] # Idle,
           NEW x \in {Idle} \cup Busy, Goto(r, x), TypeOK',
           x # Idle => /\ x.ask = req[r].ask
                       /\ x.pc = "judge" => now <= born[x.ask.c] + Life
                       /\ x.pc \in Judged => req[r].pc \in Judged \cup {"judge"}
    PROVE  \A q \in Request : InTime(q)'
<1>1. \A q \in Request : req'[q] = IF q = r THEN x ELSE req[q]
  BY Going
<1>2. \A c \in Challenge : born[c] <= born'[c]
  BY Ticks
<1>3. ASSUME NEW q \in Request, q # r PROVE InTime(q)'
  BY <1>1, <1>2, <1>3, StaysInTime
<1>4. InTime(r)'
  <2>1. CASE x = Idle
    BY <1>1, <2>1 DEF InTime
  <2>2. CASE x # Idle
    <3>1. /\ req[r].ask.began <= now /\ now <= req[r].ask.began + 1
          /\ req[r].pc = "judge" => now <= born[req[r].ask.c] + Life
          /\ req[r].pc \in Judged => req[r].ask.began <= born[req[r].ask.c] + Life
      BY DEF TimesInv, InTime
    <3>2. req[r].ask.began \in Int /\ now \in Int /\ born[req[r].ask.c] \in Int
      BY Ticks
    <3>3. x.pc \in Judged => x.ask.began <= born[x.ask.c] + Life
      BY <2>2, <3>1, <3>2, Numbers
    <3>. QED BY <1>1, <2>2, <3>1, <3>3 DEF InTime
  <2>. QED BY <2>1, <2>2
<1>. QED BY <1>3, <1>4

LEMMA HandlerTimes ==
    ASSUME TypeOK, TypeOK', TimesInv, NEW r \in Request, Handler(r)
    PROVE  TimesInv'
<1>. "judge" \notin Judged /\ "user" \notin Judged /\ "filled" \notin Judged
     /\ "expired" \notin Judged /\ Idle \in {Idle} \cup Busy /\ Idle.pc = "idle"
  BY DEF Judged, Idle
<1>1. CASE Select(r) \/ Fill(r)
  <2>1. PICK x \in Busy : Goto(r, x) /\ x.pc \in {"filled", "user"} /\ x.ask = req[r].ask
    BY <1>1, Selected, Filled
  <2>2. UNCHANGED <<now, born, completed>> /\ req[r] # Idle
    BY <1>1 DEF Select, Fill, challenges, history, Idle
  <2>3. \A q \in Request : InTime(q)'
    BY <2>1, <2>2, GoesInTime
  <2>. QED BY <2>2, <2>3 DEF TimesInv, CompletedInTime
<1>2. CASE Fetch(r)
  <2>1. PICK x \in {Idle} \cup Busy :
              /\ Goto(r, x)
              /\ \/ x = Idle
                 \/ x.pc = "expired" /\ x.ask = req[r].ask
                 \/ /\ x.pc = "judge" /\ x.ask = req[r].ask
                    /\ now <= born[x.ask.c] + Life
    BY <1>2, Fetched
  <2>2. UNCHANGED <<now, born, completed>> /\ req[r] # Idle
    BY <1>2 DEF Fetch, challenges, history, Idle
  <2>3. \A q \in Request : InTime(q)'
    BY <2>1, <2>2, GoesInTime
  <2>. QED BY <2>2, <2>3 DEF TimesInv, CompletedInTime
<1>3. CASE Expire(r) \/ JudgeWrong(r) \/ CommitFails(r)
  <2>1. /\ UNCHANGED <<now, born, completed>> /\ req[r] # Idle /\ Goto(r, Idle)
    BY <1>3 DEF Expire, JudgeWrong, CommitFails, Finish, challenges, history, Idle
  <2>2. \A q \in Request : InTime(q)'
    BY <2>1, GoesInTime
  <2>. QED BY <2>1, <2>2 DEF TimesInv, CompletedInTime
<1>4. CASE JudgeTotp(r) \/ CodeSucceeds(r)
  <2>1. /\ req[r].ask.c \in Challenge /\ Goto(r, Idle) /\ req[r].pc \in {"judge", "right"}
        /\ completed' = [completed EXCEPT ![req[r].ask.c] = now] /\ UNCHANGED <<now, born>>
    BY <1>4, Succeeded
  <2>2. req[r] # Idle
    BY <2>1 DEF Idle
  <2>3. \A q \in Request : InTime(q)'
    BY <2>1, <2>2, GoesInTime
  <2>4. /\ now <= req[r].ask.began + 1
        /\ req[r].pc = "judge" => now <= born[req[r].ask.c] + Life
        /\ req[r].pc = "right" => req[r].ask.began <= born[req[r].ask.c] + Life
    BY <2>2 DEF TimesInv, InTime, Judged
  <2>5. now <= born[req[r].ask.c] + Life + 1
    BY <2>1, <2>2, <2>4, Ticks, Numbers
  <2>6. \A c \in Challenge : completed'[c] = IF c = req[r].ask.c THEN now ELSE completed[c]
    BY <2>1 DEF TypeOK
  <2>. QED BY <2>1, <2>3, <2>5, <2>6 DEF TimesInv, CompletedInTime
<1>5. CASE JudgeCode(r) \/ Commit(r) \/ Invalidate(r) \/ Publish(r)
  <2>1. PICK x \in Busy : Goto(r, x) /\ x.pc \in Judged /\ x.ask = req[r].ask
    BY <1>5, CodeJudged, Committed, Invalidated, Published DEF Judged
  <2>2. req[r].pc \in Judged \cup {"judge"}
    BY <1>5 DEF JudgeCode, Commit, Invalidate, Publish, Judged
  <2>3. UNCHANGED <<now, born, completed>> /\ req[r] # Idle
    BY <1>5, <2>2 DEF JudgeCode, Commit, Invalidate, Publish, challenges, history, Idle, Judged
  <2>4. \A q \in Request : InTime(q)'
    BY <2>1, <2>2, <2>3, GoesInTime
  <2>. QED BY <2>3, <2>4 DEF TimesInv, CompletedInTime
<1>. QED BY <1>1, <1>2, <1>3, <1>4, <1>5 DEF Handler

LEMMA BeginTimes ==
    ASSUME TypeOK, TypeOK', TimesInv, NEW r \in Request, NEW w \in Worker, NEW c \in Challenge,
           NEW answer \in Answer, Begin(r, w, c, answer)
    PROVE  TimesInv'
<1>1. PICK x \in Busy : Goto(r, x) /\ x.ask.began = now /\ x.pc \in {"query", "user"}
  BY Begun
<1>2. UNCHANGED <<now, born, completed>>
  BY Begun DEF challenges
<1>3. \A q \in Request : req'[q] = IF q = r THEN x ELSE req[q]
  BY <1>1, Going
<1>4. now \in Int /\ \A d \in Challenge : born[d] <= born'[d]
  BY <1>2, Ticks
<1>5. ASSUME NEW q \in Request, q # r PROVE InTime(q)'
  BY <1>2, <1>3, <1>4, <1>5, StaysInTime
<1>6. InTime(r)'
  BY <1>1, <1>2, <1>3, <1>4 DEF InTime, Judged
<1>. QED BY <1>2, <1>5, <1>6 DEF TimesInv, CompletedInTime

LEMMA WorldTimes ==
    ASSUME TypeOK, TypeOK', TimesInv,
           \/ \E w \in Worker, c \in Challenge : Initiate(w, c)
           \/ \E w \in Worker : Receive(w) \/ Forget(w) \/ Crash(w)
           \/ ForgetL2 \/ Tick \/ RedisFails \/ RedisRecovers \/ UNCHANGED vars
    PROVE  TimesInv'
<1>1. ASSUME NEW w \in Worker, NEW c \in Challenge, Initiate(w, c) PROVE TimesInv'
  <2>1. /\ UNCHANGED <<now, req, completed>> /\ born[c] = -1
        /\ \A d \in Challenge : born'[d] = IF d = c THEN now ELSE born[d]
    BY <1>1 DEF Initiate, history, TypeOK
  <2>2. -1 <= now
    BY DEF TypeOK
  <2>3. \A d \in Challenge : born[d] <= born'[d] /\ born[d] \in Int /\ born'[d] \in Int
    BY <2>1, <2>2, Ticks
  <2>4. \A q \in Request : InTime(q)'
    BY <2>1, <2>3, StaysInTime
  <2>5. CompletedInTime'
    <3>1. \A d \in Challenge : completed[d] # -1 => completed[d] <= born[d] + Life + 1
      BY DEF TimesInv, CompletedInTime
    <3>2. \A d \in Challenge : completed[d] # -1 => completed[d] <= born'[d] + Life + 1
      BY <2>3, <3>1, Ticks, Numbers
    <3>. QED BY <2>1, <3>2 DEF CompletedInTime
  <2>. QED BY <2>4, <2>5 DEF TimesInv
<1>2. CASE \/ \E w \in Worker : Receive(w) \/ Forget(w) \/ Crash(w)
           \/ ForgetL2 \/ RedisFails \/ RedisRecovers \/ UNCHANGED vars
  <2>1. UNCHANGED <<now, born, completed>> /\ \A q \in Request : req'[q] \in {req[q], Idle}
    <3>1. ASSUME NEW w \in Worker, Crash(w)
          PROVE  UNCHANGED <<now, born, completed>>
                 /\ \A q \in Request : req'[q] \in {req[q], Idle}
      BY <3>1, Crashed DEF history
    <3>2. ASSUME \/ \E w \in Worker : Receive(w) \/ Forget(w)
                 \/ ForgetL2 \/ RedisFails \/ RedisRecovers \/ UNCHANGED vars
          PROVE  UNCHANGED <<now, born, completed, req>>
      BY <3>2 DEF Receive, Forget, ForgetL2, RedisFails, RedisRecovers, vars, challenges, history
    <3>. QED BY <1>2, <3>1, <3>2
  <2>2. \A d \in Challenge : born[d] <= born'[d]
    BY <2>1, Ticks
  <2>3. \A q \in Request : InTime(q)'
    BY <2>1, <2>2, StaysInTime
  <2>. QED BY <2>1, <2>3 DEF TimesInv, CompletedInTime
<1>3. CASE Tick
  <2>1. /\ now' = now + 1 /\ UNCHANGED <<born, completed, req>> /\ now \in Int
        /\ \A q \in Request : req[q] # Idle => req[q].pc \in Awaiting /\ req[q].ask.began = now
    BY <1>3, Ticks DEF Tick, history
  <2>2. ASSUME NEW q \in Request PROVE InTime(q)'
    <3>1. req[q] # Idle /\ req[q].pc \in Judged => req[q].ask.began <= born[req[q].ask.c] + Life
      BY DEF TimesInv, InTime
    <3>2. "judge" \notin Awaiting
      BY DEF Awaiting
    <3>. QED BY <2>1, <3>1, <3>2 DEF InTime
  <2>. QED BY <2>1, <2>2 DEF TimesInv, CompletedInTime
<1>. QED BY <1>1, <1>2, <1>3

(***************************************************************************)
(* Although wrong answers renew the key and memory keeps a copy for ever,  *)
(* no answer completes a challenge more than a tick after its life.        *)
(***************************************************************************)
THEOREM ChallengesEnd == Spec => []CompletedInTime
<1>1. Init => TimesInv
  BY DEF Init, TimesInv, InTime, CompletedInTime
<1>2. TypeOK /\ TypeOK' /\ TimesInv /\ [Next]_vars => TimesInv'
  BY BeginTimes, HandlerTimes, WorldTimes DEF Next
<1>3. TimesInv => CompletedInTime
  BY DEF TimesInv
<1>. QED BY <1>1, <1>2, <1>3, ChallengeTypes, PTL DEF Spec


------------------------------------------------------------------------------
(* Single use *)

\* Nobody but r is at work.
LEMMA Solo ==
    ASSUME TypeOK, Alone, NEW r \in Request, req[r] # Idle,
           NEW x \in {Idle} \cup Busy, Goto(r, x)
    PROVE  \A q \in Request : req'[q] = IF q = r THEN x ELSE Idle
BY Going DEF Alone

LEMMA SoloKept ==
    ASSUME NEW r \in Request, NEW x \in {Idle} \cup Busy,
           \A q \in Request : req'[q] = IF q = r THEN x ELSE Idle,
           x # Idle /\ x.pc # "right" => event' = {},
           \A b \in Code : used'[b] <= 1,
           \A b \in Code : used'[b] = 1 \/ (x.pc = "right" /\ b = x.ask.answer) =>
               /\ b \notin codes' /\ b \notin l2'
               /\ \A w \in Worker : w \in event' \/ b \notin l1'[w]
               /\ x.pc \in Holding => b \notin x.codes,
           x.pc \in Judged =>
               LET b == x.ask.answer IN
               /\ b \in Code /\ used'[b] = 0 /\ b \notin x.codes
               /\ x.pc # "update" => b \notin codes'
               /\ x.pc \in {"publish", "right"} => b \notin l2'
    PROVE  SingleInv'
<1>. Idle.pc = "idle" /\ "idle" \notin Holding /\ "idle" \notin Judged
  BY DEF Idle, Holding, Judged
<1>1. Alone'
  BY DEF Alone
<1>2. ASSUME NEW b \in Code, used'[b] = 1 \/ (x.pc = "right" /\ b = x.ask.answer)
      PROVE  Gone(b)'
  BY <1>2 DEF Gone
<1>3. Spared'
  BY <1>2 DEF Spared
<1>4. ASSUME NEW q \in Request, req'[q].pc \in Judged PROVE Disappears(q)'
  <2>1. q = r /\ x.pc \in Judged
    BY <1>4
  <2>. QED BY <1>2, <2>1 DEF Disappears
<1>. QED BY <1>1, <1>3, <1>4 DEF SingleInv

LEMMA UsedNumbers ==
    ASSUME TypeOK, Spared, NEW b \in Code
    PROVE  used[b] \in {0, 1}
<1>1. used[b] \in Nat
  BY DEF TypeOK
<1>2. used[b] <= 1
  BY DEF Spared
<1>. QED BY <1>1, <1>2

\* One step of the only handler, before the answer.
LEMMA HandlerAlone ==
    ASSUME TypeOK, SingleInv, ~overlap', NEW r \in Request,
           \/ Select(r) \/ Fill(r) \/ Fetch(r) \/ JudgeCode(r) \/ Commit(r)
           \/ Invalidate(r) \/ Publish(r)
    PROVE  SingleInv'
<1>1. ~overlap
  BY DEF Select, Fill, Fetch, JudgeCode, Commit, Invalidate, Publish, history
<1>2. Alone /\ Spared /\ (req[r].pc \in Judged => Disappears(r))
  BY <1>1 DEF SingleInv
<1>3. req[r] # Idle /\ req[r].pc # "right" /\ used' = used
  BY DEF Select, Fill, Fetch, JudgeCode, Commit, Invalidate, Publish, history, Idle
<1>4. event = {} /\ \A b \in Code : used'[b] <= 1
  BY <1>2, <1>3 DEF Alone, Spared
<1>5. \A b \in Code : used[b] = 1 => /\ b \notin codes /\ b \notin l2
                                     /\ \A w \in Worker : b \notin l1[w]
                                     /\ req[r].pc \in Holding => b \notin req[r].codes
  BY <1>2, <1>4 DEF Spared, Gone
<1>. l1 \in [Worker -> {Miss} \cup SUBSET Code]
  BY DEF TypeOK
<1>6. CASE Select(r)
  <2>1. PICK x \in Busy : Goto(r, x) /\ x.pc = "filled" /\ x.codes = codes
    BY <1>6, Selected
  <2>2. UNCHANGED <<codes, l1, l2, event>>
    BY <1>6, Selected DEF rows
  <2>. QED BY <1>2, <1>3, <1>4, <1>5, <2>1, <2>2, Solo, SoloKept DEF Judged
<1>7. CASE Fill(r)
  <2>1. PICK x \in Busy : Goto(r, x) /\ x.pc = "user" /\ x.codes = req[r].codes
    BY <1>7, Filled
  <2>2. /\ req[r].pc \in Holding /\ req[r].ask.worker \in Worker
        /\ l1' = [l1 EXCEPT ![req[r].ask.worker] = req[r].codes]
        /\ l2' \in {l2, req[r].codes} /\ UNCHANGED <<codes, event>>
    BY <1>7, Filled DEF Holding
  <2>. QED BY <1>2, <1>3, <1>4, <1>5, <2>1, <2>2, Solo, SoloKept DEF Judged
<1>8. CASE Fetch(r)
  <2>1. PICK x \in {Idle} \cup Busy :
            /\ Goto(r, x)
            /\ x.pc \in {"idle", "expired"} \/ (x.pc = "judge" /\ x.codes = req[r].codes)
    <3>1. Idle.pc = "idle"
      BY DEF Idle
    <3>2. PICK y \in {Idle} \cup Busy :
                 /\ Goto(r, y)
                 /\ \/ y = Idle
                    \/ y.pc = "expired" /\ y.ask = req[r].ask
                    \/ /\ y.pc = "judge" /\ y.ask = req[r].ask /\ y.codes = req[r].codes
                       /\ now <= born[y.ask.c] + Life
      BY <1>8, Fetched
    <3>. QED BY <3>1, <3>2
  <2>2. req[r].pc \in Holding /\ UNCHANGED <<codes, l1, l2, event>>
    BY <1>8, Fetched DEF Holding, rows
  <2>3. x.pc \notin Judged /\ (x.pc \in Holding => x.codes = req[r].codes)
    BY <2>1 DEF Holding, Judged
  <2>4. x.pc # "right" /\ Goto(r, x)
    BY <2>1, <2>3 DEF Judged
  <2>5. \A q \in Request : req'[q] = IF q = r THEN x ELSE Idle
    BY <1>2, <1>3, <2>4, Solo
  <2>6. \A b \in Code : used'[b] = 1 =>
            /\ b \notin codes' /\ b \notin l2' /\ \A w \in Worker : b \notin l1'[w]
            /\ x.pc \in Holding => b \notin x.codes
    BY <1>3, <1>5, <2>2, <2>3
  <2>. QED BY <1>4, <2>2, <2>3, <2>4, <2>5, <2>6, SoloKept
<1>9. CASE JudgeCode(r)
  <2>. DEFINE b == req[r].ask.answer
  <2>1. PICK x \in Busy : /\ Goto(r, x) /\ x.pc = "update" /\ x.ask = req[r].ask
                          /\ x.codes = req[r].codes \ {b}
    BY <1>9, CodeJudged
  <2>2. /\ req[r].pc \in Holding /\ req[r].ask.worker \in Worker
        /\ b \in req[r].codes /\ b \in Code
        /\ l1' = [l1 EXCEPT ![req[r].ask.worker] = req[r].codes \ {b}]
        /\ UNCHANGED <<codes, l2, event>>
    BY <1>9, CodeJudged DEF Holding
  <2>3. used[b] = 0
    BY <1>2, <1>5, <2>2, UsedNumbers
  <2>4. \A d \in Code : used[d] = 1 =>
            /\ d \notin codes' /\ d \notin l2' /\ \A w \in Worker : d \notin l1'[w]
            /\ d \notin x.codes
    BY <1>5, <2>1, <2>2
  <2>. QED BY <1>2, <1>3, <1>4, <2>1, <2>2, <2>3, <2>4, Solo, SoloKept DEF Judged
<1>10. CASE Commit(r)
  <2>. DEFINE b == req[r].ask.answer
  <2>1. PICK x \in Busy : /\ Goto(r, x) /\ x.pc = "committed" /\ x.ask = req[r].ask
                          /\ x.codes = req[r].codes
    BY <1>10, Committed
  <2>2. /\ req[r].pc \in Holding /\ req[r].pc \in Judged /\ codes' = req[r].codes
        /\ UNCHANGED <<l1, l2, event>>
    BY <1>10, Committed DEF Holding, Judged
  <2>3. b \in Code /\ used[b] = 0 /\ b \notin req[r].codes
    BY <1>2, <2>2 DEF Disappears
  <2>. QED BY <1>2, <1>3, <1>4, <1>5, <2>1, <2>2, <2>3, Solo, SoloKept DEF Judged
<1>11. CASE Invalidate(r)
  <2>. DEFINE b == req[r].ask.answer
  <2>1. redisUp
    BY <1>11, Invalidated
  <2>2. PICK x \in Busy : /\ Goto(r, x) /\ x.pc = "publish" /\ x.ask = req[r].ask
                          /\ x.codes = req[r].codes
    BY <1>11, <2>1, Invalidated
  <2>3. /\ req[r].pc \in Holding /\ req[r].pc \in Judged /\ req[r].pc # "update"
        /\ req[r].ask.worker \in Worker
        /\ l1' = [l1 EXCEPT ![req[r].ask.worker] = Miss] /\ l2' = Miss
        /\ UNCHANGED <<codes, event>>
    BY <1>11, <2>1, Invalidated DEF Holding, Judged
  <2>4. b \in Code /\ used[b] = 0 /\ b \notin req[r].codes /\ b \notin codes
    BY <1>2, <2>3 DEF Disappears
  <2>5. \A d \in Code : used[d] = 1 =>
            /\ d \notin codes' /\ d \notin l2' /\ \A w \in Worker : d \notin l1'[w]
            /\ d \notin x.codes
    BY <1>5, <2>2, <2>3, NoCodes
  <2>6. b \notin l2'
    BY <2>3, <2>4, NoCodes
  <2>. QED BY <1>2, <1>3, <1>4, <2>2, <2>3, <2>4, <2>5, <2>6, Solo, SoloKept DEF Judged
<1>12. CASE Publish(r)
  <2>. DEFINE b == req[r].ask.answer
  <2>1. redisUp
    BY <1>12, Published
  <2>2. PICK x \in Busy : /\ Goto(r, x) /\ x.pc = "right" /\ x.ask = req[r].ask
                          /\ x.codes = req[r].codes
    BY <1>12, Published
  <2>3. /\ req[r].pc \in Holding /\ req[r].pc \in Judged /\ req[r].pc = "publish"
        /\ event' = Worker /\ UNCHANGED <<codes, l1, l2>>
    BY <1>12, <2>1, Published DEF Holding, Judged
  <2>4. /\ b \in Code /\ used[b] = 0 /\ b \notin req[r].codes /\ b \notin codes
        /\ b \notin l2
    BY <1>2, <2>3 DEF Disappears
  <2>. QED BY <1>2, <1>3, <1>4, <1>5, <2>2, <2>3, <2>4, Solo, SoloKept DEF Judged
<1>. QED BY <1>6, <1>7, <1>8, <1>9, <1>10, <1>11, <1>12

\* The last step of the only handler.
LEMMA AnsweredAlone ==
    ASSUME TypeOK, SingleInv, ~overlap', NEW r \in Request,
           \/ Expire(r) \/ JudgeWrong(r) \/ CommitFails(r) \/ JudgeTotp(r) \/ CodeSucceeds(r)
    PROVE  SingleInv'
<1>1. /\ ~overlap /\ req[r] # Idle /\ Goto(r, Idle) /\ UNCHANGED <<codes, l1, l2, event>>
  <2>1. CASE JudgeTotp(r) \/ CodeSucceeds(r)
    <3>1. req[r] # Idle
      BY <2>1 DEF JudgeTotp, CodeSucceeds, Idle
    <3>. QED BY <2>1, <3>1, Succeeded DEF rows
  <2>2. CASE Expire(r) \/ JudgeWrong(r) \/ CommitFails(r)
    BY <2>2 DEF Expire, JudgeWrong, CommitFails, Finish, rows, history, Idle
  <2>. QED BY <2>1, <2>2
<1>2. Alone /\ Spared /\ (req[r].pc \in Judged => Disappears(r))
  BY <1>1 DEF SingleInv
<1>3. Idle.pc = "idle" /\ "idle" \notin Judged /\ "idle" \notin Holding
      /\ \A q \in Request : req'[q] = IF q = r THEN Idle ELSE Idle
  BY <1>1, <1>2, Solo DEF Idle, Judged, Holding
<1>4. CASE used' = used
  <2>1. \A b \in Code : used'[b] <= 1 /\ (used'[b] = 1 => Gone(b))
    BY <1>2, <1>4 DEF Spared
  <2>2. \A b \in Code : used'[b] = 1 => /\ b \notin codes' /\ b \notin l2'
                                        /\ \A w \in Worker : w \in event' \/ b \notin l1'[w]
    BY <1>1, <2>1 DEF Gone
  <2>. QED BY <1>3, <2>1, <2>2, SoloKept
<1>5. CASE CodeSucceeds(r)
  <2>. DEFINE a == req[r].ask.answer
  <2>1. req[r].pc = "right" /\ req[r].pc \in Judged
    BY <1>5 DEF CodeSucceeds, Judged
  <2>2. a \in Code /\ used[a] = 0 /\ Gone(a)
    BY <1>2, <2>1 DEF Disappears
  <2>3. used' = [used EXCEPT ![a] = used[a] + 1]
    BY <1>5, <2>2, Succeeded
  <2>4. \A b \in Code : used'[b] = IF b = a THEN 1 ELSE used[b]
    BY <2>2, <2>3 DEF TypeOK
  <2>5. \A b \in Code : used'[b] <= 1 /\ (used'[b] = 1 => Gone(b))
    BY <1>2, <2>2, <2>4 DEF Spared
  <2>6. \A b \in Code : used'[b] = 1 => /\ b \notin codes' /\ b \notin l2'
                                        /\ \A w \in Worker : w \in event' \/ b \notin l1'[w]
    BY <1>1, <2>5 DEF Gone
  <2>. QED BY <1>3, <2>5, <2>6, SoloKept
<1>6. CASE Expire(r) \/ JudgeWrong(r) \/ CommitFails(r) \/ JudgeTotp(r)
  <2>1. used' = used
    BY <1>6, Succeeded, NoCodes DEF Expire, JudgeWrong, CommitFails, JudgeTotp, history
  <2>. QED BY <1>4, <2>1
<1>. QED BY <1>5, <1>6

LEMMA BeginAlone ==
    ASSUME TypeOK, SingleInv, ~overlap', NEW r \in Request, NEW w \in Worker,
           NEW c \in Challenge, NEW answer \in Answer, Begin(r, w, c, answer)
    PROVE  SingleInv'
<1>1. ~overlap /\ event = {} /\ \A q \in Request : req[q] = Idle
  BY Begun DEF Others
<1>2. Alone /\ Spared
  BY <1>1 DEF SingleInv
<1>3. PICK x \in Busy :
          /\ Goto(r, x) /\ x.ask.began = now /\ x.ask.c = c
          /\ \/ x.pc = "query"
             \/ x.pc = "user" /\ x.codes \in SUBSET Code /\ x.codes \in {l1[w], l2}
  BY Begun
<1>4. PICK hit \in {l1[w], l2, Miss} : l1' = [l1 EXCEPT ![w] = hit]
  BY Begun
<1>5. UNCHANGED <<codes, l2, event, used>> /\ l1 \in [Worker -> {Miss} \cup SUBSET Code]
  BY Begun DEF TypeOK
<1>6. \A q \in Request : req'[q] = IF q = r THEN x ELSE Idle
  BY <1>1, <1>3, Going
<1>7. \A b \in Code : used'[b] <= 1 /\ (used'[b] = 1 => Gone(b))
  BY <1>2, <1>5 DEF Spared
<1>8. \A b \in Code : used'[b] = 1 =>
          b \notin codes /\ b \notin l2 /\ \A v \in Worker : b \notin l1[v]
  BY <1>1, <1>7 DEF Gone
<1>9. \A b \in Code : used'[b] = 1 =>
          /\ b \notin codes' /\ b \notin l2'
          /\ \A v \in Worker : b \notin l1'[v]
          /\ x.pc = "user" => b \notin x.codes
  BY <1>3, <1>4, <1>5, <1>8, NoCodes
<1>10. x.pc \notin Judged /\ x.pc # "right" /\ (x.pc \in Holding => x.pc = "user")
  BY <1>3 DEF Judged, Holding
<1>. QED BY <1>1, <1>5, <1>6, <1>7, <1>9, <1>10, SoloKept

\* Caches only lose rows, and handlers only end.
LEMMA WorldAlone ==
    ASSUME TypeOK, SingleInv, ~overlap',
           \/ \E w \in Worker, c \in Challenge : Initiate(w, c)
           \/ \E w \in Worker : Receive(w) \/ Forget(w) \/ Crash(w)
           \/ ForgetL2 \/ Tick \/ RedisFails \/ RedisRecovers \/ UNCHANGED vars
    PROVE  SingleInv'
<1>1. /\ UNCHANGED <<overlap, codes, used>> /\ l2' \in {l2, Miss}
      /\ \A q \in Request : req'[q] \in {req[q], Idle}
      /\ event' \subseteq event
      /\ \A v \in Worker : (l1'[v] = l1[v] /\ (v \in event => v \in event')) \/ l1'[v] = Miss
  <2>. l1 \in [Worker -> {Miss} \cup SUBSET Code]
    BY DEF TypeOK
  <2>1. CASE \E w \in Worker : Receive(w) \/ Forget(w)
    BY <2>1 DEF Receive, Forget, history
  <2>2. CASE \E w \in Worker : Crash(w)
    BY <2>2, Crashed DEF history
  <2>3. CASE \/ \E w \in Worker, c \in Challenge : Initiate(w, c)
             \/ ForgetL2 \/ Tick \/ RedisRecovers \/ UNCHANGED vars
    BY <2>3 DEF Initiate, ForgetL2, Tick, RedisRecovers, vars, rows, history
  <2>4. CASE RedisFails
    <3>1. /\ overlap' = (overlap \/ event # {}) /\ event' = {} /\ overlap \in BOOLEAN
          /\ UNCHANGED <<codes, l1, l2, req, used>>
      BY <2>4 DEF RedisFails, TypeOK
    <3>2. event = {} /\ ~overlap /\ overlap' = overlap
      BY <3>1
    <3>. QED BY <3>1, <3>2
  <2>. QED BY <2>1, <2>2, <2>3, <2>4
<1>2. ~overlap
  BY <1>1
<1>3. Alone /\ Spared /\ \A r \in Request : req[r].pc \in Judged => Disappears(r)
  BY <1>2 DEF SingleInv
<1>. Idle.pc = "idle" /\ "idle" \notin Holding /\ "idle" \notin Judged
  BY DEF Idle, Holding, Judged
<1>4. Alone'
  BY <1>1, <1>3 DEF Alone
<1>5. ASSUME NEW b \in Code, Gone(b) PROVE Gone(b)'
  BY <1>1, <1>5, NoCodes DEF Gone
<1>6. Spared'
  BY <1>1, <1>3, <1>5 DEF Spared
<1>7. ASSUME NEW r \in Request, req'[r].pc \in Judged PROVE Disappears(r)'
  <2>1. req'[r] = req[r] /\ Disappears(r) /\ req[r].ask.answer \in Code
    BY <1>1, <1>3, <1>7 DEF Disappears
  <2>2. req[r].pc = "right" => Gone(req[r].ask.answer)
    BY <2>1 DEF Disappears
  <2>3. req[r].pc = "right" =>
            /\ req[r].ask.answer \notin codes /\ req[r].ask.answer \notin l2
            /\ \A w \in Worker : w \in event \/ req[r].ask.answer \notin l1[w]
            /\ \A q \in Request : req[q].pc \in Holding => req[r].ask.answer \notin req[q].codes
    BY <2>2 DEF Gone
  <2>. QED BY <1>1, <2>1, <2>3, NoCodes DEF Disappears, Gone
<1>. QED BY <1>4, <1>6, <1>7 DEF SingleInv

LEMMA SingleStep ==
    ASSUME TypeOK, SingleInv, [Next]_vars
    PROVE  SingleInv'
<1>1. CASE overlap'
  BY <1>1 DEF SingleInv
<1>2. CASE ~overlap'
  <2>1. ASSUME NEW r \in Request, Handler(r) PROVE SingleInv'
    BY <1>2, <2>1, HandlerAlone, AnsweredAlone DEF Handler
  <2>2. ASSUME NEW r \in Request, NEW w \in Worker, NEW c \in Challenge, NEW answer \in Answer,
               Begin(r, w, c, answer)
        PROVE  SingleInv'
    BY <1>2, <2>2, BeginAlone
  <2>3. ASSUME \/ \E w \in Worker, c \in Challenge : Initiate(w, c)
               \/ \E w \in Worker : Receive(w) \/ Forget(w) \/ Crash(w)
               \/ ForgetL2 \/ Tick \/ RedisFails \/ RedisRecovers \/ UNCHANGED vars
        PROVE  SingleInv'
    BY <1>2, <2>3, WorldAlone
  <2>. QED BY <2>1, <2>2, <2>3 DEF Next
<1>. QED BY <1>1, <1>2

(***************************************************************************)
(* Of any number of codes, in rows cached by any number of workers: a code *)
(* that was accepted leaves the row, the entry in Redis and the memories   *)
(* step by step, whatever dies, fails or expires on the way.               *)
(***************************************************************************)
THEOREM CodesUsedOnce == Spec => []CodeUsedOnceApart
<1>1. Init => SingleInv
  <2>. SUFFICES ASSUME Init PROVE SingleInv
    OBVIOUS
  <2>1. \A r \in Request : req[r] = Idle /\ req[r].pc = "idle"
    BY DEF Init, Idle
  <2>2. \A b \in Code : used[b] = 0
    BY DEF Init
  <2>. QED BY <2>1, <2>2 DEF SingleInv, Alone, Spared, Judged
<1>2. TypeOK /\ SingleInv /\ [Next]_vars => SingleInv'
  BY SingleStep
<1>3. SingleInv => CodeUsedOnceApart
  BY DEF SingleInv, Spared, CodeUsedOnceApart
<1>. QED BY <1>1, <1>2, <1>3, ChallengeTypes, PTL DEF Spec

------------------------------------------------------------------------------
(* Recursion and the binomial coefficients *)

LEMMA ByInduction ==
    ASSUME NEW S, 0 \in S, \A n \in Nat : n \in S => n + 1 \in S
    PROVE  Nat \subseteq S
<1>. DEFINE T == Nat \ S
<1>1. SUFFICES ASSUME T # {} PROVE FALSE
  OBVIOUS
<1>2. PICK x \in T : \A y \in T : ~ (<<y, x>> \in OpToRel(<, Nat))
  <2>. HIDE DEF T
  <2>1. T \subseteq Nat
    BY DEF T
  <2>. QED BY <1>1, <2>1, NatLessThanWellFounded, WFMin, Zenon
<1>3. x \in Nat \ {0}
  OBVIOUS
<1>4. x - 1 \in Nat /\ x - 1 < x /\ (x - 1) + 1 = x
  BY <1>3
<1>5. <<x - 1, x>> \in OpToRel(<, Nat)
  BY <1>3, <1>4 DEF OpToRel
<1>6. x - 1 \in S
  BY <1>2, <1>4, <1>5
<1>. QED BY <1>4, <1>6

\* The first n steps of a recursion along the numbers, and the whole of it.
Steps(g, n, x, F) == g[0] = x /\ \A i \in Nat : i < n => g[i + 1] = F[<<i, g[i]>>]

AllSteps(f, x, F) == f[0] = x /\ \A n \in Nat : f[n + 1] = F[<<n, f[n]>>]

LEMMA Recursion ==
    ASSUME NEW X, NEW x \in X, NEW F \in [Nat \X X -> X]
    PROVE  \E f \in [Nat -> X] : AllSteps(f, x, F)
<1>. DEFINE S == {n \in Nat : \E g \in [0..n -> X] : Steps(g, n, x, F)}
<1>1. 0 \in S
  <2>1. [i \in 0..0 |-> x] \in [0..0 -> X] /\ Steps([i \in 0..0 |-> x], 0, x, F)
    BY DEF Steps
  <2>. QED BY <2>1
<1>2. ASSUME NEW n \in Nat, n \in S PROVE n + 1 \in S
  <2>1. PICK g \in [0..n -> X] : Steps(g, n, x, F)
    BY <1>2
  <2>. DEFINE h == [i \in 0..(n + 1) |-> IF i <= n THEN g[i] ELSE F[<<n, g[n]>>]]
  <2>2. \A i \in 0..n : g[i] \in X
    OBVIOUS
  <2>3. F[<<n, g[n]>>] \in X
    BY <2>2
  <2>4. h \in [0..(n + 1) -> X]
    BY <2>2, <2>3
  <2>5. h[n + 1] = F[<<n, g[n]>>] /\ \A i \in 0..n : h[i] = g[i]
    OBVIOUS
  <2>. HIDE DEF h
  <2>6. ASSUME NEW i \in Nat, i < n + 1 PROVE h[i + 1] = F[<<i, h[i]>>]
    <3>1. CASE i = n
      BY <2>5, <3>1
    <3>2. CASE i # n
      <4>1. i \in 0..n /\ i + 1 \in 0..n /\ i < n
        BY <2>6, <3>2
      <4>. QED BY <2>1, <2>5, <4>1 DEF Steps
    <3>. QED BY <3>1, <3>2
  <2>7. Steps(h, n + 1, x, F)
    BY <2>1, <2>5, <2>6 DEF Steps
  <2>. QED BY <2>4, <2>7
<1>3. \A n \in Nat : \E g \in [0..n -> X] : Steps(g, n, x, F)
  <2>1. Nat \subseteq S
    <3>. HIDE DEF S
    <3>. QED BY <1>1, <1>2, ByInduction
  <2>. QED BY <2>1
<1>4. ASSUME NEW m \in Nat, NEW n \in Nat, m <= n, NEW g, NEW h,
             Steps(g, m, x, F), Steps(h, n, x, F)
      PROVE  g[m] = h[m]
  <2>. DEFINE A == {i \in Nat : i <= m => g[i] = h[i]}
  <2>1. 0 \in A
    BY <1>4 DEF Steps
  <2>2. ASSUME NEW i \in Nat, i \in A PROVE i + 1 \in A
    <3>1. SUFFICES ASSUME i + 1 <= m PROVE g[i + 1] = h[i + 1]
      OBVIOUS
    <3>2. i < m /\ i < n /\ i <= m
      BY <1>4, <3>1
    <3>3. g[i] = h[i]
      BY <2>2, <3>2
    <3>4. g[i + 1] = F[<<i, g[i]>>] /\ h[i + 1] = F[<<i, h[i]>>]
      BY <1>4, <3>2 DEF Steps
    <3>. QED BY <3>3, <3>4
  <2>3. Nat \subseteq A
    <3>. HIDE DEF A
    <3>. QED BY <2>1, <2>2, ByInduction
  <2>. QED BY <2>3
<1>. DEFINE s(n) == CHOOSE g \in [0..n -> X] : Steps(g, n, x, F)
<1>5. \A n \in Nat : s(n) \in [0..n -> X] /\ Steps(s(n), n, x, F)
  BY <1>3
<1>. HIDE DEF s
<1>. DEFINE f == [n \in Nat |-> s(n)[n]]
<1>6. f \in [Nat -> X]
  <2>1. ASSUME NEW n \in Nat PROVE s(n)[n] \in X
    <3>1. s(n) \in [0..n -> X] /\ n \in 0..n
      BY <1>5
    <3>. QED BY <3>1
  <2>. QED BY <2>1
<1>7. \A n \in Nat : f[n] = s(n)[n]
  OBVIOUS
<1>. HIDE DEF f
<1>8. f[0] = x
  BY <1>5, <1>7 DEF Steps
<1>9. ASSUME NEW n \in Nat PROVE f[n + 1] = F[<<n, f[n]>>]
  <2>1. Steps(s(n), n, x, F) /\ Steps(s(n + 1), n + 1, x, F)
    BY <1>5
  <2>2. s(n + 1)[n + 1] = F[<<n, s(n + 1)[n]>>]
    BY <2>1 DEF Steps
  <2>3. s(n)[n] = s(n + 1)[n]
    BY <1>4, <2>1
  <2>. QED BY <1>7, <2>2, <2>3
<1>. QED BY <1>6, <1>8, <1>9 DEF AllSteps

LEMMA FactorialSteps ==
    /\ factorial \in [Nat -> Nat \ {0}]
    /\ factorial[0] = 1
    /\ \A n \in Nat : factorial[n + 1] = (n + 1) * factorial[n]
<1>. DEFINE X == Nat \ {0}
            F == [p \in Nat \X X |-> (p[1] + 1) * p[2]]
<1>1. F \in [Nat \X X -> X] /\ 1 \in X
  <2>1. \A a \in Nat, b \in Nat \ {0} : (a + 1) * b \in Nat \ {0}
    OBVIOUS
  <2>. QED BY <2>1
<1>2. PICK f \in [Nat -> X] : f[0] = 1 /\ \A n \in Nat : f[n + 1] = F[<<n, f[n]>>]
  <2>. HIDE DEF F, X
  <2>1. \E f \in [Nat -> X] : AllSteps(f, 1, F)
    BY <1>1, Recursion
  <2>. QED BY <2>1 DEF AllSteps
<1>3. \A n \in Nat : f[n + 1] = (n + 1) * f[n]
  BY <1>2
<1>4. f = [n \in Nat |-> IF n = 0 THEN 1 ELSE n * f[n - 1]]
  <2>1. ASSUME NEW n \in Nat \ {0} PROVE f[n] = n * f[n - 1]
    <3>1. n - 1 \in Nat /\ (n - 1) + 1 = n
      OBVIOUS
    <3>. QED BY <1>3, <3>1
  <2>. QED BY <1>2, <2>1
<1>5. factorial = [n \in Nat |-> IF n = 0 THEN 1 ELSE n * factorial[n - 1]]
  BY <1>4, Zenon DEF factorial
<1>. DEFINE S == {n \in Nat : factorial[n] = f[n]}
<1>6. 0 \in S
  BY <1>2, <1>5
<1>7. ASSUME NEW n \in Nat, n \in S PROVE n + 1 \in S
  <2>1. factorial[n + 1] = (n + 1) * factorial[(n + 1) - 1]
    BY <1>5
  <2>2. (n + 1) - 1 = n
    OBVIOUS
  <2>. QED BY <1>3, <1>7, <2>1, <2>2
<1>8. \A n \in Nat : factorial[n] = f[n]
  <2>1. Nat \subseteq S
    <3>. HIDE DEF S
    <3>. QED BY <1>6, <1>7, ByInduction
  <2>. QED BY <2>1
<1>9. factorial = f
  <2>1. factorial = [n \in Nat |-> factorial[n]]
    BY <1>5
  <2>. QED BY <1>8, <2>1
<1>. QED BY <1>2, <1>3, <1>9

\* The ways through a grid of i by m steps.
Paths(i, m) == choose(m + i, i)

LEMMA Quotient ==
    ASSUME NEW q \in Nat, NEW b \in Nat \ {0}
    PROVE  (q * b) \div b = q
OBVIOUS

\* The quotient in choose leaves no rest, and Pascal's rule.
Splits(i, m, q) == factorial[m + i] = q * (factorial[i] * factorial[m])

LEMMA SplitsTwice ==
    ASSUME NEW i \in Nat, NEW m \in Nat, NEW p \in Nat, NEW q \in Nat,
           Splits(i, m + 1, p), Splits(i + 1, m, q)
    PROVE  Splits(i + 1, m + 1, p + q)
<1>. DEFINE fi == factorial[i]
            fm == factorial[m]
            fn == factorial[m + 1 + i]
<1>1. fi \in Nat /\ fm \in Nat /\ fn \in Nat
  <2>1. m + 1 + i \in Nat
    OBVIOUS
  <2>2. \A n \in Nat : factorial[n] \in Nat
    BY FactorialSteps
  <2>. QED BY <2>1, <2>2
<1>2. /\ factorial[i + 1] = (i + 1) * fi /\ factorial[m + 1] = (m + 1) * fm
      /\ factorial[(m + 1 + i) + 1] = ((m + 1 + i) + 1) * fn
  <2>1. m + 1 + i \in Nat
    OBVIOUS
  <2>2. \A n \in Nat : factorial[n + 1] = (n + 1) * factorial[n]
    BY FactorialSteps
  <2>. QED BY <2>1, <2>2
<1>3. (m + 1) + (i + 1) = (m + 1 + i) + 1 /\ m + (i + 1) = m + 1 + i
  OBVIOUS
<1>4. fn = p * (fi * ((m + 1) * fm)) /\ fn = q * (((i + 1) * fi) * fm)
  BY <1>2, <1>3 DEF Splits
<1>. HIDE DEF fi, fm, fn
<1>5. (i + 1) * fn = p * (((i + 1) * fi) * ((m + 1) * fm))
  <2>1. (i + 1) * (p * (fi * ((m + 1) * fm))) = p * (((i + 1) * fi) * ((m + 1) * fm))
    BY <1>1
  <2>. QED BY <1>4, <2>1
<1>6. (m + 1) * fn = q * (((i + 1) * fi) * ((m + 1) * fm))
  <2>1. (m + 1) * (q * (((i + 1) * fi) * fm)) = q * (((i + 1) * fi) * ((m + 1) * fm))
    BY <1>1
  <2>. QED BY <1>4, <2>1
<1>. DEFINE z == ((i + 1) * fi) * ((m + 1) * fm)
<1>7. ((m + 1 + i) + 1) * fn = (i + 1) * fn + (m + 1) * fn
  BY <1>1
<1>8. z \in Nat
  BY <1>1
<1>9. p * z + q * z = (p + q) * z
  <2>. HIDE DEF z
  <2>. QED BY <1>8
<1>10. ((m + 1 + i) + 1) * fn = (p + q) * z
  BY <1>5, <1>6, <1>7, <1>9
<1>. QED BY <1>2, <1>3, <1>10 DEF Splits

LEMMA PathsSplit ==
    \A i, m \in Nat : Paths(i, m) \in Nat \ {0} /\ Splits(i, m, Paths(i, m))
<1>. DEFINE S == {n \in Nat : \A i, m \in Nat : i + m = n => \E q \in Nat \ {0} : Splits(i, m, q)}
<1>0. \A i \in Nat : Splits(i, 0, 1) /\ Splits(0, i, 1)
  <2>1. ASSUME NEW i \in Nat PROVE factorial[i] = 1 * (1 * factorial[i])
    <3>1. factorial[i] \in Nat
      BY FactorialSteps
    <3>. QED BY <3>1
  <2>2. ASSUME NEW i \in Nat PROVE factorial[i] = 1 * (factorial[i] * 1)
    <3>1. factorial[i] \in Nat
      BY FactorialSteps
    <3>. QED BY <3>1
  <2>3. \A i \in Nat : 0 + i = i /\ i + 0 = i
    OBVIOUS
  <2>4. factorial[0] = 1
    BY FactorialSteps
  <2>. QED BY <2>1, <2>2, <2>3, <2>4, Zenon DEF Splits
<1>1. 0 \in S
  BY <1>0
<1>2. ASSUME NEW n \in Nat, n \in S PROVE n + 1 \in S
  <2>1. SUFFICES ASSUME NEW i \in Nat, NEW m \in Nat, i + m = n + 1
                 PROVE  \E q \in Nat \ {0} : Splits(i, m, q)
    OBVIOUS
  <2>2. CASE i = 0 \/ m = 0
    BY <1>0, <2>2
  <2>3. CASE i # 0 /\ m # 0
    <3>1. /\ i - 1 \in Nat /\ m - 1 \in Nat /\ (i - 1) + 1 = i /\ (m - 1) + 1 = m
          /\ (i - 1) + m = n /\ i + (m - 1) = n
      BY <2>1, <2>3
    <3>2. PICK p \in Nat \ {0} : Splits(i - 1, m, p)
      BY <1>2, <3>1
    <3>3. PICK q \in Nat \ {0} : Splits(i, m - 1, q)
      BY <1>2, <3>1
    <3>4. Splits(i, m, p + q)
      BY <3>1, <3>2, <3>3, SplitsTwice
    <3>5. p + q \in Nat \ {0}
      OBVIOUS
    <3>. QED BY <3>4, <3>5
  <2>. QED BY <2>2, <2>3
<1>3. Nat \subseteq S
  <2>. HIDE DEF S
  <2>. QED BY <1>1, <1>2, ByInduction
<1>4. SUFFICES ASSUME NEW i \in Nat, NEW m \in Nat
               PROVE  Paths(i, m) \in Nat \ {0} /\ Splits(i, m, Paths(i, m))
  OBVIOUS
<1>5. PICK q \in Nat \ {0} : Splits(i, m, q)
  <2>1. i + m \in Nat
    OBVIOUS
  <2>2. i + m \in S
    BY <1>3, <2>1
  <2>. QED BY <2>2
<1>6. Paths(i, m) = q
  <2>1. factorial[i] * factorial[m] \in Nat \ {0}
    <3>1. factorial[i] \in Nat \ {0} /\ factorial[m] \in Nat \ {0}
      BY FactorialSteps
    <3>2. \A a, b \in Nat \ {0} : a * b \in Nat \ {0}
      OBVIOUS
    <3>. QED BY <3>1, <3>2
  <2>2. (m + i) - i = m
    OBVIOUS
  <2>3. Paths(i, m) = (q * (factorial[i] * factorial[m])) \div (factorial[i] * factorial[m])
    BY <1>5, <2>2 DEF Paths, choose, Splits
  <2>. QED BY <2>1, <2>3, Quotient
<1>. QED BY <1>5, <1>6

LEMMA SplitsOnce ==
    ASSUME NEW i \in Nat, NEW m \in Nat, NEW p \in Nat, NEW q \in Nat,
           Splits(i, m, p), Splits(i, m, q)
    PROVE  p = q
<1>1. factorial[i] * factorial[m] \in Nat \ {0}
  <2>1. factorial[i] \in Nat \ {0} /\ factorial[m] \in Nat \ {0}
    BY FactorialSteps
  <2>2. \A a, b \in Nat \ {0} : a * b \in Nat \ {0}
    OBVIOUS
  <2>. QED BY <2>1, <2>2
<1>2. p * (factorial[i] * factorial[m]) = q * (factorial[i] * factorial[m])
  BY DEF Splits
<1>. QED BY <1>1, <1>2, Quotient

LEMMA Pascal ==
    /\ \A i \in Nat : Paths(i, 0) = 1 /\ Paths(0, i) = 1
    /\ \A i, m \in Nat : Paths(i + 1, m + 1) = Paths(i, m + 1) + Paths(i + 1, m)
<1>1. ASSUME NEW i \in Nat PROVE Paths(i, 0) = 1 /\ Paths(0, i) = 1
  <2>1. factorial[i] = 1 * (factorial[i] * 1) /\ factorial[i] = 1 * (1 * factorial[i])
    <3>1. factorial[i] \in Nat
      BY FactorialSteps
    <3>. QED BY <3>1
  <2>2. Splits(i, 0, 1) /\ Splits(0, i, 1)
    BY <2>1, FactorialSteps DEF Splits
  <2>. QED BY <2>2, PathsSplit, SplitsOnce
<1>2. ASSUME NEW i \in Nat, NEW m \in Nat
      PROVE  Paths(i + 1, m + 1) = Paths(i, m + 1) + Paths(i + 1, m)
  <2>1. /\ Paths(i, m + 1) \in Nat /\ Splits(i, m + 1, Paths(i, m + 1))
        /\ Paths(i + 1, m) \in Nat /\ Splits(i + 1, m, Paths(i + 1, m))
        /\ Paths(i + 1, m + 1) \in Nat /\ Splits(i + 1, m + 1, Paths(i + 1, m + 1))
    <3>1. i + 1 \in Nat /\ m + 1 \in Nat
      OBVIOUS
    <3>. QED BY <3>1, PathsSplit
  <2>2. Splits(i + 1, m + 1, Paths(i, m + 1) + Paths(i + 1, m))
    BY <2>1, SplitsTwice
  <2>. QED BY <2>1, <2>2, SplitsOnce
<1>. QED BY <1>1, <1>2

LEMMA PathsGrow ==
    ASSUME NEW i \in Nat, NEW m \in Nat, NEW n \in Nat, m <= n
    PROVE  Paths(i, m) <= Paths(i, n)
<1>1. \A k \in Nat : Paths(i, k) \in Nat
  BY PathsSplit
<1>2. ASSUME NEW k \in Nat PROVE Paths(i, k) <= Paths(i, k + 1)
  <2>1. CASE i = 0
    BY <2>1, Pascal
  <2>2. CASE i # 0
    <3>1. i - 1 \in Nat /\ (i - 1) + 1 = i
      BY <2>2
    <3>2. Paths(i, k + 1) = Paths(i - 1, k + 1) + Paths(i, k)
      BY <3>1, Pascal
    <3>3. Paths(i - 1, k + 1) \in Nat
      BY <3>1, PathsSplit
    <3>. QED BY <1>1, <3>2, <3>3
  <2>. QED BY <2>1, <2>2
<1>. DEFINE S == {k \in Nat : Paths(i, m) <= Paths(i, m + k)}
<1>3. 0 \in S
  BY <1>1
<1>4. ASSUME NEW k \in Nat, k \in S PROVE k + 1 \in S
  <2>1. Paths(i, m + k) <= Paths(i, (m + k) + 1) /\ (m + k) + 1 = m + (k + 1)
    BY <1>2
  <2>. QED BY <1>1, <1>4, <2>1
<1>5. Nat \subseteq S
  <2>. HIDE DEF S
  <2>. QED BY <1>3, <1>4, ByInduction
<1>6. n - m \in Nat /\ m + (n - m) = n
  OBVIOUS
<1>. QED BY <1>5, <1>6

------------------------------------------------------------------------------
(* Sums over the levels of a count *)

Level == 0..(Attempts - 1)
Share(i, m) == IF m = 0 THEN 0 ELSE Paths(i, m - 1)
SharesTo(m) ==
    LET sum[j \in 0..Attempts] ==
            IF j = 0 THEN 0 ELSE sum[j - 1] + Share(Attempts - (j - 1), m[j - 1])
    IN  sum
Total(m) == SharesTo(m)[Attempts]

LEMMA ShareFacts ==
    /\ \A i, m \in Nat : Share(i, m) \in Nat
    /\ \A i, m, n \in Nat : m <= n => Share(i, m) <= Share(i, n)
    /\ \A i, m \in Nat : i # 0 => Share(i, m) = Paths(i, m) - Paths(i - 1, m)
<1>1. ASSUME NEW i \in Nat, NEW m \in Nat PROVE Share(i, m) \in Nat
  <2>1. m # 0 => m - 1 \in Nat
    OBVIOUS
  <2>. QED BY <2>1, PathsSplit DEF Share
<1>2. ASSUME NEW i \in Nat, NEW m \in Nat, NEW n \in Nat, m <= n
      PROVE  Share(i, m) <= Share(i, n)
  <2>1. CASE m = 0
    BY <1>1, <2>1 DEF Share
  <2>2. CASE m # 0
    <3>1. m - 1 \in Nat /\ n - 1 \in Nat /\ m - 1 <= n - 1 /\ n # 0
      BY <1>2, <2>2
    <3>. QED BY <2>2, <3>1, PathsGrow DEF Share
  <2>. QED BY <2>1, <2>2
<1>3. ASSUME NEW i \in Nat, NEW m \in Nat, i # 0
      PROVE  Share(i, m) = Paths(i, m) - Paths(i - 1, m)
  <2>1. i - 1 \in Nat /\ (i - 1) + 1 = i
    BY <1>3
  <2>2. CASE m = 0
    BY <2>1, <2>2, Pascal DEF Share
  <2>3. CASE m # 0
    <3>1. m - 1 \in Nat /\ (m - 1) + 1 = m
      BY <2>3
    <3>2. Paths(i, m) = Paths(i - 1, m) + Paths(i, m - 1)
      BY <2>1, <3>1, Pascal
    <3>3. Paths(i - 1, m) \in Nat /\ Paths(i, m - 1) \in Nat
      BY <2>1, <3>1, PathsSplit
    <3>. QED BY <2>3, <3>2, <3>3 DEF Share
  <2>. QED BY <2>2, <2>3
<1>. QED BY <1>1, <1>2, <1>3

LEMMA SumSteps ==
    ASSUME NEW m \in [Level -> Nat]
    PROVE  /\ SharesTo(m)[0] = 0
           /\ \A j \in Level : SharesTo(m)[j + 1] = SharesTo(m)[j] + Share(Attempts - j, m[j])
           /\ \A j \in 0..Attempts : SharesTo(m)[j] \in Nat
<1>. DEFINE F == [p \in Nat \X Nat |->
                   p[2] + IF p[1] \in Level THEN Share(Attempts - p[1], m[p[1]]) ELSE 0]
<1>0. \A j \in Level : Share(Attempts - j, m[j]) \in Nat
  <2>1. ASSUME NEW j \in Level PROVE Attempts - j \in Nat /\ m[j] \in Nat
    BY Numbers DEF Level
  <2>. QED BY <2>1, ShareFacts
<1>1. F \in [Nat \X Nat -> Nat]
  BY <1>0
<1>2. PICK f \in [Nat -> Nat] : AllSteps(f, 0, F)
  <2>. HIDE DEF F
  <2>. QED BY <1>1, Recursion
<1>3. f[0] = 0 /\ \A j \in Level : f[j + 1] = f[j] + Share(Attempts - j, m[j])
  <2>1. ASSUME NEW j \in Level
        PROVE  f[j + 1] = f[j] + Share(Attempts - j, m[j])
    <3>1. j \in Nat /\ f[j] \in Nat
      BY Numbers DEF Level
    <3>2. f[j + 1] = F[<<j, f[j]>>]
      BY <1>2, <3>1 DEF AllSteps
    <3>. QED BY <3>1, <3>2
  <2>. QED BY <1>2, <2>1 DEF AllSteps
<1>. DEFINE g == [j \in 0..Attempts |-> f[j]]
            sum == SharesTo(m)
<1>4. g = [j \in 0..Attempts |-> IF j = 0 THEN 0
                                 ELSE g[j - 1] + Share(Attempts - (j - 1), m[j - 1])]
  <2>1. ASSUME NEW j \in 0..Attempts, j # 0
        PROVE  f[j] = f[j - 1] + Share(Attempts - (j - 1), m[j - 1])
    <3>1. j - 1 \in Level /\ (j - 1) + 1 = j
      BY <2>1, Numbers DEF Level
    <3>. QED BY <1>3, <3>1
  <2>2. \A j \in 0..Attempts : j # 0 => j - 1 \in 0..Attempts
    BY Numbers
  <2>. QED BY <1>3, <2>1, <2>2
<1>5. sum = [j \in 0..Attempts |-> IF j = 0 THEN 0
                                   ELSE sum[j - 1] + Share(Attempts - (j - 1), m[j - 1])]
  <2>. HIDE DEF g
  <2>. QED BY <1>4, Zenon DEF SharesTo
<1>. HIDE DEF sum
<1>6. /\ sum[0] = 0
      /\ \A j \in Level : sum[j + 1] = sum[j] + Share(Attempts - j, m[j])
  <2>1. sum[0] = 0
    BY <1>5, Numbers
  <2>2. ASSUME NEW j \in Level PROVE sum[j + 1] = sum[j] + Share(Attempts - j, m[j])
    <3>1. j + 1 \in 0..Attempts /\ j + 1 # 0 /\ (j + 1) - 1 = j
      BY Numbers DEF Level
    <3>2. sum[j + 1] = sum[(j + 1) - 1] + Share(Attempts - ((j + 1) - 1), m[(j + 1) - 1])
      BY <1>5, <3>1
    <3>. QED BY <3>1, <3>2
  <2>. QED BY <2>1, <2>2
<1>. DEFINE S == {j \in Nat : j <= Attempts => sum[j] \in Nat}
<1>7. Nat \subseteq S
  <2>1. 0 \in S
    BY <1>6
  <2>2. ASSUME NEW j \in Nat, j \in S PROVE j + 1 \in S
    <3>1. SUFFICES ASSUME j + 1 <= Attempts PROVE sum[j + 1] \in Nat
      OBVIOUS
    <3>2. j \in Level /\ sum[j] \in Nat
      BY <2>2, <3>1, Numbers DEF Level
    <3>. QED BY <1>0, <1>6, <3>2
  <2>. HIDE DEF S
  <2>. QED BY <2>1, <2>2, ByInduction
<1>8. \A j \in 0..Attempts : sum[j] \in Nat
  BY <1>7, Numbers
<1>. QED BY <1>6, <1>8 DEF sum

\* Larger shares, and shares of which one grows enough to pay for all the later
\* ones and for one more.
LEMMA TotalGrows ==
    ASSUME NEW m \in [Level -> Nat], NEW n \in [Level -> Nat], NEW k \in 0..Attempts,
           \A j \in Level : j < k => m[j] <= n[j]
    PROVE  SharesTo(m)[k] <= SharesTo(n)[k]
<1>. DEFINE S == {j \in Nat : j <= k => SharesTo(m)[j] <= SharesTo(n)[j]}
<1>1. 0 \in S
  BY SumSteps
<1>2. ASSUME NEW j \in Nat, j \in S PROVE j + 1 \in S
  <2>1. SUFFICES ASSUME j + 1 <= k PROVE SharesTo(m)[j + 1] <= SharesTo(n)[j + 1]
    OBVIOUS
  <2>2. j \in Level /\ j < k /\ Attempts - j \in Nat /\ j \in 0..Attempts
    BY <2>1, Numbers DEF Level
  <2>3. SharesTo(m)[j] <= SharesTo(n)[j]
    BY <1>2, <2>2
  <2>4. Share(Attempts - j, m[j]) <= Share(Attempts - j, n[j])
    BY <2>2, ShareFacts
  <2>5. /\ Share(Attempts - j, m[j]) \in Nat /\ Share(Attempts - j, n[j]) \in Nat
        /\ SharesTo(m)[j] \in Nat /\ SharesTo(n)[j] \in Nat
    BY <2>2, ShareFacts, SumSteps
  <2>6. /\ SharesTo(m)[j + 1] = SharesTo(m)[j] + Share(Attempts - j, m[j])
        /\ SharesTo(n)[j + 1] = SharesTo(n)[j] + Share(Attempts - j, n[j])
    BY <2>2, SumSteps
  <2>. QED BY <2>3, <2>4, <2>5, <2>6
<1>3. Nat \subseteq S
  <2>. HIDE DEF S
  <2>. QED BY <1>1, <1>2, ByInduction
<1>. QED BY <1>3, Numbers

\* From the level v on no level has more than n: the shares together are less
\* than the ways of n.
LEMMA SharesFrom ==
    ASSUME NEW m \in [Level -> Nat], NEW v \in 0..Attempts, NEW n \in Nat,
           \A j \in Level : v <= j => m[j] <= n
    PROVE  Total(m) <= SharesTo(m)[v] + Paths(Attempts - v, n) - 1
<1>. DEFINE P(j) == Paths(Attempts - j, n)
            S == {j \in Nat : v <= j /\ j <= Attempts =>
                                SharesTo(m)[j] <= SharesTo(m)[v] + P(v) - P(j)}
<1>1. \A j \in 0..Attempts : P(j) \in Nat /\ SharesTo(m)[j] \in Nat
  <2>1. ASSUME NEW j \in 0..Attempts PROVE P(j) \in Nat
    <3>1. Attempts - j \in Nat
      BY Numbers
    <3>. QED BY <3>1, PathsSplit
  <2>. HIDE DEF P
  <2>. QED BY <2>1, SumSteps
<1>2. 0 \in S
  BY <1>1
<1>3. ASSUME NEW j \in Nat, j \in S PROVE j + 1 \in S
  <2>1. SUFFICES ASSUME v <= j + 1, j + 1 <= Attempts
                 PROVE  SharesTo(m)[j + 1] <= SharesTo(m)[v] + P(v) - P(j + 1)
    OBVIOUS
  <2>2. CASE j + 1 = v
    BY <1>1, <2>2
  <2>3. CASE j + 1 # v
    <3>1. /\ j \in Level /\ v <= j /\ Attempts - j \in Nat /\ Attempts - j # 0
          /\ j \in 0..Attempts /\ j + 1 \in 0..Attempts
          /\ Attempts - (j + 1) = (Attempts - j) - 1
      BY <2>1, <2>3, Numbers DEF Level
    <3>2. SharesTo(m)[j] <= SharesTo(m)[v] + P(v) - P(j)
      BY <1>3, <3>1
    <3>3. SharesTo(m)[j + 1] = SharesTo(m)[j] + Share(Attempts - j, m[j])
      BY <3>1, SumSteps
    <3>4. Share(Attempts - j, m[j]) <= Share(Attempts - j, n)
      BY <3>1, ShareFacts
    <3>5. Share(Attempts - j, n) = P(j) - P(j + 1)
      BY <3>1, ShareFacts
    <3>6. Share(Attempts - j, m[j]) \in Nat
      BY <3>1, ShareFacts
    <3>. HIDE DEF P
    <3>7. P(j) \in Nat /\ P(j + 1) \in Nat /\ P(v) \in Nat /\ SharesTo(m)[j] \in Nat
          /\ SharesTo(m)[v] \in Nat
      BY <1>1, <3>1
    <3>. QED BY <3>2, <3>3, <3>4, <3>5, <3>6, <3>7
  <2>. QED BY <2>2, <2>3
<1>4. Nat \subseteq S
  <2>. HIDE DEF S
  <2>. QED BY <1>2, <1>3, ByInduction
<1>5. SharesTo(m)[Attempts] <= SharesTo(m)[v] + P(v) - P(Attempts)
  BY <1>4, Numbers
<1>6. P(Attempts) = 1
  <2>1. Attempts - Attempts = 0
    BY Numbers
  <2>. QED BY <2>1, Pascal
<1>7. P(v) \in Nat /\ SharesTo(m)[v] \in Nat /\ SharesTo(m)[Attempts] \in Nat
  BY <1>1, Numbers
<1>. QED BY <1>5, <1>6, <1>7 DEF Total

LEMMA TotalPays ==
    ASSUME NEW m \in [Level -> Nat], NEW n \in [Level -> Nat], NEW v \in Level,
           \A j \in Level : j < v => m[j] <= n[j],
           m[v] < n[v],
           \A j \in Level : v < j => m[j] <= m[v]
    PROVE  Total(m) + 1 <= Total(n)
<1>1. /\ v \in 0..Attempts /\ v + 1 \in 0..Attempts /\ Attempts \in 0..Attempts
      /\ Attempts - v \in Nat
  BY Numbers DEF Level
<1>2. SharesTo(m)[v] <= SharesTo(n)[v]
  BY <1>1, TotalGrows
<1>3. Total(m) <= SharesTo(m)[v] + Paths(Attempts - v, m[v]) - 1
  <2>1. \A j \in Level : v <= j => m[j] <= m[v]
    BY DEF Level
  <2>. QED BY <1>1, <2>1, SharesFrom
<1>4. Paths(Attempts - v, m[v]) <= Share(Attempts - v, n[v])
  <2>1. m[v] \in Nat /\ n[v] - 1 \in Nat /\ m[v] <= n[v] - 1 /\ n[v] # 0
    OBVIOUS
  <2>. QED BY <1>1, <2>1, PathsGrow DEF Share
<1>5. SharesTo(n)[v + 1] = SharesTo(n)[v] + Share(Attempts - v, n[v])
  BY SumSteps
<1>6. SharesTo(n)[v + 1] <= Total(n)
  <2>. DEFINE S == {j \in Nat : v < j /\ j <= Attempts => SharesTo(n)[v + 1] <= SharesTo(n)[j]}
  <2>1. 0 \in S
    BY DEF Level
  <2>2. ASSUME NEW j \in Nat, j \in S PROVE j + 1 \in S
    <3>1. SUFFICES ASSUME v < j + 1, j + 1 <= Attempts
                   PROVE  SharesTo(n)[v + 1] <= SharesTo(n)[j + 1]
      OBVIOUS
    <3>2. j \in Level /\ Attempts - j \in Nat /\ v \in Nat /\ j \in 0..Attempts
      BY <3>1, Numbers DEF Level
    <3>3. SharesTo(n)[j + 1] = SharesTo(n)[j] + Share(Attempts - j, n[j])
      BY <3>2, SumSteps
    <3>4. /\ Share(Attempts - j, n[j]) \in Nat /\ SharesTo(n)[j] \in Nat
          /\ SharesTo(n)[v + 1] \in Nat
      BY <1>1, <3>2, ShareFacts, SumSteps
    <3>5. CASE v < j
      BY <2>2, <3>1, <3>2, <3>3, <3>4, <3>5
    <3>6. CASE v = j
      BY <3>3, <3>4, <3>6
    <3>. QED BY <3>1, <3>2, <3>5, <3>6
  <2>3. Nat \subseteq S
    <3>. HIDE DEF S
    <3>. QED BY <2>1, <2>2, ByInduction
  <2>. QED BY <2>3, Numbers DEF Total, Level
<1>7. /\ SharesTo(m)[v] \in Nat /\ SharesTo(n)[v] \in Nat /\ SharesTo(n)[v + 1] \in Nat
      /\ Total(m) \in Nat /\ Total(n) \in Nat
      /\ Paths(Attempts - v, m[v]) \in Nat /\ Share(Attempts - v, n[v]) \in Nat
  BY <1>1, SumSteps, PathsSplit, ShareFacts DEF Total
<1>. QED BY <1>2, <1>3, <1>4, <1>5, <1>6, <1>7

------------------------------------------------------------------------------
(* Wrong answers counted side by side *)

\* A handler in w is about to write a count of c it read at j or before.
Behind(w, c, j) ==
    \E r \in Request : /\ req[r].pc = "judge" /\ req[r].ask.worker = w /\ req[r].ask.c = c
                       /\ req[r].record.wrong <= j

\* The count of a challenge that is gone has reached its end.
Count(c) == IF stored[c] = None THEN Attempts ELSE stored[c].wrong

\* Workers past the level j: what they write next leaves c above it.
Ahead(c, j) == {w \in Worker : j < Count(c) /\ ~Behind(w, c, j)}
Lead(c)     == [j \in Level |-> Cardinality(Ahead(c, j))]

\* The code of a handler between two awaits.
Running(r) == req[r] # Idle /\ req[r].pc \notin Awaiting
OneEach ==
    \A r, q \in Request :
        Running(r) /\ Running(q) /\ req[r].ask.worker = req[q].ask.worker => r = q

\* Nobody answers a challenge that was not sent.
Sent ==
    \A c \in Challenge :
        born[c] = -1 => wrong[c] = 0 /\ \A r \in Request : req[r] # Idle => req[r].ask.c # c

Steady == outages = 0 => redisUp /\ \A w \in Worker, c \in Challenge : pending[w][c] = None

CountInv ==
    /\ OneEach /\ Sent /\ Steady
    /\ outages = 0 => \A c \in Challenge : wrong[c] <= Total(Lead(c))

LEMMA CountIn ==
    \A x \in {None} \cup Record : /\ (IF x = None THEN Attempts ELSE x.wrong) \in 0..Attempts
                                  /\ x # None => x.wrong \in Level
<1>1. \A x \in Record : x.wrong \in 0..(Attempts - 1)
  BY DEF Record
<1>. QED BY <1>1, Numbers DEF Level

LEMMA Counts ==
    ASSUME TypeOK, NEW c \in Challenge
    PROVE  Count(c) \in 0..Attempts /\ (stored[c] # None => Count(c) \in Level)
BY CountIn DEF Count, TypeOK

LEMMA LeadTyped ==
    ASSUME NEW c \in Challenge
    PROVE  /\ Lead(c) \in [Level -> Nat] /\ Total(Lead(c)) \in Nat
           /\ Lead(c)' \in [Level -> Nat] /\ Total(Lead(c)') \in Nat
<1>1. ASSUME NEW j \in Level
      PROVE  Cardinality(Ahead(c, j)) \in Nat /\ Cardinality(Ahead(c, j)') \in Nat
  <2>1. Ahead(c, j) \subseteq Worker /\ Ahead(c, j)' \subseteq Worker
    BY DEF Ahead
  <2>. QED BY <2>1, FiniteWorkers, FS_Subset, FS_CardinalityType
<1>2. Lead(c) \in [Level -> Nat] /\ Lead(c)' \in [Level -> Nat]
  BY <1>1 DEF Lead
<1>3. Attempts \in 0..Attempts
  BY Numbers
<1>. QED BY <1>2, <1>3, SumSteps DEF Total

\* More workers ahead.
LEMMA LeadGrows ==
    ASSUME NEW c \in Challenge, NEW j \in Level, Ahead(c, j) \subseteq Ahead(c, j)'
    PROVE  Lead(c)[j] <= Lead(c)'[j]
<1>1. IsFiniteSet(Ahead(c, j)')
  <2>1. Ahead(c, j)' \subseteq Worker
    BY DEF Ahead
  <2>. QED BY <2>1, FiniteWorkers, FS_Subset
<1>2. Cardinality(Ahead(c, j)) <= Cardinality(Ahead(c, j)')
  BY <1>1, FS_Subset
<1>. QED BY <1>2 DEF Lead

\* A step that counts no wrong answer of c: the stored count does not fall, and
\* a handler that begins to judge c has read at least the count stored before.
LEMMA Counted ==
    ASSUME TypeOK, TypeOK', NEW c \in Challenge,
           Count(c) <= Count(c)',
           \A q \in Request : req'[q].pc = "judge" /\ req'[q].ask.c = c =>
               req'[q] = req[q] \/ Count(c) <= req'[q].record.wrong,
           wrong'[c] = wrong[c], wrong[c] <= Total(Lead(c))
    PROVE  wrong'[c] <= Total(Lead(c))'
<1>1. ASSUME NEW j \in Level PROVE Ahead(c, j) \subseteq Ahead(c, j)'
  <2>1. SUFFICES ASSUME NEW w \in Worker, j < Count(c), ~Behind(w, c, j)
                 PROVE  j < Count(c)' /\ ~Behind(w, c, j)'
    BY DEF Ahead
  <2>2. Count(c) \in Int /\ Count(c)' \in Int /\ j \in Int
    <3>1. stored[c] \in {None} \cup Record /\ stored'[c] \in {None} \cup Record
      BY DEF TypeOK
    <3>2. Count(c) \in 0..Attempts /\ Count(c)' \in 0..Attempts
      BY <3>1, CountIn DEF Count
    <3>. QED BY <3>2 DEF Level
  <2>3. SUFFICES ASSUME NEW q \in Request, req'[q].pc = "judge", req'[q].ask.worker = w,
                        req'[q].ask.c = c, req'[q].record.wrong <= j
                 PROVE  FALSE
    BY <2>1, <2>2 DEF Behind
  <2>4. req'[q] # req[q]
    BY <2>1, <2>3 DEF Behind
  <2>5. Count(c) <= req'[q].record.wrong
    BY <2>3, <2>4
  <2>6. req'[q].record.wrong \in Int
    <3>1. req'[q] \in {Idle} \cup Busy
      BY DEF TypeOK
    <3>. QED BY <2>3, <3>1, Holds
  <2>. QED BY <2>1, <2>2, <2>3, <2>5, <2>6
<1>2. \A j \in Level : Lead(c)[j] <= Lead(c)'[j]
  BY <1>1, LeadGrows
<1>3. /\ Lead(c) \in [Level -> Nat] /\ Total(Lead(c)) \in Nat
      /\ Lead(c)' \in [Level -> Nat] /\ Total(Lead(c)') \in Nat
  BY LeadTyped
<1>4. Total(Lead(c)) <= Total(Lead(c)')
  <2>1. Attempts \in 0..Attempts
    BY Numbers
  <2>. QED BY <1>2, <1>3, <2>1, TotalGrows DEF Total
<1>5. wrong[c] \in Int
  BY DEF TypeOK
<1>. QED BY <1>3, <1>4, <1>5

\* A wrong answer read at the level v moves its worker past v; it may take the
\* others back to v, so that all that was ahead of it pays for one more answer.
LEMMA CountedWrong ==
    ASSUME TypeOK, TypeOK', NEW c \in Challenge, NEW v \in Level, NEW w \in Worker,
           Behind(w, c, v), ~Behind(w, c, v)', Count(c)' = v + 1,
           \A q \in Request : req'[q].pc = "judge" => req'[q] = req[q],
           wrong'[c] = wrong[c] + 1, wrong[c] <= Total(Lead(c))
    PROVE  wrong'[c] <= Total(Lead(c))'
<1>1. v \in Int /\ Count(c) \in Int
  BY Counts DEF Level
<1>2. ASSUME NEW j \in Level, j <= v PROVE Ahead(c, j) \subseteq Ahead(c, j)'
  <2>1. \A u \in Worker : Behind(u, c, j)' => Behind(u, c, j)
    BY DEF Behind
  <2>2. j < Count(c)'
    BY <1>1, <1>2 DEF Level
  <2>. QED BY <2>1, <2>2 DEF Ahead
<1>3. w \in Ahead(c, v)' /\ w \notin Ahead(c, v)
  BY <1>1 DEF Ahead
<1>4. ASSUME NEW j \in Level, v < j PROVE Ahead(c, j) \subseteq Ahead(c, v)
  <2>1. j \in Int
    BY DEF Level
  <2>2. ASSUME NEW u \in Worker, Behind(u, c, v) PROVE Behind(u, c, j)
    <3>1. PICK q \in Request : /\ req[q].pc = "judge" /\ req[q].ask.worker = u
                               /\ req[q].ask.c = c /\ req[q].record.wrong <= v
      BY <2>2 DEF Behind
    <3>2. req[q].record.wrong \in Int
      BY <3>1, Standing, Holds
    <3>3. req[q].record.wrong <= j
      BY <1>1, <1>4, <2>1, <3>1, <3>2
    <3>. QED BY <3>1, <3>3 DEF Behind
  <2>. QED BY <1>1, <1>4, <2>1, <2>2 DEF Ahead
<1>5. IsFiniteSet(Ahead(c, v)) /\ IsFiniteSet(Ahead(c, v)')
  <2>1. Ahead(c, v) \subseteq Worker /\ Ahead(c, v)' \subseteq Worker
    BY DEF Ahead
  <2>. QED BY <2>1, FiniteWorkers, FS_Subset
<1>6. Lead(c)[v] < Lead(c)'[v]
  <2>1. Ahead(c, v) \subseteq Ahead(c, v)' /\ Ahead(c, v) # Ahead(c, v)'
    BY <1>1, <1>2, <1>3
  <2>2. Cardinality(Ahead(c, v)) < Cardinality(Ahead(c, v)')
    BY <1>5, <2>1, FS_Subset, FS_CardinalityType
  <2>. QED BY <2>2 DEF Lead
<1>7. \A j \in Level : j < v => Lead(c)[j] <= Lead(c)'[j]
  <2>1. ASSUME NEW j \in Level, j < v PROVE Lead(c)[j] <= Lead(c)'[j]
    <3>1. j <= v
      BY <1>1, <2>1 DEF Level
    <3>. QED BY <1>2, <3>1, LeadGrows
  <2>. QED BY <2>1
<1>8. \A j \in Level : v < j => Lead(c)[j] <= Lead(c)[v]
  <2>1. ASSUME NEW j \in Level, v < j PROVE Lead(c)[j] <= Lead(c)[v]
    <3>1. Cardinality(Ahead(c, j)) <= Cardinality(Ahead(c, v))
      BY <1>4, <1>5, <2>1, FS_Subset
    <3>. QED BY <3>1 DEF Lead
  <2>. QED BY <2>1
<1>9. /\ Lead(c) \in [Level -> Nat] /\ Total(Lead(c)) \in Nat
      /\ Lead(c)' \in [Level -> Nat] /\ Total(Lead(c)') \in Nat
  BY LeadTyped
<1>10. Total(Lead(c)) + 1 <= Total(Lead(c)')
  BY <1>6, <1>7, <1>8, <1>9, TotalPays
<1>11. wrong[c] \in Int
  BY DEF TypeOK
<1>. QED BY <1>9, <1>10, <1>11

LEMMA InitCounted ==
    ASSUME Init
    PROVE  CountInv
<1>1. OneEach /\ Sent
  BY DEF Init, OneEach, Running, Sent
<1>2. Steady
  BY DEF Init, Steady
<1>3. \A c \in Challenge : wrong[c] = 0
  BY DEF Init
<1>. QED BY <1>1, <1>2, <1>3, LeadTyped DEF CountInv

\* A handler goes on, in its worker and with its challenge.
GoesOn(r, x) ==
    x # Idle => /\ req[r] # Idle /\ x.ask = req[r].ask
                /\ x.pc \in Awaiting \/ Running(r) \/ LoopFree(x.ask.worker)

LEMMA OneEachKept ==
    ASSUME TypeOK, OneEach, NEW r \in Request, NEW x \in {Idle} \cup Busy, Goto(r, x),
           x # Idle => \/ x.pc \in Awaiting
                       \/ Running(r) /\ x.ask = req[r].ask
                       \/ LoopFree(x.ask.worker)
    PROVE  OneEach'
<1>1. \A q \in Request : req'[q] = IF q = r THEN x ELSE req[q]
  BY Going
<1>2. ASSUME NEW p \in Request, NEW q \in Request, Running(p)', Running(q)',
             req'[p].ask.worker = req'[q].ask.worker, p # q
      PROVE  FALSE
  <2>1. PICK s \in Request : s # r /\ Running(s) /\ req[s].ask.worker = x.ask.worker
             /\ Running(r)'
    <3>1. CASE p # r /\ q # r
      BY <1>1, <1>2, <3>1 DEF OneEach, Running
    <3>2. CASE p = r \/ q = r
      BY <1>1, <1>2, <3>2 DEF Running
    <3>. QED BY <3>1, <3>2
  <2>2. x # Idle /\ x.pc \notin Awaiting
    BY <1>1, <2>1 DEF Running
  <2>3. ~LoopFree(x.ask.worker)
    BY <2>1 DEF LoopFree, Running
  <2>. QED BY <2>1, <2>2, <2>3 DEF OneEach
<1>. QED BY <1>2 DEF OneEach

\* Handlers that only end.
LEMMA OneEachEnds ==
    ASSUME OneEach, \A q \in Request : req'[q] \in {req[q], Idle}
    PROVE  OneEach'
BY DEF OneEach, Running

LEMMA HandlerGoesOn ==
    ASSUME TypeOK, NEW r \in Request, Handler(r)
    PROVE  \E x \in {Idle} \cup Busy :
              /\ Goto(r, x) /\ GoesOn(r, x)
              /\ x.pc = "judge" => Fetch(r)
<1>. Idle.pc = "idle"
  BY DEF Idle
<1>1. CASE Select(r)
  BY <1>1, Selected DEF GoesOn, Awaiting, Idle
<1>2. CASE Fill(r)
  <2>1. LoopFree(req[r].ask.worker)
    BY <1>2 DEF Fill
  <2>. QED BY <1>2, <2>1, Filled DEF GoesOn, Idle
<1>3. CASE Fetch(r)
  <2>1. PICK x \in {Idle} \cup Busy : Goto(r, x) /\ (x = Idle \/ x.ask = req[r].ask)
    BY <1>3, Fetched
  <2>2. Running(r)
    BY <1>3, Fetched DEF Running, Awaiting, Idle
  <2>. QED BY <1>3, <2>1, <2>2 DEF GoesOn, Running
<1>4. CASE Expire(r) \/ JudgeTotp(r) \/ JudgeWrong(r) \/ CommitFails(r) \/ CodeSucceeds(r)
  BY <1>4, Succeeded, WrongJudged DEF Expire, CommitFails, Finish, GoesOn
<1>5. CASE JudgeCode(r)
  BY <1>5, CodeJudged DEF GoesOn, Awaiting, Idle
<1>6. CASE Commit(r)
  BY <1>6, Committed DEF GoesOn, Awaiting, Idle
<1>7. CASE Invalidate(r)
  <2>1. LoopFree(req[r].ask.worker)
    BY <1>7 DEF Invalidate
  <2>. QED BY <1>7, <2>1, Invalidated DEF GoesOn, Idle
<1>8. CASE Publish(r)
  <2>1. Running(r)
    BY <1>8 DEF Publish, Running, Awaiting, Idle
  <2>. QED BY <1>8, <2>1, Published DEF GoesOn, Running
<1>. QED BY <1>1, <1>2, <1>3, <1>4, <1>5, <1>6, <1>7, <1>8 DEF Handler

\* What is stored without an outage: nothing in the memories.
LEMMA Stores ==
    ASSUME TypeOK, redisUp, NEW w \in Worker, NEW c \in Challenge, NEW record \in Record,
           \A u \in Worker, d \in Challenge : pending[u][d] = None
    PROVE  /\ Delete(w, c) => /\ \A d \in Challenge : stored'[d] = IF d = c THEN None ELSE stored[d]
                              /\ \A u \in Worker, d \in Challenge : pending'[u][d] = None
           /\ Save(w, c, record) =>
                  /\ \A d \in Challenge : stored'[d] = IF d = c THEN record ELSE stored[d]
                  /\ \A u \in Worker, d \in Challenge : pending'[u][d] = None
<1>1. stored \in [Challenge -> {None} \cup Record]
      /\ pending \in [Worker -> [Challenge -> {None} \cup Record]]
  BY DEF TypeOK
<1>. QED BY <1>1 DEF Delete, Save

\* Of a step of a handler: who runs, what was sent, and what a judge has read.
LEMMA HandlerKeeps ==
    ASSUME TypeOK, CountInv, NEW r \in Request, Handler(r)
    PROVE  /\ OneEach'
           /\ \A q \in Request \ {r} : req'[q] = req[q]
           /\ \A c \in Challenge : \A q \in Request :
                  born[c] = -1 /\ req'[q] # Idle => req'[q].ask.c # c
           /\ outages = 0 =>
                  \A c \in Challenge : \A q \in Request :
                     req'[q].pc = "judge" /\ req'[q].ask.c = c =>
                         req'[q] = req[q] \/ Count(c) <= req'[q].record.wrong
<1>1. PICK x \in {Idle} \cup Busy : /\ Goto(r, x) /\ GoesOn(r, x)
                                    /\ x.pc = "judge" => Fetch(r)
  BY HandlerGoesOn
<1>2. \A q \in Request : req'[q] = IF q = r THEN x ELSE req[q]
  BY <1>1, Going
<1>3. OneEach'
  BY <1>1, OneEachKept DEF CountInv, GoesOn
<1>4. ASSUME NEW c \in Challenge, NEW q \in Request, born[c] = -1, req'[q] # Idle
      PROVE  req'[q].ask.c # c
  BY <1>1, <1>2, <1>4 DEF CountInv, Sent, GoesOn
<1>5. ASSUME outages = 0, x.pc = "judge"
      PROVE  Count(x.ask.c) <= x.record.wrong
  <2>. DEFINE found == Lookup(req[r].ask.worker, req[r].ask.c)
  <2>1. req'[r] = x /\ Fetch(r)
    BY <1>1, <1>2, <1>5
  <2>2. req[r].pc = "user" /\ req[r].ask.worker \in Worker /\ req[r].ask.c \in Challenge
    BY <2>1, Standing, Holds DEF Fetch, Idle
  <2>3. x \in {Idle, [pc |-> "expired", ask |-> req[r].ask],
               [pc |-> "judge", ask |-> req[r].ask, codes |-> req[r].codes, record |-> found]}
        /\ (found = None => x = Idle)
    BY <2>1, TypeOK DEF Fetch, Finish, Goto, TypeOK
  <2>4. x.ask = req[r].ask /\ x.record = found /\ found # None
    BY <1>5, <2>3 DEF Idle
  <2>5. found = stored[req[r].ask.c]
    BY <1>5, <2>2, <2>4 DEF CountInv, Steady, Lookup
  <2>6. Count(x.ask.c) = x.record.wrong
    BY <2>4, <2>5 DEF Count
  <2>7. Count(x.ask.c) \in Int
    BY <2>2, <2>4, Counts
  <2>. QED BY <2>6, <2>7
<1>. QED BY <1>2, <1>3, <1>4, <1>5

LEMMA HandlerCounted ==
    ASSUME TypeOK, TypeOK', CountInv, NEW r \in Request, Handler(r)
    PROVE  CountInv'
<1>1. CASE JudgeWrong(r)
  <2>1. /\ req[r].pc = "judge" /\ req[r].ask.c \in Challenge /\ req[r].ask.worker \in Worker
        /\ Goto(r, Idle) /\ UNCHANGED <<now, env, born>>
        /\ req[r].record.wrong \in Level
    <3>1. /\ req[r].pc = "judge" /\ req[r].ask.c \in Challenge /\ req[r].ask.worker \in Worker
          /\ Goto(r, Idle) /\ UNCHANGED <<now, env, born>>
      BY <1>1, WrongJudged
    <3>. QED BY <3>1, Standing, Holds DEF Level
  <2>2. PICK w \in Worker, d \in Challenge, v \in Level :
              req[r].ask.worker = w /\ req[r].ask.c = d /\ req[r].record.wrong = v
    BY <2>1
  <2>. v \in Nat /\ v + 1 \in 1..Attempts
    BY Numbers DEF Level
  <2>3. req[r] # Idle
    BY <2>1 DEF Idle
  <2>4. \A c \in Challenge : wrong'[c] = IF c = d THEN wrong[c] + 1 ELSE wrong[c]
    BY <1>1, <2>1, <2>2 DEF JudgeWrong, TypeOK
  <2>5. Sent'
    BY <2>1, <2>2, <2>3, <2>4, HandlerKeeps DEF CountInv, Sent
  <2>6. ASSUME outages' = 0
        PROVE  /\ outages = 0 /\ redisUp'
               /\ \A u \in Worker, e \in Challenge : pending'[u][e] = None
               /\ \A c \in Challenge : c # d => Count(c)' = Count(c)
               /\ Count(d)' = v + 1
    <3>1. /\ outages = 0 /\ redisUp /\ redisUp'
          /\ \A u \in Worker, e \in Challenge : pending[u][e] = None
      BY <2>1, <2>6 DEF CountInv, Steady, env
    <3>2. CASE v + 1 >= Attempts
      <4>1. v + 1 = Attempts /\ Delete(w, d)
        BY <1>1, <2>2, <3>2, Numbers DEF JudgeWrong
      <4>2. /\ \A e \in Challenge : stored'[e] = IF e = d THEN None ELSE stored[e]
            /\ \A u \in Worker, e \in Challenge : pending'[u][e] = None
        BY <2>1, <3>1, <4>1, FirstRecord, Stores
      <4>. QED BY <2>1, <3>1, <4>1, <4>2 DEF Count
    <3>3. CASE ~(v + 1 >= Attempts)
      <4>1. Save(w, d, [wrong |-> v + 1]) /\ [wrong |-> v + 1] \in Record
        BY <1>1, <2>2, <3>3, Numbers DEF JudgeWrong, Record
      <4>2. /\ \A e \in Challenge :
                    stored'[e] = IF e = d THEN [wrong |-> v + 1] ELSE stored[e]
            /\ \A u \in Worker, e \in Challenge : pending'[u][e] = None
        BY <2>1, <3>1, <4>1, Stores
      <4>3. [wrong |-> v + 1] # None
        BY <2>2 DEF None
      <4>. QED BY <2>1, <3>1, <4>2, <4>3 DEF Count
    <3>. QED BY <3>2, <3>3
  <2>7. Steady'
    BY <2>6 DEF Steady
  <2>8. ASSUME outages' = 0, NEW c \in Challenge PROVE wrong'[c] <= Total(Lead(c))'
    <3>1. \A q \in Request : req'[q].pc = "judge" => req'[q] = req[q]
      BY <2>1, Going DEF Idle
    <3>2. wrong[c] <= Total(Lead(c))
      BY <2>6, <2>8 DEF CountInv
    <3>3. CASE c = d
      <4>1. Behind(w, c, v)
        BY <2>1, <2>2, <3>3 DEF Behind
      <4>2. ~Behind(w, c, v)'
        <5>1. SUFFICES ASSUME NEW q \in Request, req'[q].pc = "judge",
                              req'[q].ask.worker = w
                       PROVE  FALSE
          BY DEF Behind
        <5>2. q # r /\ req'[q] = req[q]
          BY <2>1, <5>1, Going DEF Idle
        <5>3. Running(q) /\ Running(r)
          BY <2>1, <5>1, <5>2 DEF Running, Awaiting, Idle
        <5>. QED BY <2>2, <5>1, <5>2, <5>3 DEF CountInv, OneEach
      <4>. QED BY <2>1, <2>2, <2>4, <2>6, <2>8, <3>1, <3>2, <3>3, <4>1, <4>2, CountedWrong
    <3>4. CASE c # d
      <4>1. Count(c) <= Count(c)'
        BY <2>6, <2>8, <3>4, Counts
      <4>. QED BY <2>4, <3>1, <3>2, <3>4, <4>1, Counted
    <3>. QED BY <3>3, <3>4
  <2>. QED BY <2>5, <2>7, <2>8, HandlerKeeps DEF CountInv
<1>2. CASE Expire(r) \/ JudgeTotp(r) \/ CodeSucceeds(r)
  <2>1. /\ req[r].ask.worker \in Worker /\ req[r].ask.c \in Challenge
        /\ Delete(req[r].ask.worker, req[r].ask.c)
        /\ UNCHANGED <<env, born, wrong>>
    <3>1. CASE Expire(r)
      BY <3>1, Standing, Holds DEF Expire, Idle, history
    <3>2. CASE JudgeTotp(r) \/ CodeSucceeds(r)
      BY <3>2, Succeeded
    <3>. QED BY <1>2, <3>1, <3>2
  <2>2. Sent'
    BY <2>1, HandlerKeeps DEF CountInv, Sent
  <2>3. ASSUME outages' = 0
        PROVE  /\ outages = 0 /\ redisUp'
               /\ \A u \in Worker, d \in Challenge : pending'[u][d] = None
               /\ \A c \in Challenge : Count(c) <= Count(c)'
    <3>1. /\ outages = 0 /\ redisUp /\ redisUp'
          /\ \A u \in Worker, d \in Challenge : pending[u][d] = None
      BY <2>1, <2>3 DEF CountInv, Steady, env
    <3>2. /\ \A d \in Challenge : stored'[d] = IF d = req[r].ask.c THEN None ELSE stored[d]
          /\ \A u \in Worker, d \in Challenge : pending'[u][d] = None
      BY <2>1, <3>1, FirstRecord, Stores
    <3>3. \A c \in Challenge : Count(c)' \in {Count(c), Attempts}
      BY <3>2 DEF Count
    <3>4. \A c \in Challenge : Count(c) \in 0..Attempts
      BY Counts
    <3>. QED BY <3>1, <3>2, <3>3, <3>4, Numbers
  <2>4. ASSUME outages' = 0, NEW c \in Challenge PROVE wrong'[c] <= Total(Lead(c))'
    BY <2>1, <2>3, <2>4, HandlerKeeps, Counted DEF CountInv
  <2>. QED BY <2>2, <2>3, <2>4, HandlerKeeps DEF CountInv, Steady
<1>3. CASE \/ Select(r) \/ Fill(r) \/ Fetch(r) \/ JudgeCode(r) \/ Commit(r) \/ CommitFails(r)
           \/ Invalidate(r) \/ Publish(r)
  <2>1. UNCHANGED <<env, challenges, wrong>>
    BY <1>3 DEF Select, Fill, Fetch, JudgeCode, Commit, CommitFails, Invalidate, Publish, history
  <2>2. Sent'
    BY <2>1, HandlerKeeps DEF CountInv, Sent, challenges
  <2>3. Steady' /\ \A c \in Challenge : Count(c)' = Count(c)
    BY <2>1 DEF CountInv, Steady, Count, env, challenges
  <2>4. ASSUME outages' = 0, NEW c \in Challenge PROVE wrong'[c] <= Total(Lead(c))'
    <3>1. outages = 0 /\ Count(c) <= Count(c)'
      BY <2>1, <2>3, <2>4, Counts DEF env
    <3>. QED BY <2>1, <3>1, HandlerKeeps, Counted DEF CountInv
  <2>. QED BY <2>2, <2>3, <2>4, HandlerKeeps DEF CountInv
<1>. QED BY <1>1, <1>2, <1>3 DEF Handler

LEMMA BeginCounted ==
    ASSUME TypeOK, TypeOK', CountInv, NEW r \in Request, NEW w \in Worker, NEW c \in Challenge,
           NEW answer \in Answer, Begin(r, w, c, answer)
    PROVE  CountInv'
<1>. DEFINE ask == [worker |-> w, c |-> c, answer |-> answer, began |-> now]
<1>1. /\ req[r] = Idle /\ LoopFree(w) /\ born[c] # -1
      /\ \E x \in {Idle} \cup Busy : Goto(r, x) /\ x.ask = ask /\ x.pc \in {"user", "query"}
      /\ UNCHANGED <<env, challenges, wrong>>
  <2>1. /\ req[r] = Idle /\ LoopFree(w) /\ born[c] # -1 /\ UNCHANGED <<env, challenges, wrong>>
    BY DEF Begin
  <2>2. PICK x \in Busy : Goto(r, x) /\ x.pc \in {"user", "query"}
    BY Begun
  <2>3. \E h : \/ req' = [req EXCEPT ![r] = [pc |-> "user", ask |-> ask, codes |-> h]]
               \/ req' = [req EXCEPT ![r] = [pc |-> "query", ask |-> ask]]
    BY DEF Begin, Goto
  <2>4. req'[r] = x
    BY <2>2, Going
  <2>5. x.ask = ask
    <3>. HIDE DEF ask
    <3>. QED BY <2>3, <2>4 DEF TypeOK
  <2>. QED BY <2>1, <2>2, <2>5
<1>2. PICK x \in {Idle} \cup Busy : Goto(r, x) /\ x.ask = ask /\ x.pc \in {"user", "query"}
  BY <1>1
<1>3. \A q \in Request : req'[q] = IF q = r THEN x ELSE req[q]
  BY <1>2, Going
<1>4. x.ask.worker = w /\ x.ask.c = c /\ x.pc # "judge"
  BY <1>2
<1>. HIDE DEF ask
<1>5. OneEach'
  BY <1>1, <1>2, <1>4, OneEachKept DEF CountInv
<1>6. Sent'
  BY <1>1, <1>3, <1>4 DEF CountInv, Sent, challenges
<1>7. Steady' /\ \A d \in Challenge : Count(d)' = Count(d)
  BY <1>1 DEF CountInv, Steady, Count, env, challenges
<1>8. ASSUME outages' = 0, NEW d \in Challenge PROVE wrong'[d] <= Total(Lead(d))'
  <2>1. outages = 0 /\ Count(d) <= Count(d)'
    BY <1>1, <1>7, <1>8, Counts DEF env
  <2>. QED BY <1>1, <1>3, <1>4, <2>1, Counted DEF CountInv
<1>. QED BY <1>5, <1>6, <1>7, <1>8 DEF CountInv

\* A new challenge starts below every level, and nobody has answered it.
LEMMA InitiateCounted ==
    ASSUME TypeOK, TypeOK', CountInv, NEW w \in Worker, NEW c \in Challenge, Initiate(w, c)
    PROVE  CountInv'
<1>1. /\ born[c] = -1 /\ born' = [born EXCEPT ![c] = now] /\ Save(w, c, [wrong |-> 0])
      /\ UNCHANGED <<env, req, wrong>> /\ born \in [Challenge -> -1..MaxTime]
  BY DEF Initiate, history, TypeOK
<1>2. wrong[c] = 0
  BY <1>1 DEF CountInv, Sent
<1>3. OneEach' /\ Sent'
  BY <1>1 DEF CountInv, OneEach, Running, Sent
<1>4. ASSUME outages' = 0
      PROVE  /\ outages = 0 /\ redisUp'
             /\ \A u \in Worker, e \in Challenge : pending'[u][e] = None
             /\ \A d \in Challenge : d # c => Count(d)' = Count(d)
  <2>1. /\ outages = 0 /\ redisUp /\ redisUp'
        /\ \A u \in Worker, e \in Challenge : pending[u][e] = None
    BY <1>1, <1>4 DEF CountInv, Steady, env
  <2>2. /\ \A e \in Challenge : stored'[e] = IF e = c THEN [wrong |-> 0] ELSE stored[e]
        /\ \A u \in Worker, e \in Challenge : pending'[u][e] = None
    BY <1>1, <2>1, FirstRecord, Stores
  <2>. QED BY <2>1, <2>2 DEF Count
<1>5. ASSUME outages' = 0, NEW d \in Challenge PROVE wrong'[d] <= Total(Lead(d))'
  <2>1. CASE d = c
    BY <1>1, <1>2, <2>1, LeadTyped
  <2>2. CASE d # c
    <3>1. Count(d) <= Count(d)'
      BY <1>4, <1>5, <2>2, Counts
    <3>. QED BY <1>1, <1>4, <1>5, <3>1, Counted DEF CountInv
  <2>. QED BY <2>1, <2>2
<1>. QED BY <1>3, <1>4, <1>5 DEF CountInv, Steady

\* Handlers only end, and challenges only expire.
LEMMA WorldCounted ==
    ASSUME TypeOK, TypeOK', CountInv,
           \/ \E w \in Worker : Receive(w) \/ Forget(w) \/ Crash(w)
           \/ ForgetL2 \/ Tick \/ RedisFails \/ RedisRecovers \/ UNCHANGED vars
    PROVE  CountInv'
<1>1. /\ \A q \in Request : req'[q] \in {req[q], Idle}
      /\ UNCHANGED <<born, wrong>>
      /\ outages' = 0 => /\ outages = 0 /\ redisUp'
                         /\ \A c \in Challenge : stored'[c] \in {stored[c], None}
                         /\ \A w \in Worker, c \in Challenge : pending'[w][c] = None
  <2>. Steady /\ outages \in Nat
    BY DEF CountInv, TypeOK
  <2>1. CASE \E w \in Worker : Receive(w) \/ Forget(w)
    BY <2>1 DEF Receive, Forget, Steady, env, challenges, history
  <2>2. CASE \E w \in Worker : Crash(w)
    <3>1. PICK w \in Worker : Crash(w)
      BY <2>2
    <3>2. \A u \in Worker, c \in Challenge :
              pending'[u][c] = IF u = w THEN None ELSE pending[u][c]
      BY <3>1 DEF Crash, TypeOK
    <3>. QED BY <3>1, <3>2, Crashed DEF Steady, env, history
  <2>3. CASE Tick
    BY <2>3 DEF Tick, TypeOK, Steady, env, history
  <2>4. CASE RedisFails
    BY <2>4 DEF RedisFails, challenges
  <2>5. CASE RedisRecovers
    BY <2>5 DEF RedisRecovers, Steady, challenges, history
  <2>6. CASE ForgetL2 \/ UNCHANGED vars
    BY <2>6 DEF ForgetL2, vars, Steady, env, challenges, history
  <2>. QED BY <2>1, <2>2, <2>3, <2>4, <2>5, <2>6
<1>. Idle.pc = "idle"
  BY DEF Idle
<1>2. OneEach' /\ Sent'
  BY <1>1, OneEachEnds DEF CountInv, Sent
<1>3. Steady'
  BY <1>1 DEF Steady
<1>4. ASSUME outages' = 0, NEW c \in Challenge PROVE wrong'[c] <= Total(Lead(c))'
  <2>1. Count(c) <= Count(c)'
    <3>1. Count(c)' \in {Count(c), Attempts}
      BY <1>1, <1>4 DEF Count
    <3>. QED BY <3>1, Counts, Numbers
  <2>. QED BY <1>1, <1>4, <2>1, Counted DEF CountInv
<1>. QED BY <1>2, <1>3, <1>4 DEF CountInv

LEMMA CountStep ==
    ASSUME TypeOK, CountInv, [Next]_vars
    PROVE  CountInv'
BY TypeStep, InitiateCounted, BeginCounted, HandlerCounted, WorldCounted DEF Next

(***************************************************************************)
(* For every number of workers and of answers allowed: handlers that judge *)
(* side by side write counts that others have passed, so a wrong answer    *)
(* may take the stored count back.  It moves its own worker past the level *)
(* it had read, for good unless another such write takes it back too, and  *)
(* the shares of the levels are what all those writes together can undo.   *)
(***************************************************************************)
THEOREM GuessesAreBounded == Spec => []GuessesBounded
<1>1. TypeOK /\ CountInv => GuessesBounded
  <2>. DEFINE W == Cardinality(Worker)
  <2>. SUFFICES ASSUME TypeOK, CountInv, outages = 0, NEW c \in Challenge
                PROVE  wrong[c] <= choose(W + Attempts, Attempts) - 1
    BY DEF GuessesBounded
  <2>1. W \in Nat /\ 0 \in 0..Attempts /\ Attempts - 0 = Attempts
    BY FiniteWorkers, FS_CardinalityType, Numbers
  <2>2. ASSUME NEW j \in Level PROVE Lead(c)[j] <= W
    <3>1. Ahead(c, j) \subseteq Worker
      BY DEF Ahead
    <3>. QED BY <3>1, FiniteWorkers, FS_Subset DEF Lead
  <2>. HIDE DEF W
  <2>3. Total(Lead(c)) <= SharesTo(Lead(c))[0] + Paths(Attempts - 0, W) - 1
    BY <2>1, <2>2, LeadTyped, SharesFrom
  <2>4. Total(Lead(c)) <= Paths(Attempts, W) - 1
    <3>1. Paths(Attempts, W) \in Nat /\ SharesTo(Lead(c))[0] = 0
      BY <2>1, LeadTyped, SumSteps, PathsSplit, Numbers
    <3>. QED BY <2>1, <2>3, <3>1
  <2>5. wrong[c] \in Nat /\ wrong[c] <= Total(Lead(c))
    BY DEF CountInv, TypeOK
  <2>6. Total(Lead(c)) \in Nat /\ Paths(Attempts, W) \in Nat
    BY <2>1, LeadTyped, PathsSplit, Numbers
  <2>7. Paths(Attempts, W) = choose(W + Attempts, Attempts)
    BY DEF Paths
  <2>. QED BY <2>4, <2>5, <2>6, <2>7
<1>. QED BY <1>1, InitCounted, CountStep, ChallengeTypes, PTL DEF Spec
==============================================================================
