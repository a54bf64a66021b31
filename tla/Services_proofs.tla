----------------------------- MODULE Services_proofs -----------------------------
(***************************************************************************)
(* Tasks, one-time entries, live events, access tokens, passkeys, policy   *)
(* decisions and the rate limiter, each by itself and then in the server   *)
(* as a whole: the parts of Services share no variable but those of        *)
(* Deployment, so each behaves there as it does alone, and what is proved  *)
(* of it holds of the whole.                                               *)
(***************************************************************************)
EXTENDS Services, PasswordReset_proofs, SequenceTheorems, WellFoundedInduction

(***************************************************************************)
(* Tasks.  A request keeps what it was entitled by: it knows a workspace   *)
(* the task was in, and its caller had the rank it needs there or in his   *)
(* account.  Moves, demotions and deletions take neither away from the     *)
(* past.                                                                   *)
(***************************************************************************)

\* The caller had the rank in the workspace or in his account.
HadRank(u, k, w) == \E x \in {0, w} : ranked[x][u] >= k

RanksRecorded == \A w \in WsName, u \in Person : rank[w][u] <= ranked[w][u]

\* A task is somewhere, where it was put, once it was created.
TasksPlacedThere ==
    \A t \in TaskId :
        /\ task[t] # NoTask => task[t].ws \in placed[t]
        /\ t > created => placed[t] = {} /\ changed[t] = {} /\ toldOf[t] = {}

Entitled(q) ==
    /\ q.pc \in {"update", "delete"} => q.ws \in placed[q.task]
    /\ q.pc = "update" => HadRank(q.by, Editor, q.ws)
    /\ q.pc = "delete" /\ task[q.task] # NoTask =>
           HadRank(q.by, IF task[q.task].by = q.by THEN Editor ELSE Admin, q.ws)

RequestsEntitled == \A r \in TaskSlot : Entitled(taskReq[r])

TasksInv ==
    /\ TasksTypeOK /\ RanksRecorded /\ TasksPlacedThere /\ RequestsEntitled
    /\ ChangedByInsider /\ ToldWherePlaced

LEMMA SmallestExists ==
    ASSUME NEW T \in SUBSET Nat, T # {}
    PROVE  \E m \in T : \A k \in T : m <= k
<1>. DEFINE R == OpToRel(<, Nat)
<1>1. \E m \in T : \A k \in T : ~ (<<k, m>> \in R)
  <2>. HIDE DEF R
  <2>1. IsWellFoundedOn(R, Nat)
    BY NatLessThanWellFounded DEF R
  <2>. QED BY <2>1, WFMin
<1>2. \A k, m \in Nat : k < m => <<k, m>> \in R
  BY DEF OpToRel
<1>. HIDE DEF R
<1>3. PICK m \in T : \A k \in T : ~ (<<k, m>> \in R)
  BY <1>1
<1>4. \A k \in T : ~ (k < m)
  BY <1>2, <1>3
<1>. QED BY <1>4

(***************************************************************************)
(* There is an oldest workspace as long as there is one.                   *)
(***************************************************************************)
LEMMA OldestExists ==
    ASSUME NEW S \in SUBSET Nat, S # {}
    PROVE  (CHOOSE o \in S : \A x \in S : o <= x) \in S
BY SmallestExists

LEMMA InitTasks == TasksInit => TasksInv
<1>. SUFFICES ASSUME TasksInit PROVE TasksInv
  OBVIOUS
<1>. USE TasksAssumption DEF TasksInit
<1>1. TasksTypeOK
  BY DEF TasksTypeOK, Ws, WsName, Rank, Editor
<1>2. RanksRecorded
  BY <1>1 DEF RanksRecorded, TasksTypeOK, Rank
<1>3. TasksPlacedThere /\ RequestsEntitled
  BY DEF TasksPlacedThere, RequestsEntitled, Entitled, Quiet
<1>4. ChangedByInsider /\ ToldWherePlaced
  BY DEF ChangedByInsider, ToldWherePlaced
<1>. QED BY <1>1, <1>2, <1>3, <1>4 DEF TasksInv

(***************************************************************************)
(* A request starts or ends without a change of the data.                  *)
(***************************************************************************)
TaskRequest ==
    {Quiet} \cup [pc: {"create"}, by: Person, ws: WsName]
            \cup [pc: {"update", "delete"}, by: Person, ws: Ws, task: TaskId]

LEMMA RequestOnly ==
    ASSUME TasksInv, NEW r \in TaskSlot, NEW q \in TaskRequest, Entitled(q),
           taskReq' = [taskReq EXCEPT ![r] = q],
           UNCHANGED <<standing, rank, rankMoves, task, created, taskHistory>>
    PROVE  TasksInv'
<1>. USE DEF taskHistory
<1>1. TasksTypeOK'
  BY DEF TasksInv, TasksTypeOK, TaskRequest
<1>2. \A s \in TaskSlot : taskReq'[s] = IF s = r THEN q ELSE taskReq[s]
  BY DEF TasksInv, TasksTypeOK
<1>3. RequestsEntitled'
  BY <1>2 DEF TasksInv, RequestsEntitled, Entitled, HadRank
<1>4. RanksRecorded' /\ TasksPlacedThere' /\ ChangedByInsider' /\ ToldWherePlaced'
  BY DEF TasksInv, RanksRecorded, TasksPlacedThere, ChangedByInsider, ToldWherePlaced
<1>. QED BY <1>1, <1>3, <1>4 DEF TasksInv

LEMMA RanksAreNumbers ==
    ASSUME TasksInv
    PROVE  /\ \A w \in WsName, u \in Person : rank[w][u] \in Nat /\ ranked[w][u] \in Nat
           /\ 0 \in WsName /\ Ws \subseteq WsName
<1>1. \A w \in WsName, u \in Person : rank[w][u] \in Rank /\ ranked[w][u] \in Rank
  BY DEF TasksInv, TasksTypeOK
<1>2. Rank \subseteq Nat /\ 0 \in WsName /\ Ws \subseteq WsName
  BY TasksAssumption DEF Rank, Ws, WsName
<1>. QED BY <1>1, <1>2

(***************************************************************************)
(* Who has a rank has had it.                                              *)
(***************************************************************************)
LEMMA RanksHad ==
    ASSUME TasksInv, NEW u \in Person, NEW k \in Rank, NEW w \in WsName, Ranks(u, k, w)
    PROVE  HadRank(u, k, w)
<1>1. \A x \in WsName : rank[x][u] \in Nat /\ ranked[x][u] \in Nat /\ rank[x][u] <= ranked[x][u]
  BY DEF TasksInv, TasksTypeOK, RanksRecorded, Rank
<1>2. 0 \in WsName /\ k \in Nat
  BY TasksAssumption DEF WsName, Rank
<1>3. \E x \in {0, w} : rank[x][u] >= k
  BY DEF Ranks
<1>. QED BY <1>1, <1>2, <1>3 DEF HadRank

LEMMA AdmissionKeeps ==
    ASSUME TasksInv, NEW r \in TaskSlot, NEW u \in Person,
           \/ \E w \in WsName : MayCreate(r, u, w)
           \/ \E t \in TaskId : MayUpdate(r, u, t) \/ MayDelete(r, u, t)
    PROVE  TasksInv'
<1>1. ASSUME NEW w \in WsName, MayCreate(r, u, w) PROVE TasksInv'
  <2>. DEFINE q == [pc |-> "create", by |-> u, ws |-> w]
  <2>1. q \in TaskRequest /\ Entitled(q)
    BY DEF TaskRequest, Entitled
  <2>. QED BY <1>1, <2>1, RequestOnly DEF MayCreate
<1>2. ASSUME NEW t \in TaskId, task[t] # NoTask
      PROVE  /\ task[t].ws \in Ws /\ task[t].ws \in WsName
             /\ task[t].ws \in placed[t]
  BY <1>2 DEF TasksInv, TasksTypeOK, TasksPlacedThere, Ws, WsName
<1>3. Editor \in Rank /\ Admin \in Rank
  BY DEF Editor, Admin, Rank
<1>4. ASSUME NEW t \in TaskId, MayUpdate(r, u, t) PROVE TasksInv'
  <2>. DEFINE q == [pc |-> "update", by |-> u, ws |-> task[t].ws, task |-> t]
  <2>1. HadRank(u, Editor, task[t].ws)
    BY <1>2, <1>3, <1>4, RanksHad DEF MayUpdate
  <2>2. q \in TaskRequest /\ Entitled(q)
    BY <1>2, <1>4, <2>1 DEF MayUpdate, TaskRequest, Entitled
  <2>. QED BY <1>4, <2>2, RequestOnly DEF MayUpdate
<1>5. ASSUME NEW t \in TaskId, MayDelete(r, u, t) PROVE TasksInv'
  <2>. DEFINE q == [pc |-> "delete", by |-> u, ws |-> task[t].ws, task |-> t]
  <2>1. HadRank(u, Admin, task[t].ws) \/ (task[t].by = u /\ HadRank(u, Editor, task[t].ws))
    BY <1>2, <1>3, <1>5, RanksHad DEF MayDelete
  <2>2. HadRank(u, Admin, task[t].ws) => HadRank(u, Editor, task[t].ws)
    <3>1. \A x \in {0, task[t].ws} : ranked[x][u] \in Nat
      BY <1>2, <1>5, RanksAreNumbers DEF MayDelete
    <3>. QED BY <3>1 DEF HadRank, Admin, Editor
  <2>3. q \in TaskRequest /\ Entitled(q)
    BY <1>2, <1>5, <2>1, <2>2 DEF MayDelete, TaskRequest, Entitled
  <2>. QED BY <1>5, <2>3, RequestOnly DEF MayDelete
<1>. QED BY <1>1, <1>4, <1>5

LEMMA NowhereKeeps ==
    ASSUME TasksInv, NEW r \in TaskSlot, NowhereToGo(r)
    PROVE  TasksInv'
BY RequestOnly DEF NowhereToGo, TaskAnswered, TaskRequest, Entitled, Quiet

(***************************************************************************)
(* Promotions are recorded, demotions leave the record.                    *)
(***************************************************************************)
LEMMA ChangeRankKeeps ==
    ASSUME TasksInv, NEW w \in WsName, NEW u \in Person, NEW k \in Rank, ChangeRank(w, u, k)
    PROVE  TasksInv'
<1>. USE DEF ChangeRank
<1>1. /\ rank \in [WsName -> [Person -> Rank]] /\ ranked \in [WsName -> [Person -> Rank]]
      /\ \A x \in WsName, v \in Person : rank[x][v] \in Nat /\ ranked[x][v] \in Nat
  BY RanksAreNumbers DEF TasksInv, TasksTypeOK
<1>2. /\ rank' \in [WsName -> [Person -> Rank]]
      /\ \A x \in WsName, v \in Person :
             rank'[x][v] = IF x = w /\ v = u THEN k ELSE rank[x][v]
  BY <1>1
<1>3. /\ ranked' \in [WsName -> [Person -> Rank]]
      /\ \A x \in WsName, v \in Person :
             ranked'[x][v] = IF x = w /\ v = u /\ ranked[w][u] < k THEN k ELSE ranked[x][v]
  BY <1>1
<1>4. TasksTypeOK'
  <2>1. rankMoves' \in 0..MaxMoves
    BY TasksAssumption DEF TasksInv, TasksTypeOK
  <2>. QED BY <1>2, <1>3, <2>1 DEF TasksInv, TasksTypeOK
<1>5. RanksRecorded'
  BY <1>1, <1>2, <1>3 DEF TasksInv, RanksRecorded, Rank
<1>6. \A x \in WsName, v \in Person : ranked'[x][v] >= ranked[x][v] /\ ranked'[x][v] \in Nat
  BY <1>1, <1>3 DEF Rank
<1>7. 0 \in WsName /\ Ws \subseteq WsName
  BY TasksAssumption DEF WsName, Ws
<1>8. RequestsEntitled'
  <2>. SUFFICES ASSUME NEW r \in TaskSlot PROVE Entitled(taskReq[r])'
    BY DEF RequestsEntitled
  <2>. DEFINE q == taskReq[r]
  <2>1. q \in TaskRequest /\ Entitled(q) /\ UNCHANGED <<taskReq, task, placed>>
    BY DEF TasksInv, TasksTypeOK, TaskRequest, RequestsEntitled
  <2>2. q.pc \in {"update", "delete"} => q.ws \in WsName /\ q.by \in Person
    BY <1>7, <2>1 DEF TaskRequest, Quiet
  <2>3. ASSUME q.pc \in {"update", "delete"}, NEW n \in {Editor, Admin}, HadRank(q.by, n, q.ws)
        PROVE  HadRank(q.by, n, q.ws)'
    BY <1>1, <1>6, <1>7, <2>1, <2>2, <2>3 DEF HadRank, Editor, Admin
  <2>. QED BY <2>1, <2>3 DEF Entitled
<1>9. ChangedByInsider'
  <2>. SUFFICES ASSUME NEW t \in TaskId, NEW c \in changed[t]
                PROVE  \E x \in placed[t] \cup {0} : ranked'[x][c[1]] >= c[2]
    BY DEF ChangedByInsider
  <2>1. c \in Person \X {Editor, Admin} /\ placed[t] \cup {0} \subseteq WsName
    BY <1>7 DEF TasksInv, TasksTypeOK
  <2>2. PICK x \in placed[t] \cup {0} : ranked[x][c[1]] >= c[2]
    BY DEF TasksInv, ChangedByInsider
  <2>. QED BY <1>1, <1>6, <2>1, <2>2 DEF Editor, Admin
<1>10. TasksPlacedThere' /\ ToldWherePlaced'
  BY DEF TasksInv, TasksPlacedThere, ToldWherePlaced
<1>. QED BY <1>4, <1>5, <1>8, <1>9, <1>10 DEF TasksInv

(***************************************************************************)
(* The tasks of a workspace go with it, and nobody is left to be told.     *)
(***************************************************************************)
LEMMA CloseWorkspaceKeeps ==
    ASSUME TasksInv, NEW w \in Ws, CloseWorkspace(w)
    PROVE  TasksInv'
<1>. USE DEF CloseWorkspace, taskHistory
<1>1. rank' \in [WsName -> [Person -> Rank]] /\
      \A x \in WsName, v \in Person : rank'[x][v] = IF x = w THEN 0 ELSE rank[x][v]
  BY TasksAssumption DEF TasksInv, TasksTypeOK, Ws, WsName, Rank
<1>2. \A t \in TaskId : task'[t] = IF task[t].ws = w THEN NoTask ELSE task[t]
  OBVIOUS
<1>3. TasksTypeOK'
  BY <1>1, <1>2 DEF TasksInv, TasksTypeOK
<1>4. RanksRecorded'
  BY <1>1 DEF TasksInv, TasksTypeOK, RanksRecorded, Rank
<1>5. TasksPlacedThere'
  BY <1>2 DEF TasksInv, TasksPlacedThere
<1>6. RequestsEntitled'
  <2>. SUFFICES ASSUME NEW r \in TaskSlot PROVE Entitled(taskReq[r])'
    BY DEF RequestsEntitled
  <2>1. taskReq[r] \in TaskRequest /\ Entitled(taskReq[r])
    BY DEF TasksInv, TasksTypeOK, TaskRequest, RequestsEntitled
  <2>2. taskReq[r].pc = "delete" => taskReq[r].task \in TaskId
    BY <2>1 DEF TaskRequest, Quiet
  <2>. QED BY <1>2, <2>1, <2>2 DEF Entitled, HadRank
<1>7. ChangedByInsider' /\ ToldWherePlaced'
  BY DEF TasksInv, ChangedByInsider, ToldWherePlaced
<1>. QED BY <1>3, <1>4, <1>5, <1>6, <1>7 DEF TasksInv

(***************************************************************************)
(* A task goes to the workspace that was named, if it is one, or to the    *)
(* oldest.                                                                 *)
(***************************************************************************)
LEMMA ResolveStands ==
    ASSUME TasksInv, standing # {}, NEW w \in WsName
    PROVE  /\ Resolve(w) \in standing /\ Resolve(w) \in Ws
           /\ w \in standing => Resolve(w) = w
<1>1. standing \subseteq Ws /\ Ws \subseteq Nat
  BY DEF TasksInv, TasksTypeOK, Ws
<1>2. (CHOOSE o \in standing : \A x \in standing : o <= x) \in standing
  BY <1>1, OldestExists
<1>. QED BY <1>1, <1>2 DEF Resolve

LEMMA CreateTaskKeeps ==
    ASSUME TasksInv, NEW r \in TaskSlot, CreateTask(r)
    PROVE  TasksInv'
<1>. USE DEF CreateTask, TaskAnswered
<1>. DEFINE q  == taskReq[r]
            to == Resolve(q.ws)
            n  == created + 1
<1>1. q \in TaskRequest /\ q.pc = "create"
  BY DEF TasksInv, TasksTypeOK, TaskRequest
<1>2. q.ws \in WsName /\ q.by \in Person
  BY <1>1 DEF TaskRequest, Quiet
<1>3. to \in Ws /\ (q.ws \in standing => to = q.ws)
  BY <1>2, ResolveStands
<1>4. n \in TaskId /\ created' = n /\ n \in 0..MaxTasks /\ created \in Nat
  BY TasksAssumption DEF TasksInv, TasksTypeOK, TaskId
<1>5. placed[n] = {} /\ changed[n] = {} /\ toldOf[n] = {}
  BY <1>4 DEF TasksInv, TasksPlacedThere
<1>. HIDE DEF to, n, q
<1>6. /\ task' = [task EXCEPT ![n] = [ws |-> to, by |-> q.by]]
      /\ placed' = [placed EXCEPT ![n] = {to}]
      /\ toldOf' = [toldOf EXCEPT ![n] = {q.ws}]
      /\ taskReq' = [taskReq EXCEPT ![r] = Quiet]
      /\ UNCHANGED <<standing, rank, rankMoves, ranked, changed>>
  BY DEF NewTask, to, n, q
<1>7. TasksTypeOK'
  <2>1. [ws |-> to, by |-> q.by] \in [ws: Ws, by: Person]
    BY <1>2, <1>3
  <2>2. {to} \in SUBSET Ws /\ {q.ws} \in SUBSET WsName
    BY <1>2, <1>3
  <2>3. task' \in [TaskId -> {NoTask} \cup [ws: Ws, by: Person]]
    BY <1>4, <1>6, <2>1 DEF TasksInv, TasksTypeOK
  <2>4. placed \in [TaskId -> SUBSET Ws] /\ toldOf \in [TaskId -> SUBSET WsName]
    BY DEF TasksInv, TasksTypeOK
  <2>5. placed' \in [TaskId -> SUBSET Ws]
    BY <1>4, <1>6, <2>2, <2>4
  <2>6. toldOf' \in [TaskId -> SUBSET WsName]
    BY <1>4, <1>6, <2>2, <2>4
  <2>. QED BY <1>4, <1>6, <2>3, <2>5, <2>6 DEF TasksInv, TasksTypeOK
<1>8. \A t \in TaskId :
          /\ task'[t] = IF t = n THEN [ws |-> to, by |-> q.by] ELSE task[t]
          /\ placed'[t] = IF t = n THEN {to} ELSE placed[t]
          /\ toldOf'[t] = IF t = n THEN {q.ws} ELSE toldOf[t]
  <2>1. DOMAIN task = TaskId /\ DOMAIN placed = TaskId /\ DOMAIN toldOf = TaskId
    BY DEF TasksInv, TasksTypeOK
  <2>. QED BY <1>6, <2>1
<1>9. TasksPlacedThere'
  <2>1. \A t \in TaskId : t > n => t > created /\ t # n
    BY <1>4 DEF TaskId
  <2>. QED BY <1>4, <1>6, <1>8, <2>1 DEF TasksInv, TasksPlacedThere
<1>10. RequestsEntitled'
  <2>. SUFFICES ASSUME NEW s \in TaskSlot, s # r PROVE Entitled(taskReq[s])'
    <3>1. taskReq'[r] = Quiet
      BY <1>6 DEF TasksInv, TasksTypeOK
    <3>2. Entitled(taskReq[r])'
      BY <3>1 DEF Entitled, Quiet
    <3>. QED BY <3>2 DEF RequestsEntitled
  <2>1. taskReq'[s] = taskReq[s] /\ taskReq[s] \in TaskRequest /\ Entitled(taskReq[s])
    BY <1>6 DEF TasksInv, TasksTypeOK, RequestsEntitled, TaskRequest
  <2>2. taskReq[s].pc \in {"update", "delete"} => taskReq[s].task \in TaskId
    BY <2>1 DEF TaskRequest, Quiet
  <2>3. taskReq[s].pc \in {"update", "delete"} => taskReq[s].task # n
    BY <1>5, <2>1 DEF Entitled
  <2>. QED BY <1>6, <1>8, <2>1, <2>2, <2>3 DEF Entitled, HadRank
<1>11. ChangedByInsider'
  BY <1>5, <1>6, <1>8 DEF TasksInv, ChangedByInsider
<1>12. ToldWherePlaced'
  BY <1>3, <1>6, <1>8 DEF TasksInv, ToldWherePlaced
<1>13. RanksRecorded'
  BY <1>6 DEF TasksInv, RanksRecorded
<1>. QED BY <1>7, <1>9, <1>10, <1>11, <1>12, <1>13 DEF TasksInv

(***************************************************************************)
(* What an update or a deletion leaves: the task where it was put, or      *)
(* gone, its creator unchanged; more places, one more writer who was       *)
(* entitled, one more workspace told that the task was in.                 *)
(***************************************************************************)
LEMMA WritingKeeps ==
    ASSUME TasksInv, NEW r \in TaskSlot, NEW t \in TaskId, NEW u \in Person,
           NEW k \in {Editor, Admin}, NEW w \in Ws, w \in placed[t], HadRank(u, k, w),
           NEW row \in {NoTask} \cup [ws: Ws, by: Person],
           NEW to \in SUBSET Ws, row # NoTask => row.ws \in to,
           row # NoTask => task[t] # NoTask /\ row.by = task[t].by,
           task' = [task EXCEPT ![t] = row],
           placed' = [placed EXCEPT ![t] = @ \cup to],
           NEW wrote \in SUBSET {<<u, k>>}, changed' = [changed EXCEPT ![t] = @ \cup wrote],
           toldOf' = [toldOf EXCEPT ![t] = @ \cup {w}],
           taskReq' = [taskReq EXCEPT ![r] = Quiet],
           UNCHANGED <<standing, rank, rankMoves, created, ranked>>
    PROVE  TasksInv'
<1>1. /\ Ws \subseteq WsName
      /\ <<u, k>> \in Person \X {Editor, Admin} /\ <<u, k>>[1] = u /\ <<u, k>>[2] = k
  BY RanksAreNumbers
<1>2. \A s \in TaskId :
          /\ task'[s] = IF s = t THEN row ELSE task[s]
          /\ placed'[s] = IF s = t THEN placed[t] \cup to ELSE placed[s]
          /\ changed'[s] = IF s = t THEN changed[t] \cup wrote ELSE changed[s]
          /\ toldOf'[s] = IF s = t THEN toldOf[t] \cup {w} ELSE toldOf[s]
  BY DEF TasksInv, TasksTypeOK
<1>3. TasksTypeOK'
  <2>1. task' \in [TaskId -> {NoTask} \cup [ws: Ws, by: Person]]
    BY DEF TasksInv, TasksTypeOK
  <2>2. placed' \in [TaskId -> SUBSET Ws]
    BY DEF TasksInv, TasksTypeOK
  <2>3. changed' \in [TaskId -> SUBSET (Person \X {Editor, Admin})]
    BY <1>1 DEF TasksInv, TasksTypeOK
  <2>4. toldOf' \in [TaskId -> SUBSET WsName]
    BY <1>1 DEF TasksInv, TasksTypeOK
  <2>. QED BY <2>1, <2>2, <2>3, <2>4 DEF TasksInv, TasksTypeOK
<1>4. ~ (t > created)
  BY DEF TasksInv, TasksPlacedThere
<1>5. TasksPlacedThere'
  BY <1>2, <1>4 DEF TasksInv, TasksPlacedThere
<1>6. RequestsEntitled'
  <2>. SUFFICES ASSUME NEW s \in TaskSlot, s # r PROVE Entitled(taskReq[s])'
    <3>1. taskReq'[r] = Quiet
      BY DEF TasksInv, TasksTypeOK
    <3>2. Entitled(taskReq[r])'
      BY <3>1 DEF Entitled, Quiet
    <3>. QED BY <3>2 DEF RequestsEntitled
  <2>1. taskReq'[s] = taskReq[s] /\ taskReq[s] \in TaskRequest /\ Entitled(taskReq[s])
    BY DEF TasksInv, TasksTypeOK, RequestsEntitled, TaskRequest
  <2>2. taskReq[s].pc \in {"update", "delete"} => taskReq[s].task \in TaskId
    BY <2>1 DEF TaskRequest, Quiet
  <2>3. \A x \in TaskId : /\ placed[x] \subseteq placed'[x]
                          /\ task'[x] # NoTask =>
                                 task[x] # NoTask /\ task'[x].by = task[x].by
    BY <1>2
  <2>. QED BY <2>1, <2>2, <2>3 DEF Entitled, HadRank
<1>7. ChangedByInsider'
  <2>. SUFFICES ASSUME NEW s \in TaskId, NEW c \in changed'[s]
                PROVE  \E x \in placed'[s] \cup {0} : ranked[x][c[1]] >= c[2]
    BY DEF ChangedByInsider
  <2>1. CASE s = t /\ c = <<u, k>>
    <3>1. PICK x \in {0, w} : ranked[x][u] >= k
      BY DEF HadRank
    <3>2. x \in placed'[s] \cup {0} /\ c[1] = u /\ c[2] = k
      BY <1>1, <1>2, <2>1
    <3>. QED BY <3>1, <3>2
  <2>2. CASE ~ (s = t /\ c = <<u, k>>)
    <3>1. c \in changed[s] /\ placed[s] \subseteq placed'[s]
      BY <1>2, <2>2
    <3>. QED BY <3>1 DEF TasksInv, ChangedByInsider
  <2>. QED BY <2>1, <2>2
<1>8. ToldWherePlaced'
  BY <1>2 DEF TasksInv, ToldWherePlaced
<1>9. RanksRecorded'
  BY DEF TasksInv, RanksRecorded
<1>. QED BY <1>3, <1>5, <1>6, <1>7, <1>8, <1>9 DEF TasksInv
LEMMA UpdateTaskKeeps ==
    ASSUME TasksInv, NEW r \in TaskSlot, NEW move \in BOOLEAN, NEW w \in WsName,
           UpdateTask(r, move, w)
    PROVE  TasksInv'
<1>. USE DEF UpdateTask, TaskAnswered
<1>. DEFINE q  == taskReq[r]
            t  == q.task
            to == IF move THEN Resolve(w) ELSE task[t].ws
<1>1. q \in TaskRequest /\ q.pc = "update" /\ Entitled(q)
  BY DEF TasksInv, TasksTypeOK, TaskRequest, RequestsEntitled
<1>2. /\ t \in TaskId /\ q.by \in Person /\ q.ws \in Ws /\ q.ws \in placed[t]
      /\ HadRank(q.by, Editor, q.ws) /\ Editor \in {Editor, Admin}
  BY <1>1 DEF TaskRequest, Quiet, Entitled
<1>3. /\ task \in [TaskId -> {NoTask} \cup [ws: Ws, by: Person]]
      /\ placed \in [TaskId -> SUBSET Ws]
      /\ changed \in [TaskId -> SUBSET (Person \X {Editor, Admin})]
  BY DEF TasksInv, TasksTypeOK
<1>4. CASE task[t] # NoTask
  <2>1. to \in Ws
    BY <1>2, <1>3, <1>4, ResolveStands
  <2>2. task[t] \in [ws: Ws, by: Person]
    BY <1>2, <1>3, <1>4
  <2>. DEFINE row == [task[t] EXCEPT !.ws = to]
              own == {<<q.by, Editor>>}
  <2>3. row \in [ws: Ws, by: Person] /\ row.ws \in {to} /\ row.by = task[t].by
    BY <2>1, <2>2
  <2>4. /\ task' = [task EXCEPT ![t] = row]
        /\ placed' = [placed EXCEPT ![t] = @ \cup {to}]
        /\ changed' = [changed EXCEPT ![t] = @ \cup own]
        /\ toldOf' = [toldOf EXCEPT ![t] = @ \cup {q.ws}]
        /\ taskReq' = [taskReq EXCEPT ![r] = Quiet]
        /\ UNCHANGED <<standing, rank, rankMoves, created, ranked>>
    BY <1>4 DEF Wrote, Moved
  <2>5. {to} \in SUBSET Ws /\ own \in SUBSET {<<q.by, Editor>>}
    BY <2>1
  <2>. HIDE DEF to, row, own, q, t
  <2>. QED BY <1>2, <1>4, <2>3, <2>4, <2>5, WritingKeeps
<1>5. CASE task[t] = NoTask
  <2>. DEFINE none == {}
  <2>1. /\ task' = [task EXCEPT ![t] = NoTask]
        /\ placed' = [placed EXCEPT ![t] = @ \cup none]
        /\ changed' = [changed EXCEPT ![t] = @ \cup none]
    BY <1>2, <1>3, <1>5
  <2>2. /\ toldOf' = [toldOf EXCEPT ![t] = @ \cup {q.ws}]
        /\ taskReq' = [taskReq EXCEPT ![r] = Quiet]
        /\ UNCHANGED <<standing, rank, rankMoves, created, ranked>>
    OBVIOUS
  <2>3. none \in SUBSET Ws /\ none \in SUBSET {<<q.by, Editor>>}
    OBVIOUS
  <2>. HIDE DEF none, q, t
  <2>. QED BY <1>2, <2>1, <2>2, <2>3, WritingKeeps
<1>. QED BY <1>4, <1>5

LEMMA DeleteTaskKeeps ==
    ASSUME TasksInv, NEW r \in TaskSlot, DeleteTask(r)
    PROVE  TasksInv'
<1>. USE DEF DeleteTask, TaskAnswered
<1>. DEFINE q  == taskReq[r]
            t  == q.task
            k  == IF task[t].by = q.by THEN Editor ELSE Admin
<1>1. q \in TaskRequest /\ q.pc = "delete" /\ Entitled(q)
  BY DEF TasksInv, TasksTypeOK, TaskRequest, RequestsEntitled
<1>2. /\ t \in TaskId /\ q.by \in Person /\ q.ws \in Ws /\ q.ws \in placed[t]
      /\ task[t] # NoTask => HadRank(q.by, k, q.ws)
      /\ k \in {Editor, Admin}
  BY <1>1 DEF TaskRequest, Quiet, Entitled
<1>3. placed \in [TaskId -> SUBSET Ws]
  BY DEF TasksInv, TasksTypeOK
<1>4. CASE task[t] # NoTask
  <2>. DEFINE none == {}
              own  == {<<q.by, k>>}
  <2>1. placed' = [placed EXCEPT ![t] = @ \cup none]
    BY <1>2, <1>3, <1>4
  <2>2. /\ task' = [task EXCEPT ![t] = NoTask]
        /\ changed' = [changed EXCEPT ![t] = @ \cup own]
        /\ toldOf' = [toldOf EXCEPT ![t] = @ \cup {q.ws}]
        /\ taskReq' = [taskReq EXCEPT ![r] = Quiet]
        /\ UNCHANGED <<standing, rank, rankMoves, created, ranked>>
    BY <1>4 DEF Wrote
  <2>3. none \in SUBSET Ws /\ own \in SUBSET {<<q.by, k>>}
    OBVIOUS
  <2>4. HadRank(q.by, k, q.ws)
    BY <1>2, <1>4
  <2>. HIDE DEF none, own, k, q, t
  <2>5. t \in TaskId /\ q.by \in Person /\ q.ws \in Ws /\ q.ws \in placed[t] /\ k \in {Editor, Admin}
    BY <1>2
  <2>6. NoTask \in {NoTask} \cup [ws: Ws, by: Person]
    OBVIOUS
  <2>. QED BY ONLY TasksInv, r \in TaskSlot, <1>4, <2>1, <2>2, <2>3, <2>4, <2>5, <2>6, WritingKeeps
<1>5. CASE task[t] = NoTask
  BY <1>5, RequestOnly DEF taskHistory, TaskRequest, Entitled, Quiet
<1>. QED BY <1>4, <1>5

LEMMA TasksStep == TasksInv /\ [TasksNext]_taskVars => TasksInv'
<1>. SUFFICES ASSUME TasksInv, [TasksNext]_taskVars PROVE TasksInv'
  OBVIOUS
<1>1. CASE UNCHANGED taskVars
  BY <1>1 DEF taskVars, taskHistory, TasksInv, TasksTypeOK, RanksRecorded, TasksPlacedThere,
              RequestsEntitled, Entitled, HadRank, ChangedByInsider, ToldWherePlaced
<1>. QED BY <1>1, ChangeRankKeeps, CloseWorkspaceKeeps, AdmissionKeeps, NowhereKeeps,
            CreateTaskKeeps, UpdateTaskKeeps, DeleteTaskKeeps DEF TasksNext

------------------------------------------------------------------------------
(***************************************************************************)
(* One-time entries.  What can still be let through is counted: the copy   *)
(* in a memory once; as long as the key is in Redis every worker once;     *)
(* after a worker has deleted it, only those that had got it before.       *)
(***************************************************************************)
Kept(w) == memo[w] # 0
Takers(takes) == {w \in Worker : takes[w] # Untaken}

FromMemory(copies) == IF \E w \in Worker : copies[w] # 0 THEN 1 ELSE 0
FromRedis(key, takes) ==
    IF key # 0 THEN Cardinality(Worker) ELSE Cardinality(Takers(takes))
Allowed ==
    (IF saved = "memory" THEN 0 ELSE Cardinality(Worker)) + (IF saved = "redis" THEN 0 ELSE 1)

EntryPlaced ==
    /\ saved = "no" => stash = 0 /\ uses = 0 /\ ~usedLate
    /\ saved \in {"no", "memory"} => stash = 0 /\ \A w \in Worker : taking[w] = Untaken
    /\ saved \in {"no", "redis"} => \A w \in Worker : ~Kept(w)
    /\ \A v, w \in Worker : Kept(v) /\ Kept(w) => v = w

\* The copies end with the life of the entry, and it is got only before.
EntryTimed ==
    /\ stash # 0 => stash = savedAt + EntryLife
    /\ \A w \in Worker : /\ Kept(w) => memo[w] = savedAt + EntryLife
                         /\ taking[w] # Untaken => taking[w].at < savedAt + EntryLife
    /\ usedLate => kind = "state" /\ saved # "redis"

OneTimeInv ==
    /\ DeploymentTypeOK /\ OneTimeTypeOK /\ EntryPlaced /\ EntryTimed
    /\ uses + FromMemory(memo) + FromRedis(stash, taking) <= Allowed

LEMMA WorkersCounted ==
    /\ Cardinality(Worker) \in Nat
    /\ IsFiniteSet(Takers(taking)) /\ Cardinality(Takers(taking)) \in Nat
    /\ Cardinality(Takers(taking)) <= Cardinality(Worker)
<1>1. Takers(taking) \in SUBSET Worker
  BY DEF Takers
<1>. QED BY <1>1, FiniteWorkers, FS_Subset, FS_CardinalityType

LEMMA OneTimeHolds == OneTimeInv => OneTimeUse
<1>1. FromMemory(memo) \in Nat /\ FromRedis(stash, taking) \in Nat
  BY WorkersCounted DEF FromMemory, FromRedis
<1>. QED BY <1>1, WorkersCounted DEF OneTimeInv, OneTimeTypeOK, EntryTimed, OneTimeUse, Allowed

LEMMA InitOneTime == DeploymentInit /\ OneTimeInit => OneTimeInv
<1>. SUFFICES ASSUME DeploymentInit, OneTimeInit PROVE OneTimeInv
  OBVIOUS
<1>. USE DeploymentAssumption, OneTimeAssumption DEF DeploymentInit, OneTimeInit
<1>1. DeploymentTypeOK
  BY DEF DeploymentTypeOK
<1>2. OneTimeTypeOK
  <2>1. 0 \in 0..MaxTime /\ 0 \in 0..(MaxTime + EntryLife) /\ 0 \in 0..(Cardinality(Worker) + 1)
    BY WorkersCounted
  <2>. QED BY <2>1 DEF OneTimeTypeOK
<1>3. EntryPlaced /\ EntryTimed
  BY DEF EntryPlaced, EntryTimed, Kept
<1>4. uses + FromMemory(memo) + FromRedis(stash, taking) <= Allowed
  BY WorkersCounted DEF FromMemory, FromRedis, Allowed, Kept
<1>. QED BY <1>1, <1>2, <1>3, <1>4 DEF OneTimeInv

(***************************************************************************)
(* A worker deletes a key, a copy or what it was taking, and may let its   *)
(* request through: right if the count allows it.                          *)
(***************************************************************************)
LEMMA FewerCopies ==
    ASSUME OneTimeInv, saved # "no", NEW w \in Worker,
           UNCHANGED <<deployment, kind, saved, savedAt>>,
           stash' \in {0, stash},
           memo' \in {memo, [memo EXCEPT ![w] = 0]},
           taking' \in {taking, [taking EXCEPT ![w] = Untaken]},
           uses' \in Nat, usedLate' \in BOOLEAN,
           usedLate' => usedLate \/ (kind = "state" /\ saved # "redis"),
           uses' + FromMemory(memo') + FromRedis(stash', taking') <= Allowed
    PROVE  OneTimeInv'
<1>. USE DeploymentAssumption, OneTimeAssumption
<1>1. DeploymentTypeOK'
  BY DEF OneTimeInv, DeploymentTypeOK, deployment
<1>2. \A v \in Worker : memo'[v] \in {0, memo[v]} /\ taking'[v] \in {Untaken, taking[v]}
  BY DEF OneTimeInv, OneTimeTypeOK
<1>3. OneTimeTypeOK'
  <2>1. 0 \in 0..(MaxTime + EntryLife)
    OBVIOUS
  <2>2. stash' \in 0..(MaxTime + EntryLife) /\ memo' \in [Worker -> 0..(MaxTime + EntryLife)]
    BY <2>1 DEF OneTimeInv, OneTimeTypeOK
  <2>3. taking' \in [Worker -> {Untaken} \cup [right: BOOLEAN, at: 0..MaxTime]]
    BY DEF OneTimeInv, OneTimeTypeOK
  <2>4. uses' \in 0..(Cardinality(Worker) + 1)
    <3>1. IsFiniteSet(Takers(taking')) /\ Cardinality(Takers(taking')) \in Nat
      <4>1. Takers(taking') \in SUBSET Worker
        BY DEF Takers
      <4>. QED BY <4>1, FiniteWorkers, FS_Subset, FS_CardinalityType
    <3>2. FromMemory(memo') \in Nat /\ FromRedis(stash', taking') \in Nat
      BY <3>1, WorkersCounted DEF FromMemory, FromRedis
    <3>. QED BY <3>2, WorkersCounted DEF Allowed
  <2>. QED BY <2>2, <2>3, <2>4 DEF OneTimeInv, OneTimeTypeOK
<1>4. EntryPlaced'
  BY <1>2 DEF OneTimeInv, EntryPlaced, Kept
<1>5. EntryTimed'
  BY <1>2 DEF OneTimeInv, EntryTimed, Kept
<1>6. Allowed' = Allowed
  BY DEF Allowed
<1>. QED BY <1>1, <1>3, <1>4, <1>5, <1>6 DEF OneTimeInv

(***************************************************************************)
(* The counts after such a step.                                           *)
(***************************************************************************)
LEMMA CopyGone ==
    ASSUME OneTimeInv, NEW w \in Worker, memo' = [memo EXCEPT ![w] = 0]
    PROVE  FromMemory(memo') <= FromMemory(memo) /\ (Kept(w) => FromMemory(memo') = 0 /\ FromMemory(memo) = 1)
           /\ FromMemory(memo') \in Nat /\ FromMemory(memo) \in Nat
<1>1. \A v \in Worker : memo'[v] # 0 <=> memo[v] # 0 /\ v # w
  BY DEF OneTimeInv, OneTimeTypeOK
<1>2. \A v \in Worker : memo[v] # 0 /\ memo[w] # 0 => v = w
  BY DEF OneTimeInv, EntryPlaced, Kept
<1>. QED BY <1>1, <1>2 DEF FromMemory, Kept

LEMMA TakingEnds ==
    ASSUME OneTimeInv, NEW w \in Worker, taking' = [taking EXCEPT ![w] = Untaken],
           stash' \in {0, stash}
    PROVE  /\ FromRedis(stash', taking') \in Nat /\ FromRedis(stash, taking) \in Nat /\ FromRedis(stash', taking') <= FromRedis(stash, taking)
           /\ taking[w] # Untaken /\ stash' = 0 => FromRedis(stash', taking') <= FromRedis(stash, taking) - 1
<1>1. Takers(taking') = Takers(taking) \ {w}
  BY DEF Takers, OneTimeInv, OneTimeTypeOK
<1>2. /\ Cardinality(Takers(taking) \ {w}) \in Nat
      /\ Cardinality(Takers(taking) \ {w}) =
             IF w \in Takers(taking) THEN Cardinality(Takers(taking)) - 1 ELSE Cardinality(Takers(taking))
  BY WorkersCounted, FS_RemoveElement, FS_CardinalityType
<1>3. /\ Cardinality(Takers(taking')) \in Nat
      /\ Cardinality(Takers(taking')) =
             IF w \in Takers(taking) THEN Cardinality(Takers(taking)) - 1 ELSE Cardinality(Takers(taking))
  BY <1>1, <1>2
<1>4. taking[w] # Untaken <=> w \in Takers(taking)
  BY DEF Takers
<1>. QED BY <1>3, <1>4, WorkersCounted DEF FromRedis

(***************************************************************************)
(* Arithmetic of the count.                                                *)
(***************************************************************************)
LEMMA SaveKeeps ==
    ASSUME OneTimeInv, NEW w \in Worker, NEW done \in BOOLEAN, SaveEntry(w, done)
    PROVE  OneTimeInv'
<1>. USE DeploymentAssumption, OneTimeAssumption DEF SaveEntry, deployment
<1>. DEFINE end == now + EntryLife
<1>1. /\ saved = "no" /\ stash = 0 /\ uses = 0 /\ ~usedLate
      /\ \A v \in Worker : taking[v] = Untaken /\ memo[v] = 0
  BY DEF OneTimeInv, EntryPlaced, Kept
<1>2. now \in 0..MaxTime /\ end \in 0..(MaxTime + EntryLife) /\ end # 0 /\ 0 \in 0..(MaxTime + EntryLife)
  BY DEF OneTimeInv, DeploymentTypeOK
<1>. HIDE DEF end
<1>3. /\ saved' \in {"redis", "both", "memory"} /\ savedAt' = now
      /\ saved' = "memory" <=> ~done
      /\ saved' = "redis" <=> redisUp
      /\ stash' = IF done THEN end ELSE 0
      /\ memo' = IF redisUp THEN memo ELSE [memo EXCEPT ![w] = end]
      /\ UNCHANGED <<now, redisUp, outages, kind, taking, uses, usedLate>>
  BY <1>2 DEF end
<1>4. \A v \in Worker : memo'[v] = IF v = w /\ ~redisUp THEN end ELSE 0
  BY <1>1, <1>3 DEF OneTimeInv, OneTimeTypeOK
<1>5. OneTimeTypeOK'
  <2>1. memo' \in [Worker -> 0..(MaxTime + EntryLife)]
    BY <1>2, <1>3 DEF OneTimeInv, OneTimeTypeOK
  <2>. QED BY <1>2, <1>3, <2>1 DEF OneTimeInv, OneTimeTypeOK
<1>6. DeploymentTypeOK'
  BY <1>3 DEF OneTimeInv, DeploymentTypeOK
<1>7. EntryPlaced'
  BY <1>1, <1>3, <1>4 DEF EntryPlaced, Kept
<1>8. EntryTimed'
  BY <1>1, <1>3, <1>4 DEF EntryTimed, Kept, end
<1>9. uses' + FromMemory(memo') + FromRedis(stash', taking') <= Allowed'
  <2>1. Takers(taking') = {}
    BY <1>1, <1>3 DEF Takers
  <2>2. FromMemory(memo') = IF redisUp THEN 0 ELSE 1
    BY <1>2, <1>4 DEF FromMemory, Kept
  <2>3. Cardinality(Takers(taking')) = 0
    BY <2>1, FS_EmptySet
  <2>4. FromRedis(stash', taking') = IF done THEN Cardinality(Worker) ELSE 0
    BY <1>2, <1>3, <2>3 DEF FromRedis
  <2>. QED BY <1>1, <1>3, <2>2, <2>4, WorkersCounted DEF Allowed
<1>. QED BY <1>5, <1>6, <1>7, <1>8, <1>9 DEF OneTimeInv

(***************************************************************************)
(* The key is got while it is there, when every worker still counts.       *)
(***************************************************************************)
LEMMA GetKeeps ==
    ASSUME OneTimeInv, NEW w \in Worker, NEW right \in BOOLEAN, GetEntry(w, right)
    PROVE  OneTimeInv'
<1>. USE DeploymentAssumption, OneTimeAssumption DEF GetEntry, deployment
<1>1. now \in 0..MaxTime /\ stash \in Nat /\ savedAt \in Nat
  BY DEF OneTimeInv, DeploymentTypeOK, OneTimeTypeOK
<1>2. stash # 0 /\ saved \notin {"no", "memory"} /\ now < savedAt + EntryLife
  BY <1>1 DEF InStash, OneTimeInv, EntryPlaced, EntryTimed
<1>3. \A v \in Worker : taking'[v] = IF v = w THEN [right |-> right, at |-> now] ELSE taking[v]
  BY DEF OneTimeInv, OneTimeTypeOK
<1>4. OneTimeTypeOK' /\ DeploymentTypeOK'
  BY <1>1 DEF OneTimeInv, OneTimeTypeOK, DeploymentTypeOK
<1>5. EntryPlaced'
  BY <1>2 DEF OneTimeInv, EntryPlaced, Kept
<1>6. EntryTimed'
  BY <1>2, <1>3 DEF OneTimeInv, EntryTimed, Kept
<1>7. FromMemory(memo') = FromMemory(memo) /\ FromRedis(stash', taking') = FromRedis(stash, taking) /\ Allowed' = Allowed
  BY <1>2 DEF FromMemory, FromRedis, Allowed, Kept
<1>. QED BY <1>4, <1>5, <1>6, <1>7 DEF OneTimeInv

(***************************************************************************)
(* What the memory lets through: only a copy that is there, and in time    *)
(* unless it is the state of an OAuth login.                               *)
(***************************************************************************)
LEMMA Popped ==
    ASSUME OneTimeInv, NEW w \in Worker, NEW right \in BOOLEAN, PopMemory(w, right),
           UNCHANGED <<deployment, kind, saved, savedAt>>
    PROVE  /\ uses' \in Nat /\ uses \in Nat /\ uses' + FromMemory(memo') <= uses + FromMemory(memo)
           /\ FromMemory(memo') \in Nat /\ FromMemory(memo) \in Nat
           /\ usedLate' \in BOOLEAN
           /\ usedLate' => usedLate \/ (kind = "state" /\ saved # "redis")
<1>. USE DEF PopMemory, Let
<1>1. uses \in Nat /\ usedLate \in BOOLEAN /\ now \in Nat /\ memo[w] \in Nat
  BY DEF OneTimeInv, OneTimeTypeOK, DeploymentTypeOK
<1>2. uses' \in {uses, uses + 1} /\ (~Kept(w) => uses' = uses)
  BY DEF Kept
<1>3. /\ FromMemory(memo') <= FromMemory(memo) /\ (Kept(w) => FromMemory(memo') = 0 /\ FromMemory(memo) = 1)
      /\ FromMemory(memo') \in Nat /\ FromMemory(memo) \in Nat
  BY CopyGone
<1>4. uses' \in Nat /\ uses \in Nat /\ uses' + FromMemory(memo') <= uses + FromMemory(memo)
  <2>1. uses \in Nat
    BY <1>1
  <2>2. CASE Kept(w)
    <3>1. FromMemory(memo') = 0 /\ FromMemory(memo) = 1
      BY ONLY <1>3, <2>2
    <3>2. CASE uses' = uses
      BY ONLY <2>1, <3>1, <3>2
    <3>3. CASE uses' = uses + 1
      <4>1. uses' \in Nat /\ uses' + 0 <= uses + 1
        BY ONLY <2>1, <3>3
      <4>. QED BY ONLY <2>1, <3>1, <4>1
    <3>. QED BY <1>2, <3>2, <3>3
  <2>3. CASE ~Kept(w)
    BY ONLY <1>2, <1>3, <2>1, <2>3
  <2>. QED BY <2>2, <2>3
<1>5. usedLate' => usedLate \/ (kind = "state" /\ saved # "redis")
  <2>. SUFFICES ASSUME usedLate', ~usedLate PROVE kind = "state" /\ saved # "redis"
    OBVIOUS
  <2>1. Kept(w) /\ now > savedAt + EntryLife /\ (kind = "challenge" => now <= memo[w])
    BY DEF Kept
  <2>2. memo[w] = savedAt + EntryLife /\ saved # "redis"
    BY <2>1 DEF OneTimeInv, EntryTimed, EntryPlaced
  <2>3. kind \in {"challenge", "state"}
    BY DEF OneTimeInv, OneTimeTypeOK
  <2>. QED BY <1>1, <2>1, <2>2, <2>3
<1>6. usedLate' \in BOOLEAN
  BY <1>1
<1>. QED BY ONLY <1>3, <1>4, <1>5, <1>6

LEMMA TakeKeeps ==
    ASSUME OneTimeInv, NEW w \in Worker, NEW right \in BOOLEAN, TakeFromMemory(w, right)
    PROVE  OneTimeInv'
<1>. USE DEF TakeFromMemory
<1>1. saved # "no"
  BY DEF OneTimeInv, EntryPlaced, Kept
<1>2. /\ uses' \in Nat /\ usedLate' \in BOOLEAN
      /\ uses' + FromMemory(memo') <= uses + FromMemory(memo)
      /\ FromMemory(memo') \in Nat /\ FromMemory(memo) \in Nat
      /\ usedLate' => usedLate \/ (kind = "state" /\ saved # "redis")
  BY Popped
<1>3. FromRedis(stash', taking') = FromRedis(stash, taking) /\ FromRedis(stash, taking) \in Nat /\ uses \in Nat /\ Allowed \in Nat
  BY WorkersCounted DEF FromRedis, Takers, OneTimeInv, OneTimeTypeOK, Allowed
<1>4. uses' + FromMemory(memo') + FromRedis(stash', taking') <= Allowed
  BY <1>2, <1>3 DEF OneTimeInv
<1>. QED BY <1>1, <1>2, <1>4, FewerCopies DEF PopMemory

(***************************************************************************)
(* A worker that deletes the key counts no more, nor does any that has not *)
(* got it; one whose call raises lets through what its memory does.        *)
(***************************************************************************)
LEMMA DelKeeps ==
    ASSUME OneTimeInv, NEW w \in Worker, NEW done \in BOOLEAN, DelEntry(w, done)
    PROVE  OneTimeInv'
<1>. USE DEF DelEntry, Untroubled
<1>1. saved \notin {"no", "memory"} /\ taking[w].at < savedAt + EntryLife
  BY DEF OneTimeInv, EntryPlaced, EntryTimed
<1>2. taking[w].right \in BOOLEAN /\ taking[w].at \in Nat
  BY DEF OneTimeInv, OneTimeTypeOK
<1>3. /\ FromRedis(stash', taking') \in Nat /\ FromRedis(stash, taking) \in Nat /\ FromRedis(stash', taking') <= FromRedis(stash, taking)
      /\ stash' = 0 => FromRedis(stash', taking') <= FromRedis(stash, taking) - 1
  BY TakingEnds
<1>4. uses \in Nat /\ Allowed \in Nat /\ savedAt \in Nat /\ EntryLife \in Nat /\ usedLate \in BOOLEAN
  BY WorkersCounted, OneTimeAssumption DEF OneTimeInv, OneTimeTypeOK, Allowed
<1>5. CASE redisUp
  <2>1. stash' = 0 /\ uses' \in {uses, uses + 1} /\ memo' = memo
    BY <1>5 DEF Let
  <2>2. usedLate' = usedLate
    BY <1>1, <1>2, <1>4, <1>5 DEF Let
  <2>3. FromMemory(memo') = FromMemory(memo) /\ FromMemory(memo) \in Nat
    BY <2>1 DEF FromMemory, Kept
  <2>4. uses' \in Nat /\ uses' + FromMemory(memo') + FromRedis(stash', taking') <= Allowed
    BY <1>3, <1>4, <2>1, <2>3 DEF OneTimeInv
  <2>. QED BY <1>1, <1>4, <2>1, <2>2, <2>4, FewerCopies
<1>6. CASE ~redisUp
  <2>1. PopMemory(w, taking[w].right) /\ UNCHANGED <<deployment, kind, saved, savedAt>>
    BY <1>6
  <2>2. /\ uses' \in Nat /\ usedLate' \in BOOLEAN
        /\ uses' + FromMemory(memo') <= uses + FromMemory(memo)
        /\ FromMemory(memo') \in Nat /\ FromMemory(memo) \in Nat
        /\ usedLate' => usedLate \/ (kind = "state" /\ saved # "redis")
    BY <1>2, <2>1, Popped
  <2>3. uses' + FromMemory(memo') + FromRedis(stash', taking') <= Allowed
    BY <1>3, <1>4, <2>2 DEF OneTimeInv
  <2>4. memo' = [memo EXCEPT ![w] = 0] /\ stash' \in {0, stash}
    BY <2>1 DEF PopMemory
  <2>. QED BY <1>1, <2>2, <2>3, <2>4, FewerCopies
<1>. QED BY <1>5, <1>6

LEMMA RestartTakerKeeps ==
    ASSUME OneTimeInv, NEW w \in Worker, RestartTaker(w)
    PROVE  OneTimeInv'
<1>. USE DEF RestartTaker, Untroubled
<1>1. saved # "no"
  BY DEF OneTimeInv, EntryPlaced, Kept
<1>2. FromMemory(memo') <= FromMemory(memo) /\ FromMemory(memo') \in Nat /\ FromMemory(memo) \in Nat
  BY CopyGone
<1>3. FromRedis(stash', taking') \in Nat /\ FromRedis(stash, taking) \in Nat /\ FromRedis(stash', taking') <= FromRedis(stash, taking)
  BY TakingEnds
<1>4. uses \in Nat /\ Allowed \in Nat /\ usedLate \in BOOLEAN
  BY WorkersCounted DEF OneTimeInv, OneTimeTypeOK, Allowed
<1>5. uses' + FromMemory(memo') + FromRedis(stash', taking') <= Allowed
  BY <1>2, <1>3, <1>4 DEF OneTimeInv
<1>. QED BY <1>1, <1>4, <1>5, FewerCopies

(***************************************************************************)
(* Time and outages change neither the copies nor the count.               *)
(***************************************************************************)
LEMMA WorldLeavesEntries ==
    ASSUME OneTimeInv, DeploymentTypeOK', UNCHANGED oneTimeVars
    PROVE  OneTimeInv'
BY DEF oneTimeVars, OneTimeInv, OneTimeTypeOK, EntryPlaced, EntryTimed, FromMemory, FromRedis,
       Allowed, Takers, Kept

LEMMA OneTimeStep ==
    ASSUME OneTimeInv, DeploymentTypeOK', [OneTimeNext]_<<deployment, oneTimeVars>>
    PROVE  OneTimeInv'
<1>1. CASE UNCHANGED oneTimeVars
  BY <1>1, WorldLeavesEntries
<1>2. ASSUME NEW w \in Worker, NEW flag \in BOOLEAN,
             StartCeremony(w, flag) \/ StartLogin(w, flag)
      PROVE  OneTimeInv'
  BY <1>2, SaveKeeps DEF StartCeremony, StartLogin
<1>. QED BY <1>1, <1>2, GetKeeps, TakeKeeps, DelKeeps, RestartTakerKeeps DEF OneTimeNext

------------------------------------------------------------------------------
(***************************************************************************)
(* Live events.  A socket has been with one worker only, wherever a copy   *)
(* of it is left; an event passes each worker once, by its sender or by    *)
(* its listener; and a socket that is due an event it has not heard is     *)
(* still in the way of the event.                                          *)
(***************************************************************************)
Sending == [pc: {"sending"}, worker: Worker, left: SUBSET Socket, dead: SUBSET Socket]
Relaying == [event: Event, left: SUBSET Socket]

EventsTyped ==
    /\ group \in [Worker -> SUBSET Socket] /\ mine \in [Worker -> SUBSET Socket]
    /\ sender \in [Event -> {Unsent, Sent} \cup Sending]
    /\ relayed \in [Worker -> SUBSET Event]
    /\ relay \in [Worker -> {NoRelay} \cup Relaying]
    /\ heard \in [Event -> [Socket -> Nat]]
    /\ due \in [Event -> SUBSET Socket]

IsSending(e) == sender[e].pc = "sending"
IsRelaying(w, e) == relay[w] # NoRelay /\ relay[w].event = e

\* Where a socket is registered or a copy of it is left.
With(k, w) ==
    \/ k \in group[w] \/ k \in mine[w]
    \/ \E e \in Event : IsSending(e) /\ sender[e].worker = w /\ k \in sender[e].left
    \/ relay[w] # NoRelay /\ k \in relay[w].left

OneHome ==
    \A k \in Socket, w \in Worker :
        With(k, w) => k \in opened /\ \A v \in Worker : With(k, v) => v = w

\* The stages of an event.
Staged ==
    \A e \in Event :
        /\ sender[e] # Sent => \A w \in Worker : e \notin relayed[w] /\ ~IsRelaying(w, e)
        /\ IsSending(e) => sender[e].dead \subseteq gone
        /\ \A w \in Worker : IsRelaying(w, e) => e \notin relayed[w]
        /\ sender[e] = Unsent => due[e] = {} /\ \A k \in Socket : heard[e][k] = 0

\* A socket that heard an event is with a worker that the event has passed.
Passed(e, k) ==
    /\ k \in opened
    /\ IsSending(e) => k \notin sender[e].left
    /\ \A w \in Worker :
           /\ IsRelaying(w, e) => k \notin relay[w].left
           /\ With(k, w) => e \notin relayed[w] /\ (IsSending(e) => w = sender[e].worker)

HeardOnly ==
    \A e \in Event, k \in Socket : heard[e][k] # 0 => heard[e][k] = 1 /\ Passed(e, k)

\* The event is still on its way to the socket.
Coming(e, k) ==
    \/ IsSending(e) /\ k \in sender[e].left
    \/ \E w \in Worker :
           \/ IsSending(e) /\ w # sender[e].worker /\ k \in Audience(e, w)
           \/ e \in relayed[w] /\ k \in Audience(e, w)
           \/ IsRelaying(w, e) /\ k \in relay[w].left

DueHear ==
    \A e \in Event : \A k \in due[e] \ gone : heard[e][k] = 0 => e \in lost \/ Coming(e, k)

EventsInv == EventsTyped /\ OneHome /\ Staged /\ HeardOnly /\ DueHear

LEMMA EventsHold == EventsInv => HeardOnce
<1>. SUFFICES ASSUME EventsInv, NEW e \in Event
              PROVE  /\ \A k \in Socket : heard[e][k] <= 1
                     /\ Arrived(e) /\ e \notin lost => \A k \in due[e] \ gone : heard[e][k] = 1
  BY DEF HeardOnce
<1>1. \A k \in Socket : heard[e][k] \in {0, 1}
  BY DEF EventsInv, EventsTyped, HeardOnly
<1>2. ASSUME Arrived(e), e \notin lost, NEW k \in due[e] \ gone PROVE heard[e][k] = 1
  <2>1. ~IsSending(e)
    BY <1>2 DEF Arrived, IsSending, Sent
  <2>2. ~Coming(e, k)
    BY <1>2, <2>1 DEF Arrived, Coming, IsRelaying
  <2>3. k \in Socket
    BY <1>2 DEF EventsInv, EventsTyped
  <2>. QED BY <1>1, <1>2, <2>2, <2>3 DEF EventsInv, DueHear
<1>. QED BY <1>1, <1>2

LEMMA InitEvents == ConnectionsInit => EventsInv
<1>. SUFFICES ASSUME ConnectionsInit PROVE EventsInv
  OBVIOUS
<1>. USE DEF ConnectionsInit
<1>1. EventsTyped
  <2>1. heard \in [Event -> [Socket -> Nat]]
    OBVIOUS
  <2>2. /\ group \in [Worker -> SUBSET Socket] /\ mine \in [Worker -> SUBSET Socket]
        /\ sender \in [Event -> {Unsent, Sent} \cup Sending]
        /\ relayed \in [Worker -> SUBSET Event]
        /\ relay \in [Worker -> {NoRelay} \cup Relaying]
        /\ due \in [Event -> SUBSET Socket]
    OBVIOUS
  <2>. QED BY <2>1, <2>2 DEF EventsTyped
<1>2. \A e \in Event, w \in Worker : ~IsSending(e) /\ ~IsRelaying(w, e)
  BY DEF IsSending, IsRelaying, Unsent
<1>3. OneHome
  BY <1>2 DEF OneHome, With
<1>4. Staged
  BY DEF Staged, IsSending, IsRelaying, Unsent
<1>5. HeardOnly /\ DueHear
  BY DEF HeardOnly, DueHear
<1>. QED BY <1>1, <1>3, <1>4, <1>5 DEF EventsInv

(***************************************************************************)
(* Sockets come and go: no copy of one appears elsewhere, and none that is *)
(* still open leaves the sets it is sent to through.                       *)
(***************************************************************************)
LEMMA SocketsMove ==
    ASSUME EventsInv, EventsTyped',
           UNCHANGED <<sender, relayed, relay, heard, due, lost>>,
           gone \subseteq gone', opened \subseteq opened',
           \A k \in Socket, w \in Worker :
               With(k, w)' =>
                   \/ With(k, w)
                   \/ k \in opened' \ opened /\ \A v \in Worker : With(k, v)' => v = w,
           \A e \in Event, w \in Worker : \A k \in Audience(e, w) \ gone' : k \in Audience(e, w)'
    PROVE  EventsInv'
<1>1. OneHome'
  <2>. SUFFICES ASSUME NEW k \in Socket, NEW w \in Worker, With(k, w)'
                PROVE  k \in opened' /\ \A v \in Worker : With(k, v)' => v = w
    BY DEF OneHome
  <2>1. CASE With(k, w)
    BY <2>1 DEF EventsInv, OneHome
  <2>2. CASE ~With(k, w)
    BY <2>2
  <2>. QED BY <2>1, <2>2
<1>2. Staged'
  BY DEF EventsInv, Staged, IsSending, IsRelaying
<1>3. HeardOnly'
  <2>. SUFFICES ASSUME NEW e \in Event, NEW k \in Socket, heard'[e][k] # 0
                PROVE  heard'[e][k] = 1 /\ Passed(e, k)'
    BY DEF HeardOnly
  <2>1. heard[e][k] = 1 /\ Passed(e, k)
    BY DEF EventsInv, HeardOnly
  <2>2. k \in opened /\ \A w \in Worker : With(k, w)' => With(k, w)
    BY <2>1 DEF Passed
  <2>3. Passed(e, k)'
    BY <2>1, <2>2 DEF Passed, IsSending, IsRelaying
  <2>. QED BY <2>1, <2>3
<1>4. DueHear'
  <2>. SUFFICES ASSUME NEW e \in Event, NEW k \in due[e] \ gone', heard[e][k] = 0
                PROVE  e \in lost \/ Coming(e, k)'
    BY DEF DueHear
  <2>1. e \in lost \/ Coming(e, k)
    BY DEF EventsInv, DueHear
  <2>2. Coming(e, k) => Coming(e, k)'
    <3>1. CASE IsSending(e) /\ k \in sender[e].left
      BY <3>1 DEF Coming, IsSending
    <3>2. ASSUME NEW w \in Worker, IsSending(e), w # sender[e].worker, k \in Audience(e, w)
          PROVE  Coming(e, k)'
      BY <3>2 DEF Coming, IsSending
    <3>3. ASSUME NEW w \in Worker, e \in relayed[w], k \in Audience(e, w)
          PROVE  Coming(e, k)'
      BY <3>3 DEF Coming
    <3>4. ASSUME NEW w \in Worker, IsRelaying(w, e), k \in relay[w].left
          PROVE  Coming(e, k)'
      BY <3>4 DEF Coming, IsRelaying
    <3>. QED BY <3>1, <3>2, <3>3, <3>4 DEF Coming
  <2>. QED BY <2>1, <2>2
<1>. QED BY <1>1, <1>2, <1>3, <1>4 DEF EventsInv

LEMMA ConnectKeeps ==
    ASSUME EventsInv, NEW k \in Socket, NEW w \in Worker, Connect(k, w)
    PROVE  EventsInv'
<1>. USE DEF Connect, connHistory
<1>1. EventsTyped'
  BY DEF EventsInv, EventsTyped
<1>2. \A v \in Worker : /\ group'[v] = IF v = w THEN group[v] \cup {k} ELSE group[v]
                        /\ mine'[v] = IF v = w THEN mine[v] \cup ({k} \cap owned) ELSE mine[v]
  BY DEF EventsInv, EventsTyped
<1>3. \A j \in Socket, v \in Worker : With(j, v)' => With(j, v) \/ (j = k /\ v = w)
  BY <1>2 DEF With, IsSending
<1>4. \A v \in Worker : ~With(k, v)
  BY DEF EventsInv, OneHome
<1>5. \A e \in Event, v \in Worker : Audience(e, v) \subseteq Audience(e, v)'
  BY <1>2 DEF Audience
<1>. QED BY <1>1, <1>3, <1>4, <1>5, SocketsMove

LEMMA ClientLeavesKeeps ==
    ASSUME EventsInv, NEW k \in Socket, ClientLeaves(k)
    PROVE  EventsInv'
<1>. USE DEF ClientLeaves, connHistory
<1>1. EventsTyped'
  BY DEF EventsInv, EventsTyped
<1>2. \A j \in Socket, v \in Worker : With(j, v)' => With(j, v)
  BY DEF With, IsSending
<1>3. \A e \in Event, v \in Worker : Audience(e, v) \subseteq Audience(e, v)'
  BY DEF Audience
<1>. QED BY <1>1, <1>2, <1>3, SocketsMove

LEMMA DisconnectKeeps ==
    ASSUME EventsInv, NEW k \in Socket, Disconnect(k)
    PROVE  EventsInv'
<1>. USE DEF Disconnect, connHistory
<1>1. EventsTyped'
  BY DEF EventsInv, EventsTyped
<1>2. \A j \in Socket, v \in Worker : With(j, v)' => With(j, v)
  BY DEF With, IsSending
<1>3. \A e \in Event, v \in Worker : \A j \in Audience(e, v) \ gone : j \in Audience(e, v)'
  BY DEF Audience
<1>. QED BY <1>1, <1>2, <1>3, SocketsMove

LEMMA ElsewhereKeeps ==
    ASSUME EventsInv,
           UNCHANGED <<group, mine, gone, opened, sender, relayed, relay, heard, due, lost>>
    PROVE  EventsInv'
<1>1. EventsTyped'
  BY DEF EventsInv, EventsTyped
<1>2. \A j \in Socket, v \in Worker : With(j, v)' => With(j, v)
  BY DEF With, IsSending
<1>3. \A e \in Event, v \in Worker : Audience(e, v) \subseteq Audience(e, v)'
  BY DEF Audience
<1>. QED BY <1>1, <1>2, <1>3, SocketsMove

LEMMA HomeStays ==
    ASSUME OneHome, opened' = opened, \A k \in Socket, w \in Worker : With(k, w)' => With(k, w)
    PROVE  OneHome'
BY DEF OneHome

(***************************************************************************)
(* Whoever hears an event from now on is with the worker that sends it, or *)
(* in the way of it with another.                                          *)
(***************************************************************************)
LEMMA StartSendingKeeps ==
    ASSUME EventsInv, NEW e0 \in Event, NEW w0 \in Worker, StartSending(e0, w0)
    PROVE  EventsInv'
<1>. USE DEF StartSending
<1>. DEFINE A == Audience(e0, w0)
            s == [pc |-> "sending", worker |-> w0, left |-> A, dead |-> {}]
<1>1. \A e \in Event, w \in Worker :
          Audience(e, w) \subseteq Socket /\ \A k \in Audience(e, w) : With(k, w)
  BY DEF EventsInv, EventsTyped, Audience, With
<1>2. s \in Sending
  BY <1>1 DEF Sending
<1>3. EventsTyped'
  <2>1. UNION {Audience(e0, v) : v \in Worker} \subseteq Socket
    BY <1>1
  <2>2. due' \in [Event -> SUBSET Socket]
    BY <2>1 DEF EventsInv, EventsTyped
  <2>3. sender' \in [Event -> {Unsent, Sent} \cup Sending]
    BY <1>2 DEF EventsInv, EventsTyped
  <2>. QED BY <2>2, <2>3 DEF EventsInv, EventsTyped
<1>4. /\ \A e \in Event : sender'[e] = IF e = e0 THEN s ELSE sender[e]
      /\ \A e \in Event : due'[e] = IF e = e0 THEN UNION {Audience(e0, v) : v \in Worker}
                                              ELSE due[e]
      /\ UNCHANGED <<group, mine, gone, opened, relayed, relay, heard, lost>>
  BY DEF EventsInv, EventsTyped
<1>5. s.pc = "sending" /\ s.worker = w0 /\ s.left = A /\ s.dead = {} /\ s # Sent /\ s # Unsent
  BY DEF Sent, Unsent
<1>. HIDE DEF s
<1>6. \A k \in Socket, w \in Worker : With(k, w)' => With(k, w)
  BY <1>1, <1>4, <1>5 DEF With, IsSending
<1>7. OneHome'
  BY <1>4, <1>6, HomeStays DEF EventsInv
<1>8. /\ \A w \in Worker : e0 \notin relayed[w] /\ ~IsRelaying(w, e0)
      /\ \A k \in Socket : heard[e0][k] = 0
  BY DEF EventsInv, Staged, Unsent, Sent
<1>9. Staged'
  <2>. SUFFICES ASSUME NEW e \in Event
       PROVE  /\ sender'[e] # Sent => \A w \in Worker : e \notin relayed[w] /\ ~IsRelaying(w, e)
              /\ sender'[e].pc = "sending" => sender'[e].dead \subseteq gone
              /\ \A w \in Worker : IsRelaying(w, e) => e \notin relayed[w]
              /\ sender'[e] = Unsent => due'[e] = {} /\ \A k \in Socket : heard[e][k] = 0
    BY <1>4 DEF Staged, IsSending, IsRelaying
  <2>1. CASE e = e0
    BY <2>1, <1>4, <1>5, <1>8
  <2>2. CASE e # e0
    BY <2>2, <1>4 DEF EventsInv, Staged, IsSending
  <2>. QED BY <2>1, <2>2
<1>10. HeardOnly'
  <2>. SUFFICES ASSUME NEW e \in Event, NEW k \in Socket, heard[e][k] # 0
                PROVE  heard[e][k] = 1 /\ Passed(e, k)'
    BY <1>4 DEF HeardOnly
  <2>1. heard[e][k] = 1 /\ Passed(e, k) /\ e # e0
    BY <1>8 DEF EventsInv, HeardOnly
  <2>2. Passed(e, k)'
    BY <1>4, <1>6, <2>1 DEF Passed, IsSending, IsRelaying
  <2>. QED BY <2>1, <2>2
<1>11. DueHear'
  <2>. SUFFICES ASSUME NEW e \in Event, NEW k \in due'[e] \ gone, heard[e][k] = 0
                PROVE  e \in lost \/ Coming(e, k)'
    BY <1>4 DEF DueHear
  <2>1. CASE e = e0
    <3>. k \in UNION {Audience(e0, v) : v \in Worker}
      BY <1>4, <2>1
    <3>1. PICK v \in Worker : k \in Audience(e0, v)
      OBVIOUS
    <3>2. k \in Audience(e0, v)'
      BY <1>4, <3>1 DEF Audience
    <3>3. CASE v = w0
      BY <1>4, <1>5, <2>1, <3>1, <3>3 DEF Coming, IsSending
    <3>4. CASE v # w0
      BY <1>4, <1>5, <2>1, <3>2, <3>4 DEF Coming, IsSending
    <3>. QED BY <3>3, <3>4
  <2>2. CASE e # e0
    <3>1. e \in lost \/ Coming(e, k)
      BY <1>4, <2>2 DEF EventsInv, DueHear
    <3>2. Coming(e, k) => Coming(e, k)'
      BY <1>4, <2>2 DEF Coming, IsSending, IsRelaying, Audience
    <3>. QED BY <3>1, <3>2
  <2>. QED BY <2>1, <2>2
<1>. QED BY <1>3, <1>7, <1>9, <1>10, <1>11 DEF EventsInv

LEMMA SendToKeeps ==
    ASSUME EventsInv, NEW e0 \in Event, NEW k0 \in Socket, SendTo(e0, k0)
    PROVE  EventsInv'
<1>. USE DEF SendTo
<1>. DEFINE w0 == sender[e0].worker
            s == [sender[e0] EXCEPT !.left = @ \ {k0}, !.dead = @ \cup ({k0} \cap gone)]
<1>1. sender[e0] \in Sending /\ k0 \in sender[e0].left /\ IsSending(e0)
  BY DEF EventsInv, EventsTyped, Unsent, Sent, IsSending
<1>2. /\ s \in Sending /\ s.pc = "sending" /\ s.worker = w0 /\ s.left = sender[e0].left \ {k0}
      /\ s.dead = sender[e0].dead \cup ({k0} \cap gone)
  BY <1>1 DEF Sending
<1>3. s # Sent /\ s # Unsent /\ sender[e0] # Sent /\ sender[e0] # Unsent
  BY <1>1, <1>2 DEF Sent, Unsent, IsSending
<1>4. /\ sender' = [sender EXCEPT ![e0] = s]
      /\ UNCHANGED <<group, mine, gone, opened, relayed, relay, due, lost>>
  OBVIOUS
<1>. HIDE DEF s, w0
<1>5. heard' \in [Event -> [Socket -> Nat]]
  BY DEF Hear, EventsInv, EventsTyped
<1>6. \A e \in Event, k \in Socket :
          heard'[e][k] = IF e = e0 /\ k = k0 /\ k0 \notin gone THEN heard[e0][k0] + 1 ELSE heard[e][k]
  BY DEF Hear, EventsInv, EventsTyped
<1>. HIDE DEF SendTo
<1>7. EventsTyped'
  <2>1. sender' \in [Event -> {Unsent, Sent} \cup Sending]
    BY <1>2, <1>4 DEF EventsInv, EventsTyped
  <2>. QED BY <1>4, <1>5, <2>1 DEF EventsInv, EventsTyped
<1>8. \A e \in Event : sender'[e] = IF e = e0 THEN s ELSE sender[e]
  BY <1>4 DEF EventsInv, EventsTyped
<1>9. \A k \in Socket, w \in Worker : With(k, w)' => With(k, w)
  BY <1>1, <1>2, <1>4, <1>8 DEF With, IsSending, w0
<1>10. OneHome'
  BY <1>4, <1>9, HomeStays DEF EventsInv
<1>11. With(k0, w0) /\ w0 \in Worker
  BY <1>1 DEF With, w0, Sending
<1>12. heard[e0][k0] = 0
  BY <1>1 DEF EventsInv, HeardOnly, Passed
<1>13. \A w \in Worker : e0 \notin relayed[w] /\ ~IsRelaying(w, e0)
  BY <1>3 DEF EventsInv, Staged
<1>14. Staged'
  <2>. SUFFICES ASSUME NEW e \in Event
       PROVE  /\ sender'[e] # Sent => \A w \in Worker : e \notin relayed[w] /\ ~IsRelaying(w, e)
              /\ sender'[e].pc = "sending" => sender'[e].dead \subseteq gone
              /\ \A w \in Worker : IsRelaying(w, e) => e \notin relayed[w]
              /\ sender'[e] = Unsent => due[e] = {} /\ \A k \in Socket : heard'[e][k] = 0
    <3>. UNCHANGED <<relayed, relay, gone, due>>
      BY <1>4
    <3>. QED BY Zenon DEF Staged, IsSending, IsRelaying
  <2>1. CASE e = e0
    BY <2>1, <1>1, <1>2, <1>3, <1>8, <1>13 DEF EventsInv, Staged
  <2>2. CASE e # e0
    <3>1. sender'[e] = sender[e] /\ \A k \in Socket : heard'[e][k] = heard[e][k]
      BY <1>6, <1>8, <2>2
    <3>. QED BY ONLY <3>1, EventsInv, e \in Event DEF EventsInv, Staged, IsSending
  <2>. QED BY <2>1, <2>2
<1>15. HeardOnly'
  <2>. SUFFICES ASSUME NEW e \in Event, NEW k \in Socket, heard'[e][k] # 0
                PROVE  heard'[e][k] = 1 /\ Passed(e, k)'
    BY DEF HeardOnly
  <2>1. CASE e = e0 /\ k = k0 /\ k0 \notin gone
    <3>1. heard'[e][k] = 1
      BY <1>6, <1>12, <2>1
    <3>2. k0 \in opened /\ \A w \in Worker : With(k0, w) => w = w0
      BY <1>11 DEF EventsInv, OneHome
    <3>3. Passed(e, k)'
      BY <1>2, <1>4, <1>8, <1>9, <1>13, <2>1, <3>2 DEF Passed, IsSending, IsRelaying
    <3>. QED BY <3>1, <3>3
  <2>2. CASE ~ (e = e0 /\ k = k0 /\ k0 \notin gone)
    <3>1. heard'[e][k] = heard[e][k]
      BY <1>6, <2>2
    <3>2. heard[e][k] = 1 /\ Passed(e, k)
      BY <3>1 DEF EventsInv, HeardOnly
    <3>3. Passed(e, k)'
      BY <1>1, <1>2, <1>4, <1>8, <1>9, <3>2 DEF Passed, IsSending, IsRelaying, w0
    <3>. QED BY <3>1, <3>2, <3>3
  <2>. QED BY <2>1, <2>2
<1>16. DueHear'
  <2>. SUFFICES ASSUME NEW e \in Event, NEW k \in due[e] \ gone, heard'[e][k] = 0
                PROVE  e \in lost \/ Coming(e, k)'
    BY <1>4 DEF DueHear
  <2>1. k \in Socket
    BY DEF EventsInv, EventsTyped
  <2>2. heard[e][k] = 0 /\ ~ (e = e0 /\ k = k0)
    BY <1>6, <1>12, <2>1
  <2>3. e \in lost \/ Coming(e, k)
    BY <2>2 DEF EventsInv, DueHear
  <2>4. Coming(e, k) => Coming(e, k)'
    BY <1>1, <1>2, <1>4, <1>8, <2>2 DEF Coming, IsSending, IsRelaying, Audience, w0
  <2>. QED BY <2>3, <2>4
<1>. QED BY <1>7, <1>10, <1>14, <1>15, <1>16 DEF EventsInv

(***************************************************************************)
(* Sockets that failed have left; the others wait for their own worker's   *)
(* listener, or the event is lost to it.                                   *)
(***************************************************************************)
LEMMA PublishKeeps ==
    ASSUME EventsInv, NEW e0 \in Event, Publish(e0)
    PROVE  EventsInv'
<1>. DEFINE w0 == sender[e0].worker
            reached == {v \in Worker : redisUp /\ v \in subscribedTo \ {w0}}
<1>1. /\ sender[e0] \in Sending /\ IsSending(e0) /\ sender[e0].left = {} /\ w0 \in Worker
      /\ sender[e0] # Sent /\ sender[e0].dead \subseteq gone
  BY DEF Publish, EventsInv, EventsTyped, Staged, Unsent, Sent, IsSending, Sending
<1>2. /\ sender' = [sender EXCEPT ![e0] = Sent]
      /\ relayed' = [w \in Worker |-> IF w \in reached THEN relayed[w] \cup {e0} ELSE relayed[w]]
      /\ lost' = lost \/ lost' = lost \cup {e0}
      /\ e0 \notin lost' => \A v \in Worker : v = w0 \/ v \in reached
      /\ UNCHANGED <<gone, opened, relay, heard, due>>
  BY DEF Publish
<1>. HIDE DEF reached
<1>3. /\ group' \in [Worker -> SUBSET Socket] /\ mine' \in [Worker -> SUBSET Socket]
      /\ \A w \in Worker : /\ group'[w] \subseteq group[w] /\ group[w] \ gone \subseteq group'[w]
                           /\ mine'[w] \subseteq mine[w] /\ mine[w] \ gone \subseteq mine'[w]
  <2>1. group \in [Worker -> SUBSET Socket] /\ mine \in [Worker -> SUBSET Socket]
    BY DEF EventsInv, EventsTyped
  <2>2. CASE e0 \in Personal
    BY <1>1, <2>1, <2>2 DEF Publish, DropDead
  <2>3. CASE e0 \notin Personal
    BY <1>1, <2>1, <2>3 DEF Publish, DropDead
  <2>. QED BY <2>2, <2>3
<1>4. EventsTyped'
  <2>1. relayed' \in [Worker -> SUBSET Event]
    BY <1>2 DEF EventsInv, EventsTyped
  <2>2. sender' \in [Event -> {Unsent, Sent} \cup Sending]
    BY <1>2 DEF EventsInv, EventsTyped
  <2>. QED BY <1>2, <1>3, <2>1, <2>2 DEF EventsInv, EventsTyped
<1>5. /\ \A e \in Event : sender'[e] = IF e = e0 THEN Sent ELSE sender[e]
      /\ \A w \in Worker, e \in Event :
             e \in relayed'[w] <=> e \in relayed[w] \/ (e = e0 /\ w \in reached)
  BY <1>2 DEF EventsInv, EventsTyped
<1>6. Sent.pc # "sending" /\ Sent # Unsent
  BY DEF Sent, Unsent
<1>7. \A k \in Socket, w \in Worker : With(k, w)' => With(k, w)
  BY <1>2, <1>3, <1>5, <1>6 DEF With, IsSending
<1>8. OneHome'
  BY <1>2, <1>7, HomeStays DEF EventsInv
<1>9. \A w \in Worker : e0 \notin relayed[w] /\ ~IsRelaying(w, e0)
  BY <1>1 DEF EventsInv, Staged
<1>10. Staged'
  <2>1. UNCHANGED <<relay, gone, due, heard>>
    BY <1>2
  <2>. SUFFICES ASSUME NEW e \in Event
       PROVE  /\ sender'[e] # Sent => \A w \in Worker : e \notin relayed'[w] /\ ~IsRelaying(w, e)
              /\ sender'[e].pc = "sending" => sender'[e].dead \subseteq gone
              /\ \A w \in Worker : IsRelaying(w, e) => e \notin relayed'[w]
              /\ sender'[e] = Unsent => due[e] = {} /\ \A k \in Socket : heard[e][k] = 0
    BY <2>1, Zenon DEF Staged, IsSending, IsRelaying
  <2>2. CASE e = e0
    BY <2>2, <1>5, <1>6, <1>9
  <2>3. CASE e # e0
    BY <2>3, <1>5 DEF EventsInv, Staged, IsSending
  <2>. QED BY <2>2, <2>3
<1>11. HeardOnly'
  <2>. SUFFICES ASSUME NEW e \in Event, NEW k \in Socket, heard[e][k] # 0
                PROVE  heard[e][k] = 1 /\ Passed(e, k)'
    BY <1>2 DEF HeardOnly
  <2>1. heard[e][k] = 1 /\ Passed(e, k)
    BY DEF EventsInv, HeardOnly
  <2>2. e = e0 => \A w \in Worker : With(k, w) => w \notin reached
    BY <1>1, <2>1 DEF Passed, reached
  <2>3. Passed(e, k)'
    BY <1>2, <1>5, <1>6, <1>7, <2>1, <2>2 DEF Passed, IsSending, IsRelaying
  <2>. QED BY <2>1, <2>3
<1>12. DueHear'
  <2>. SUFFICES ASSUME NEW e \in Event, NEW k \in due[e] \ gone, heard[e][k] = 0, e \notin lost'
                PROVE  Coming(e, k)'
    BY <1>2 DEF DueHear
  <2>1. Coming(e, k)
    BY <1>2 DEF EventsInv, DueHear
  <2>2. \A w \in Worker : k \in Audience(e, w) => k \in Audience(e, w)'
    BY <1>3 DEF Audience
  <2>3. CASE e = e0
    <3>1. PICK w \in Worker : w # w0 /\ k \in Audience(e, w)
      BY <1>1, <1>9, <2>1, <2>3 DEF Coming
    <3>2. e \in relayed'[w]
      BY <1>2, <1>5, <2>3, <3>1
    <3>. QED BY <2>2, <3>1, <3>2 DEF Coming
  <2>4. CASE e # e0
    BY <1>2, <1>5, <2>1, <2>2, <2>4 DEF Coming, IsSending, IsRelaying
  <2>. QED BY <2>3, <2>4
<1>. QED BY <1>4, <1>8, <1>10, <1>11, <1>12 DEF EventsInv

(***************************************************************************)
(* A listener that takes an event up sends it to all it is for.            *)
(***************************************************************************)
LEMMA ReceiveKeeps ==
    ASSUME EventsInv, NEW w0 \in Worker, NEW e0 \in Event, Receive(w0, e0)
    PROVE  EventsInv'
<1>. USE DEF Receive, connHistory
<1>. DEFINE A == Audience(e0, w0)
            q == IF A = {} THEN NoRelay ELSE [event |-> e0, left |-> A]
<1>1. A \subseteq Socket /\ \A k \in A : With(k, w0)
  BY DEF EventsInv, EventsTyped, Audience, With
<1>2. /\ q \in {NoRelay} \cup Relaying
      /\ q # NoRelay => q.event = e0 /\ q.left = A
      /\ A # {} => q # NoRelay
  <2>1. [event |-> e0, left |-> A] # NoRelay
    BY DEF NoRelay
  <2>. QED BY <1>1, <2>1 DEF Relaying
<1>. HIDE DEF q, A
<1>3. /\ relay' = [relay EXCEPT ![w0] = q] /\ relay[w0] = NoRelay
      /\ relayed' = [relayed EXCEPT ![w0] = @ \ {e0}] /\ e0 \in relayed[w0]
      /\ UNCHANGED <<group, mine, gone, opened, sender, heard, due, lost>>
  BY DEF q, A
<1>. HIDE DEF Receive
<1>4. EventsTyped'
  <2>1. relayed' \in [Worker -> SUBSET Event]
    BY <1>3 DEF EventsInv, EventsTyped
  <2>2. relay' \in [Worker -> {NoRelay} \cup Relaying]
    BY <1>2, <1>3 DEF EventsInv, EventsTyped
  <2>. QED BY <1>3, <2>1, <2>2 DEF EventsInv, EventsTyped
<1>5. /\ \A w \in Worker : relay'[w] = IF w = w0 THEN q ELSE relay[w]
      /\ \A w \in Worker, e \in Event :
             e \in relayed'[w] <=> e \in relayed[w] /\ ~ (w = w0 /\ e = e0)
  BY <1>3 DEF EventsInv, EventsTyped
<1>6. \A k \in Socket, w \in Worker : With(k, w)' => With(k, w)
  BY <1>1, <1>2, <1>3, <1>5 DEF With, IsSending
<1>7. OneHome'
  BY <1>3, <1>6, HomeStays DEF EventsInv
<1>8. sender[e0] = Sent /\ ~IsSending(e0)
  BY <1>3 DEF EventsInv, Staged, Sent, IsSending
<1>9. Staged'
  <2>1. UNCHANGED <<gone, due, heard, sender>>
    BY <1>3
  <2>2. \A w \in Worker, e \in Event :
            IsRelaying(w, e)' => IsRelaying(w, e) \/ (w = w0 /\ e = e0)
    BY <1>2, <1>5 DEF IsRelaying
  <2>. SUFFICES ASSUME NEW e \in Event
       PROVE  /\ sender[e] # Sent => \A w \in Worker : e \notin relayed'[w] /\ ~IsRelaying(w, e)'
              /\ IsSending(e) => sender[e].dead \subseteq gone
              /\ \A w \in Worker : IsRelaying(w, e)' => e \notin relayed'[w]
              /\ sender[e] = Unsent => due[e] = {} /\ \A k \in Socket : heard[e][k] = 0
    BY <2>1, Zenon DEF Staged, IsSending
  <2>3. sender[e] # Sent => e # e0
    BY <1>8
  <2>4. /\ sender[e] # Sent => \A w \in Worker : e \notin relayed[w] /\ ~IsRelaying(w, e)
        /\ IsSending(e) => sender[e].dead \subseteq gone
        /\ \A w \in Worker : IsRelaying(w, e) => e \notin relayed[w]
        /\ sender[e] = Unsent => due[e] = {} /\ \A k \in Socket : heard[e][k] = 0
    BY DEF EventsInv, Staged
  <2>. QED BY <1>5, <2>2, <2>3, <2>4
<1>10. HeardOnly'
  <2>. SUFFICES ASSUME NEW e \in Event, NEW k \in Socket, heard[e][k] # 0
                PROVE  heard[e][k] = 1 /\ Passed(e, k)'
    BY <1>3 DEF HeardOnly
  <2>1. heard[e][k] = 1 /\ Passed(e, k)
    BY DEF EventsInv, HeardOnly
  <2>2. e = e0 => k \notin A
    BY <1>1, <1>3, <2>1 DEF Passed
  <2>3. Passed(e, k)'
    BY <1>2, <1>3, <1>5, <1>6, <2>1, <2>2 DEF Passed, IsSending, IsRelaying
  <2>. QED BY <2>1, <2>3
<1>11. DueHear'
  <2>. SUFFICES ASSUME NEW e \in Event, NEW k \in due[e] \ gone, heard[e][k] = 0, e \notin lost
                PROVE  Coming(e, k)'
    BY <1>3 DEF DueHear
  <2>1. Coming(e, k)
    BY DEF EventsInv, DueHear
  <2>2. \A w \in Worker : Audience(e, w)' = Audience(e, w)
    BY <1>3 DEF Audience
  <2>3. CASE IsSending(e)
    BY <1>3, <1>8, <2>3, <2>1, <2>2, <1>5 DEF Coming, IsSending, IsRelaying, EventsInv, Staged, Sent
  <2>4. CASE ~IsSending(e)
    <3>1. PICK w \in Worker : \/ e \in relayed[w] /\ k \in Audience(e, w)
                              \/ IsRelaying(w, e) /\ k \in relay[w].left
      BY <2>1, <2>4 DEF Coming
    <3>2. CASE w = w0 /\ e = e0
      <4>1. k \in A
        BY <1>3, <3>1, <3>2 DEF A, IsRelaying
      <4>2. IsRelaying(w0, e0)' /\ k \in relay'[w0].left
        BY <1>2, <1>5, <4>1 DEF IsRelaying
      <4>. QED BY <3>2, <4>2 DEF Coming
    <3>3. CASE ~ (w = w0 /\ e = e0)
      BY <1>3, <1>5, <2>2, <3>1, <3>3 DEF Coming, IsRelaying
    <3>. QED BY <3>2, <3>3
  <2>. QED BY <2>3, <2>4
<1>. QED BY <1>4, <1>7, <1>9, <1>10, <1>11 DEF EventsInv

LEMMA RelayToKeeps ==
    ASSUME EventsInv, NEW w0 \in Worker, NEW k0 \in Socket, RelayTo(w0, k0)
    PROVE  EventsInv'
<1>. USE DEF RelayTo
<1>. DEFINE e0 == relay[w0].event
            L == relay[w0].left
            q == IF L = {k0} THEN NoRelay ELSE [relay[w0] EXCEPT !.left = @ \ {k0}]
<1>1. relay[w0] \in Relaying /\ k0 \in L /\ e0 \in Event /\ IsRelaying(w0, e0)
  BY DEF EventsInv, EventsTyped, Relaying, IsRelaying
<1>2. /\ q \in {NoRelay} \cup Relaying
      /\ q # NoRelay => q.event = e0 /\ q.left = L \ {k0}
      /\ L # {k0} => q # NoRelay
  <2>1. [relay[w0] EXCEPT !.left = @ \ {k0}] \in Relaying
    BY <1>1 DEF Relaying
  <2>2. \A x \in Relaying : x # NoRelay
    BY DEF Relaying, NoRelay
  <2>. QED BY <1>1, <2>1, <2>2 DEF Relaying
<1>3. /\ relay' = [relay EXCEPT ![w0] = q]
      /\ Hear(e0, k0)
      /\ UNCHANGED <<group, mine, gone, opened, sender, relayed, due, lost>>
  <2>1. relay' = [relay EXCEPT ![w0] = q]
    OBVIOUS
  <2>2. Hear(e0, k0)
    BY Zenon
  <2>3. UNCHANGED <<group, mine, gone, opened, sender, relayed, due, lost>>
    OBVIOUS
  <2>. QED BY ONLY <2>1, <2>2, <2>3
<1>4. heard' \in [Event -> [Socket -> Nat]]
  BY <1>1, <1>3 DEF Hear, EventsInv, EventsTyped
<1>5. \A e \in Event, k \in Socket :
          heard'[e][k] = IF e = e0 /\ k = k0 /\ k0 \notin gone THEN heard[e0][k0] + 1 ELSE heard[e][k]
  BY <1>1, <1>3 DEF Hear, EventsInv, EventsTyped
<1>6. \A w \in Worker : relay'[w] = IF w = w0 THEN q ELSE relay[w]
  BY <1>3 DEF EventsInv, EventsTyped
<1>7. EventsTyped'
  <2>1. relay' \in [Worker -> {NoRelay} \cup Relaying]
    BY <1>2, <1>3 DEF EventsInv, EventsTyped
  <2>. QED BY <1>3, <1>4, <2>1 DEF EventsInv, EventsTyped
<1>8. relay[w0] # NoRelay
  OBVIOUS
<1>9. With(k0, w0)
  BY <1>1, <1>8 DEF With
<1>10. heard[e0][k0] = 0 /\ \A w \in Worker : IsRelaying(w, e0) => e0 \notin relayed[w]
  BY <1>1 DEF EventsInv, HeardOnly, Passed, Staged
<1>11. sender[e0] = Sent /\ ~IsSending(e0)
  BY <1>1 DEF EventsInv, Staged, Sent, IsSending
<1>. HIDE DEF q, L, e0, RelayTo
<1>12. \A w \in Worker, e \in Event :
           IsRelaying(w, e)' => IsRelaying(w, e) /\ (w = w0 => e = e0)
  BY <1>2, <1>6, <1>8 DEF IsRelaying, e0
<1>13. \A k \in Socket, w \in Worker : With(k, w)' => With(k, w)
  BY <1>1, <1>2, <1>3, <1>6, <1>8 DEF With, IsSending, L
<1>14. OneHome'
  BY <1>3, <1>13, HomeStays DEF EventsInv
<1>15. Staged'
  <2>1. UNCHANGED <<gone, due, relayed, sender>>
    BY <1>3
  <2>. SUFFICES ASSUME NEW e \in Event
       PROVE  /\ sender[e] # Sent => \A w \in Worker : e \notin relayed[w] /\ ~IsRelaying(w, e)'
              /\ IsSending(e) => sender[e].dead \subseteq gone
              /\ \A w \in Worker : IsRelaying(w, e)' => e \notin relayed[w]
              /\ sender[e] = Unsent => due[e] = {} /\ \A k \in Socket : heard'[e][k] = 0
    BY <2>1, Zenon DEF Staged, IsSending
  <2>2. sender[e] = Unsent => \A k \in Socket : heard'[e][k] = heard[e][k]
    BY <1>5, <1>11 DEF Sent, Unsent
  <2>. QED BY <1>12, <2>2 DEF EventsInv, Staged
<1>16. HeardOnly'
  <2>. SUFFICES ASSUME NEW e \in Event, NEW k \in Socket, heard'[e][k] # 0
                PROVE  heard'[e][k] = 1 /\ Passed(e, k)'
    BY DEF HeardOnly
  <2>1. CASE e = e0 /\ k = k0 /\ k0 \notin gone
    <3>1. heard'[e][k] = 1
      BY <1>5, <1>10, <2>1
    <3>2. k0 \in opened /\ \A w \in Worker : With(k0, w) => w = w0
      BY <1>9 DEF EventsInv, OneHome
    <3>3. ASSUME NEW w \in Worker, IsRelaying(w, e)' PROVE k \notin relay'[w].left
      <4>1. CASE w = w0
        BY <1>2, <1>6, <2>1, <3>3, <4>1 DEF IsRelaying
      <4>2. CASE w # w0
        BY <1>6, <2>1, <3>2, <3>3, <4>2 DEF IsRelaying, With
      <4>. QED BY <4>1, <4>2
    <3>4. ASSUME NEW w \in Worker, With(k, w)' PROVE e \notin relayed'[w]
      BY <1>1, <1>3, <1>10, <1>13, <2>1, <3>2, <3>4
    <3>5. k \in opened' /\ ~IsSending(e)'
      BY <1>3, <1>11, <2>1, <3>2 DEF IsSending
    <3>6. Passed(e, k)'
      BY <3>3, <3>4, <3>5 DEF Passed
    <3>. QED BY <3>1, <3>6
  <2>2. CASE ~ (e = e0 /\ k = k0 /\ k0 \notin gone)
    <3>1. heard'[e][k] = heard[e][k]
      BY <1>5, <2>2
    <3>2. heard[e][k] = 1 /\ Passed(e, k)
      BY <3>1 DEF EventsInv, HeardOnly
    <3>3. ASSUME NEW w \in Worker, IsRelaying(w, e)' PROVE k \notin relay'[w].left
      <4>1. IsRelaying(w, e) /\ k \notin relay[w].left
        BY <1>12, <3>2, <3>3 DEF Passed
      <4>. QED BY <1>2, <1>6, <3>3, <4>1 DEF IsRelaying, L
    <3>4. Passed(e, k)'
      BY <1>3, <1>13, <3>2, <3>3 DEF Passed, IsSending
    <3>. QED BY <3>1, <3>2, <3>4
  <2>. QED BY <2>1, <2>2
<1>17. DueHear'
  <2>. SUFFICES ASSUME NEW e \in Event, NEW k \in due[e] \ gone, heard'[e][k] = 0, e \notin lost
                PROVE  Coming(e, k)'
    BY <1>3 DEF DueHear
  <2>1. k \in Socket
    BY DEF EventsInv, EventsTyped
  <2>2. heard[e][k] = 0 /\ ~ (e = e0 /\ k = k0)
    BY <1>5, <1>10, <2>1
  <2>3. Coming(e, k)
    BY <2>2 DEF EventsInv, DueHear
  <2>4. ASSUME NEW w \in Worker, IsRelaying(w, e), k \in relay[w].left
        PROVE  IsRelaying(w, e)' /\ k \in relay'[w].left
    <3>1. CASE w = w0
      <4>1. e = e0 /\ k \in L /\ k # k0
        BY <2>2, <2>4, <3>1 DEF IsRelaying, e0, L
      <4>. QED BY <1>2, <1>6, <3>1, <4>1 DEF IsRelaying
    <3>2. CASE w # w0
      BY <1>6, <2>4, <3>2 DEF IsRelaying
    <3>. QED BY <3>1, <3>2
  <2>5. \A w \in Worker : Audience(e, w)' = Audience(e, w)
    BY <1>3 DEF Audience
  <2>. QED BY <1>3, <2>3, <2>4, <2>5 DEF Coming, IsSending
<1>. QED BY <1>7, <1>14, <1>15, <1>16, <1>17 DEF EventsInv

(***************************************************************************)
(* What was on its way to a listener that loses its subscription is lost.  *)
(***************************************************************************)
LEMMA LoseSubscriptionKeeps ==
    ASSUME EventsInv, NEW w0 \in Worker, LoseSubscription(w0)
    PROVE  EventsInv'
<1>1. /\ relayed' = [relayed EXCEPT ![w0] = {}] /\ lost' = lost \cup relayed[w0]
      /\ UNCHANGED <<group, mine, gone, opened, sender, relay, heard, due>>
  BY DEF LoseSubscription
<1>2. EventsTyped'
  <2>1. relayed' \in [Worker -> SUBSET Event]
    BY <1>1 DEF EventsInv, EventsTyped
  <2>. QED BY <1>1, <2>1 DEF EventsInv, EventsTyped
<1>3. \A w \in Worker : relayed'[w] = IF w = w0 THEN {} ELSE relayed[w]
  BY <1>1 DEF EventsInv, EventsTyped
<1>4. \A k \in Socket, w \in Worker : With(k, w)' => With(k, w)
  BY <1>1 DEF With, IsSending
<1>5. OneHome'
  BY <1>1, <1>4, HomeStays DEF EventsInv
<1>6. Staged'
  BY <1>1, <1>3 DEF EventsInv, Staged, IsSending, IsRelaying
<1>7. HeardOnly'
  <2>. SUFFICES ASSUME NEW e \in Event, NEW k \in Socket, heard[e][k] # 0
                PROVE  heard[e][k] = 1 /\ Passed(e, k)'
    BY <1>1 DEF HeardOnly
  <2>1. heard[e][k] = 1 /\ Passed(e, k)
    BY DEF EventsInv, HeardOnly
  <2>2. Passed(e, k)'
    BY <1>1, <1>3, <1>4, <2>1 DEF Passed, IsSending, IsRelaying
  <2>. QED BY <2>1, <2>2
<1>8. DueHear'
  <2>. SUFFICES ASSUME NEW e \in Event, NEW k \in due[e] \ gone, heard[e][k] = 0, e \notin lost'
                PROVE  Coming(e, k)'
    BY <1>1 DEF DueHear
  <2>1. Coming(e, k) /\ e \notin relayed[w0]
    BY <1>1 DEF EventsInv, DueHear
  <2>2. \A w \in Worker : Audience(e, w)' = Audience(e, w)
    BY <1>1 DEF Audience
  <2>. QED BY <1>1, <1>3, <2>1, <2>2 DEF Coming, IsSending, IsRelaying
<1>. QED BY <1>2, <1>5, <1>6, <1>7, <1>8 DEF EventsInv

LEMMA EventsStep == EventsInv /\ [ConnectionsNext]_connVars => EventsInv'
<1>. SUFFICES ASSUME EventsInv, [ConnectionsNext]_connVars PROVE EventsInv'
  OBVIOUS
<1>1. CASE UNCHANGED connVars
  BY <1>1, ElsewhereKeeps DEF connVars, connHistory
<1>2. ASSUME NEW w \in Worker, Subscribe(w) PROVE EventsInv'
  BY <1>2, ElsewhereKeeps DEF Subscribe, connHistory
<1>. QED BY <1>1, <1>2, ConnectKeeps, RelayToKeeps, ClientLeavesKeeps, DisconnectKeeps, SendToKeeps,
            PublishKeeps, StartSendingKeeps, ReceiveKeeps, LoseSubscriptionKeeps
         DEF ConnectionsNext, Broadcast, Notify

(***************************************************************************)
(* What the invariant of the events leaves open of the types.              *)
(***************************************************************************)
SocketsTyped ==
    /\ owned \subseteq Socket /\ mine \in [Worker -> SUBSET owned]
    /\ gone \subseteq opened /\ opened \subseteq Socket /\ (opened # {} => Worker # {})
    /\ subscribedTo \subseteq Worker /\ unheard \in 0..MaxUnheard /\ lost \subseteq Event

LEMMA SocketsStep ==
    EventsTyped /\ SocketsTyped /\ [ConnectionsNext]_connVars => SocketsTyped'
<1>. SUFFICES ASSUME EventsTyped, SocketsTyped, [ConnectionsNext]_connVars PROVE SocketsTyped'
  OBVIOUS
<1>. USE DEF SocketsTyped
<1>1. ASSUME NEW k \in Socket, NEW w \in Worker, Connect(k, w) PROVE SocketsTyped'
  BY <1>1 DEF Connect, connHistory
<1>2. ASSUME NEW k \in Socket, ClientLeaves(k) PROVE SocketsTyped'
  BY <1>2 DEF ClientLeaves, Live, connHistory
<1>3. ASSUME NEW k \in Socket, Disconnect(k) PROVE SocketsTyped'
  BY <1>3 DEF Disconnect, connHistory
<1>4. ASSUME NEW e \in Event, Publish(e) PROVE SocketsTyped'
  <2>1. mine' \in [Worker -> SUBSET owned] /\ owned' = owned
    BY <1>4 DEF Publish, DropDead
  <2>2. lost' \subseteq Event
    BY <1>4 DEF Publish
  <2>. QED BY <1>4, <2>1, <2>2 DEF Publish
<1>5. ASSUME NEW w \in Worker, LoseSubscription(w) PROVE SocketsTyped'
  <2>1. unheard' \in 0..MaxUnheard
    BY <1>5, ConnectionsAssumption DEF LoseSubscription
  <2>2. lost' \subseteq Event
    BY <1>5 DEF LoseSubscription, EventsTyped
  <2>. QED BY <1>5, <2>1, <2>2 DEF LoseSubscription
<1>6. ASSUME NEW w \in Worker, Subscribe(w) PROVE SocketsTyped'
  BY <1>6 DEF Subscribe, connHistory
<1>7. ASSUME UNCHANGED <<mine, owned, gone, opened, subscribedTo, unheard, lost>>
      PROVE  SocketsTyped'
  BY <1>7
<1>8. ASSUME NEW k \in Socket,
             (\E w \in Worker : RelayTo(w, k)) \/ (\E e \in Event : SendTo(e, k))
      PROVE  UNCHANGED <<mine, owned, gone, opened, subscribedTo, unheard, lost>>
  BY <1>8 DEF RelayTo, SendTo
<1>9. ASSUME NEW e \in Event, NEW w \in Worker, Broadcast(e, w) \/ Notify(e, w) \/ Receive(w, e)
      PROVE  UNCHANGED <<mine, owned, gone, opened, subscribedTo, unheard, lost>>
  BY <1>9 DEF Broadcast, Notify, StartSending, Receive, connHistory
<1>10. ASSUME UNCHANGED connVars
       PROVE  UNCHANGED <<mine, owned, gone, opened, subscribedTo, unheard, lost>>
  BY <1>10 DEF connVars, connHistory
<1>. HIDE DEF SocketsTyped
<1>. QED BY <1>1, <1>2, <1>3, <1>4, <1>5, <1>6, <1>7, <1>8, <1>9, <1>10 DEF ConnectionsNext

LEMMA InitSockets == ConnectionsInit => SocketsTyped
BY ConnectionsAssumption DEF ConnectionsInit, SocketsTyped

LEMMA ConnectionsHold == EventsInv /\ SocketsTyped => ConnectionsTypeOK
<1>. SUFFICES ASSUME EventsInv, SocketsTyped PROVE ConnectionsTypeOK
  OBVIOUS
<1>1. heard \in [Event -> [Socket -> 0..Cardinality(Worker)]]
  <2>1. ASSUME NEW e \in Event, NEW k \in Socket PROVE heard[e][k] \in 0..Cardinality(Worker)
    <3>1. Cardinality(Worker) \in Nat /\ (Worker # {} => Cardinality(Worker) # 0)
      BY FiniteWorkers, FS_CardinalityType, FS_EmptySet
    <3>2. heard[e][k] # 0 => heard[e][k] = 1 /\ k \in opened
      BY DEF EventsInv, HeardOnly, Passed
    <3>3. k \in opened => Worker # {}
      BY DEF SocketsTyped
    <3>. QED BY <3>1, <3>2, <3>3
  <2>. QED BY <2>1 DEF EventsInv, EventsTyped
<1>2. \A w \in Worker : relay[w] = NoRelay \/
          (relay[w].event \in Event /\ relay[w].left \subseteq Socket)
  <2>. SUFFICES ASSUME NEW w \in Worker, relay[w] # NoRelay
                PROVE  relay[w].event \in Event /\ relay[w].left \subseteq Socket
    OBVIOUS
  <2>1. relay[w] \in Relaying
    BY DEF EventsInv, EventsTyped
  <2>. QED BY <2>1 DEF Relaying
<1>. QED BY <1>1, <1>2 DEF EventsInv, EventsTyped, SocketsTyped, ConnectionsTypeOK, Sending

LEMMA ConnectionsTypes == ConnectionsInit /\ [][ConnectionsNext]_connVars => []ConnectionsTypeOK
<1>1. EventsInv => EventsTyped
  BY DEF EventsInv
<1>. QED BY <1>1, InitEvents, EventsStep, InitSockets, SocketsStep, ConnectionsHold, PTL

------------------------------------------------------------------------------
(***************************************************************************)
(* Access tokens.  A logout recorded in Redis outlives its token, for      *)
(* every lifetime and every resolution of the clock: whole seconds are     *)
(* enough because the time left is rounded up (the expiry is a whole       *)
(* second, the present one is rounded down).                               *)
(***************************************************************************)
AccessTyped ==
    /\ now \in Nat /\ redisUp \in BOOLEAN
    /\ expires \in [AccessToken -> Nat]
    /\ blocked \in [AccessToken -> Nat]
    /\ ended \in [AccessToken -> {"no", "redis", "memory"}]

\* A request works with a token that was issued.
VisitsIssued ==
    visit \in [Door -> {Outside} \cup
                  {v \in [pc: {"verified", "authenticated", "admitted"}, worker: Worker,
                          token: AccessToken] : expires[v.token] # 0}]

\* The key of a token logged out in Redis lives as long as the token.
BlockedToTheEnd ==
    \A t \in AccessToken :
        ended[t] = "redis" => expires[t] # 0 /\ Second * expires[t] <= blocked[t]

AccessInv == AccessTyped /\ VisitsIssued /\ BlockedToTheEnd

------------------------------------------------------------------------------
(***************************************************************************)
(* The seconds a token has left, at least one, counted from the present    *)
(* instant reach its expiry.                                               *)
(***************************************************************************)
LEMMA SecondsReach ==
    ASSUME NEW n \in Nat, NEW s \in Nat \ {0}, NEW e \in Nat,
           NEW left, left = e - n \div s,
           NEW ttl, ttl = IF left < 1 THEN 1 ELSE left
    PROVE  n + s * ttl \in Nat /\ s * e <= n + s * ttl
<1>. DEFINE q == n \div s
<1>1. q \in Nat /\ s * q <= n
  OBVIOUS
<1>2. ttl \in Nat /\ e <= q + ttl
  BY <1>1
<1>3. s * e <= s * (q + ttl)
  BY <1>1, <1>2
<1>4. s * (q + ttl) = s * q + s * ttl /\ s * ttl \in Nat /\ s * q \in Nat /\ s * e \in Nat
  BY <1>1, <1>2
<1>. HIDE DEF q
<1>. QED BY <1>1, <1>3, <1>4

(***************************************************************************)
(* Steps that leave the tokens and the lists alone: they can only break    *)
(* the requests.                                                           *)
(***************************************************************************)
LEMMA TokensAlone ==
    ASSUME AccessInv, VisitsIssued', now' \in Nat, redisUp' \in BOOLEAN,
           UNCHANGED <<expires, blocked, ended>>
    PROVE  AccessInv'
BY DEF AccessInv, AccessTyped, BlockedToTheEnd

LEMMA InitAccess == DeploymentInit /\ AccessInit => AccessInv
BY AccessAssumption DEF DeploymentInit, AccessInit, AccessInv, AccessTyped, VisitsIssued,
                        BlockedToTheEnd, AccessToken, Outside

LEMMA EnterKeeps ==
    ASSUME AccessInv, NEW d \in Door, NEW w \in Worker, NEW t \in AccessToken, Enter(d, w, t)
    PROVE  AccessInv'
<1>1. expires[t] # 0
  BY AccessAssumption DEF Enter, Verifies, AccessInv, AccessTyped
<1>2. VisitsIssued'
  BY <1>1 DEF Enter, Visit, AccessInv, VisitsIssued
<1>. QED BY <1>2, TokensAlone DEF Enter, deployment, AccessInv, AccessTyped

LEMMA VisitKeeps ==
    ASSUME AccessInv, NEW d \in Door, Authenticate(d) \/ RequireAuth(d) \/ Respond(d)
    PROVE  AccessInv'
<1>. USE DEF Visit, Leave, AccessInv, VisitsIssued, Outside
<1>1. CASE Authenticate(d)
  <2>1. VisitsIssued'
    BY <1>1 DEF Authenticate
  <2>. QED BY <1>1, <2>1, TokensAlone DEF Authenticate, deployment, AccessTyped
<1>2. CASE RequireAuth(d)
  <2>1. VisitsIssued'
    BY <1>2 DEF RequireAuth
  <2>. QED BY <1>2, <2>1, TokensAlone DEF RequireAuth, deployment, AccessTyped
<1>3. CASE Respond(d)
  <2>1. VisitsIssued'
    BY <1>3 DEF Respond
  <2>. QED BY <1>3, <2>1, TokensAlone DEF Respond, deployment, AccessTyped
<1>. QED BY <1>1, <1>2, <1>3

(***************************************************************************)
(* A new token was not logged out, and the others keep their expiry.       *)
(***************************************************************************)
LEMMA SwitchKeeps ==
    ASSUME AccessInv, NEW d \in Door, NEW t \in AccessToken, SwitchWorkspace(d, t)
    PROVE  AccessInv'
<1>. USE AccessAssumption DEF SwitchWorkspace, IssueToken, Leave, Visit
<1>. DEFINE e == now \div Second + TokenSeconds
<1>1. e \in Nat \ {0}
  BY DEF AccessInv, AccessTyped
<1>. HIDE DEF e
<1>2. expires' = [expires EXCEPT ![t] = e]
  BY DEF e
<1>3. AccessTyped'
  BY <1>1, <1>2 DEF AccessInv, AccessTyped, deployment
<1>4. \A u \in AccessToken : expires'[u] # 0 <=> expires[u] # 0 \/ u = t
  BY <1>1, <1>2 DEF AccessInv, AccessTyped
<1>5. VisitsIssued'
  BY <1>4 DEF AccessInv, VisitsIssued
<1>6. BlockedToTheEnd'
  BY <1>2, <1>4 DEF AccessInv, AccessTyped, BlockedToTheEnd
<1>. QED BY <1>3, <1>5, <1>6 DEF AccessInv

LEMMA LogOutKeeps ==
    ASSUME AccessInv, NEW d \in Door, LogOut(d)
    PROVE  AccessInv'
<1>. USE AccessAssumption
<1>. DEFINE t    == visit[d].token
            left == expires[t] - now \div Second
            ttl  == IF left < 1 THEN 1 ELSE left
            end  == now + Second * ttl
<1>1. t \in AccessToken /\ expires[t] # 0
  BY DEF LogOut, AccessInv, VisitsIssued, Outside
<1>2. end \in Nat /\ Second * expires[t] <= end
  BY <1>1, SecondsReach DEF AccessInv, AccessTyped
<1>3. /\ blocked' = IF redisUp THEN [blocked EXCEPT ![t] = end] ELSE blocked
      /\ ended' = [ended EXCEPT ![t] = IF @ = "redis" \/ redisUp THEN "redis" ELSE "memory"]
      /\ UNCHANGED <<now, redisUp, expires>>
  BY DEF LogOut, RevokeToken, deployment
<1>4. VisitsIssued'
  BY <1>3 DEF LogOut, Leave, Visit, AccessInv, VisitsIssued
<1>. HIDE DEF end, t
<1>5. AccessTyped'
  BY <1>1, <1>2, <1>3 DEF AccessInv, AccessTyped
<1>6. ASSUME NEW u \in AccessToken, ended'[u] = "redis"
      PROVE  expires'[u] # 0 /\ Second * expires'[u] <= blocked'[u]
  <2>1. CASE u = t /\ redisUp
    BY <2>1, <1>1, <1>2, <1>3 DEF AccessInv, AccessTyped
  <2>2. CASE u # t \/ ~redisUp
    <3>1. ended[u] = "redis" /\ blocked'[u] = blocked[u]
      BY <1>3, <1>6, <2>2 DEF AccessInv, AccessTyped
    <3>. QED BY <1>3, <3>1 DEF AccessInv, BlockedToTheEnd
  <2>. QED BY <2>1, <2>2
<1>7. BlockedToTheEnd'
  BY <1>6 DEF BlockedToTheEnd
<1>. QED BY <1>4, <1>5, <1>7 DEF AccessInv

(***************************************************************************)
(* Restarts, outages and time do not touch Redis' list or a token.         *)
(***************************************************************************)
LEMMA WorldKeeps ==
    ASSUME AccessInv,
           \/ \E w \in Worker : RestartWorker(w)
           \/ TimePasses /\ UNCHANGED accessVars
           \/ (RedisFails \/ RedisRecovers) /\ UNCHANGED accessVars
           \/ UNCHANGED <<deployment, accessVars>>
    PROVE  AccessInv'
<1>1. UNCHANGED <<expires, blocked, ended>>
  BY DEF RestartWorker, accessVars
<1>2. VisitsIssued'
  BY DEF RestartWorker, accessVars, AccessInv, VisitsIssued
<1>3. now \in Nat /\ redisUp \in BOOLEAN
  BY DEF AccessInv, AccessTyped
<1>4. now' \in {now, now + 1} /\ redisUp' \in {redisUp, TRUE, FALSE}
  <2>1. CASE TimePasses
    BY <2>1 DEF TimePasses
  <2>2. CASE RedisFails \/ RedisRecovers
    BY <2>2 DEF RedisFails, RedisRecovers
  <2>3. CASE UNCHANGED deployment
    BY <2>3 DEF deployment
  <2>. QED BY <2>1, <2>2, <2>3 DEF RestartWorker
<1>5. now' \in Nat
  BY <1>3, <1>4
<1>6. redisUp' \in BOOLEAN
  BY <1>3, <1>4
<1>. QED BY <1>1, <1>2, <1>5, <1>6, TokensAlone

LEMMA AccessStep == AccessInv /\ [AccessNext]_<<deployment, accessVars>> => AccessInv'
BY EnterKeeps, VisitKeeps, SwitchKeeps, LogOutKeeps, WorldKeeps DEF AccessNext

(***************************************************************************)
(* A token is past its expiry or on the list.                              *)
(***************************************************************************)
LEMMA BlockedIsOut == AccessInv => RevokedStaysOut
<1>. SUFFICES ASSUME AccessInv, NEW t \in AccessToken, NEW w \in Worker,
                     ended[t] = "redis", redisUp, Verifies(w, t)
              PROVE  FALSE
  BY DEF RevokedStaysOut
<1>1. blocked[t] <= now /\ now < Second * expires[t] /\ Second * expires[t] <= blocked[t]
  BY DEF AccessInv, AccessTyped, BlockedToTheEnd, Verifies, Revoked
<1>2. now \in Nat /\ blocked[t] \in Nat /\ Second * expires[t] \in Int
  BY AccessAssumption DEF AccessInv, AccessTyped
<1>. QED BY <1>1, <1>2

(***************************************************************************)
(* Once a logout was recorded in Redis, no worker that reaches Redis       *)
(* accepts the token again.                                                *)
(***************************************************************************)
THEOREM LogoutLasts == AccessSpec => []RevokedStaysOut
<1>1. AccessSpec => []AccessInv
  BY InitAccess, AccessStep, PTL DEF AccessSpec
<1>. QED BY <1>1, BlockedIsOut, PTL

(***************************************************************************)
(* The seconds that occur, from the bound on the clock.                    *)
(***************************************************************************)
LEMMA SecondsBounded ==
    ASSUME NEW n \in 0..MaxTime
    PROVE  /\ n \div Second + TokenSeconds \in 0..LastSecond
           /\ n \div Second \in Nat /\ LastSecond \in Nat
<1>. DEFINE q == n \div Second
<1>. DEFINE most == MaxTime \div Second
<1>1. /\ Second \in Nat \ {0} /\ TokenSeconds \in Nat /\ MaxTime \in Nat
      /\ n \in Nat /\ n <= MaxTime
  BY AccessAssumption, DeploymentAssumption
<1>2. q \in Nat /\ Second * q <= n /\ most \in Nat /\ MaxTime < Second * (most + 1)
  BY <1>1
<1>. HIDE DEF q, most
<1>3. Second * q < Second * (most + 1) /\ Second * q \in Int /\ Second * (most + 1) \in Int
  BY <1>1, <1>2
<1>4. q <= most
  <2>1. SUFFICES ASSUME most + 1 <= q PROVE FALSE
    BY <1>2
  <2>2. Second * (most + 1) <= Second * q
    BY <1>1, <1>2, <2>1
  <2>. QED BY <1>3, <2>2
<1>5. q + TokenSeconds \in 0..(TokenSeconds + most) /\ TokenSeconds + most \in Nat
  BY <1>1, <1>2, <1>4
<1>. QED BY <1>2, <1>5 DEF q, most, LastSecond

LastBlock == MaxTime + Second * (LastSecond + 1)

LEMMA BlockBounded ==
    ASSUME NEW n \in 0..MaxTime, NEW e \in 0..LastSecond,
           NEW left, left = e - n \div Second,
           NEW ttl, ttl = IF left < 1 THEN 1 ELSE left
    PROVE  n + Second * ttl \in 0..LastBlock
<1>1. /\ Second \in Nat \ {0} /\ MaxTime \in Nat /\ n \in Nat /\ n <= MaxTime
      /\ n \div Second \in Nat
  BY AccessAssumption, DeploymentAssumption, SecondsBounded
<1>2. LastSecond \in Nat
  BY <1>1, SecondsBounded
<1>3. PICK q \in Nat : q = n \div Second
  BY <1>1
<1>4. ttl \in Nat /\ ttl <= LastSecond + 1
  BY <1>2, <1>3
<1>5. Second * ttl <= Second * (LastSecond + 1)
  BY <1>1, <1>2, <1>4
<1>6. Second * ttl \in Nat /\ Second * (LastSecond + 1) \in Nat
  BY <1>1, <1>2, <1>4
<1>. QED BY <1>1, <1>5, <1>6 DEF LastBlock

\* What the invariant of the tokens leaves open of the types.
BlocksTyped ==
    /\ expires \in [AccessToken -> 0..LastSecond]
    /\ blocked \in [AccessToken -> 0..LastBlock]
    /\ blockedHere \in [Worker -> SUBSET AccessToken]

LEMMA InitBlocks == AccessInit => BlocksTyped
<1>. SUFFICES ASSUME AccessInit PROVE BlocksTyped
  OBVIOUS
<1>1. 0 \in 0..MaxTime
  BY DeploymentAssumption
<1>2. /\ LastSecond \in Nat /\ TokenSeconds <= LastSecond /\ TokenSeconds \in Nat
      /\ 1..TokenSeconds \subseteq 0..LastSecond
  <2>1. /\ 0 \div Second + TokenSeconds \in 0..LastSecond /\ 0 \div Second \in Nat
        /\ LastSecond \in Nat
    BY <1>1, SecondsBounded
  <2>. QED BY <2>1, AccessAssumption
<1>3. LastBlock \in Nat
  BY <1>2, AccessAssumption, DeploymentAssumption DEF LastBlock
<1>4. expires \in [AccessToken -> 0..LastSecond]
  BY <1>2 DEF AccessInit
<1>. QED BY <1>3, <1>4 DEF AccessInit, BlocksTyped

LEMMA BlocksStep ==
    DeploymentTypeOK /\ AccessInv /\ BlocksTyped /\ [AccessNext]_<<deployment, accessVars>>
      => BlocksTyped'
<1>. SUFFICES ASSUME DeploymentTypeOK, AccessInv, BlocksTyped,
                     [AccessNext]_<<deployment, accessVars>>
              PROVE  BlocksTyped'
  OBVIOUS
<1>1. now \in 0..MaxTime
  BY DEF DeploymentTypeOK
<1>2. ASSUME NEW d \in Door, NEW t \in AccessToken, SwitchWorkspace(d, t) PROVE BlocksTyped'
  <2>1. now \div Second + TokenSeconds \in 0..LastSecond
    BY <1>1, SecondsBounded
  <2>. QED BY <1>2, <2>1 DEF SwitchWorkspace, IssueToken, BlocksTyped
<1>3. ASSUME NEW d \in Door, LogOut(d) PROVE BlocksTyped'
  <2>. DEFINE t == visit[d].token
              w == visit[d].worker
              left == expires[t] - now \div Second
              ttl  == IF left < 1 THEN 1 ELSE left
              end  == now + Second * ttl
  <2>1. t \in AccessToken /\ w \in Worker
    BY <1>3 DEF LogOut, AccessInv, VisitsIssued, Outside
  <2>2. expires[t] \in 0..LastSecond
    BY <2>1 DEF BlocksTyped
  <2>3. end \in 0..LastBlock
    BY <1>1, <2>2, BlockBounded
  <2>4. /\ blocked' = (IF redisUp THEN [blocked EXCEPT ![t] = end] ELSE blocked)
        /\ blockedHere' = (IF redisUp THEN blockedHere
                           ELSE [blockedHere EXCEPT ![w] = @ \cup {t}])
        /\ expires' = expires
    BY <1>3 DEF LogOut, RevokeToken
  <2>. HIDE DEF t, w, end
  <2>. QED BY <2>1, <2>3, <2>4 DEF BlocksTyped
<1>4. ASSUME NEW w \in Worker, RestartWorker(w) PROVE BlocksTyped'
  BY <1>4 DEF RestartWorker, BlocksTyped
<1>5. ASSUME UNCHANGED <<expires, blocked, blockedHere>> PROVE BlocksTyped'
  BY <1>5 DEF BlocksTyped
<1>6. ASSUME NEW d \in Door,
             \/ \E w \in Worker, t \in AccessToken : Enter(d, w, t)
             \/ Authenticate(d) \/ RequireAuth(d) \/ Respond(d)
      PROVE  UNCHANGED <<expires, blocked, blockedHere>>
  BY <1>6 DEF Enter, Authenticate, RequireAuth, Respond
<1>7. ASSUME UNCHANGED accessVars PROVE UNCHANGED <<expires, blocked, blockedHere>>
  BY <1>7 DEF accessVars
<1>. QED BY <1>2, <1>3, <1>4, <1>5, <1>6, <1>7 DEF AccessNext

LEMMA AccessHolds == AccessInv /\ BlocksTyped => AccessTypeOK
<1>. SUFFICES ASSUME AccessInv, BlocksTyped PROVE AccessTypeOK
  OBVIOUS
<1>1. visit \in [Door -> {Outside} \cup
                     [pc: {"verified", "authenticated", "admitted"}, worker: Worker,
                      token: AccessToken]]
  BY DEF AccessInv, VisitsIssued
<1>. QED BY <1>1 DEF AccessInv, AccessTyped, BlocksTyped, LastBlock, AccessTypeOK

------------------------------------------------------------------------------
(***************************************************************************)
(* Passkeys.  Two invariants.  The first is about numbers: no copy of the  *)
(* metadata holds the number of a signature that is still on its way, and  *)
(* a key whose registration is on its way has left no trace yet.  The      *)
(* second is about what was answered: until a handler overwrites another's *)
(* change, every copy read since the last answer agrees with the answers.  *)
(***************************************************************************)
Handler ==
    [pc: {"signed", "query", "scan", "selected", "write", "committed"}, op: Op, key: Key,
     at: Worker, no: 0..MaxSigned, copy: Meta \cup {NoMeta}]

MetaTyped == PasskeysTypeOK /\ edit \in [MetaSlot -> {NoEdit} \cup Handler]

\* The request is a signature not yet compared with the metadata.
Waiting(q) == q.pc \in {"signed", "query", "scan", "selected"} /\ q.op \in Ceremony

Acting(q) == q.pc \in {"write", "committed"}

Holding(q) == q.pc = "selected" \/ Acting(q)

\* What the memories and Redis hold.
Remembered == ({cachedMeta[w] : w \in Worker} \cup {redisMeta}) \ {NoMeta}

\* The counters in every copy.
Counts ==
    {meta.count} \cup {m.count : m \in Remembered}
    \cup {edit[s].copy.count : s \in {r \in MetaSlot : Holding(edit[r])}}

\* Requests are distinct signatures, each made by its authenticator.
SignaturesApart ==
    /\ \A s \in MetaSlot : Waiting(edit[s]) =>
           /\ 1 <= edit[s].no /\ edit[s].no <= signed[edit[s].key]
           /\ edit[s].op = "register" => edit[s].no = 1
    /\ \A s, r \in MetaSlot :
           s # r /\ Waiting(edit[s]) /\ Waiting(edit[r]) /\ edit[s].key = edit[r].key =>
           edit[s].no # edit[r].no

\* A counter, unless it is that of an authenticator that does not count, is the
\* number of a signature that is no longer on its way.
Settled(k, n) ==
    /\ n <= signed[k]
    /\ \A s \in MetaSlot : Waiting(edit[s]) /\ edit[s].key = k => n # edit[s].no

CountsSettled == \A c \in Counts, k \in Key : k \in counterless \/ Settled(k, c[k])

\* Its registration has not been compared with the metadata yet.
Expected(k) ==
    \/ signed[k] = 0
    \/ \E s \in MetaSlot : Waiting(edit[s]) /\ edit[s].op = "register" /\ edit[s].key = k

\* Nothing of the key has been stored, removed or answered.
Untouched(k) ==
    /\ \A c \in Counts : c[k] = Absent
    /\ \A s \in MetaSlot : Acting(edit[s]) /\ edit[s].key = k =>
                           edit[s].op \notin Ceremony \cup {"remove"}
    /\ k \notin removed /\ accepted[k] = 0

NewKeysUntouched == \A k \in Key : Expected(k) => Untouched(k)

NumbersInv == SignaturesApart /\ CountsSettled /\ NewKeysUntouched /\ AlarmsExplained

\* The copies handlers may still write or read, but for those that are old.
LiveCopies ==
    {m \in {meta} \cup Remembered
           \cup {edit[s].copy : s \in {r \in MetaSlot : edit[r].pc \in {"selected", "write"}}} :
     ~m.old}

Agrees(m) ==
    /\ removed \cap Items(m) = {}
    /\ \A k \in Registered(m) : m.count[k] >= Counter(k, accepted[k])

\* What a handler writes shows what it was asked.
Shows(q) ==
    /\ q.op = "remove"  => q.copy.count[q.key] = Absent
    /\ q.op = "disable" => ~q.copy.mfa
    /\ q.op = "login"   => q.copy.count[q.key] >= Counter(q.key, q.no)

EditsShow == \A s \in MetaSlot : Acting(edit[s]) => Shows(edit[s])

AnswersInv == EditsShow /\ (~overlapped => \A m \in LiveCopies : Agrees(m))

MetaInv == MetaTyped /\ NumbersInv /\ AnswersInv
LEMMA MetaHolds == MetaInv => PasskeysTypeOK /\ AnsweredEditsKept /\ AlarmsExplained
<1>. SUFFICES ASSUME MetaInv PROVE PasskeysTypeOK /\ AnsweredEditsKept /\ AlarmsExplained
  OBVIOUS
<1>1. meta \in LiveCopies
  BY DEF MetaInv, MetaTyped, PasskeysTypeOK, LiveCopies, Remembered
<1>. QED BY <1>1 DEF MetaInv, MetaTyped, NumbersInv, AnswersInv, Agrees, AnsweredEditsKept

LEMMA HandlersTyped ==
    ASSUME MetaTyped, NEW s \in MetaSlot
    PROVE  /\ edit[s] = NoEdit \/ edit[s] \in Handler
           /\ edit[s] = NoEdit <=> edit[s].pc = "none"
           /\ edit[s].pc # "none" => edit[s] \in Handler
           /\ Holding(edit[s]) => edit[s].copy \in Meta
BY DEF MetaTyped, PasskeysTypeOK, NoEdit, Handler, Holding, Acting

(***************************************************************************)
(* The counters are numbers, or that of a key that is not there.           *)
(***************************************************************************)
LEMMA CountsTyped == MetaTyped => \A c \in Counts : c \in [Key -> Absent..MaxSigned + 1]
<1>. SUFFICES ASSUME MetaTyped, NEW c \in Counts PROVE c \in [Key -> Absent..MaxSigned + 1]
  OBVIOUS
<1>1. \A m \in Meta : m.count \in [Key -> Absent..MaxSigned + 1]
  BY DEF Meta
<1>2. CASE c = meta.count
  BY <1>1, <1>2 DEF MetaTyped, PasskeysTypeOK
<1>3. ASSUME NEW m \in Remembered, c = m.count
      PROVE  c \in [Key -> Absent..MaxSigned + 1]
  BY <1>1, <1>3 DEF MetaTyped, PasskeysTypeOK, Remembered
<1>4. ASSUME NEW s \in MetaSlot, Holding(edit[s]), c = edit[s].copy.count
      PROVE  c \in [Key -> Absent..MaxSigned + 1]
  BY <1>1, <1>4, HandlersTyped
<1>. QED BY <1>2, <1>3, <1>4 DEF Counts, Remembered

LEMMA InitMeta == PasskeysInit => MetaInv
<1>. SUFFICES ASSUME PasskeysInit PROVE MetaInv
  OBVIOUS
<1>. USE PasskeysAssumption
<1>1. PICK keys \in SUBSET Key, mfa \in BOOLEAN :
          /\ meta = [count |-> [k \in Key |-> IF k \in keys THEN Counter(k, 1) ELSE Absent],
                     mfa |-> mfa, pending |-> FALSE, old |-> FALSE]
          /\ signed = [k \in Key |-> IF k \in keys THEN 1 ELSE 0]
  BY DEF PasskeysInit
<1>2. /\ counterless \in SUBSET Key /\ cachedMeta = [w \in Worker |-> NoMeta] /\ redisMeta = NoMeta
      /\ edit = [s \in MetaSlot |-> NoEdit] /\ edits = 0
      /\ removed = {} /\ accepted = [k \in Key |-> 0] /\ alarmed = {} /\ overlapped = FALSE
  BY DEF PasskeysInit
<1>3. \A k \in Key : Counter(k, 1) \in Absent..MaxSigned + 1 /\ Counter(k, 1) >= 0
                     /\ Counter(k, 0) = 0 /\ Counter(k, 1) <= 1 /\ 0 <= Counter(k, 1)
  BY DEF Counter, Absent
<1>4. meta \in Meta /\ ~meta.old
  BY <1>1, <1>3 DEF Meta, Absent
<1>5. MetaTyped
  <2>1. signed \in [Key -> 0..MaxSigned] /\ accepted \in [Key -> 0..MaxSigned]
    BY <1>1, <1>2
  <2>2. edit \in [MetaSlot -> {NoEdit} \cup Handler] /\ \A s \in MetaSlot : edit[s] = NoEdit
    BY <1>2
  <2>3. alarmed \subseteq (Key \X BOOLEAN) /\ removed \subseteq Item /\ edits \in 0..MaxEdits
    BY <1>2
  <2>. QED BY <1>2, <1>4, <2>1, <2>2, <2>3 DEF MetaTyped, PasskeysTypeOK
<1>6. \A s \in MetaSlot : edit[s].pc = "none" /\ ~Waiting(edit[s]) /\ ~Acting(edit[s])
                          /\ ~Holding(edit[s])
  BY <1>2 DEF NoEdit, Waiting, Acting, Holding
<1>7. Counts = {meta.count}
  BY <1>2, <1>6 DEF Counts, Remembered
<1>8. \A k \in Key : meta.count[k] = IF k \in keys THEN Counter(k, 1) ELSE Absent
  BY <1>1
<1>9. CountsSettled
  BY <1>1, <1>3, <1>6, <1>7, <1>8 DEF CountsSettled, Settled, Absent
<1>10. NewKeysUntouched
  BY <1>1, <1>2, <1>6, <1>7, <1>8 DEF NewKeysUntouched, Expected, Untouched
<1>11. SignaturesApart /\ AlarmsExplained
  BY <1>2, <1>6 DEF SignaturesApart, AlarmsExplained
<1>12. LiveCopies \subseteq {meta}
  BY <1>2, <1>6 DEF LiveCopies, Remembered
<1>13. Agrees(meta)
  BY <1>2, <1>3, <1>8 DEF Agrees, Registered, Absent
<1>14. AnswersInv
  BY <1>6, <1>12, <1>13 DEF AnswersInv, EditsShow
<1>. QED BY <1>5, <1>9, <1>10, <1>11, <1>14 DEF MetaInv, NumbersInv

(***************************************************************************)
(* What an edit does to the copy at hand.                                  *)
(***************************************************************************)
LEMMA EditedIs ==
    ASSUME NEW q \in Handler, NEW m \in Meta, ~Refused(q, m), counterless \subseteq Key
    PROVE  LET e == Edited(q, m) IN
           /\ e \in Meta /\ e.old = m.old
           /\ \A k \in Key : k # q.key \/ q.op \notin Ceremony \cup {"remove"} =>
                             e.count[k] = m.count[k]
           /\ q.op = "register" => e.count[q.key] = Counter(q.key, q.no)
           /\ q.op = "login" =>
                  /\ m.count[q.key] # Absent /\ e.count[q.key] >= Counter(q.key, q.no)
                  /\ q.key \notin counterless /\ q.no >= 1 =>
                         e.count[q.key] = q.no /\ m.count[q.key] < q.no
           /\ q.op = "remove" => m.count[q.key] # Absent /\ e.count[q.key] = Absent
           /\ q.op = "disable" => ~e.mfa
           /\ q.op \notin {"confirm", "disable"} => e.mfa = m.mfa
<1>. DEFINE e == Edited(q, m)
<1>. DEFINE Changing(n) == [m EXCEPT !.count = [m.count EXCEPT ![q.key] = n]]
<1>. USE PasskeysAssumption
<1>1. q.op \in Op /\ q.key \in Key /\ q.no \in 0..MaxSigned
  BY DEF Handler
<1>2. /\ m.count \in [Key -> Absent..MaxSigned + 1] /\ m.mfa \in BOOLEAN /\ m.pending \in BOOLEAN
      /\ m.old \in BOOLEAN
      /\ m = [count |-> m.count, mfa |-> m.mfa, pending |-> m.pending, old |-> m.old]
  BY DEF Meta
<1>3. ASSUME NEW n \in Absent..MaxSigned + 1
      PROVE  /\ Changing(n) \in Meta /\ Changing(n).old = m.old /\ Changing(n).mfa = m.mfa
             /\ Changing(n).count[q.key] = n
             /\ \A k \in Key : k # q.key => Changing(n).count[k] = m.count[k]
  <2>1. Changing(n) = [count |-> [m.count EXCEPT ![q.key] = n], mfa |-> m.mfa,
                   pending |-> m.pending, old |-> m.old]
    BY <1>2
  <2>2. [m.count EXCEPT ![q.key] = n] \in [Key -> Absent..MaxSigned + 1]
    BY <1>2
  <2>. QED BY <1>1, <1>2, <2>1, <2>2 DEF Meta
<1>. HIDE DEF Changing
<1>4. Counter(q.key, q.no) \in 0..MaxSigned
  BY <1>1 DEF Counter
<1>5. CASE q.op = "register"
  <2>1. e = Changing(Counter(q.key, q.no))
    BY <1>5 DEF Edited, RegisterKey, FirstCount, Changing
  <2>2. Counter(q.key, q.no) \in Absent..MaxSigned + 1
    BY <1>4 DEF Absent
  <2>. HIDE DEF e
  <2>3. e \in Meta /\ e.old = m.old /\ e.mfa = m.mfa
        /\ e.count[q.key] = Counter(q.key, q.no)
        /\ \A k \in Key : k # q.key => e.count[k] = m.count[k]
    BY <1>3, <2>1, <2>2
  <2>. QED BY <1>5, <2>3 DEF Ceremony, e
<1>6. CASE q.op = "login"
  <2>1. m.count[q.key] # Absent /\ ~Regressed(q.key, q.no, m)
    BY <1>6 DEF Refused
  <2>. DEFINE n == CountedAs(q, m)
  <2>2. e = Changing(n)
    BY <1>6 DEF Edited, LogInWithKey, Changing
  <2>3. m.count[q.key] \in 0..MaxSigned + 1
    BY <1>1, <1>2, <2>1 DEF Absent
  <2>4. /\ n \in 0..MaxSigned + 1 /\ n >= Counter(q.key, q.no)
        /\ q.key \notin counterless /\ q.no >= 1 => n = q.no /\ m.count[q.key] < q.no
    <3>1. CASE Counter(q.key, q.no) > 0
      <4>1. Counter(q.key, q.no) = q.no /\ q.key \notin counterless
        BY <1>1, <3>1 DEF Counter
      <4>2. n = q.no
        BY <3>1, <4>1 DEF CountedAs
      <4>3. ~(q.no <= m.count[q.key])
        BY <2>1, <3>1, <4>1 DEF Regressed
      <4>. HIDE DEF n
      <4>. QED BY <1>1, <2>3, <4>1, <4>2, <4>3
    <3>2. CASE ~(Counter(q.key, q.no) > 0)
      <4>1. Counter(q.key, q.no) = 0
        BY <1>4, <3>2
      <4>2. ~(m.count[q.key] > 0)
        BY <2>1, <2>3, <4>1 DEF Regressed
      <4>3. n = m.count[q.key] + 1
        BY <3>2 DEF CountedAs
      <4>4. q.key \in counterless \/ q.no = 0
        BY <1>1, <4>1 DEF Counter
      <4>. HIDE DEF n
      <4>5. n = 1
        BY <2>3, <4>2, <4>3
      <4>. QED BY <1>1, <4>1, <4>4, <4>5
    <3>. QED BY <3>1, <3>2
  <2>5. n \in Absent..MaxSigned + 1
    BY <2>4 DEF Absent
  <2>. HIDE DEF e, n
  <2>6. e \in Meta /\ e.old = m.old /\ e.mfa = m.mfa /\ e.count[q.key] = n
        /\ \A k \in Key : k # q.key => e.count[k] = m.count[k]
    BY <1>3, <2>2, <2>5
  <2>. QED BY <1>6, <2>1, <2>4, <2>6 DEF Ceremony, e
<1>7. CASE q.op = "remove"
  <2>1. e = Changing(Absent) /\ m.count[q.key] # Absent
    BY <1>7 DEF Edited, RemoveKey, Changing, Refused
  <2>2. Absent \in Absent..MaxSigned + 1
    BY DEF Absent
  <2>. HIDE DEF e
  <2>3. e \in Meta /\ e.old = m.old /\ e.mfa = m.mfa /\ e.count[q.key] = Absent
        /\ \A k \in Key : k # q.key => e.count[k] = m.count[k]
    BY <1>3, <2>1, <2>2
  <2>. QED BY <1>7, <2>1, <2>3 DEF Ceremony, e
<1>8. CASE q.op \in {"setup", "confirm", "disable", "link"}
  <2>1. e.count = m.count /\ e.old = m.old /\ e \in Meta
    BY <1>2, <1>8 DEF Edited, SetUpMfa, ConfirmMfa, DisableMfa, LinkProvider, Meta
  <2>2. q.op = "disable" => ~e.mfa
    BY <1>2 DEF Edited, DisableMfa
  <2>3. q.op \notin {"confirm", "disable"} => e.mfa = m.mfa
    BY <1>2, <1>8 DEF Edited, SetUpMfa, LinkProvider
  <2>. QED BY <1>8, <2>1, <2>2, <2>3 DEF Ceremony
<1>. QED BY <1>1, <1>5, <1>6, <1>7, <1>8 DEF Op, Ceremony


(***************************************************************************)
(* A step that makes no new copy and no new request keeps the numbers.     *)
(***************************************************************************)
LEMMA NumbersKept ==
    ASSUME MetaTyped, NumbersInv, UNCHANGED <<counterless, signed>>, Counts' \subseteq Counts,
           AlarmsExplained',
           \A s \in MetaSlot :
               /\ Waiting(edit'[s]) =>
                      /\ Waiting(edit[s]) /\ edit'[s].op = edit[s].op
                      /\ edit'[s].key = edit[s].key /\ edit'[s].no = edit[s].no
               /\ Acting(edit'[s]) =>
                      \/ edit'[s].op \notin Ceremony \cup {"remove"}
                      \/ /\ Acting(edit[s]) /\ edit'[s].op = edit[s].op
                         /\ edit'[s].key = edit[s].key,
           \A k \in Key : Untouched(k) => k \notin removed' /\ accepted'[k] = 0
    PROVE  NumbersInv'
<1>1. SignaturesApart'
  <2>1. SignaturesApart
    BY DEF NumbersInv
  <2>. QED BY <2>1 DEF SignaturesApart
<1>2. CountsSettled'
  <2>1. \A n, k : Settled(k, n) => Settled(k, n)'
    BY DEF Settled
  <2>2. CountsSettled
    BY DEF NumbersInv
  <2>. QED BY <2>1, <2>2 DEF CountsSettled
<1>3. NewKeysUntouched'
  <2>1. \A k \in Key : Expected(k)' => Expected(k)
    BY DEF Expected
  <2>2. \A k \in Key : Untouched(k) => Untouched(k)'
    BY DEF Untouched
  <2>3. NewKeysUntouched
    BY DEF NumbersInv
  <2>. QED BY <2>1, <2>2, <2>3 DEF NewKeysUntouched
<1>. QED BY <1>1, <1>2, <1>3 DEF NumbersInv

(***************************************************************************)
(* A step that answers nothing and makes no copy that is not old keeps     *)
(* what was answered.                                                      *)
(***************************************************************************)
LEMMA AnswersKept ==
    ASSUME AnswersInv, UNCHANGED <<counterless, accepted>>, removed' \subseteq removed,
           ~overlapped' => ~overlapped /\ LiveCopies' \subseteq LiveCopies,
           \A s \in MetaSlot : Acting(edit'[s]) =>
               /\ Acting(edit[s]) /\ edit'[s].op = edit[s].op /\ edit'[s].key = edit[s].key
               /\ edit'[s].no = edit[s].no /\ edit'[s].copy.count = edit[s].copy.count
               /\ edit'[s].copy.mfa = edit[s].copy.mfa
    PROVE  AnswersInv'
<1>1. EditsShow'
  <2>1. \A k, n : Counter(k, n)' = Counter(k, n)
    BY DEF Counter
  <2>. QED BY <2>1 DEF AnswersInv, EditsShow, Shows
<1>2. ASSUME ~overlapped', NEW m \in LiveCopies' PROVE Agrees(m)'
  <2>1. Agrees(m)
    BY <1>2 DEF AnswersInv
  <2>. QED BY <2>1 DEF Agrees, Items, Registered, Counter
<1>. QED BY <1>1, <1>2 DEF AnswersInv

(***************************************************************************)
(* Copies are where they were: nobody holds one who did not.               *)
(***************************************************************************)
LEMMA CopiesStay ==
    ASSUME MetaTyped, UNCHANGED <<meta, cachedMeta, redisMeta>>,
           \A s \in MetaSlot :
               Holding(edit'[s]) =>
                   Holding(edit[s]) /\ edit'[s].pc = edit[s].pc /\ edit'[s].copy = edit[s].copy
    PROVE  Counts' \subseteq Counts /\ LiveCopies' \subseteq LiveCopies
<1>1. Counts' \subseteq Counts
  BY DEF Counts, Remembered
<1>2. \A s \in MetaSlot : edit'[s].pc \in {"selected", "write"} =>
          edit[s].pc \in {"selected", "write"} /\ edit'[s].copy = edit[s].copy
  BY DEF Holding, Acting
<1>3. LiveCopies' \subseteq LiveCopies
  BY <1>2 DEF LiveCopies, Remembered
<1>. QED BY <1>1, <1>3

(***************************************************************************)
(* New requests.                                                           *)
(***************************************************************************)
LEMMA TypedStep ==
    ASSUME edit' \in [MetaSlot -> {NoEdit} \cup Handler],
           \A t \in MetaSlot : Holding(edit'[t]) => edit'[t].copy \in Meta,
           counterless' \subseteq Key, meta' \in Meta, ~meta'.old,
           cachedMeta' \in [Worker -> Meta \cup {NoMeta}], redisMeta' \in Meta \cup {NoMeta},
           edits' \in 0..MaxEdits, signed' \in [Key -> 0..MaxSigned],
           removed' \subseteq Item, accepted' \in [Key -> 0..MaxSigned],
           alarmed' \subseteq (Key \X BOOLEAN), overlapped' \in BOOLEAN
    PROVE  MetaTyped'
<1>1. ASSUME NEW t \in MetaSlot, edit'[t] # NoEdit
      PROVE  /\ edit'[t].pc \in {"signed", "query", "scan", "selected", "write", "committed"}
             /\ edit'[t].op \in Op /\ edit'[t].key \in Key /\ edit'[t].no \in 0..MaxSigned
             /\ edit'[t].at \in Worker
             /\ edit'[t].pc \in {"selected", "write", "committed"} => edit'[t].copy \in Meta
  <2>1. edit'[t] \in Handler
    BY <1>1
  <2>2. Holding(edit'[t]) => edit'[t].copy \in Meta
    OBVIOUS
  <2>. QED BY <2>1, <2>2 DEF Handler, Holding, Acting
<1>. QED BY <1>1 DEF MetaTyped, PasskeysTypeOK

LEMMA SignKeeps ==
    ASSUME MetaInv, NEW s \in MetaSlot, NEW w \in Worker, NEW op \in Ceremony, NEW k \in Key,
           Sign(s, w, op, k)
    PROVE  MetaInv'
<1>. DEFINE n == signed[k] + 1
<1>. DEFINE r == Request(w, op, k, n, NoMeta)
<1>. USE PasskeysAssumption
<1>0. MetaTyped /\ SignaturesApart /\ CountsSettled /\ NewKeysUntouched /\ AlarmsExplained
      /\ AnswersInv
  BY DEF MetaInv, NumbersInv
<1>1. signed \in [Key -> 0..MaxSigned] /\ signed[k] < MaxSigned
      /\ signed' = [signed EXCEPT ![k] = n] /\ signed'[k] = n /\ n \in 1..MaxSigned
  BY <1>0 DEF Sign, MetaTyped, PasskeysTypeOK
<1>2. /\ edit[s] = NoEdit /\ edit' = [edit EXCEPT ![s] = r] /\ (op = "register" <=> signed[k] = 0)
      /\ edits' = edits + 1 /\ edits < MaxEdits
      /\ UNCHANGED <<counterless, meta, cachedMeta, redisMeta, removed, accepted, alarmed,
                     overlapped>>
  BY <1>1 DEF Sign, metaHistory
<1>3. r \in Handler /\ r.pc = "signed" /\ r.op = op /\ r.key = k /\ r.no = n
  BY <1>1 DEF Request, Handler, Op
<1>. HIDE DEF r, n
<1>4. edit \in [MetaSlot -> {NoEdit} \cup Handler]
  BY <1>0 DEF MetaTyped
<1>5. edit'[s] = r /\ \A t \in MetaSlot : t # s => edit'[t] = edit[t]
  BY <1>2, <1>4
<1>6. MetaTyped'
  <2>1. edit' \in [MetaSlot -> {NoEdit} \cup Handler]
    BY <1>2, <1>3, <1>4
  <2>2. signed' \in [Key -> 0..MaxSigned] /\ edits' \in 0..MaxEdits
    BY <1>0, <1>1, <1>2 DEF MetaTyped, PasskeysTypeOK
  <2>3. \A t \in MetaSlot : Holding(edit'[t]) => edit'[t].copy \in Meta
    BY <1>0, <1>3, <1>5, HandlersTyped DEF Holding, Acting
  <2>. QED BY <1>0, <1>2, <2>1, <2>2, <2>3, TypedStep DEF MetaTyped, PasskeysTypeOK
<1>7. ~Holding(r) /\ ~Acting(r) /\ Waiting(r) /\ ~Acting(edit[s]) /\ ~Waiting(edit[s])
  BY <1>2, <1>3 DEF Holding, Acting, Waiting, NoEdit
<1>8. Counts' \subseteq Counts /\ LiveCopies' \subseteq LiveCopies
  BY <1>0, <1>2, <1>5, <1>7, CopiesStay
<1>9. \A t \in MetaSlot : Acting(edit'[t]) => edit'[t] = edit[t] /\ t # s
  BY <1>5, <1>7
<1>10. AnswersInv'
  BY <1>0, <1>2, <1>8, <1>9, AnswersKept
<1>11. \A t \in MetaSlot : t # s /\ Waiting(edit[t]) =>
           edit[t].key \in Key /\ edit[t].no \in 0..MaxSigned /\ edit[t].no <= signed[edit[t].key]
  BY <1>0, HandlersTyped DEF SignaturesApart, Handler, Waiting, NoEdit
<1>12. \A x \in Key : signed'[x] = IF x = k THEN signed[x] + 1 ELSE signed[x]
  BY <1>1 DEF n
<1>13. SignaturesApart'
  <2>1. \A t \in MetaSlot : Waiting(edit'[t]) =>
            /\ 1 <= edit'[t].no /\ edit'[t].no <= signed'[edit'[t].key]
            /\ edit'[t].op = "register" => edit'[t].no = 1
    <3>1. 1 <= r.no /\ r.no <= signed'[r.key] /\ (r.op = "register" => r.no = 1)
      BY <1>1, <1>2, <1>3 DEF n
    <3>2. ASSUME NEW t \in MetaSlot, t # s, Waiting(edit[t])
          PROVE  /\ 1 <= edit[t].no /\ edit[t].no <= signed'[edit[t].key]
                 /\ edit[t].op = "register" => edit[t].no = 1
      BY <1>0, <1>1, <1>11, <1>12, <3>2 DEF SignaturesApart
    <3>. QED BY <1>5, <3>1, <3>2
  <2>2. ASSUME NEW t \in MetaSlot, t # s, Waiting(edit[t]), edit[t].key = k PROVE edit[t].no # n
    BY <1>1, <1>11, <2>2 DEF n
  <2>3. \A t, u \in MetaSlot :
            t # u /\ Waiting(edit'[t]) /\ Waiting(edit'[u]) /\ edit'[t].key = edit'[u].key =>
            edit'[t].no # edit'[u].no
    BY <1>0, <1>3, <1>5, <2>2 DEF SignaturesApart
  <2>. QED BY <2>1, <2>3 DEF SignaturesApart
<1>14. CountsSettled'
  <2>1. SUFFICES ASSUME NEW c \in Counts, NEW x \in Key, x \notin counterless
                 PROVE  Settled(x, c[x])'
    BY <1>2, <1>8 DEF CountsSettled
  <2>2. c[x] \in Absent..MaxSigned + 1
    BY <1>0, CountsTyped
  <2>3. c[x] <= signed[x] /\ \A t \in MetaSlot : Waiting(edit[t]) /\ edit[t].key = x =>
                                                 c[x] # edit[t].no
    BY <1>0, <2>1 DEF CountsSettled, Settled
  <2>4. c[x] <= signed'[x] /\ (x = k => c[x] # n)
    BY <1>1, <1>12, <2>2, <2>3 DEF Absent, n
  <2>5. \A t \in MetaSlot : Waiting(edit'[t]) /\ edit'[t].key = x => c[x] # edit'[t].no
    BY <1>3, <1>5, <2>3, <2>4
  <2>. QED BY <2>4, <2>5 DEF Settled
<1>15. NewKeysUntouched'
  <2>1. SUFFICES ASSUME NEW x \in Key, Expected(x)' PROVE Untouched(x)'
    BY DEF NewKeysUntouched
  <2>2. Expected(x)
    <3>1. CASE signed'[x] = 0
      BY <1>1, <1>12, <3>1 DEF Expected
    <3>2. ASSUME NEW t \in MetaSlot, Waiting(edit'[t]), edit'[t].op = "register", edit'[t].key = x
          PROVE  Expected(x)
      <4>1. CASE t = s
        BY <1>2, <1>3, <1>5, <3>2, <4>1 DEF Expected
      <4>2. CASE t # s
        BY <1>5, <3>2, <4>2 DEF Expected
      <4>. QED BY <4>1, <4>2
    <3>. QED BY <2>1, <3>1, <3>2 DEF Expected
  <2>3. Untouched(x)
    BY <1>0, <2>2 DEF NewKeysUntouched
  <2>. QED BY <1>2, <1>8, <1>9, <2>3 DEF Untouched
<1>16. AlarmsExplained'
  BY <1>0, <1>2 DEF AlarmsExplained
<1>. QED BY <1>6, <1>10, <1>13, <1>14, <1>15, <1>16 DEF MetaInv, NumbersInv

(***************************************************************************)
(* A step of one request that is not, or no longer, a signature on its     *)
(* way, and copies nothing anew.                                           *)
(***************************************************************************)
LEMMA QuietKeeps ==
    ASSUME MetaInv, NEW s \in MetaSlot, NEW r \in {NoEdit} \cup Handler,
           edit' = [edit EXCEPT ![s] = r],
           Holding(r) => r.copy \in Meta,
           Waiting(r) => /\ Waiting(edit[s]) /\ r.op = edit[s].op /\ r.key = edit[s].key
                         /\ r.no = edit[s].no,
           ~Acting(r), Counts' \subseteq Counts,
           ~overlapped' => ~overlapped /\ LiveCopies' \subseteq LiveCopies,
           meta' \in Meta, ~meta'.old, overlapped' \in BOOLEAN,
           cachedMeta' \in [Worker -> Meta \cup {NoMeta}], redisMeta' \in Meta \cup {NoMeta},
           edits' \in 0..MaxEdits, removed' \subseteq removed,
           AlarmsExplained', alarmed' \subseteq (Key \X BOOLEAN),
           UNCHANGED <<counterless, signed, accepted>>
    PROVE  MetaInv'
<1>1. MetaTyped /\ NumbersInv /\ AnswersInv
  BY DEF MetaInv
<1>2. edit \in [MetaSlot -> {NoEdit} \cup Handler]
  BY <1>1 DEF MetaTyped
<1>3. edit'[s] = r /\ \A t \in MetaSlot : t # s => edit'[t] = edit[t]
  BY <1>2
<1>4. MetaTyped'
  <2>1. edit' \in [MetaSlot -> {NoEdit} \cup Handler]
    BY <1>2
  <2>2. \A t \in MetaSlot : Holding(edit'[t]) => edit'[t].copy \in Meta
    BY <1>1, <1>3, HandlersTyped
  <2>. QED BY <1>1, <2>1, <2>2, TypedStep DEF MetaTyped, PasskeysTypeOK
<1>5. NumbersInv'
  BY <1>1, <1>3, NumbersKept DEF Untouched
<1>6. AnswersInv'
  BY <1>1, <1>3, AnswersKept
<1>. QED BY <1>4, <1>5, <1>6 DEF MetaInv

LEMMA AskKeeps ==
    ASSUME MetaInv, NEW s \in MetaSlot, NEW w \in Worker, NEW op \in Op \ Ceremony, NEW k \in Key,
           Ask(s, w, op, k)
    PROVE  MetaInv'
<1>. DEFINE r == Request(w, op, k, 0, NoMeta)
<1>. USE PasskeysAssumption
<1>1. r \in Handler /\ r.pc = "signed" /\ r.op = op
  BY DEF Request, Handler
<1>2. edit' = [edit EXCEPT ![s] = r] /\ edits < MaxEdits /\ edits' = edits + 1
      /\ UNCHANGED <<counterless, meta, cachedMeta, redisMeta, signed, removed, accepted, alarmed,
                     overlapped>>
  BY DEF Ask, metaHistory
<1>. HIDE DEF r
<1>3. ~Holding(r) /\ ~Acting(r) /\ ~Waiting(r)
  BY <1>1 DEF Holding, Acting, Waiting
<1>4. MetaTyped /\ AlarmsExplained /\ edit \in [MetaSlot -> {NoEdit} \cup Handler]
  BY DEF MetaInv, NumbersInv, MetaTyped
<1>5. edit'[s] = r /\ \A t \in MetaSlot : t # s => edit'[t] = edit[t]
  BY <1>2, <1>4
<1>6. Counts' \subseteq Counts /\ LiveCopies' \subseteq LiveCopies
  BY <1>2, <1>3, <1>4, <1>5, CopiesStay
<1>7. edits' \in 0..MaxEdits
  BY <1>2, <1>4 DEF MetaTyped, PasskeysTypeOK
<1>8. AlarmsExplained'
  BY <1>2, <1>4 DEF AlarmsExplained
<1>. QED BY <1>1, <1>2, <1>3, <1>4, <1>6, <1>7, <1>8, QuietKeeps DEF MetaTyped, PasskeysTypeOK

(***************************************************************************)
(* Reading the row.                                                        *)
(***************************************************************************)
LEMMA QueryKeeps ==
    ASSUME MetaInv, NEW s \in MetaSlot, NEW scan \in BOOLEAN, Query(s, scan)
    PROVE  MetaInv'
<1>. DEFINE pc == IF scan THEN "scan" ELSE "query"
<1>. DEFINE r == [edit[s] EXCEPT !.pc = pc]
<1>1. edit' = [edit EXCEPT ![s] = r] /\ edit[s].pc = "signed"
      /\ UNCHANGED <<counterless, meta, cachedMeta, redisMeta, edits, signed, removed, accepted,
                     alarmed, overlapped>>
  BY DEF Query, metaHistory
<1>2. MetaTyped /\ AlarmsExplained /\ edit \in [MetaSlot -> {NoEdit} \cup Handler]
  BY DEF MetaInv, NumbersInv, MetaTyped
<1>3. edit[s] \in Handler /\ pc \in {"scan", "query"}
  BY <1>1, <1>2, HandlersTyped
<1>. HIDE DEF pc
<1>4. r \in Handler /\ r.pc \in {"scan", "query"} /\ r.op = edit[s].op /\ r.key = edit[s].key
      /\ r.no = edit[s].no
  BY <1>3 DEF Handler
<1>. HIDE DEF r
<1>5. ~Holding(r) /\ ~Acting(r)
  BY <1>4 DEF Holding, Acting
<1>6. Waiting(r) => Waiting(edit[s])
  BY <1>1, <1>4 DEF Waiting
<1>7. edit'[s] = r /\ \A t \in MetaSlot : t # s => edit'[t] = edit[t]
  BY <1>1, <1>2
<1>8. Counts' \subseteq Counts /\ LiveCopies' \subseteq LiveCopies
  BY <1>1, <1>2, <1>5, <1>7, CopiesStay
<1>9. AlarmsExplained'
  BY <1>1, <1>2 DEF AlarmsExplained
<1>. QED BY <1>1, <1>2, <1>4, <1>5, <1>6, <1>8, <1>9, QuietKeeps DEF MetaTyped, PasskeysTypeOK

LEMMA SelectUserKeeps ==
    ASSUME MetaInv, NEW s \in MetaSlot, SelectUser(s)
    PROVE  MetaInv'
<1>. DEFINE r == [edit[s] EXCEPT !.pc = "selected", !.copy = meta]
<1>1. edit' = [edit EXCEPT ![s] = r] /\ edit[s].pc = "query"
      /\ UNCHANGED <<counterless, meta, cachedMeta, redisMeta, edits, signed, removed, accepted,
                     alarmed, overlapped>>
  BY DEF SelectUser, metaHistory
<1>2. MetaTyped /\ AlarmsExplained /\ edit \in [MetaSlot -> {NoEdit} \cup Handler]
      /\ meta \in Meta /\ ~meta.old
  BY DEF MetaInv, NumbersInv, MetaTyped, PasskeysTypeOK
<1>3. edit[s] \in Handler
  BY <1>1, <1>2, HandlersTyped
<1>4. r \in Handler /\ r.pc = "selected" /\ r.copy = meta /\ r.op = edit[s].op
      /\ r.key = edit[s].key /\ r.no = edit[s].no
  BY <1>2, <1>3 DEF Handler
<1>. HIDE DEF r
<1>5. ~Acting(r) /\ (Waiting(r) => Waiting(edit[s]))
  BY <1>1, <1>4 DEF Acting, Waiting
<1>6. edit'[s] = r /\ \A t \in MetaSlot : t # s => edit'[t] = edit[t]
  BY <1>1, <1>2
<1>7. Counts' \subseteq Counts
  BY <1>1, <1>4, <1>6 DEF Counts, Remembered
<1>8. LiveCopies' \subseteq LiveCopies
  BY <1>1, <1>4, <1>6 DEF LiveCopies, Remembered
<1>9. AlarmsExplained'
  BY <1>1, <1>2 DEF AlarmsExplained
<1>. QED BY <1>1, <1>2, <1>4, <1>5, <1>7, <1>8, <1>9, QuietKeeps DEF MetaTyped, PasskeysTypeOK

(***************************************************************************)
(* A write that fails counts as an overlap, and expiry only takes copies   *)
(* away.                                                                   *)
(***************************************************************************)
LEMMA WriteFailsKeeps ==
    ASSUME MetaInv, NEW s \in MetaSlot, WriteFails(s)
    PROVE  MetaInv'
<1>1. edit' = [edit EXCEPT ![s] = NoEdit] /\ overlapped' = TRUE
      /\ UNCHANGED <<counterless, meta, cachedMeta, redisMeta, edits, signed, removed, accepted,
                     alarmed>>
  BY DEF WriteFails
<1>2. MetaTyped /\ AlarmsExplained /\ edit \in [MetaSlot -> {NoEdit} \cup Handler]
  BY DEF MetaInv, NumbersInv, MetaTyped
<1>3. ~Holding(NoEdit) /\ ~Acting(NoEdit) /\ ~Waiting(NoEdit)
  BY DEF Holding, Acting, Waiting, NoEdit
<1>4. edit'[s] = NoEdit /\ \A t \in MetaSlot : t # s => edit'[t] = edit[t]
  BY <1>1, <1>2
<1>5. Counts' \subseteq Counts
  BY <1>1, <1>2, <1>3, <1>4, CopiesStay
<1>6. AlarmsExplained'
  BY <1>1, <1>2 DEF AlarmsExplained
<1>. QED BY <1>1, <1>2, <1>3, <1>5, <1>6, QuietKeeps DEF MetaTyped, PasskeysTypeOK

LEMMA ForgettingKeeps ==
    ASSUME MetaInv, cachedMeta' \in [Worker -> Meta \cup {NoMeta}],
           \A w \in Worker : cachedMeta'[w] \in {cachedMeta[w], NoMeta},
           redisMeta' \in {redisMeta, NoMeta},
           UNCHANGED <<counterless, meta, edit, edits, signed, removed, accepted, alarmed,
                       overlapped>>
    PROVE  MetaInv'
<1>2. MetaTyped /\ NumbersInv /\ AnswersInv /\ AlarmsExplained
  BY DEF MetaInv, NumbersInv
<1>3. Remembered' \subseteq Remembered
  BY DEF Remembered
<1>4. Counts' \subseteq Counts /\ LiveCopies' \subseteq LiveCopies
  BY <1>3 DEF Counts, LiveCopies
<1>5. MetaTyped'
  BY <1>2 DEF MetaTyped, PasskeysTypeOK
<1>6. AlarmsExplained'
  BY <1>2 DEF AlarmsExplained
<1>7. NumbersInv'
  BY <1>2, <1>4, <1>6, NumbersKept DEF Untouched
<1>8. AnswersInv'
  BY <1>2, <1>4, AnswersKept
<1>. QED BY <1>5, <1>7, <1>8 DEF MetaInv

LEMMA ExpireKeepsMeta ==
    ASSUME MetaInv,
           \/ ExpireInRedis
           \/ \E w \in Worker : ExpireInMemory(w) \/ HearOfChange(w)
    PROVE  MetaInv'
<1>1. cachedMeta \in [Worker -> Meta \cup {NoMeta}]
  BY DEF MetaInv, MetaTyped, PasskeysTypeOK
<1>2. CASE ExpireInRedis
  BY <1>1, <1>2, ForgettingKeeps DEF ExpireInRedis, metaHistory
<1>3. ASSUME NEW w \in Worker, ExpireInMemory(w) \/ HearOfChange(w) PROVE MetaInv'
  <2>1. /\ cachedMeta' = [cachedMeta EXCEPT ![w] = NoMeta] /\ redisMeta' \in {redisMeta, NoMeta}
        /\ UNCHANGED <<counterless, meta, edit, edits, signed, removed, accepted, alarmed,
                       overlapped>>
    BY <1>3 DEF ExpireInMemory, HearOfChange, metaHistory
  <2>2. /\ cachedMeta' \in [Worker -> Meta \cup {NoMeta}]
        /\ \A v \in Worker : cachedMeta'[v] \in {cachedMeta[v], NoMeta}
    BY <1>1, <2>1
  <2>. QED BY <2>1, <2>2, ForgettingKeeps
<1>. QED BY <1>2, <1>3

(***************************************************************************)
(* Writing.  Unless the copy is old, it is one of those that agree with    *)
(* the answers.                                                            *)
(***************************************************************************)
LEMMA WriteMetaKeeps ==
    ASSUME MetaInv, NEW s \in MetaSlot, WriteMeta(s)
    PROVE  MetaInv'
<1>. DEFINE q == edit[s]
<1>. DEFINE r == [q EXCEPT !.pc = "committed"]
<1>. DEFINE new == [q.copy EXCEPT !.old = FALSE]
<1>1. q.pc = "write" /\ edit' = [edit EXCEPT ![s] = r] /\ meta' = new
      /\ overlapped' = (overlapped \/ q.copy.old)
      /\ UNCHANGED <<counterless, cachedMeta, redisMeta, edits, signed, removed, accepted, alarmed>>
  BY DEF WriteMeta
<1>2. MetaTyped /\ NumbersInv /\ AnswersInv /\ edit \in [MetaSlot -> {NoEdit} \cup Handler]
      /\ AlarmsExplained
  BY DEF MetaInv, NumbersInv, MetaTyped
<1>3. q \in Handler /\ q.copy \in Meta /\ Holding(q) /\ Acting(q)
  BY <1>1, <1>2, HandlersTyped DEF Holding, Acting
<1>4. r \in Handler /\ r.pc = "committed" /\ r.op = q.op /\ r.key = q.key /\ r.no = q.no
      /\ r.copy = q.copy
  BY <1>3 DEF Handler
<1>5. /\ new \in Meta /\ ~new.old /\ new.count = q.copy.count /\ new.mfa = q.copy.mfa
      /\ ~q.copy.old => new = q.copy
  BY <1>3 DEF Meta
<1>6. edit'[s] = r /\ \A t \in MetaSlot : t # s => edit'[t] = edit[t]
  BY <1>1, <1>2
<1>. HIDE DEF r, new
<1>7. Counts' \subseteq Counts
  <2>1. q.copy.count \in Counts
    BY <1>3 DEF Counts, Remembered
  <2>2. \A t \in MetaSlot : Holding(edit'[t]) => Holding(edit[t]) /\ edit'[t].copy = edit[t].copy
    BY <1>3, <1>4, <1>6
  <2>. HIDE DEF q
  <2>. QED BY <1>1, <1>5, <2>1, <2>2 DEF Counts, Remembered
<1>8. ASSUME ~overlapped' PROVE ~overlapped /\ LiveCopies' \subseteq LiveCopies
  <2>1. ~overlapped /\ ~q.copy.old
    BY <1>1, <1>8
  <2>2. q.copy \in LiveCopies
    BY <1>1, <2>1 DEF LiveCopies, Remembered
  <2>3. \A t \in MetaSlot : edit'[t].pc \in {"selected", "write"} => edit'[t] = edit[t]
    BY <1>4, <1>6
  <2>. HIDE DEF q
  <2>. QED BY <1>1, <1>5, <2>1, <2>2, <2>3 DEF LiveCopies, Remembered
<1>9. overlapped' \in BOOLEAN
  BY <1>1, <1>3 DEF Meta
<1>10. MetaTyped'
  <2>1. edit' \in [MetaSlot -> {NoEdit} \cup Handler]
    BY <1>1, <1>2, <1>4
  <2>2. \A t \in MetaSlot : Holding(edit'[t]) => edit'[t].copy \in Meta
    BY <1>2, <1>3, <1>4, <1>6, HandlersTyped
  <2>. QED BY <1>1, <1>2, <1>5, <1>9, <2>1, <2>2, TypedStep DEF MetaTyped, PasskeysTypeOK
<1>11. \A t \in MetaSlot :
          /\ Waiting(edit'[t]) => Waiting(edit[t]) /\ edit'[t] = edit[t]
          /\ Acting(edit'[t]) =>
               /\ Acting(edit[t]) /\ edit'[t].op = edit[t].op /\ edit'[t].key = edit[t].key
               /\ edit'[t].no = edit[t].no /\ edit'[t].copy = edit[t].copy
  <2>1. ~Waiting(r)
    BY <1>4 DEF Waiting
  <2>. QED BY <1>3, <1>4, <1>6, <2>1
<1>12. AlarmsExplained'
  BY <1>1, <1>2 DEF AlarmsExplained
<1>13. NumbersInv'
  BY <1>1, <1>2, <1>7, <1>11, <1>12, NumbersKept DEF Untouched
<1>14. AnswersInv'
  BY <1>1, <1>2, <1>8, <1>11, AnswersKept
<1>. QED BY <1>10, <1>13, <1>14 DEF MetaInv

(***************************************************************************)
(* Answering.  The copies of the others that are not the row are old from  *)
(* now on, here and on the other workers; and if the row is what the       *)
(* handler wrote, it shows what is answered.                               *)
(***************************************************************************)
LEMMA OutdatedIs ==
    ASSUME MetaTyped, NEW m \in Meta
    PROVE  /\ Outdated(m) \in Meta /\ Outdated(m) # NoMeta
           /\ Outdated(m).count = m.count /\ Outdated(m).mfa = m.mfa
           /\ Outdated(m).old \/ Outdated(m) = meta
<1>1. (m # meta) \in BOOLEAN /\ meta \in Meta /\ ~meta.old
  BY DEF MetaTyped, PasskeysTypeOK
<1>2. PICK b \in BOOLEAN : b = (m # meta)
  BY <1>1
<1>3. Outdated(m) = [count |-> m.count, mfa |-> m.mfa, pending |-> m.pending, old |-> b]
  BY <1>2 DEF Outdated, Meta
<1>4. Outdated(m) \in Meta
  BY <1>2, <1>3 DEF Meta
<1>5. Outdated(m).old \/ Outdated(m) = meta
  <2>1. CASE b
    BY <1>3, <2>1
  <2>2. CASE ~b
    BY <1>1, <1>2, <1>3, <2>2 DEF Meta
  <2>. QED BY <2>1, <2>2
<1>6. Outdated(m) # NoMeta
  BY <1>3 DEF NoMeta
<1>. QED BY <1>3, <1>4, <1>5, <1>6

LEMMA OutdateIs ==
    ASSUME MetaTyped, NEW s \in MetaSlot, edit' = Outdate(s)
    PROVE  /\ edit' \in [MetaSlot -> {NoEdit} \cup Handler] /\ edit'[s] = NoEdit
           /\ \A t \in MetaSlot : t # s =>
                  /\ edit'[t].pc = edit[t].pc
                  /\ edit[t] # NoEdit => /\ edit'[t] \in Handler /\ edit'[t].op = edit[t].op
                                         /\ edit'[t].key = edit[t].key /\ edit'[t].no = edit[t].no
                  /\ Holding(edit[t]) => /\ edit'[t].copy \in Meta
                                         /\ edit'[t].copy.count = edit[t].copy.count
                                         /\ edit'[t].copy.mfa = edit[t].copy.mfa
                  /\ edit[t].pc \in {"selected", "write"} =>
                         edit'[t].copy.old \/ edit'[t].copy = meta
<1>1. edit'[s] = NoEdit
  BY DEF Outdate
<1>2. ASSUME NEW t \in MetaSlot, t # s
      PROVE  /\ edit'[t] \in {NoEdit} \cup Handler
             /\ edit'[t].pc = edit[t].pc
             /\ edit[t] # NoEdit => /\ edit'[t] \in Handler /\ edit'[t].op = edit[t].op
                                    /\ edit'[t].key = edit[t].key /\ edit'[t].no = edit[t].no
             /\ Holding(edit[t]) => /\ edit'[t].copy \in Meta
                                    /\ edit'[t].copy.count = edit[t].copy.count
                                    /\ edit'[t].copy.mfa = edit[t].copy.mfa
             /\ edit[t].pc \in {"selected", "write"} =>
                    edit'[t].copy.old \/ edit'[t].copy = meta
  <2>1. CASE edit[t].pc \in {"selected", "write"}
    <3>. DEFINE m == Outdated(edit[t].copy)
    <3>1. edit[t] \in Handler /\ edit[t].copy \in Meta /\ edit[t] # NoEdit
      BY <2>1, HandlersTyped DEF Holding, Acting, NoEdit
    <3>2. edit'[t] = [edit[t] EXCEPT !.copy = m]
      BY <1>2, <2>1 DEF Outdate
    <3>3. /\ m \in Meta /\ m.count = edit[t].copy.count /\ m.mfa = edit[t].copy.mfa
          /\ m.old \/ m = meta
      BY <3>1, OutdatedIs
    <3>. HIDE DEF m
    <3>4. edit'[t] \in Handler /\ edit'[t].copy = m /\ edit'[t].op = edit[t].op
          /\ edit'[t].key = edit[t].key /\ edit'[t].no = edit[t].no /\ edit'[t].pc = edit[t].pc
      BY <3>1, <3>2, <3>3 DEF Handler
    <3>. QED BY <3>3, <3>4
  <2>2. CASE edit[t].pc \notin {"selected", "write"}
    <3>1. edit'[t] = edit[t]
      BY <1>2, <2>2 DEF Outdate
    <3>. QED BY <2>2, <3>1, HandlersTyped
  <2>. QED BY <2>1, <2>2
<1>3. edit' = [t \in MetaSlot |-> edit'[t]]
  BY DEF Outdate
<1>4. edit' \in [MetaSlot -> {NoEdit} \cup Handler]
  <2>1. \A t \in MetaSlot : edit'[t] \in {NoEdit} \cup Handler
    BY <1>1, <1>2
  <2>. QED BY <1>3, <2>1
<1>. QED BY <1>1, <1>2, <1>4

LEMMA AnswerShows ==
    ASSUME MetaTyped, NEW q \in Handler, Shows(q), Agrees(meta),
           meta.count = q.copy.count, meta.mfa = q.copy.mfa, UNCHANGED <<meta, counterless>>,
           removed' = removed \cup (IF q.op = "remove" THEN {q.key}
                                    ELSE IF q.op = "disable" THEN {"mfa"} ELSE {}),
           accepted' = IF q.op = "login" THEN [accepted EXCEPT ![q.key] = q.no] ELSE accepted
    PROVE  Agrees(meta)'
<1>. USE PasskeysAssumption
<1>1. q.key \in Key /\ accepted \in [Key -> 0..MaxSigned]
  BY DEF Handler, MetaTyped, PasskeysTypeOK
<1>2. Items(meta)' = Items(meta) /\ Registered(meta)' = Registered(meta)
  BY DEF Items, Registered
<1>3. removed' \cap Items(meta) = {}
  <2>1. CASE q.op = "remove"
    <3>1. q.key \notin Items(meta)
      BY <1>1, <2>1 DEF Shows, Items, Registered
    <3>. QED BY <2>1, <3>1 DEF Agrees
  <2>2. CASE q.op = "disable"
    <3>1. "mfa" \notin Items(meta)
      BY <2>2 DEF Shows, Items, Registered
    <3>. QED BY <2>2, <3>1 DEF Agrees
  <2>3. CASE q.op \notin {"remove", "disable"}
    BY <2>3 DEF Agrees
  <2>. QED BY <2>1, <2>2, <2>3
<1>4. ASSUME NEW k \in Registered(meta) PROVE meta.count[k] >= Counter(k, accepted[k])'
  <2>1. \A n : Counter(k, n)' = Counter(k, n)
    BY DEF Counter
  <2>2. k \in Key
    BY DEF Registered
  <2>3. CASE q.op = "login" /\ q.key = k
    <3>1. accepted'[k] = q.no
      BY <1>1, <2>3
    <3>2. meta.count[k] >= Counter(k, q.no)
      BY <2>3 DEF Shows
    <3>. QED BY <3>1, <3>2 DEF Counter
  <2>4. CASE ~(q.op = "login" /\ q.key = k)
    <3>1. accepted'[k] = accepted[k]
      BY <1>1, <2>2, <2>4
    <3>2. meta.count[k] >= Counter(k, accepted[k])
      BY DEF Agrees
    <3>. QED BY <3>1, <3>2 DEF Counter
  <2>. QED BY <2>3, <2>4
<1>. QED BY <1>2, <1>3, <1>4 DEF Agrees

LEMMA AnswerKeepsMeta ==
    ASSUME MetaInv, NEW s \in MetaSlot, Answer(s)
    PROVE  MetaInv'
<1>. DEFINE q == edit[s]
<1>. DEFINE old == [q.copy EXCEPT !.old = FALSE]
<1>. USE PasskeysAssumption
<1>1. /\ q.pc = "committed" /\ edit' = Outdate(s) /\ overlapped' = (overlapped \/ meta # old)
      /\ removed' = removed \cup (IF q.op = "remove" THEN {q.key}
                                  ELSE IF q.op = "disable" THEN {"mfa"} ELSE {})
      /\ accepted' = (IF q.op = "login" THEN [accepted EXCEPT ![q.key] = q.no] ELSE accepted)
      /\ redisMeta' = NoMeta
      /\ UNCHANGED <<counterless, meta, edits, signed, alarmed>>
  BY DEF Answer, Answered
<1>2. MetaTyped /\ NumbersInv /\ EditsShow /\ AlarmsExplained
      /\ (~overlapped => \A m \in LiveCopies : Agrees(m))
  BY DEF MetaInv, NumbersInv, AnswersInv
<1>3. q \in Handler /\ q.copy \in Meta /\ Acting(q) /\ q.key \in Key /\ q.no \in 0..MaxSigned
  BY <1>1, <1>2, HandlersTyped DEF Holding, Acting, Handler
<1>4. old.count = q.copy.count /\ old.mfa = q.copy.mfa
  BY <1>3 DEF Meta
<1>. HIDE DEF old
<1>5. /\ edit' \in [MetaSlot -> {NoEdit} \cup Handler] /\ edit'[s] = NoEdit
      /\ \A t \in MetaSlot : t # s =>
             /\ edit'[t].pc = edit[t].pc
             /\ edit[t] # NoEdit => /\ edit'[t] \in Handler /\ edit'[t].op = edit[t].op
                                    /\ edit'[t].key = edit[t].key /\ edit'[t].no = edit[t].no
             /\ Holding(edit[t]) => /\ edit'[t].copy \in Meta
                                    /\ edit'[t].copy.count = edit[t].copy.count
                                    /\ edit'[t].copy.mfa = edit[t].copy.mfa
             /\ edit[t].pc \in {"selected", "write"} =>
                    edit'[t].copy.old \/ edit'[t].copy = meta
  BY <1>1, <1>2, OutdateIs
<1>0. /\ cachedMeta' \in [Worker -> Meta \cup {NoMeta}]
      /\ \A w \in Worker : cachedMeta'[w] = NoMeta \/
             /\ cachedMeta[w] # NoMeta /\ cachedMeta'[w].count = cachedMeta[w].count
             /\ cachedMeta'[w].old \/ cachedMeta'[w] = meta
  <2>1. cachedMeta' = [w \in Worker |->
            IF w = q.at \/ cachedMeta[w] = NoMeta THEN NoMeta ELSE Outdated(cachedMeta[w])]
    BY DEF Answer, ForgetHere
  <2>2. \A w \in Worker : cachedMeta[w] # NoMeta => cachedMeta[w] \in Meta
    BY <1>2 DEF MetaTyped, PasskeysTypeOK
  <2>. HIDE DEF q
  <2>. QED BY <1>2, <2>1, <2>2, OutdatedIs
<1>6. edit'[s].pc = "none"
  BY <1>5 DEF NoEdit
<1>7. \A t \in MetaSlot :
          /\ Holding(edit'[t]) => t # s /\ Holding(edit[t])
          /\ Waiting(edit'[t]) => t # s /\ Waiting(edit[t])
          /\ Acting(edit'[t]) => t # s /\ Acting(edit[t])
  <2>1. ASSUME NEW t \in MetaSlot, t # s
        PROVE  /\ Holding(edit'[t]) => Holding(edit[t])
               /\ Waiting(edit'[t]) => Waiting(edit[t])
               /\ Acting(edit'[t]) => Acting(edit[t])
    <3>1. edit'[t].pc = edit[t].pc
      BY <1>5, <2>1
    <3>2. edit[t] = NoEdit => edit[t].pc = "none"
      BY DEF NoEdit
    <3>. QED BY <1>5, <2>1, <3>1, <3>2 DEF Holding, Acting, Waiting
  <2>. QED BY <1>6, <2>1 DEF Holding, Acting, Waiting
<1>8. \A t \in MetaSlot : Waiting(edit[t]) \/ Acting(edit[t]) => edit[t] # NoEdit
  BY DEF Waiting, Acting, NoEdit
<1>9. Counts' \subseteq Counts
  <2>1. \A m \in Remembered' : \E c \in Remembered : m.count = c.count
    BY <1>0, <1>1 DEF Remembered
  <2>2. \A t \in MetaSlot : Holding(edit'[t]) =>
            Holding(edit[t]) /\ edit'[t].copy.count = edit[t].copy.count
    BY <1>5, <1>7
  <2>. HIDE DEF q
  <2>. QED BY <1>1, <2>1, <2>2 DEF Counts
<1>10. LiveCopies' \subseteq {meta}
  <2>1. \A t \in MetaSlot : edit'[t].pc \in {"selected", "write"} =>
            edit'[t].copy.old \/ edit'[t].copy = meta
    BY <1>5, <1>6
  <2>2. \A m \in Remembered' : m.old \/ m = meta
    BY <1>0, <1>1 DEF Remembered
  <2>. HIDE DEF q
  <2>. QED BY <1>1, <2>1, <2>2 DEF LiveCopies
<1>11. MetaTyped'
  <2>1. \A t \in MetaSlot : Holding(edit'[t]) => edit'[t].copy \in Meta
    BY <1>5, <1>7
  <2>2. removed' \subseteq Item
    BY <1>1, <1>2, <1>3 DEF MetaTyped, PasskeysTypeOK, Item
  <2>3. accepted' \in [Key -> 0..MaxSigned]
    BY <1>1, <1>2, <1>3 DEF MetaTyped, PasskeysTypeOK
  <2>4. overlapped' \in BOOLEAN
    BY <1>1, <1>2 DEF MetaTyped, PasskeysTypeOK
  <2>. HIDE DEF q
  <2>. QED BY <1>0, <1>1, <1>2, <1>5, <2>1, <2>2, <2>3, <2>4, TypedStep
           DEF MetaTyped, PasskeysTypeOK
<1>12. NumbersInv'
  <2>1. ASSUME NEW k \in Key, Untouched(k) PROVE k \notin removed' /\ accepted'[k] = 0
    <3>1. q.key = k => q.op \notin Ceremony \cup {"remove"}
      BY <1>3, <2>1 DEF Untouched
    <3>2. k \notin removed /\ accepted[k] = 0 /\ k # "mfa"
      BY <2>1 DEF Untouched
    <3>3. accepted \in [Key -> 0..MaxSigned]
      BY <1>2 DEF MetaTyped, PasskeysTypeOK
    <3>4. k \notin removed'
      BY <1>1, <3>1, <3>2
    <3>5. accepted'[k] = 0
      BY <1>1, <3>1, <3>2, <3>3 DEF Ceremony
    <3>. QED BY <3>4, <3>5
  <2>2. AlarmsExplained'
    BY <1>1, <1>2 DEF AlarmsExplained
  <2>3. \A t \in MetaSlot :
            /\ Waiting(edit'[t]) =>
                   /\ Waiting(edit[t]) /\ edit'[t].op = edit[t].op
                   /\ edit'[t].key = edit[t].key /\ edit'[t].no = edit[t].no
            /\ Acting(edit'[t]) =>
                   /\ Acting(edit[t]) /\ edit'[t].op = edit[t].op /\ edit'[t].key = edit[t].key
    BY <1>5, <1>7, <1>8
  <2>. HIDE DEF q
  <2>. QED BY <1>1, <1>2, <1>9, <2>1, <2>2, <2>3, NumbersKept
<1>13. EditsShow'
  <2>1. ASSUME NEW t \in MetaSlot, Acting(edit'[t]) PROVE Shows(edit[t])'
    <3>1. Shows(edit[t]) /\ Holding(edit[t]) /\ edit[t] # NoEdit /\ t # s
      BY <1>2, <1>7, <1>8, <2>1 DEF EditsShow, Holding
    <3>2. /\ edit'[t].op = edit[t].op /\ edit'[t].key = edit[t].key /\ edit'[t].no = edit[t].no
          /\ edit'[t].copy.count = edit[t].copy.count /\ edit'[t].copy.mfa = edit[t].copy.mfa
      BY <1>5, <3>1
    <3>. QED BY <1>1, <3>1, <3>2 DEF Shows, Counter
  <2>. QED BY <2>1 DEF EditsShow
<1>14. ASSUME ~overlapped' PROVE Agrees(meta)'
  <2>1. ~overlapped /\ meta = old
    BY <1>1, <1>14
  <2>2. meta \in LiveCopies
    BY <1>2 DEF MetaTyped, PasskeysTypeOK, LiveCopies, Remembered
  <2>3. Agrees(meta) /\ Shows(q)
    BY <1>2, <1>3, <2>1, <2>2 DEF EditsShow
  <2>. HIDE DEF q
  <2>. QED BY <1>1, <1>2, <1>3, <1>4, <2>1, <2>3, AnswerShows
<1>15. AnswersInv'
  <2>1. ASSUME ~overlapped', NEW m \in LiveCopies' PROVE Agrees(m)'
    <3>1. m = meta' /\ Agrees(meta)'
      BY <1>1, <1>10, <1>14, <2>1
    <3>. QED BY <3>1
  <2>. QED BY <1>13, <2>1 DEF AnswersInv
<1>. QED BY <1>11, <1>12, <1>15 DEF MetaInv

(***************************************************************************)
(* Comparing a request with the copy at hand.  If it is refused, it ends.  *)
(***************************************************************************)
LEMMA AlarmHasCause ==
    ASSUME MetaInv, NEW s \in MetaSlot, NEW m \in Meta, m.count \in Counts,
           edit[s].pc \in {"signed", "selected", "scan"}, Handle(s, m)
    PROVE  AlarmsExplained' /\ alarmed' \subseteq (Key \X BOOLEAN)
<1>. DEFINE q == edit[s]
<1>. DEFINE a == <<q.key, q.no < m.count[q.key]>>
<1>. USE PasskeysAssumption
<1>1. MetaTyped /\ SignaturesApart /\ CountsSettled /\ AlarmsExplained
      /\ alarmed \subseteq (Key \X BOOLEAN)
  BY DEF MetaInv, NumbersInv, MetaTyped, PasskeysTypeOK
<1>2. q \in Handler /\ q.key \in Key /\ q.no \in 0..MaxSigned /\ counterless' = counterless
  BY <1>1, HandlersTyped DEF Handler, Handle
<1>3. CASE alarmed' = alarmed
  BY <1>1, <1>2, <1>3 DEF AlarmsExplained
<1>4. CASE alarmed' # alarmed
  <2>1. q.op = "login" /\ Refused(q, m) /\ m.count[q.key] # Absent /\ alarmed' = alarmed \cup {a}
    BY <1>4 DEF Handle
  <2>2. Waiting(q)
    BY <2>1 DEF Waiting, Ceremony
  <2>3. Regressed(q.key, q.no, m)
    BY <2>1 DEF Refused
  <2>4. q.no >= 1 /\ m.count[q.key] \in 0..MaxSigned + 1
    BY <1>1, <1>2, <2>1, <2>2 DEF SignaturesApart, Meta, Absent
  <2>5. (q.no < m.count[q.key]) \in BOOLEAN
    OBVIOUS
  <2>6. a \in Key \X BOOLEAN /\ a[1] = q.key /\ (a[2] <=> q.no < m.count[q.key])
    BY <1>2, <2>5
  <2>7. q.key \in counterless \/ q.no < m.count[q.key]
    <3>1. SUFFICES ASSUME q.key \notin counterless PROVE q.no < m.count[q.key]
      OBVIOUS
    <3>2. q.no <= m.count[q.key]
      BY <1>2, <2>3, <3>1 DEF Regressed, Counter
    <3>3. q.no # m.count[q.key]
      BY <1>1, <1>2, <2>2, <3>1 DEF CountsSettled, Settled
    <3>. QED BY <1>2, <2>4, <3>2, <3>3
  <2>. HIDE DEF a, q
  <2>. QED BY <1>1, <1>2, <2>1, <2>6, <2>7 DEF AlarmsExplained
<1>. QED BY <1>3, <1>4

LEMMA RefusedKeeps ==
    ASSUME MetaInv, NEW s \in MetaSlot, NEW m \in Meta, m.count \in Counts,
           edit[s].pc \in {"signed", "selected", "scan"}, Handle(s, m), Refused(edit[s], m),
           m.old \/ m \in LiveCopies, redisMeta' \in {redisMeta, m},
           cachedMeta' \in [Worker -> Meta \cup {NoMeta}],
           \A w \in Worker : cachedMeta'[w] \in {cachedMeta[w], m}
    PROVE  MetaInv'
<1>1. edit' = [edit EXCEPT ![s] = NoEdit] /\ removed' \subseteq removed
      /\ UNCHANGED <<counterless, meta, edits, signed, accepted, overlapped>>
  BY DEF Handle
<1>2. MetaTyped /\ edit \in [MetaSlot -> {NoEdit} \cup Handler]
  BY DEF MetaInv, MetaTyped
<1>3. ~Holding(NoEdit) /\ ~Acting(NoEdit) /\ ~Waiting(NoEdit)
  BY DEF Holding, Acting, Waiting, NoEdit
<1>4. edit'[s] = NoEdit /\ \A t \in MetaSlot : t # s => edit'[t] = edit[t]
  BY <1>1, <1>2
<1>5. Counts' \subseteq Counts
  <2>1. \A t \in MetaSlot : Holding(edit'[t]) => Holding(edit[t]) /\ edit'[t] = edit[t]
    BY <1>3, <1>4
  <2>. QED BY <1>1, <2>1 DEF Counts, Remembered
<1>6. LiveCopies' \subseteq LiveCopies
  <2>1. \A t \in MetaSlot : edit'[t].pc \in {"selected", "write"} => edit'[t] = edit[t]
    BY <1>4 DEF NoEdit
  <2>. QED BY <1>1, <2>1 DEF LiveCopies, Remembered
<1>7. AlarmsExplained' /\ alarmed' \subseteq (Key \X BOOLEAN)
  BY AlarmHasCause
<1>. QED BY <1>1, <1>2, <1>3, <1>5, <1>6, <1>7, QuietKeeps DEF MetaTyped, PasskeysTypeOK

(***************************************************************************)
(* Otherwise its edit shows in a new copy: a number that was on its way,   *)
(* and nobody else's; the first trace of a new key, by its registration    *)
(* only; and in agreement with the answers, if the copy at hand was.       *)
(***************************************************************************)
LEMMA EditAgrees ==
    ASSUME MetaTyped, SignaturesApart, NewKeysUntouched, NEW s \in MetaSlot, NEW m \in Meta,
           edit[s].pc \in {"signed", "selected", "scan"}, ~Refused(edit[s], m), Agrees(m),
           removed' = IF edit[s].op = "confirm" THEN removed \ {"mfa"} ELSE removed,
           UNCHANGED <<counterless, accepted>>, NEW e, e = Edited(edit[s], m)
    PROVE  Agrees(e)'
<1>. DEFINE q == edit[s]
<1>. USE PasskeysAssumption
<1>1. q \in Handler /\ q.key \in Key /\ q.no \in 0..MaxSigned /\ q.op \in Op
  BY HandlersTyped DEF Handler
<1>2. /\ e \in Meta
      /\ \A k \in Key : k # q.key \/ q.op \notin Ceremony \cup {"remove"} =>
                        e.count[k] = m.count[k]
      /\ q.op = "register" => e.count[q.key] = Counter(q.key, q.no)
      /\ q.op = "login" =>
             /\ m.count[q.key] # Absent /\ e.count[q.key] >= Counter(q.key, q.no)
             /\ q.key \notin counterless /\ q.no >= 1 =>
                    e.count[q.key] = q.no /\ m.count[q.key] < q.no
      /\ q.op = "remove" => m.count[q.key] # Absent /\ e.count[q.key] = Absent
      /\ q.op = "disable" => ~e.mfa
      /\ q.op \notin {"confirm", "disable"} => e.mfa = m.mfa
  BY <1>1, EditedIs DEF MetaTyped, PasskeysTypeOK
<1>3. q.op \in Ceremony => 1 <= q.no /\ (q.op = "register" => q.no = 1 /\ Untouched(q.key))
  <2>1. q.op \in Ceremony => Waiting(q)
    BY DEF Waiting
  <2>2. q.op = "register" => Expected(q.key)
    BY <2>1 DEF Expected, Ceremony
  <2>. QED BY <1>1, <2>1, <2>2 DEF SignaturesApart, NewKeysUntouched
<1>4. accepted \in [Key -> 0..MaxSigned] /\ m.count \in [Key -> Absent..MaxSigned + 1]
  BY DEF MetaTyped, PasskeysTypeOK, Meta
<1>5. ASSUME NEW k \in Key, e.count[k] # Absent
      PROVE  k \notin removed /\ e.count[k] >= Counter(k, accepted[k])
  <2>1. CASE k # q.key \/ q.op \notin Ceremony \cup {"remove"}
    <3>1. e.count[k] = m.count[k] /\ k \in Registered(m)
      BY <1>2, <1>5, <2>1 DEF Registered
    <3>. QED BY <3>1 DEF Agrees, Items
  <2>2. CASE k = q.key /\ q.op = "register"
    <3>1. e.count[k] = Counter(k, 1) /\ k \notin removed /\ accepted[k] = 0
      BY <1>2, <1>3, <2>2 DEF Untouched, Ceremony
    <3>. QED BY <3>1 DEF Counter
  <2>3. CASE k = q.key /\ q.op = "login"
    <3>1. k \in Registered(m)
      BY <1>2, <2>3 DEF Registered
    <3>2. k \notin removed /\ m.count[k] >= Counter(k, accepted[k])
      BY <3>1 DEF Agrees, Items
    <3>3. CASE k \in counterless
      BY <1>2, <2>3, <3>2, <3>3 DEF Counter
    <3>4. CASE k \notin counterless
      <4>1. e.count[k] = q.no /\ m.count[k] < q.no
        BY <1>2, <1>3, <2>3, <3>4 DEF Ceremony
      <4>2. Counter(k, accepted[k]) = accepted[k]
        BY <3>4 DEF Counter
      <4>3. m.count[k] \in Int /\ accepted[k] \in Int /\ q.no \in Int
        BY <1>1, <1>4 DEF Absent
      <4>. QED BY <3>2, <4>1, <4>2, <4>3
    <3>. QED BY <3>3, <3>4
  <2>4. CASE k = q.key /\ q.op = "remove"
    BY <1>2, <1>5, <2>4
  <2>. QED BY <2>1, <2>2, <2>3, <2>4 DEF Ceremony
<1>6. e.mfa => "mfa" \notin removed'
  <2>1. CASE q.op = "confirm"
    BY <2>1
  <2>2. CASE q.op # "confirm"
    BY <1>2, <2>2 DEF Agrees, Items
  <2>. QED BY <2>1, <2>2
<1>7. removed' \cap Items(e) = {}
  BY <1>5, <1>6 DEF Items, Registered
<1>8. \A k \in Registered(e) : e.count[k] >= Counter(k, accepted[k])'
  BY <1>5 DEF Registered, Counter
<1>. QED BY <1>7, <1>8 DEF Agrees, Items, Registered

LEMMA EditedKeeps ==
    ASSUME MetaInv, NEW s \in MetaSlot, NEW m \in Meta, m.count \in Counts,
           edit[s].pc \in {"signed", "selected", "scan"}, Handle(s, m), ~Refused(edit[s], m),
           m.old \/ m \in LiveCopies, NEW e, e = Edited(edit[s], m),
           redisMeta' \in {redisMeta, m}, cachedMeta' \in [Worker -> {e} \cup Meta \cup {NoMeta}],
           \A w \in Worker : cachedMeta'[w] \in {cachedMeta[w], e}
    PROVE  MetaInv'
<1>. DEFINE q == edit[s]
<1>. DEFINE r == [q EXCEPT !.pc = "write", !.copy = e]
<1>. USE PasskeysAssumption
<1>1. /\ edit' = [edit EXCEPT ![s] = r]
      /\ removed' = IF q.op = "confirm" THEN removed \ {"mfa"} ELSE removed
      /\ UNCHANGED <<counterless, meta, edits, signed, accepted, overlapped>>
  BY DEF Handle
<1>2. MetaTyped /\ SignaturesApart /\ CountsSettled /\ NewKeysUntouched /\ EditsShow
      /\ (~overlapped => \A x \in LiveCopies : Agrees(x)) /\ edit \in [MetaSlot -> {NoEdit} \cup Handler]
  BY DEF MetaInv, NumbersInv, AnswersInv, MetaTyped
<1>3. q \in Handler /\ q.key \in Key /\ q.no \in 0..MaxSigned /\ q.op \in Op
  BY <1>2, HandlersTyped DEF Handler
<1>4. /\ e \in Meta /\ e.old = m.old
      /\ \A k \in Key : k # q.key \/ q.op \notin Ceremony \cup {"remove"} =>
                        e.count[k] = m.count[k]
      /\ q.op = "register" => e.count[q.key] = Counter(q.key, q.no)
      /\ q.op = "login" =>
             /\ m.count[q.key] # Absent /\ e.count[q.key] >= Counter(q.key, q.no)
             /\ q.key \notin counterless /\ q.no >= 1 =>
                    e.count[q.key] = q.no /\ m.count[q.key] < q.no
      /\ q.op = "remove" => m.count[q.key] # Absent /\ e.count[q.key] = Absent
      /\ q.op = "disable" => ~e.mfa
  BY <1>2, <1>3, EditedIs DEF MetaTyped, PasskeysTypeOK
<1>5. r \in Handler /\ r.pc = "write" /\ r.copy = e /\ r.op = q.op /\ r.key = q.key /\ r.no = q.no
  BY <1>3, <1>4 DEF Handler
<1>. HIDE DEF r
<1>6. edit'[s] = r /\ \A t \in MetaSlot : t # s => edit'[t] = edit[t]
  BY <1>1, <1>2
<1>7. Acting(r) /\ ~Waiting(r)
  BY <1>5 DEF Acting, Waiting
<1>8. \A t \in MetaSlot : /\ Waiting(edit'[t]) => t # s /\ Waiting(edit[t]) /\ edit'[t] = edit[t]
                          /\ t # s => edit'[t] = edit[t]
  BY <1>6, <1>7
<1>9. Counts' \subseteq Counts \cup {e.count}
  <2>1. \A t \in MetaSlot : Holding(edit'[t]) =>
            edit'[t].copy = e \/ (Holding(edit[t]) /\ edit'[t] = edit[t])
    BY <1>5, <1>6
  <2>. HIDE DEF q
  <2>. QED BY <1>1, <2>1 DEF Counts, Remembered
<1>10. LiveCopies' \subseteq LiveCopies \cup {x \in {e} : ~x.old}
  <2>1. \A t \in MetaSlot : edit'[t].pc \in {"selected", "write"} =>
            edit'[t].copy = e \/ edit'[t] = edit[t]
    BY <1>5, <1>6
  <2>. HIDE DEF q
  <2>. QED BY <1>1, <2>1 DEF LiveCopies, Remembered
<1>11. q.op \in Ceremony => /\ Waiting(q) /\ 1 <= q.no /\ q.no <= signed[q.key]
                            /\ q.op = "register" => q.no = 1
  <2>1. q.op \in Ceremony => Waiting(q)
    BY DEF Waiting
  <2>. QED BY <2>1, <1>2 DEF SignaturesApart
<1>12. AlarmsExplained' /\ alarmed' \subseteq (Key \X BOOLEAN)
  BY AlarmHasCause
<1>13. MetaTyped'
  <2>1. edit' \in [MetaSlot -> {NoEdit} \cup Handler]
    BY <1>1, <1>2, <1>5
  <2>2. \A t \in MetaSlot : Holding(edit'[t]) => edit'[t].copy \in Meta
    BY <1>2, <1>4, <1>5, <1>6, HandlersTyped
  <2>3. removed' \subseteq Item
    BY <1>1, <1>2 DEF MetaTyped, PasskeysTypeOK
  <2>. HIDE DEF q
  <2>. QED BY <1>1, <1>2, <1>4, <1>12, <2>1, <2>2, <2>3, TypedStep DEF MetaTyped, PasskeysTypeOK
<1>14. SignaturesApart'
  <2>. HIDE DEF q
  <2>. QED BY <1>1, <1>2, <1>8 DEF SignaturesApart
<1>15. CountsSettled'
  <2>1. \A n, k : Settled(k, n) => Settled(k, n)'
    <3>. HIDE DEF q
    <3>. QED BY <1>1, <1>8 DEF Settled
  <2>2. \A c \in Counts, k \in Key : k \in counterless \/ Settled(k, c[k])'
    BY <1>2, <2>1 DEF CountsSettled
  <2>3. ASSUME NEW k \in Key, k \notin counterless PROVE Settled(k, e.count[k])'
    <3>1. CASE k # q.key \/ q.op \notin Ceremony \cup {"remove"}
      <4>1. e.count[k] = m.count[k]
        BY <1>4, <3>1
      <4>2. Settled(k, m.count[k])'
        BY <2>2, <2>3
      <4>. QED BY <4>1, <4>2
    <3>2. CASE k = q.key /\ q.op \in Ceremony
      <4>1. e.count[k] = q.no
        BY <1>3, <1>4, <1>11, <2>3, <3>2 DEF Counter, Ceremony
      <4>2. q.no <= signed[k]
        BY <1>11, <3>2
      <4>3. ASSUME NEW t \in MetaSlot, Waiting(edit'[t]), edit'[t].key = k
            PROVE  q.no # edit'[t].no
        BY <1>2, <1>8, <1>11, <3>2, <4>3 DEF SignaturesApart
      <4>. QED BY <1>1, <4>1, <4>2, <4>3 DEF Settled
    <3>3. CASE k = q.key /\ q.op = "remove"
      <4>1. e.count[k] = Absent
        BY <1>4, <3>3
      <4>2. signed[k] \in Nat
        BY <1>2 DEF MetaTyped, PasskeysTypeOK
      <4>3. \A t \in MetaSlot : Waiting(edit'[t]) => 1 <= edit'[t].no
        BY <1>2, <1>8 DEF SignaturesApart
      <4>. QED BY <1>1, <4>1, <4>2, <4>3 DEF Settled, Absent
    <3>. QED BY <3>1, <3>2, <3>3
  <2>4. \A k \in Key : k \in counterless' <=> k \in counterless
    BY <1>1
  <2>. HIDE DEF q
  <2>. QED BY <1>9, <2>2, <2>3, <2>4 DEF CountsSettled
<1>16. NewKeysUntouched'
  <2>1. SUFFICES ASSUME NEW k \in Key, Expected(k)' PROVE Untouched(k)'
    BY DEF NewKeysUntouched
  <2>2. Expected(k)
    BY <1>1, <1>8, <2>1 DEF Expected
  <2>3. Untouched(k) /\ m.count[k] = Absent
    BY <1>2, <2>2 DEF NewKeysUntouched, Untouched
  <2>4. k = q.key => q.op \notin Ceremony \cup {"remove"}
    <3>1. SUFFICES ASSUME k = q.key, q.op = "register" PROVE FALSE
      BY <1>4, <2>3 DEF Ceremony
    <3>2. q.no = 1 /\ Waiting(q) /\ signed[k] \in Nat /\ 1 <= signed[k]
      BY <1>2, <1>11, <3>1 DEF Ceremony, MetaTyped, PasskeysTypeOK
    <3>3. PICK t \in MetaSlot :
              Waiting(edit'[t]) /\ edit'[t].op = "register" /\ edit'[t].key = k
      BY <1>1, <2>1, <3>2 DEF Expected
    <3>4. t # s /\ Waiting(edit[t]) /\ edit[t].op = "register" /\ edit[t].key = k
      BY <1>8, <3>3
    <3>5. edit[t].no = 1
      BY <1>2, <3>4 DEF SignaturesApart
    <3>. QED BY <1>2, <3>1, <3>2, <3>4, <3>5 DEF SignaturesApart
  <2>5. \A c \in Counts' : c[k] = Absent
    BY <1>4, <1>9, <2>3, <2>4 DEF Untouched
  <2>6. \A t \in MetaSlot : Acting(edit'[t]) /\ edit'[t].key = k =>
                            edit'[t].op \notin Ceremony \cup {"remove"}
    <3>1. r.key = k => r.op \notin Ceremony \cup {"remove"}
      BY <1>5, <2>4
    <3>. QED BY <1>6, <2>3, <3>1 DEF Untouched
  <2>7. k \notin removed' /\ accepted'[k] = 0
    BY <1>1, <2>3 DEF Untouched
  <2>. QED BY <2>5, <2>6, <2>7 DEF Untouched
<1>17. EditsShow'
  <2>1. ASSUME NEW t \in MetaSlot, Acting(edit'[t]) PROVE Shows(edit[t])'
    <3>1. CASE t = s
      <4>1. /\ r.op = "remove"  => r.copy.count[r.key] = Absent
            /\ r.op = "disable" => ~r.copy.mfa
            /\ r.op = "login"   => r.copy.count[r.key] >= Counter(r.key, r.no)
        BY <1>4, <1>5
      <4>. HIDE DEF q
      <4>. QED BY <1>1, <1>6, <3>1, <4>1 DEF Shows, Counter
    <3>2. CASE t # s
      <4>1. edit'[t] = edit[t] /\ Shows(edit[t])
        BY <1>2, <1>6, <2>1, <3>2 DEF EditsShow
      <4>. HIDE DEF q
      <4>. QED BY <1>1, <4>1 DEF Shows, Counter
    <3>. QED BY <3>1, <3>2
  <2>. QED BY <2>1 DEF EditsShow
<1>18. ASSUME ~overlapped', NEW x \in LiveCopies' PROVE Agrees(x)'
  <2>1. ~overlapped
    BY <1>1, <1>18
  <2>2. CASE x \in LiveCopies
    <3>1. Agrees(x) /\ removed' \subseteq removed
      BY <1>1, <1>2, <2>1, <2>2
    <3>2. accepted' = accepted /\ counterless' = counterless
      BY <1>1
    <3>. QED BY <3>1, <3>2 DEF Agrees, Items, Registered, Counter
  <2>3. CASE x = e /\ ~e.old
    <3>1. m \in LiveCopies
      BY <1>4, <2>3
    <3>2. Agrees(m)
      BY <1>2, <2>1, <3>1
    <3>3. Agrees(e)'
      BY <1>1, <1>2, <3>2, EditAgrees
    <3>. QED BY <2>3, <3>3
  <2>. QED BY <1>10, <1>18, <2>2, <2>3
<1>. QED BY <1>12, <1>13, <1>14, <1>15, <1>16, <1>17, <1>18 DEF MetaInv, NumbersInv, AnswersInv

(***************************************************************************)
(* Wherever the copy at hand comes from.                                   *)
(***************************************************************************)
LEMMA HandleKeeps ==
    ASSUME MetaInv, NEW s \in MetaSlot, NEW m \in Meta, m.count \in Counts, m.old \/ m \in LiveCopies,
           edit[s].pc \in {"signed", "selected", "scan"}, Handle(s, m),
           redisMeta' \in {redisMeta, m},
           cachedMeta' = cachedMeta \/ Remember(s, After(edit[s], m))
    PROVE  MetaInv'
<1>. DEFINE e == After(edit[s], m)
<1>1. cachedMeta \in [Worker -> Meta \cup {NoMeta}] /\ edit[s] \in Handler
  BY HandlersTyped DEF MetaInv, MetaTyped, PasskeysTypeOK
<1>2. edit[s].at \in Worker
  BY <1>1 DEF Handler
<1>3. /\ cachedMeta' \in [Worker -> {e} \cup Meta \cup {NoMeta}]
      /\ \A w \in Worker : cachedMeta'[w] \in {cachedMeta[w], e}
  BY <1>1, <1>2 DEF Remember
<1>. HIDE DEF e
<1>4. CASE Refused(edit[s], m)
  <2>1. e = m
    BY <1>4 DEF After, e
  <2>2. cachedMeta' \in [Worker -> Meta \cup {NoMeta}]
    BY <1>3, <2>1
  <2>. QED BY <1>3, <1>4, <2>1, <2>2, RefusedKeeps
<1>5. CASE ~Refused(edit[s], m)
  <2>1. e = Edited(edit[s], m)
    BY <1>5 DEF After, e
  <2>. QED BY <1>3, <1>5, <2>1, EditedKeeps
<1>. QED BY <1>4, <1>5

LEMMA FindingKeeps ==
    ASSUME MetaInv, NEW s \in MetaSlot,
           FindInMemory(s) \/ FindInRedis(s) \/ FillAndEdit(s) \/ ScanUsers(s)
    PROVE  MetaInv'
<1>0. MetaTyped
  BY DEF MetaInv
<1>1. CASE FindInMemory(s)
  <2>1. PICK m : m = InItsMemory(s)
    OBVIOUS
  <2>2. /\ edit[s].pc = "signed" /\ m # NoMeta /\ Handle(s, m) /\ Remember(s, After(edit[s], m))
        /\ redisMeta' = redisMeta
    BY <1>1, <2>1 DEF FindInMemory
  <2>3. edit[s].at \in Worker
    BY <1>0, <2>2, HandlersTyped DEF Handler
  <2>4. m \in Meta /\ m \in Remembered
    BY <1>0, <2>1, <2>2, <2>3 DEF MetaTyped, PasskeysTypeOK, InItsMemory, Remembered
  <2>5. m.count \in Counts /\ (m.old \/ m \in LiveCopies)
    BY <2>4 DEF Counts, LiveCopies
  <2>. QED BY <2>2, <2>4, <2>5, HandleKeeps
<1>2. CASE FindInRedis(s)
  <2>1. PICK m : m = redisMeta
    OBVIOUS
  <2>2. /\ edit[s].pc = "signed" /\ m # NoMeta /\ Handle(s, m) /\ Remember(s, After(edit[s], m))
        /\ redisMeta' = redisMeta
    BY <1>2, <2>1 DEF FindInRedis
  <2>3. m \in Meta /\ m \in Remembered
    BY <1>0, <2>1, <2>2 DEF MetaTyped, PasskeysTypeOK, Remembered
  <2>4. m.count \in Counts /\ (m.old \/ m \in LiveCopies)
    BY <2>3 DEF Counts, LiveCopies
  <2>. QED BY <2>2, <2>3, <2>4, HandleKeeps
<1>3. CASE FillAndEdit(s)
  <2>1. PICK m : m = edit[s].copy
    OBVIOUS
  <2>2. /\ edit[s].pc = "selected" /\ Handle(s, m) /\ Remember(s, After(edit[s], m))
        /\ redisMeta' = m
    BY <1>3, <2>1 DEF FillAndEdit
  <2>3. Holding(edit[s])
    BY <2>2 DEF Holding
  <2>4. m \in Meta /\ m.count \in Counts
    BY <1>0, <2>1, <2>3, HandlersTyped DEF Counts
  <2>5. m.old \/ m \in LiveCopies
    BY <2>1, <2>2 DEF LiveCopies
  <2>. QED BY <2>2, <2>4, <2>5, HandleKeeps
<1>4. CASE ScanUsers(s)
  <2>1. PICK m : m = meta
    OBVIOUS
  <2>2. /\ edit[s].pc = "scan" /\ Handle(s, m) /\ UNCHANGED <<cachedMeta, redisMeta>>
    BY <1>4, <2>1 DEF ScanUsers
  <2>3. m \in Meta /\ m.count \in Counts /\ (m.old \/ m \in LiveCopies)
    BY <1>0, <2>1 DEF MetaTyped, PasskeysTypeOK, Counts, LiveCopies
  <2>. QED BY <2>2, <2>3, HandleKeeps
<1>. QED BY <1>1, <1>2, <1>3, <1>4

LEMMA MetaStep == MetaInv /\ [PasskeysNext]_metaVars => MetaInv'
<1>. SUFFICES ASSUME MetaInv, [PasskeysNext]_metaVars PROVE MetaInv'
  OBVIOUS
<1>1. ASSUME NEW s \in MetaSlot, NEW w \in Worker, NEW k \in Key, NEW op \in Ceremony,
             Sign(s, w, op, k)
      PROVE  MetaInv'
  BY <1>1, SignKeeps
<1>2. ASSUME NEW s \in MetaSlot, NEW w \in Worker, NEW k \in Key, NEW op \in Op \ Ceremony,
             Ask(s, w, op, k)
      PROVE  MetaInv'
  BY <1>2, AskKeeps
<1>3. ASSUME NEW s \in MetaSlot, NEW scan \in BOOLEAN, Query(s, scan) PROVE MetaInv'
  BY <1>3, QueryKeeps
<1>4. ASSUME NEW s \in MetaSlot,
             FindInMemory(s) \/ FindInRedis(s) \/ FillAndEdit(s) \/ ScanUsers(s)
      PROVE  MetaInv'
  BY <1>4, FindingKeeps
<1>5. ASSUME NEW s \in MetaSlot, SelectUser(s) PROVE MetaInv'
  BY <1>5, SelectUserKeeps
<1>6. ASSUME NEW s \in MetaSlot, WriteMeta(s) PROVE MetaInv'
  BY <1>6, WriteMetaKeeps
<1>7. ASSUME NEW s \in MetaSlot, Answer(s) PROVE MetaInv'
  BY <1>7, AnswerKeepsMeta
<1>8. ASSUME NEW s \in MetaSlot, WriteFails(s) PROVE MetaInv'
  BY <1>8, WriteFailsKeeps
<1>9. ASSUME ExpireInRedis \/ \E w \in Worker : ExpireInMemory(w) \/ HearOfChange(w)
      PROVE  MetaInv'
  BY <1>9, ExpireKeepsMeta
<1>10. CASE UNCHANGED metaVars
  <2>1. UNCHANGED <<counterless, meta, cachedMeta, redisMeta, edit, edits, signed, removed,
                    accepted, alarmed, overlapped>>
    BY <1>10 DEF metaVars, metaHistory
  <2>2. MetaTyped /\ NumbersInv /\ AnswersInv /\ AlarmsExplained
    BY DEF MetaInv, NumbersInv
  <2>3. Counts' = Counts /\ LiveCopies' = LiveCopies
    BY <2>1 DEF Counts, LiveCopies, Remembered
  <2>4. MetaTyped' /\ AlarmsExplained'
    BY <2>1, <2>2 DEF MetaTyped, PasskeysTypeOK, AlarmsExplained
  <2>5. NumbersInv'
    BY <2>1, <2>2, <2>3, <2>4, NumbersKept DEF Untouched
  <2>6. AnswersInv'
    BY <2>1, <2>2, <2>3, AnswersKept
  <2>. QED BY <2>4, <2>5, <2>6 DEF MetaInv
<1>. QED BY <1>1, <1>2, <1>3, <1>4, <1>5, <1>6, <1>7, <1>8, <1>9, <1>10 DEF PasskeysNext

------------------------------------------------------------------------------
(***************************************************************************)
(* Decisions.  A decision is cached for one time to live from the moment   *)
(* an answer came, and an answer comes at most Patience after the facts    *)
(* were read.  Every failure in the count of a worker was a query of its   *)
(* own, so no count passes the queries that were answered.                 *)
(***************************************************************************)
Asking == {q \in QuerySlot : query[q] # NoQuery}

Lasts(d) == d.until <= d.asOf + Patience + DecisionTtl

DecisionsLast ==
    /\ Lasts(decided) /\ \A w \in Worker : Lasts(decidedHere[w])
    /\ \A q \in Asking : now <= query[q].asOf + Patience

QueriesCounted ==
    /\ IsFiniteSet(Asking)
    /\ \A w \in Worker : failures[w] + Cardinality(Asking) <= queries

PolicyInv ==
    /\ PolicyTypeOK /\ DecisionsLast /\ QueriesCounted
    /\ ServedInTime /\ failures = failedInRow /\ CircuitByFailures

\* What engine and evaluator say is said in these words.
LEMMA SaidInWords ==
    /\ \A names : EvaluatorSays(names) \in Verdict
    /\ \A u : EngineSays(u) \in Verdict \cup {"open"}
BY DEF EvaluatorSays, EngineSays, AsVerdict, Verdict

LEMMA AskedAbout ==
    PolicyTypeOK => TheUser \in Subject /\ MadeUp \in Subject
BY DEF PolicyTypeOK, TheUser, Subject, Flagged

LEMMA InitPolicy == DeploymentInit /\ PolicyInit => DeploymentTypeOK /\ PolicyInv
<1>. SUFFICES ASSUME DeploymentInit, PolicyInit PROVE DeploymentTypeOK /\ PolicyInv
  OBVIOUS
<1>. USE DeploymentAssumption, PolicyAssumption DEF DeploymentInit, PolicyInit
<1>1. DeploymentTypeOK
  BY DEF DeploymentTypeOK
<1>2. PolicyTypeOK
  <2>1. lastSaid \in [Verdict -> LongAgo..MaxTime]
    BY DEF LongAgo
  <2>. QED BY <2>1 DEF PolicyTypeOK, Decision, Undecided
<1>3. Asking = {}
  BY DEF Asking
<1>4. DecisionsLast
  BY <1>3 DEF DecisionsLast, Lasts, Undecided
<1>5. QueriesCounted
  BY <1>3, FS_EmptySet DEF QueriesCounted
<1>6. ServedInTime /\ failures = failedInRow /\ CircuitByFailures
  BY DEF ServedInTime, CircuitByFailures
<1>. QED BY <1>1, <1>2, <1>4, <1>5, <1>6 DEF PolicyInv

(***************************************************************************)
(* What is found in a cache is young enough to be served.                  *)
(***************************************************************************)
LEMMA CachedIsYoung ==
    ASSUME DeploymentTypeOK, PolicyInv, NEW w \in Worker, Cached(w) # Undecided
    PROVE  Cached(w) \in Decision /\ now - Cached(w).asOf < DecisionTtl + Patience
<1>. USE PolicyAssumption, DeploymentAssumption
<1>1. PICK d \in {decided, decidedHere[w]} : d = Cached(w) /\ now < d.until
  BY DEF Cached
<1>2. d \in Decision /\ Lasts(d)
  BY DEF PolicyInv, PolicyTypeOK, DecisionsLast
<1>3. now \in Int
  BY DEF DeploymentTypeOK
<1>. QED BY <1>1, <1>2, <1>3 DEF Lasts, Decision

LEMMA ServeKeeps ==
    ASSUME DeploymentTypeOK, PolicyInv, NEW asOf \in 0..MaxTime, Serve(asOf),
           now - asOf < DecisionTtl + Patience
    PROVE  oldest' \in 0..MaxTime /\ ServedInTime'
BY PolicyAssumption, DeploymentAssumption
   DEF Serve, PolicyInv, PolicyTypeOK, DeploymentTypeOK, ServedInTime

(***************************************************************************)
(* A decision that is cached now.                                          *)
(***************************************************************************)
LEMMA CacheDecisionKeeps ==
    ASSUME DeploymentTypeOK, PolicyInv, NEW w \in Worker, NEW asOf \in 0..MaxTime,
           NEW verdict \in Verdict \cup {"open"},
           now <= asOf + Patience, CacheDecision(w, asOf, verdict)
    PROVE  /\ decided' \in Decision /\ decidedHere' \in [Worker -> Decision]
           /\ Lasts(decided)' /\ \A v \in Worker : Lasts(decidedHere[v])'
           /\ oldest' \in 0..MaxTime /\ ServedInTime'
<1>. DEFINE d == [asOf |-> asOf, until |-> now + DecisionTtl, engine |-> verdict]
<1>. USE PolicyAssumption, DeploymentAssumption
<1>1. d \in Decision /\ Lasts(d)
  BY DEF Decision, Lasts, DeploymentTypeOK
<1>2. decided \in Decision /\ Lasts(decided)
  BY DEF PolicyInv, PolicyTypeOK, DecisionsLast
<1>3. decidedHere \in [Worker -> Decision] /\ \A v \in Worker : Lasts(decidedHere[v])
  BY DEF PolicyInv, PolicyTypeOK, DecisionsLast
<1>4. decided' \in {d, decided} /\ decidedHere' = [decidedHere EXCEPT ![w] = d]
  BY DEF CacheDecision
<1>5. now - asOf < DecisionTtl + Patience
  BY DEF DeploymentTypeOK
<1>6. oldest' \in 0..MaxTime /\ ServedInTime'
  BY <1>5, ServeKeeps DEF CacheDecision
<1>. HIDE DEF d
<1>7. decided' \in Decision /\ Lasts(decided')
  BY <1>1, <1>2, <1>4
<1>8. decidedHere' \in [Worker -> Decision] /\ \A v \in Worker : Lasts(decidedHere'[v])
  BY <1>1, <1>3, <1>4
<1>. QED BY <1>6, <1>7, <1>8 DEF Lasts

(***************************************************************************)
(* Taking up a query and answering one.                                    *)
(***************************************************************************)
LEMMA AskingMore ==
    ASSUME PolicyInv, NEW q \in QuerySlot, query[q] = NoQuery,
           NEW r, r # NoQuery, query' = [query EXCEPT ![q] = r]
    PROVE  Asking' = Asking \cup {q} /\ IsFiniteSet(Asking')
           /\ Cardinality(Asking') = Cardinality(Asking) + 1
<1>1. Asking' = Asking \cup {q} /\ q \notin Asking
  BY DEF Asking, PolicyInv, PolicyTypeOK
<1>2. IsFiniteSet(Asking)
  BY DEF PolicyInv, QueriesCounted
<1>. QED BY <1>1, <1>2, FS_AddElement

LEMMA AskingLess ==
    ASSUME PolicyInv, NEW q \in QuerySlot, query[q] # NoQuery,
           query' = [query EXCEPT ![q] = NoQuery]
    PROVE  Asking' = Asking \ {q} /\ IsFiniteSet(Asking')
           /\ Cardinality(Asking') = Cardinality(Asking) - 1
<1>1. Asking' = Asking \ {q} /\ q \in Asking
  BY DEF Asking, PolicyInv, PolicyTypeOK
<1>2. IsFiniteSet(Asking)
  BY DEF PolicyInv, QueriesCounted
<1>. QED BY <1>1, <1>2, FS_RemoveElement

LEMMA CountAsking == PolicyInv => Cardinality(Asking) \in Nat /\ IsFiniteSet(Asking)
BY FS_CardinalityType DEF PolicyInv, QueriesCounted

LEMMA AskOpaKeeps ==
    ASSUME DeploymentTypeOK, PolicyInv, NEW q \in QuerySlot, NEW w \in Worker,
           NEW u \in Subject, AskOpa(q, w, u)
    PROVE  PolicyInv'
<1>. DEFINE r == [pc |-> "asked", worker |-> w, asOf |-> now, subject |-> u]
<1>. USE PolicyAssumption, DeploymentAssumption
<1>1. r # NoQuery /\ now \in 0..MaxTime
  BY DEF NoQuery, DeploymentTypeOK
<1>2. query[q] = NoQuery /\ query' = [query EXCEPT ![q] = r] /\ queries < MaxQueries
      /\ queries' = queries + 1
      /\ UNCHANGED <<deployment, roles, lastSaid, failures, circuitOpen, decided, decidedHere,
                     failedInRow, oldest>>
  BY DEF AskOpa
<1>3. query' \in [QuerySlot -> {NoQuery} \cup Pending]
  BY <1>1, <1>2 DEF PolicyInv, PolicyTypeOK, Pending
<1>4. PolicyTypeOK'
  BY <1>2, <1>3 DEF PolicyInv, PolicyTypeOK
<1>5. query'[q].asOf = now /\ \A p \in Asking : p # q => query'[p] = query[p]
  BY <1>2 DEF PolicyInv, PolicyTypeOK, Asking
<1>. HIDE DEF r
<1>6. Asking' = Asking \cup {q} /\ IsFiniteSet(Asking')
      /\ Cardinality(Asking') = Cardinality(Asking) + 1
  BY <1>1, <1>2, AskingMore
<1>7. \A p \in Asking' : now' <= query'[p].asOf + Patience
  BY <1>1, <1>2, <1>5, <1>6 DEF PolicyInv, DecisionsLast, deployment
<1>8. DecisionsLast'
  BY <1>2, <1>7 DEF PolicyInv, DecisionsLast, Lasts
<1>9. QueriesCounted'
  BY <1>2, <1>6, CountAsking DEF PolicyInv, PolicyTypeOK, QueriesCounted
<1>10. (ServedInTime /\ failures = failedInRow /\ CircuitByFailures)'
  BY <1>2 DEF PolicyInv, ServedInTime, CircuitByFailures
<1>. QED BY <1>4, <1>8, <1>9, <1>10 DEF PolicyInv

(***************************************************************************)
(* An answer, or the failure of a query.                                   *)
(***************************************************************************)
LEMMA AnswerKeeps ==
    ASSUME DeploymentTypeOK, PolicyInv, NEW q \in QuerySlot, OpaAnswers(q) \/ OpaFails(q)
    PROVE  PolicyInv'
<1>. DEFINE w == query[q].worker
<1>. DEFINE asOf == query[q].asOf
<1>. USE PolicyAssumption, DeploymentAssumption
<1>1. query[q] # NoQuery /\ query' = [query EXCEPT ![q] = NoQuery]
      /\ UNCHANGED <<deployment, roles, lastSaid, queries>>
  BY DEF OpaAnswers, OpaFails
<1>2. w \in Worker /\ asOf \in 0..MaxTime /\ q \in Asking
  BY <1>1 DEF PolicyInv, PolicyTypeOK, Asking, Pending
<1>0. PICK verdict \in Verdict \cup {"open"} : CacheDecision(w, asOf, verdict)
  BY SaidInWords DEF OpaAnswers, OpaFails
<1>3. now <= asOf + Patience
  BY <1>2 DEF PolicyInv, DecisionsLast
<1>4. PICK n \in {0, failures[w] + 1} :
          /\ failures' = [failures EXCEPT ![w] = n] /\ failedInRow' = failures'
          /\ circuitOpen' = [circuitOpen EXCEPT ![w] =
                                IF n = 0 THEN FALSE ELSE circuitOpen[w] \/ n >= Failures]
  <2>. failures = failedInRow /\ failures[w] \in Nat /\ w \in DOMAIN failures
    BY <1>2 DEF PolicyInv, PolicyTypeOK
  <2>1. CASE OpaAnswers(q)
    BY <2>1 DEF OpaAnswers
  <2>2. CASE OpaFails(q)
    <3>1. failures' = [failures EXCEPT ![w] = failures[w] + 1] /\ failedInRow' = failures'
      BY <2>2 DEF OpaFails
    <3>2. failures'[w] = failures[w] + 1
      BY <3>1
    <3>3. circuitOpen' = [circuitOpen EXCEPT ![w] = circuitOpen[w] \/ failures'[w] >= Failures]
      BY <2>2 DEF OpaFails
    <3>4. failures[w] + 1 # 0
      OBVIOUS
    <3>5. circuitOpen' = [circuitOpen EXCEPT ![w] =
              IF failures[w] + 1 = 0 THEN FALSE ELSE circuitOpen[w] \/ failures[w] + 1 >= Failures]
      BY <3>2, <3>3, <3>4
    <3>. QED BY <3>1, <3>5
  <2>. QED BY <2>1, <2>2
<1>. HIDE DEF w, asOf
<1>5. decided' \in Decision /\ decidedHere' \in [Worker -> Decision]
      /\ Lasts(decided)' /\ (\A v \in Worker : Lasts(decidedHere[v])')
      /\ oldest' \in 0..MaxTime /\ ServedInTime'
  BY <1>0, <1>2, <1>3, CacheDecisionKeeps
<1>6. Asking' = Asking \ {q} /\ IsFiniteSet(Asking')
      /\ Cardinality(Asking') = Cardinality(Asking) - 1
  BY <1>1, AskingLess
<1>7. query' \in [QuerySlot -> {NoQuery} \cup Pending]
  BY <1>1 DEF PolicyInv, PolicyTypeOK
<1>8. failures \in [Worker -> 0..MaxQueries] /\ circuitOpen \in [Worker -> BOOLEAN]
      /\ queries \in 0..MaxQueries
      /\ roles \in Holdings /\ lastSaid \in [Verdict -> LongAgo..MaxTime]
  BY DEF PolicyInv, PolicyTypeOK
<1>9. \A v \in Worker : failures'[v] \in Nat /\ failures'[v] + Cardinality(Asking') <= queries
  <2>1. \A v \in Worker : failures[v] + Cardinality(Asking) <= queries
    BY DEF PolicyInv, QueriesCounted
  <2>2. Cardinality(Asking) \in Nat /\ Cardinality(Asking') \in Nat
    BY <1>6, CountAsking, FS_CardinalityType
  <2>3. \A v \in Worker : failures[v] \in Nat
    BY <1>8
  <2>4. n \in Nat /\ n <= failures[w] + 1
    BY <1>2, <2>3
  <2>5. \A v \in Worker : failures'[v] = IF v = w THEN n ELSE failures[v]
    BY <1>4, <1>8
  <2>. QED BY <1>2, <1>6, <1>8, <2>1, <2>2, <2>3, <2>4, <2>5
<1>10. failures' \in [Worker -> 0..MaxQueries]
  <2>1. DOMAIN failures' = Worker /\ failures' = [v \in Worker |-> failures'[v]]
    BY <1>4, <1>8
  <2>2. Cardinality(Asking') \in Nat
    BY <1>6, FS_CardinalityType
  <2>3. \A v \in Worker : failures'[v] \in 0..MaxQueries
    BY <1>8, <1>9, <2>2
  <2>. QED BY <2>1, <2>3
<1>11. circuitOpen' \in [Worker -> BOOLEAN]
  BY <1>4, <1>8
<1>12. PolicyTypeOK'
  BY <1>1, <1>4, <1>5, <1>7, <1>8, <1>10, <1>11 DEF PolicyTypeOK
<1>13. DecisionsLast'
  <2>1. \A p \in Asking' : p \in Asking /\ query'[p] = query[p]
    BY <1>1, <1>6 DEF PolicyInv, PolicyTypeOK, Asking
  <2>2. now' = now
    BY <1>1 DEF deployment
  <2>3. \A p \in Asking' : now' <= query'[p].asOf + Patience
    BY <2>1, <2>2 DEF PolicyInv, DecisionsLast
  <2>. QED BY <1>5, <2>3 DEF DecisionsLast
<1>14. QueriesCounted'
  BY <1>1, <1>6, <1>9 DEF QueriesCounted
<1>15. CircuitByFailures'
  <2>1. \A v \in Worker : circuitOpen[v] <=> failures[v] >= Failures
    BY DEF PolicyInv, CircuitByFailures
  <2>2. SUFFICES ASSUME NEW v \in Worker PROVE circuitOpen'[v] <=> failures'[v] >= Failures
    BY <1>4 DEF CircuitByFailures
  <2>3. CASE v # w
    BY <1>4, <1>8, <2>1, <2>3
  <2>4. CASE v = w
    <3>1. failures'[v] = n
      BY <1>4, <1>8, <2>4
    <3>2. circuitOpen'[v] = (IF n = 0 THEN FALSE ELSE circuitOpen[w] \/ n >= Failures)
      BY <1>4, <1>8, <2>4
    <3>3. CASE n = 0
      BY <3>1, <3>2, <3>3
    <3>4. CASE n = failures[w] + 1
      <4>1. failures[w] \in Nat
        BY <1>2, <1>8
      <4>2. n # 0 /\ (failures[w] >= Failures => n >= Failures)
        BY <3>4, <4>1
      <4>. QED BY <1>2, <2>1, <3>1, <3>2, <4>2
    <3>. QED BY <3>3, <3>4
  <2>. QED BY <2>3, <2>4
<1>. QED BY <1>4, <1>5, <1>12, <1>13, <1>14, <1>15 DEF PolicyInv

(***************************************************************************)
(* Everything else leaves the queries.                                     *)
(***************************************************************************)
LEMMA SameAsking ==
    ASSUME PolicyInv, UNCHANGED query PROVE Asking' = Asking
BY DEF Asking

LEMMA LocallyKeeps ==
    ASSUME DeploymentTypeOK, PolicyInv, NEW w \in Worker, NEW u,
           ServeCached(w) \/ DecideLocally(w, u)
    PROVE  PolicyInv'
<1>. USE PolicyAssumption, DeploymentAssumption
<1>1. UNCHANGED <<deployment, roles, lastSaid, failures, circuitOpen, query, queries,
                  failedInRow>>
  BY DEF ServeCached, DecideLocally
<1>2. decided' \in Decision /\ decidedHere' \in [Worker -> Decision]
      /\ Lasts(decided)' /\ (\A v \in Worker : Lasts(decidedHere[v])')
      /\ oldest' \in 0..MaxTime /\ ServedInTime'
  <2>1. CASE ServeCached(w)
    <3>1. Cached(w).asOf \in 0..MaxTime /\ now - Cached(w).asOf < DecisionTtl + Patience
      BY <2>1, CachedIsYoung DEF ServeCached, Decision
    <3>2. oldest' \in 0..MaxTime /\ ServedInTime'
      BY <2>1, <3>1, ServeKeeps DEF ServeCached
    <3>. QED BY <2>1, <3>2 DEF ServeCached, PolicyInv, PolicyTypeOK, DecisionsLast, Lasts
  <2>2. CASE DecideLocally(w, u)
    <3>1. now \in 0..MaxTime /\ now <= now + Patience
      BY DEF DeploymentTypeOK
    <3>. QED BY <2>2, <3>1, SaidInWords, CacheDecisionKeeps DEF DecideLocally
  <2>. QED BY <2>1, <2>2
<1>3. PolicyTypeOK'
  BY <1>1, <1>2 DEF PolicyInv, PolicyTypeOK
<1>4. DecisionsLast'
  BY <1>1, <1>2, SameAsking DEF PolicyInv, DecisionsLast, deployment
<1>5. QueriesCounted'
  BY <1>1, SameAsking DEF PolicyInv, QueriesCounted
<1>. QED BY <1>1, <1>2, <1>3, <1>4, <1>5 DEF PolicyInv, CircuitByFailures

LEMMA ReloadKeeps ==
    ASSUME DeploymentTypeOK, PolicyInv, NEW w \in Worker, ReloadPolicies(w)
    PROVE  PolicyInv'
<1>. USE PolicyAssumption, DeploymentAssumption
<1>1. /\ decided' \in {decided, Undecided}
      /\ decidedHere' = [decidedHere EXCEPT ![w] = Undecided]
      /\ failures' = [failures EXCEPT ![w] = 0] /\ failedInRow' = [failedInRow EXCEPT ![w] = 0]
      /\ circuitOpen' = [circuitOpen EXCEPT ![w] = FALSE]
      /\ UNCHANGED <<deployment, roles, lastSaid, query, queries, oldest>>
  BY DEF ReloadPolicies, InvalidateCache, ResetCircuit
<1>2. Undecided \in Decision /\ Lasts(Undecided)
  BY DEF Undecided, Decision, Lasts
<1>. HIDE DEF Undecided
<1>3. PolicyTypeOK'
  BY <1>1, <1>2 DEF PolicyInv, PolicyTypeOK
<1>4. Lasts(decided)' /\ \A v \in Worker : Lasts(decidedHere[v])'
  <2>1. Lasts(decided') /\ \A v \in Worker : Lasts(decidedHere'[v])
    BY <1>1, <1>2 DEF PolicyInv, PolicyTypeOK, DecisionsLast
  <2>. QED BY <2>1 DEF Lasts
<1>5. DecisionsLast'
  BY <1>1, <1>4, SameAsking DEF PolicyInv, DecisionsLast, deployment
<1>6. QueriesCounted'
  <2>1. \A v \in Worker : failures'[v] \in 0..failures[v]
    BY <1>1 DEF PolicyInv, PolicyTypeOK
  <2>2. failures \in [Worker -> Nat] /\ queries \in Nat
    BY DEF PolicyInv, PolicyTypeOK
  <2>3. Cardinality(Asking) \in Nat /\ \A v \in Worker : failures[v] + Cardinality(Asking) <= queries
    BY CountAsking DEF PolicyInv, QueriesCounted
  <2>4. \A v \in Worker : failures'[v] + Cardinality(Asking) <= queries
    BY <2>1, <2>2, <2>3
  <2>5. IsFiniteSet(Asking)
    BY CountAsking
  <2>6. Asking' = Asking /\ queries' = queries
    BY <1>1, SameAsking
  <2>. QED BY <2>4, <2>5, <2>6 DEF QueriesCounted
<1>7. ServedInTime' /\ failures' = failedInRow'
  BY <1>1 DEF PolicyInv, ServedInTime
<1>8. CircuitByFailures'
  <2>1. \A v \in Worker : circuitOpen[v] <=> failedInRow[v] >= Failures
    BY DEF PolicyInv, CircuitByFailures
  <2>2. SUFFICES ASSUME NEW v \in Worker PROVE circuitOpen'[v] <=> failedInRow'[v] >= Failures
    BY DEF CircuitByFailures
  <2>. circuitOpen \in [Worker -> BOOLEAN] /\ failedInRow \in [Worker -> 0..MaxQueries]
    BY DEF PolicyInv, PolicyTypeOK
  <2>3. CASE v = w
    <3>1. ~circuitOpen'[v] /\ failedInRow'[v] = 0
      BY <1>1, <2>3
    <3>2. ~(0 >= Failures)
      OBVIOUS
    <3>. QED BY <3>1, <3>2
  <2>4. CASE v # w
    BY <1>1, <2>1, <2>4
  <2>. QED BY <2>3, <2>4
<1>. QED BY <1>3, <1>5, <1>6, <1>7, <1>8 DEF PolicyInv

\* Nothing but what the evaluator says changes with the roles.
LEMMA ChangeRolesKeeps ==
    ASSUME DeploymentTypeOK, PolicyInv, NEW names \in Holdings, ChangeRoles(names)
    PROVE  PolicyInv'
<1>. USE PolicyAssumption, DeploymentAssumption
<1>1. /\ roles' = names /\ lastSaid' = [lastSaid EXCEPT ![EvaluatorSays(names)] = now]
      /\ UNCHANGED <<deployment, failures, circuitOpen, decided, decidedHere, query, queries,
                     failedInRow, oldest>>
  BY DEF ChangeRoles
<1>2. lastSaid' \in [Verdict -> LongAgo..MaxTime]
  <2>1. now \in LongAgo..MaxTime
    BY DEF DeploymentTypeOK, LongAgo
  <2>. QED BY <1>1, <2>1, SaidInWords DEF PolicyInv, PolicyTypeOK
<1>3. PolicyTypeOK'
  BY <1>1, <1>2 DEF PolicyInv, PolicyTypeOK
<1>4. DecisionsLast'
  BY <1>1, SameAsking DEF PolicyInv, DecisionsLast, Lasts, deployment
<1>5. QueriesCounted'
  BY <1>1, SameAsking DEF PolicyInv, QueriesCounted
<1>. QED BY <1>1, <1>3, <1>4, <1>5 DEF PolicyInv, ServedInTime, CircuitByFailures

(***************************************************************************)
(* Time passes only while no query has waited for its whole patience.      *)
(***************************************************************************)
LEMMA PolicyTickKeeps ==
    ASSUME DeploymentTypeOK, PolicyInv, PolicyTick PROVE PolicyInv'
<1>. USE PolicyAssumption, DeploymentAssumption
<1>1. /\ now' = now + 1 /\ now' \in 0..MaxTime
      /\ lastSaid' = [lastSaid EXCEPT ![EvaluatorSays(roles)] = now + 1]
      /\ decided' = Unexpired(decided)
      /\ decidedHere' = [w \in Worker |-> Unexpired(decidedHere[w])]
      /\ UNCHANGED <<roles, failures, circuitOpen, query, queries, failedInRow, oldest>>
  BY DEF PolicyTick, TimePasses, DeploymentTypeOK
<1>2. lastSaid' \in [Verdict -> LongAgo..MaxTime]
  <2>1. now + 1 \in LongAgo..MaxTime
    BY <1>1 DEF DeploymentTypeOK, LongAgo
  <2>. QED BY <1>1, <2>1, SaidInWords DEF PolicyInv, PolicyTypeOK
<1>3. Undecided \in Decision /\ Lasts(Undecided)
  BY DEF Undecided, Decision, Lasts
<1>4. \A d \in Decision : Unexpired(d) \in Decision /\ (Lasts(d) => Lasts(Unexpired(d)))
  BY <1>3 DEF Unexpired
<1>5. decided' \in Decision /\ decidedHere' \in [Worker -> Decision]
      /\ Lasts(decided') /\ \A w \in Worker : Lasts(decidedHere'[w])
  BY <1>1, <1>4 DEF PolicyInv, PolicyTypeOK, DecisionsLast
<1>6. PolicyTypeOK'
  BY <1>1, <1>2, <1>5 DEF PolicyInv, PolicyTypeOK
<1>7. \A q \in Asking : now' <= query'[q].asOf + Patience
  <2>1. \A q \in Asking : now < query[q].asOf + Patience /\ query[q].asOf \in 0..MaxTime
    BY DEF PolicyTick, Asking, PolicyInv, PolicyTypeOK, Pending
  <2>. QED BY <1>1, <2>1 DEF DeploymentTypeOK
<1>8. DecisionsLast'
  <2>1. Asking' = Asking
    BY <1>1, SameAsking
  <2>2. Lasts(decided)' /\ \A w \in Worker : Lasts(decidedHere[w])'
    BY <1>5 DEF Lasts
  <2>. QED BY <1>7, <2>1, <2>2 DEF DecisionsLast
<1>9. QueriesCounted'
  BY <1>1, SameAsking DEF PolicyInv, QueriesCounted
<1>. QED BY <1>1, <1>6, <1>8, <1>9 DEF PolicyInv, ServedInTime, CircuitByFailures

LEMMA WorldLeavesDecisions ==
    ASSUME DeploymentTypeOK, PolicyInv, UNCHANGED policyVars, now' = now
    PROVE  PolicyInv'
<1>1. PolicyTypeOK'
  BY DEF PolicyInv, PolicyTypeOK, policyVars
<1>2. Asking' = Asking
  BY SameAsking DEF policyVars
<1>3. DecisionsLast'
  BY <1>2 DEF PolicyInv, DecisionsLast, policyVars, Lasts
<1>4. QueriesCounted'
  BY <1>2 DEF PolicyInv, QueriesCounted, policyVars
<1>. QED BY <1>1, <1>3, <1>4 DEF PolicyInv, ServedInTime, CircuitByFailures, policyVars

LEMMA PolicyStep ==
    DeploymentTypeOK /\ PolicyInv /\ [PolicyNext]_<<deployment, policyVars>> => PolicyInv'
<1>. SUFFICES ASSUME DeploymentTypeOK, PolicyInv, [PolicyNext]_<<deployment, policyVars>>
              PROVE  PolicyInv'
  OBVIOUS
<1>1. ASSUME NEW w \in Worker, NEW u, ServeCached(w) \/ DecideLocally(w, u) PROVE PolicyInv'
  BY <1>1, LocallyKeeps
<1>2. ASSUME NEW w \in Worker, ReloadPolicies(w) PROVE PolicyInv'
  BY <1>2, ReloadKeeps
<1>3. ASSUME NEW q \in QuerySlot, NEW w \in Worker, NEW u \in {TheUser, MadeUp},
             AskOpa(q, w, u)
      PROVE  PolicyInv'
  <2>1. u \in Subject
    BY AskedAbout DEF PolicyInv
  <2>. QED BY <1>3, <2>1, AskOpaKeeps
<1>4. ASSUME NEW q \in QuerySlot, OpaAnswers(q) \/ OpaFails(q) PROVE PolicyInv'
  BY <1>4, AnswerKeeps
<1>5. ASSUME NEW names \in Holdings, ChangeRoles(names) PROVE PolicyInv'
  BY <1>5, ChangeRolesKeeps
<1>6. CASE PolicyTick
  BY <1>6, PolicyTickKeeps
<1>7. CASE (RedisFails \/ RedisRecovers) /\ UNCHANGED policyVars
  BY <1>7, WorldLeavesDecisions DEF RedisFails, RedisRecovers
<1>8. CASE UNCHANGED <<deployment, policyVars>>
  BY <1>8, WorldLeavesDecisions DEF deployment
<1>. QED BY <1>1, <1>2, <1>3, <1>4, <1>5, <1>6, <1>7, <1>8 DEF PolicyNext

------------------------------------------------------------------------------
(***************************************************************************)
(* The rate limiter.  Whatever a counter counts, in Redis, in a memory or  *)
(* in the history, was asked once, and not by a request that is still      *)
(* between INCR and EXPIRE.                                                *)
(***************************************************************************)
Waits == Cardinality(hitting)

HitsTyped ==
    /\ hits \in Nat /\ hitsUntil \in 0..NoExpiry
    /\ hitMemory \in [Worker -> [count: Nat, reset: 0..NoExpiry]]
    /\ hitting \subseteq Worker /\ asked \in 0..MaxHits
    /\ admitted \in Seq(0..MaxTime)
    /\ refusedEarly \in BOOLEAN /\ severed \in BOOLEAN /\ restarts \in 0..MaxDeaths

HitsCounted ==
    /\ hits <= asked /\ Waits <= asked
    /\ \A w \in Worker : hitMemory[w].count + Waits <= asked
    /\ Len(admitted) + Waits <= asked

\* The tick that the window in Redis started with; the present one for a window
\* that has no end yet, or is still to come.
Opened == IF hits = 0 \/ hitsUntil = NoExpiry THEN now ELSE hitsUntil - HitWindow

HitsTimed ==
    /\ hits > 0 /\ hitsUntil # NoExpiry => now < hitsUntil /\ hitsUntil <= now + HitWindow
    /\ hitting # {} => hits > 0 /\ Opened = now
    /\ \A w \in Worker : /\ hitMemory[w].reset <= now + HitWindow
                         /\ now < hitMemory[w].reset => hitMemory[w].count > 0
    /\ ~redisUp => outages > 0
    /\ \A i \in DOMAIN admitted : admitted[i] <= now

\* What was let through since tick b.
Since(f, b) == {i \in DOMAIN f : b <= f[i]}

Capped(n) == IF n < HitMax THEN n ELSE HitMax

\* A window that has started lets through what it counts, up to HitMax.
CountedLetThrough ==
    /\ ~severed /\ hits > 0 =>
          /\ hitsUntil = NoExpiry => hitting # {}
          /\ Capped(hits) <= Cardinality(Since(admitted, Opened)) + Waits
    /\ \A w \in Worker : now < hitMemory[w].reset =>
          Capped(hitMemory[w].count)
            <= Cardinality(Since(admitted, hitMemory[w].reset - HitWindow))

\* What the window with count n that started in tick start, and the one before
\* it, can have let through since b: the first request of a window was let
\* through when it started.
Place(n, start, b) == IF b <= start THEN HitMax - 1 + Capped(n) ELSE Capped(n) - 1

\* The same of a memory, whose window may be over.
Share(m, t, b) == IF t < m.reset THEN Place(m.count, m.reset - HitWindow, b) ELSE HitMax - 1

Parts == Worker \X (1..(2 * HitMax - 1))
Shares(memory, t, b) == {x \in Parts : x[2] <= Share(memory[x[1]], t, b)}

Memories(b) == IF outages = 0 THEN 0 ELSE Cardinality(Shares(hitMemory, now, b))

Admits(b) ==
    Cardinality(Since(admitted, b)) + Waits
      <= Place(hits, Opened, b) + Memories(b) + HitMax * restarts

RateInv ==
    /\ HitsTyped /\ HitsCounted /\ HitsTimed /\ CountedLetThrough
    /\ refusedEarly => severed
    /\ \A b \in (now - HitWindow + 1)..now : Admits(b)

------------------------------------------------------------------------------
LEMMA HitConstants ==
    /\ HitMax \in Nat /\ 0 < HitMax /\ HitWindow \in Nat /\ 0 < HitWindow
    /\ MaxHits \in Nat /\ MaxDeaths \in Nat /\ MaxTime \in Nat
    /\ NoExpiry \in Nat /\ NoExpiry = MaxTime + HitWindow + 1
BY RateLimitAssumption, DeploymentAssumption DEF NoExpiry

LEMMA WaitsCounted ==
    ASSUME HitsTyped
    PROVE  /\ IsFiniteSet(hitting) /\ Waits \in Nat /\ (Waits = 0 <=> hitting = {})
           /\ \A w \in Worker \ hitting : Cardinality(hitting \cup {w}) = Waits + 1
           /\ \A w \in hitting : Cardinality(hitting \ {w}) = Waits - 1
<1>1. IsFiniteSet(hitting)
  BY FiniteWorkers, FS_Subset DEF HitsTyped
<1>. QED BY <1>1, FS_CardinalityType, FS_AddElement, FS_RemoveElement, FS_EmptySet DEF Waits

LEMMA RateHolds == RateInv => RateTypeOK
<1>. SUFFICES ASSUME RateInv PROVE RateTypeOK
  OBVIOUS
<1>. USE HitConstants DEF RateInv
<1>1. Waits \in Nat
  BY WaitsCounted
<1>2. \A w \in Worker : hitMemory[w].count \in 0..MaxHits /\ hitMemory[w].reset \in 0..NoExpiry
  BY <1>1 DEF HitsTyped, HitsCounted
<1>3. hitMemory \in [Worker -> [count: 0..MaxHits, reset: 0..NoExpiry]]
  <2>1. \A w \in Worker : hitMemory[w] \in [count: 0..MaxHits, reset: 0..NoExpiry]
    BY <1>2 DEF HitsTyped
  <2>. QED BY <2>1 DEF HitsTyped
<1>4. Len(admitted) <= MaxHits
  BY <1>1 DEF HitsTyped, HitsCounted
<1>5. hits \in 0..MaxHits
  BY DEF HitsTyped, HitsCounted
<1>. QED BY <1>3, <1>4, <1>5 DEF HitsTyped, RateTypeOK

(***************************************************************************)
(* Ticks and sets.                                                         *)
(***************************************************************************)
LEMMA TicksAreNumbers ==
    ASSUME NEW f \in Seq(0..MaxTime)
    PROVE  \A i \in DOMAIN f : f[i] \in 0..MaxTime /\ f[i] \in Int
<1>1. DOMAIN f = 1..Len(f)
  OBVIOUS
<1>2. \A i \in DOMAIN f : f[i] \in 0..MaxTime
  BY <1>1, ElementOfSeq
<1>. QED BY <1>2, HitConstants

LEMMA SinceCounted ==
    ASSUME NEW f \in Seq(0..MaxTime), NEW b \in Int
    PROVE  IsFiniteSet(Since(f, b)) /\ Cardinality(Since(f, b)) \in Nat
<1>1. Since(f, b) \in SUBSET (1..Len(f)) /\ Len(f) \in Nat
  BY DEF Since
<1>2. IsFiniteSet(1..Len(f))
  BY <1>1, FS_Interval
<1>. QED BY <1>1, <1>2, FS_Subset, FS_CardinalityType

LEMMA OneMore ==
    ASSUME NEW f \in Seq(0..MaxTime), NEW t \in 0..MaxTime, NEW b \in Int, b <= t
    PROVE  Cardinality(Since(Append(f, t), b)) = Cardinality(Since(f, b)) + 1
<1>1. Len(f) \in Nat /\ DOMAIN f = 1..Len(f)
  OBVIOUS
<1>2. /\ DOMAIN Append(f, t) = 1..(Len(f) + 1)
      /\ Append(f, t)[Len(f) + 1] = t
      /\ \A i \in 1..Len(f) : Append(f, t)[i] = f[i]
  BY <1>1
<1>3. Since(Append(f, t), b) = Since(f, b) \cup {Len(f) + 1}
  BY <1>1, <1>2 DEF Since
<1>4. Len(f) + 1 \notin Since(f, b)
  BY <1>1 DEF Since
<1>. QED BY <1>3, <1>4, SinceCounted, FS_AddElement

\* Nothing was let through in a tick that is still to come.
LEMMA NoneToCome ==
    ASSUME NEW f \in Seq(0..MaxTime), NEW b \in Int, \A i \in DOMAIN f : f[i] < b
    PROVE  Cardinality(Since(f, b)) = 0
<1>1. \A i \in DOMAIN f : f[i] \in Int
  BY TicksAreNumbers
<1>2. Since(f, b) = {}
  BY <1>1 DEF Since
<1>. QED BY <1>2, FS_EmptySet

LEMMA SinceLater ==
    ASSUME NEW f \in Seq(0..MaxTime), NEW b \in Int, NEW c \in Int, b <= c
    PROVE  Cardinality(Since(f, c)) <= Cardinality(Since(f, b))
<1>1. \A i \in DOMAIN f : f[i] \in Int
  BY TicksAreNumbers
<1>2. Since(f, c) \in SUBSET Since(f, b)
  BY <1>1 DEF Since
<1>. QED BY <1>2, SinceCounted, FS_Subset

LEMMA LastIsSince ==
    ASSUME HitsTyped, now \in 0..MaxTime
    PROVE  LastWindow = Cardinality(Since(admitted, now - HitWindow + 1))
<1>1. \A i \in DOMAIN admitted : admitted[i] \in Int
  BY TicksAreNumbers DEF HitsTyped
<1>2. {i \in DOMAIN admitted : now - HitWindow < admitted[i]} = Since(admitted, now - HitWindow + 1)
  BY <1>1, HitConstants DEF Since
<1>. QED BY <1>2 DEF LastWindow

(***************************************************************************)
(* Shares of the memories.                                                 *)
(***************************************************************************)
LEMMA PartsCounted ==
    ASSUME NEW S \in SUBSET Parts
    PROVE  /\ IsFiniteSet(S) /\ Cardinality(S) \in Nat
           /\ Cardinality(S) <= Cardinality(Worker) * (2 * HitMax - 1)
           /\ Cardinality(Worker) \in Nat
<1>. DEFINE n == 2 * HitMax - 1
<1>1. n \in Nat
  BY HitConstants
<1>. HIDE DEF n
<1>2. IsFiniteSet(1..n) /\ Cardinality(1..n) = n
  BY <1>1, FS_Interval
<1>3. IsFiniteSet(Parts) /\ Cardinality(Parts) = Cardinality(Worker) * n
  BY <1>2, FiniteWorkers, FS_Product DEF Parts, n
<1>4. IsFiniteSet(S) /\ Cardinality(S) <= Cardinality(Worker) * n
  BY <1>3, FS_Subset
<1>5. Cardinality(S) \in Nat /\ Cardinality(Worker) \in Nat
  BY <1>4, FiniteWorkers, FS_CardinalityType
<1>. QED BY <1>4, <1>5 DEF n

LEMMA PartsGrow ==
    ASSUME NEW S \in SUBSET Parts, NEW T \in SUBSET Parts, S \subseteq T
    PROVE  /\ Cardinality(S) <= Cardinality(T)
           /\ \A x \in T : x \notin S => Cardinality(S) + 1 <= Cardinality(T)
<1>1. Cardinality(S) <= Cardinality(T)
  BY PartsCounted, FS_Subset
<1>2. ASSUME NEW x \in T, x \notin S PROVE Cardinality(S) + 1 <= Cardinality(T)
  <2>1. S \cup {x} \in SUBSET T /\ Cardinality(S \cup {x}) = Cardinality(S) + 1
    BY <1>2, PartsCounted, FS_AddElement
  <2>. QED BY <2>1, PartsCounted, FS_Subset
<1>. QED BY <1>1, <1>2

\* A memory that is lost takes HitMax of them away at most.
LEMMA PartsLost ==
    ASSUME NEW S \in SUBSET Parts, NEW T \in SUBSET Parts, NEW w \in Worker,
           S \ ({w} \X (HitMax..(2 * HitMax - 1))) \subseteq T
    PROVE  Cardinality(S) <= Cardinality(T) + HitMax
<1>. DEFINE top == HitMax..(2 * HitMax - 1)
<1>. DEFINE own == {w} \X top
<1>1. IsFiniteSet(top) /\ Cardinality(top) = HitMax
  BY HitConstants, FS_Interval
<1>2. IsFiniteSet({w}) /\ Cardinality({w}) = 1
  BY FS_Singleton
<1>. HIDE DEF top
<1>3. IsFiniteSet(own) /\ Cardinality(own) = Cardinality({w}) * Cardinality(top)
  BY <1>1, <1>2, FS_Product
<1>4. Cardinality(own) = HitMax
  BY <1>1, <1>2, <1>3, HitConstants
<1>5. S \in SUBSET (T \cup own)
  BY DEF top
<1>. HIDE DEF own
<1>6. /\ IsFiniteSet(T \cup own)
      /\ Cardinality(T \cup own) = Cardinality(T) + Cardinality(own) - Cardinality(T \cap own)
  BY <1>3, PartsCounted, FS_Union
<1>7. T \cap own \in SUBSET Parts /\ Cardinality(T \cap own) \in Nat
  BY PartsCounted
<1>8. Cardinality(S) <= Cardinality(T \cup own)
  BY <1>5, <1>6, FS_Subset
<1>. QED BY <1>4, <1>6, <1>7, <1>8, PartsCounted, HitConstants

LEMMA SharesAreParts == \A m, t, b : Shares(m, t, b) \in SUBSET Parts
BY DEF Shares

(***************************************************************************)
(* What one window and the one before it hold.                             *)
(***************************************************************************)
LEMMA PlaceNumbers ==
    ASSUME NEW n \in Nat, NEW start \in Int, NEW b \in Int, n > 0 \/ b <= start
    PROVE  /\ Place(n, start, b) \in 0..(2 * HitMax - 1)
           /\ Place(n, start, b) <= Place(n + 1, start, b)
           /\ n < HitMax => Place(n + 1, start, b) = Place(n, start, b) + 1
           /\ b <= start => HitMax - 1 <= Place(n, start, b)
           /\ b > start => Place(n, start, b) <= HitMax - 1
BY HitConstants DEF Place, Capped

LEMMA FirstInPlace ==
    ASSUME NEW start \in Int, NEW b \in Int, b <= start
    PROVE  Place(0, start, b) = HitMax - 1 /\ Place(1, start, b) = HitMax
BY HitConstants DEF Place, Capped
\* The windows that have started did so within the last HitWindow ticks.
LEMMA OpenedRecently ==
    ASSUME DeploymentTypeOK, HitsTyped, HitsTimed
    PROVE  /\ now \in 0..MaxTime /\ now \in Nat /\ hits \in Nat /\ Opened \in Int
           /\ Opened <= now /\ now - HitWindow < Opened
           /\ \A w \in Worker : /\ hitMemory[w] \in [count: Nat, reset: 0..NoExpiry]
                                /\ hitMemory[w].reset - HitWindow \in Int
                                /\ hitMemory[w].reset - HitWindow <= now
                                /\ now < hitMemory[w].reset =>
                                      now - HitWindow < hitMemory[w].reset - HitWindow
<1>1. now \in 0..MaxTime /\ now \in Nat /\ hits \in Nat /\ hitsUntil \in Int
  BY HitConstants DEF DeploymentTypeOK, HitsTyped
<1>2. Opened \in Int /\ Opened <= now /\ now - HitWindow < Opened
  <2>1. CASE hits = 0 \/ hitsUntil = NoExpiry
    BY <1>1, <2>1, HitConstants DEF Opened
  <2>2. CASE ~(hits = 0 \/ hitsUntil = NoExpiry)
    <3>1. now < hitsUntil /\ hitsUntil <= now + HitWindow
      BY <1>1, <2>2 DEF HitsTimed
    <3>. QED BY <1>1, <2>2, <3>1, HitConstants DEF Opened
  <2>. QED BY <2>1, <2>2
<1>3. ASSUME NEW w \in Worker
      PROVE  /\ hitMemory[w] \in [count: Nat, reset: 0..NoExpiry]
             /\ hitMemory[w].reset \in Int /\ hitMemory[w].reset <= now + HitWindow
  BY HitConstants DEF HitsTyped, HitsTimed
<1>. QED BY <1>1, <1>2, <1>3, HitConstants

LEMMA Quantities ==
    ASSUME DeploymentTypeOK, HitsTyped, HitsTimed, NEW b \in Int, b <= now
    PROVE  /\ Cardinality(Since(admitted, b)) \in Nat /\ Waits \in Nat
           /\ Place(hits, Opened, b) \in 0..(2 * HitMax - 1)
           /\ Memories(b) \in Nat /\ HitMax * restarts \in Nat /\ restarts \in Nat
<1>1. Cardinality(Since(admitted, b)) \in Nat /\ Waits \in Nat
  BY SinceCounted, WaitsCounted DEF HitsTyped
<1>2. hits > 0 \/ b <= Opened
  BY OpenedRecently DEF Opened
<1>3. Place(hits, Opened, b) \in 0..(2 * HitMax - 1)
  BY <1>2, OpenedRecently, PlaceNumbers
<1>4. Memories(b) \in Nat
  BY SharesAreParts, PartsCounted DEF Memories
<1>5. restarts \in Nat
  BY HitConstants DEF HitsTyped
<1>. QED BY <1>1, <1>3, <1>4, <1>5, HitConstants

LEMMA AppendedNow ==
    ASSUME HitsTyped, HitsTimed, now \in 0..MaxTime, admitted' = Append(admitted, now)
    PROVE  /\ admitted' \in Seq(0..MaxTime) /\ Len(admitted') = Len(admitted) + 1
           /\ \A i \in DOMAIN admitted' : admitted'[i] <= now
           /\ \A b \in Int : b <= now =>
                  Cardinality(Since(admitted', b)) = Cardinality(Since(admitted, b)) + 1
<1>1. admitted \in Seq(0..MaxTime) /\ Len(admitted) \in Nat /\ DOMAIN admitted = 1..Len(admitted)
  BY DEF HitsTyped
<1>2. \A i \in 1..Len(admitted) : admitted[i] <= now
  BY <1>1 DEF HitsTimed
<1>3. admitted' \in Seq(0..MaxTime) /\ Len(admitted') = Len(admitted) + 1
  BY <1>1
<1>4. ASSUME NEW i \in DOMAIN admitted' PROVE admitted'[i] <= now
  <2>1. i \in 1..(Len(admitted) + 1)
    BY <1>1
  <2>2. CASE i = Len(admitted) + 1
    BY <1>1, <2>2
  <2>3. CASE i # Len(admitted) + 1
    BY <1>1, <1>2, <2>1, <2>3
  <2>. QED BY <2>2, <2>3
<1>. QED BY <1>1, <1>3, <1>4, OneMore

\* Nobody is refused early where HitMax were let through since a window started.
LEMMA RefusedAfterMany ==
    ASSUME DeploymentTypeOK, HitsTyped, HitsTimed, NEW start \in Int, now - HitWindow < start,
           HitMax <= Cardinality(Since(admitted, start)) + Waits
    PROVE  ~(LastWindow + Waits < HitMax)
<1>. DEFINE first == now - HitWindow + 1
<1>1. now \in 0..MaxTime /\ first \in Int /\ first <= start
  BY HitConstants DEF DeploymentTypeOK
<1>2. LastWindow = Cardinality(Since(admitted, first))
  BY <1>1, LastIsSince
<1>. HIDE DEF first
<1>3. Cardinality(Since(admitted, start)) <= Cardinality(Since(admitted, first))
  BY <1>1, SinceLater DEF HitsTyped
<1>4. /\ Cardinality(Since(admitted, start)) \in Nat /\ Cardinality(Since(admitted, first)) \in Nat
      /\ Waits \in Nat
  BY <1>1, SinceCounted, WaitsCounted DEF HitsTyped
<1>. QED BY <1>2, <1>3, <1>4, HitConstants

(***************************************************************************)
(* From the invariant to the property.                                     *)
(***************************************************************************)
LEMMA WindowBound ==
    ASSUME NEW workers \in Nat, NEW k \in Nat
    PROVE  k + workers * k = k * (1 + workers)
OBVIOUS

LEMMA RateIsKept == DeploymentTypeOK /\ RateInv => RateKept
<1>. SUFFICES ASSUME DeploymentTypeOK, RateInv PROVE RateKept
  OBVIOUS
<1>. DEFINE first == now - HitWindow + 1
<1>. DEFINE most == 2 * HitMax - 1
<1>1. now \in 0..MaxTime /\ first \in Int /\ first <= now /\ most \in Nat
  BY HitConstants DEF DeploymentTypeOK
<1>2. LastWindow = Cardinality(Since(admitted, first))
  BY <1>1, LastIsSince DEF RateInv
<1>3. Admits(first)
  BY <1>1, HitConstants DEF RateInv
<1>. HIDE DEF first
<1>4. /\ Cardinality(Since(admitted, first)) \in Nat /\ Waits \in Nat
      /\ Place(hits, Opened, first) \in 0..most
      /\ Memories(first) \in Nat /\ HitMax * restarts \in Nat
  BY <1>1, Quantities DEF RateInv
<1>5. Cardinality(Worker) \in Nat
  BY FiniteWorkers, FS_CardinalityType
<1>6. Memories(first) <= IF outages = 0 THEN 0 ELSE Cardinality(Worker) * most
  <2>1. CASE outages = 0
    BY <2>1 DEF Memories
  <2>2. CASE outages # 0
    <3>1. Cardinality(Shares(hitMemory, now, first)) <= Cardinality(Worker) * most
      BY SharesAreParts, PartsCounted
    <3>. QED BY <2>2, <3>1 DEF Memories
  <2>. QED BY <2>1, <2>2
<1>. HIDE DEF most
<1>7. LastWindow <= most * (IF outages = 0 THEN 1 ELSE 1 + Cardinality(Worker)) + HitMax * restarts
  <2>1. LastWindow <= most + Memories(first) + HitMax * restarts
    BY <1>1, <1>2, <1>3, <1>4 DEF Admits
  <2>2. CASE outages = 0
    BY <1>1, <1>4, <1>6, <2>1, <2>2
  <2>3. CASE outages # 0
    <3>1. most + Cardinality(Worker) * most = most * (1 + Cardinality(Worker))
      BY <1>1, <1>5, WindowBound
    <3>2. PICK all : all = Cardinality(Worker) * most
      OBVIOUS
    <3>3. PICK deaths : deaths = HitMax * restarts
      OBVIOUS
    <3>4. Memories(first) <= all /\ all \in Int /\ deaths \in Int
      BY <1>1, <1>4, <1>5, <1>6, <2>3, <3>2, <3>3
    <3>5. LastWindow <= most + Memories(first) + deaths /\ LastWindow \in Int
      BY <1>2, <1>4, <2>1, <3>3
    <3>6. LastWindow <= (most + all) + deaths
      BY <1>1, <1>4, <3>4, <3>5
    <3>7. (IF outages = 0 THEN 1 ELSE 1 + Cardinality(Worker)) = 1 + Cardinality(Worker)
      BY <2>3
    <3>. QED BY <3>1, <3>2, <3>3, <3>6, <3>7
  <2>. QED BY <2>2, <2>3
<1>. QED BY <1>7 DEF RateKept, RateInv, most

LEMMA InitRate == DeploymentInit /\ RateInit => RateInv
<1>. SUFFICES ASSUME DeploymentInit, RateInit PROVE RateInv
  OBVIOUS
<1>. USE HitConstants DEF RateInit, DeploymentInit
<1>1. Waits = 0
  BY FS_EmptySet DEF Waits
<1>2. NoWindow \in [count: Nat, reset: 0..NoExpiry] /\ NoWindow.count = 0 /\ NoWindow.reset = 0
  BY DEF NoWindow
<1>3. HitsTyped
  <2>1. hitMemory \in [Worker -> [count: Nat, reset: 0..NoExpiry]]
    BY <1>2
  <2>2. admitted \in Seq(0..MaxTime)
    OBVIOUS
  <2>3. hits \in Nat /\ hitsUntil \in 0..NoExpiry /\ asked \in 0..MaxHits /\ restarts \in 0..MaxDeaths
    OBVIOUS
  <2>4. hitting \subseteq Worker /\ refusedEarly \in BOOLEAN /\ severed \in BOOLEAN
    OBVIOUS
  <2>. QED BY <2>1, <2>2, <2>3, <2>4, Zenon DEF HitsTyped
<1>4. HitsCounted
  BY <1>1, <1>2 DEF HitsCounted
<1>5. HitsTimed
  BY <1>2 DEF HitsTimed
<1>6. CountedLetThrough
  BY <1>2 DEF CountedLetThrough
<1>7. ASSUME NEW b \in (now - HitWindow + 1)..now PROVE Admits(b)
  <2>1. b \in Int /\ b <= now /\ Opened = now /\ now \in Int
    BY DEF Opened
  <2>2. Place(hits, Opened, b) = HitMax - 1
    BY <2>1, FirstInPlace
  <2>3. Cardinality(Since(admitted, b)) = 0
    BY FS_EmptySet DEF Since
  <2>4. Memories(b) = 0 /\ HitMax * restarts = 0
    BY DEF Memories
  <2>. QED BY <1>1, <2>2, <2>3, <2>4 DEF Admits
<1>. QED BY <1>3, <1>4, <1>5, <1>6, <1>7 DEF RateInv

(***************************************************************************)
(* INCR of a new key: its window starts now.                               *)
(***************************************************************************)
LEMMA OpensWindow ==
    ASSUME DeploymentTypeOK, RateInv, NEW w \in Worker, CountHit(w), hits = 0
    PROVE  RateInv'
<1>0. HitsTyped /\ HitsCounted /\ HitsTimed /\ CountedLetThrough /\ NoExpiry \in Nat
  BY HitConstants DEF RateInv
<1>1. /\ asked < MaxHits /\ asked' = asked + 1 /\ hits' = 1 /\ hitting' = hitting \cup {w}
      /\ hitsUntil' = NoExpiry /\ now' = now /\ redisUp' = redisUp /\ outages' = outages
      /\ UNCHANGED <<admitted, refusedEarly, hitMemory, severed, restarts>>
  BY DEF CountHit, NewHit, deployment
<1>2. hitting = {} /\ Waits = 0 /\ asked \in Nat
  BY <1>0, WaitsCounted, HitConstants DEF HitsTimed, HitsTyped
<1>3. hitting' = {w} /\ Waits' = 1 /\ Opened' = now
  BY <1>1, <1>2, FS_Singleton DEF Waits, Opened
<1>4. HitsTyped'
  BY <1>0, <1>1, <1>2, <1>3, HitConstants DEF HitsTyped
<1>5. HitsCounted'
  <2>1. \A v \in Worker : hitMemory[v].count \in Nat
    BY <1>0 DEF HitsTyped
  <2>2. Len(admitted) \in Nat
    BY <1>0 DEF HitsTyped
  <2>. QED BY <1>0, <1>1, <1>2, <1>3, <2>1, <2>2 DEF HitsCounted
<1>6. HitsTimed'
  BY <1>0, <1>1, <1>3 DEF HitsTimed
<1>7. CountedLetThrough'
  <2>0. now \in Int /\ admitted \in Seq(0..MaxTime)
    BY <1>0 DEF DeploymentTypeOK, HitsTyped
  <2>1. Cardinality(Since(admitted, now)) \in Nat
    BY <2>0, SinceCounted
  <2>2. Capped(1) <= Cardinality(Since(admitted, now)) + 1
    BY <2>1, HitConstants DEF Capped
  <2>. QED BY <1>0, <1>1, <1>3, <2>2 DEF CountedLetThrough
<1>8. ASSUME NEW b \in (now - HitWindow + 1)..now PROVE Admits(b)'
  <2>1. b \in Int /\ b <= now /\ now \in Int /\ Admits(b) /\ Opened = now
    BY HitConstants DEF RateInv, DeploymentTypeOK, Opened
  <2>2. Place(hits, Opened, b) = HitMax - 1 /\ Place(1, now, b) = HitMax
    BY <2>1, FirstInPlace
  <2>3. /\ Cardinality(Since(admitted, b)) \in Nat /\ Memories(b) \in Nat /\ HitMax * restarts \in Nat
    BY <1>0, <2>1, Quantities
  <2>4. Cardinality(Since(admitted, b)) + 1 <= HitMax + Memories(b) + HitMax * restarts
    BY <1>2, <2>1, <2>2, <2>3, HitConstants DEF Admits
  <2>5. Memories(b)' = Memories(b)
    BY <1>1 DEF Memories
  <2>. QED BY <1>1, <1>3, <2>2, <2>4, <2>5 DEF Admits
<1>. QED BY <1>1, <1>4, <1>5, <1>6, <1>7, <1>8 DEF RateInv

(***************************************************************************)
(* What a decision does to the history.                                    *)
(***************************************************************************)
LEMMA DecisionRecorded ==
    ASSUME DeploymentTypeOK, HitsTyped, HitsTimed, NEW n \in Nat, Decide(n)
    PROVE  /\ admitted' \in Seq(0..MaxTime) /\ refusedEarly' \in BOOLEAN
           /\ Len(admitted') = Len(admitted) + (IF n <= HitMax THEN 1 ELSE 0)
           /\ \A i \in DOMAIN admitted' : admitted'[i] <= now
           /\ \A b \in Int : b <= now =>
                  Cardinality(Since(admitted', b))
                    = Cardinality(Since(admitted, b)) + (IF n <= HitMax THEN 1 ELSE 0)
<1>1. now \in 0..MaxTime /\ admitted \in Seq(0..MaxTime) /\ Len(admitted) \in Nat
  BY DEF DeploymentTypeOK, HitsTyped
<1>2. refusedEarly' \in BOOLEAN
  BY DEF HitsTyped, Decide
<1>3. CASE n <= HitMax
  <2>1. admitted' = Append(admitted, now)
    BY <1>3 DEF Decide
  <2>. QED BY <1>1, <1>2, <1>3, <2>1, AppendedNow
<1>4. CASE ~(n <= HitMax)
  <2>1. admitted' = admitted
    BY <1>4 DEF Decide
  <2>2. \A b \in Int : Cardinality(Since(admitted, b)) \in Nat
    BY <1>1, SinceCounted
  <2>3. \A i \in DOMAIN admitted : admitted[i] <= now
    BY DEF HitsTimed
  <2>. QED BY <1>1, <1>2, <1>4, <2>1, <2>2, <2>3
<1>. QED BY <1>3, <1>4

\* The windows of the memories lose nothing that was let through.
LEMMA MemoriesLetThrough ==
    ASSUME DeploymentTypeOK, HitsTyped, HitsTimed, CountedLetThrough, NEW v \in Worker,
           NEW n \in Nat, Decide(n), now < hitMemory[v].reset
    PROVE  Capped(hitMemory[v].count)
             <= Cardinality(Since(admitted', hitMemory[v].reset - HitWindow))
<1>. DEFINE start == hitMemory[v].reset - HitWindow
<1>1. start \in Int /\ start <= now /\ hitMemory[v].count \in Nat
  BY OpenedRecently
<1>2. Capped(hitMemory[v].count) <= Cardinality(Since(admitted, start))
  BY DEF CountedLetThrough
<1>3. Capped(hitMemory[v].count) \in Nat
  BY <1>1, HitConstants DEF Capped
<1>. HIDE DEF start
<1>4. Cardinality(Since(admitted, start)) \in Nat
  BY <1>1, SinceCounted DEF HitsTyped
<1>5. Cardinality(Since(admitted', start)) >= Cardinality(Since(admitted, start))
  BY <1>1, <1>4, DecisionRecorded
<1>6. Cardinality(Since(admitted', start)) \in Int
  BY <1>1, <1>4, DecisionRecorded
<1>7. Capped(hitMemory[v].count) <= Cardinality(Since(admitted', start))
  BY <1>2, <1>3, <1>4, <1>5, <1>6
<1>. QED BY <1>7 DEF start

(***************************************************************************)
(* INCR of a key whose window is open.                                     *)
(***************************************************************************)
LEMMA CountsAgain ==
    ASSUME DeploymentTypeOK, RateInv, NEW w \in Worker, CountHit(w), hits # 0
    PROVE  RateInv'
<1>. DEFINE more == IF hits + 1 <= HitMax THEN 1 ELSE 0
<1>0. HitsTyped /\ HitsCounted /\ HitsTimed /\ CountedLetThrough /\ hits \in Nat
  BY DEF RateInv, HitsTyped
<1>1. /\ asked < MaxHits /\ asked' = asked + 1 /\ hits' = hits + 1 /\ hitting' = hitting
      /\ Decide(hits + 1) /\ hitsUntil' = hitsUntil
      /\ now' = now /\ redisUp' = redisUp /\ outages' = outages
      /\ UNCHANGED <<hitMemory, severed, restarts>>
  BY DEF CountHit, NewHit, deployment
<1>2. Waits' = Waits /\ Waits \in Nat
  BY <1>0, <1>1, WaitsCounted DEF Waits
<1>3. Opened' = Opened
  BY <1>0, <1>1 DEF Opened
<1>4. /\ admitted' \in Seq(0..MaxTime) /\ refusedEarly' \in BOOLEAN
      /\ Len(admitted') = Len(admitted) + more
      /\ \A i \in DOMAIN admitted' : admitted'[i] <= now
      /\ \A b \in Int : b <= now =>
             Cardinality(Since(admitted', b)) = Cardinality(Since(admitted, b)) + more
  BY <1>0, <1>1, DecisionRecorded
<1>. HIDE DEF more
<1>5. /\ more \in {0, 1} /\ (more = 0 => HitMax < hits + 1) /\ (more = 1 => hits < HitMax)
  BY <1>0, HitConstants DEF more
<1>6. HitsTyped'
  <2>1. asked' \in 0..MaxHits /\ hits' \in Nat
    BY <1>0, <1>1, HitConstants DEF HitsTyped
  <2>. QED BY <1>0, <1>1, <1>4, <2>1 DEF HitsTyped
<1>7. HitsCounted'
  <2>1. \A v \in Worker : hitMemory[v].count \in Nat
    BY <1>0 DEF HitsTyped
  <2>2. Len(admitted) \in Nat /\ asked \in Nat
    BY <1>0 DEF HitsTyped
  <2>. QED BY <1>0, <1>1, <1>2, <1>4, <1>5, <2>1, <2>2 DEF HitsCounted
<1>8. HitsTimed'
  BY <1>0, <1>1, <1>3, <1>4 DEF HitsTimed
<1>9. ASSUME NEW b \in Int, b <= now
      PROVE  Cardinality(Since(admitted, b)) \in Nat
  BY <1>0, SinceCounted DEF HitsTyped
<1>10. /\ Capped(hits) \in Nat /\ Capped(hits + 1) \in Nat
       /\ Capped(hits + 1) <= Capped(hits) + more
       /\ more = 0 => Capped(hits) = HitMax
  BY <1>0, <1>5, HitConstants DEF Capped
<1>11. Opened \in Int /\ Opened <= now /\ now - HitWindow < Opened
  BY <1>0, OpenedRecently
<1>12. CountedLetThrough'
  <2>1. ASSUME ~severed
        PROVE  /\ hitsUntil = NoExpiry => hitting # {}
               /\ Capped(hits + 1) <= Cardinality(Since(admitted', Opened)) + Waits
    <3>1. /\ hitsUntil = NoExpiry => hitting # {}
          /\ Capped(hits) <= Cardinality(Since(admitted, Opened)) + Waits
      BY <1>0, <2>1 DEF CountedLetThrough
    <3>. QED BY <1>2, <1>4, <1>5, <1>9, <1>10, <1>11, <3>1
  <2>2. \A v \in Worker : now < hitMemory[v].reset =>
           Capped(hitMemory[v].count)
             <= Cardinality(Since(admitted', hitMemory[v].reset - HitWindow))
    BY <1>0, <1>1, MemoriesLetThrough
  <2>. QED BY <1>1, <1>2, <1>3, <2>1, <2>2 DEF CountedLetThrough
<1>13. refusedEarly' => severed'
  <2>1. SUFFICES ASSUME ~severed, refusedEarly' PROVE FALSE
    BY <1>1
  <2>2. ~refusedEarly
    BY <2>1 DEF RateInv
  <2>3. more = 0 /\ LastWindow + Waits < HitMax
    BY <1>1, <2>1, <2>2 DEF Decide, Waits, more
  <2>4. HitMax <= Cardinality(Since(admitted, Opened)) + Waits
    BY <1>0, <1>10, <2>1, <2>3 DEF CountedLetThrough
  <2>. QED BY <1>0, <1>11, <2>3, <2>4, RefusedAfterMany
<1>14. ASSUME NEW b \in (now - HitWindow + 1)..now PROVE Admits(b)'
  <2>1. b \in Int /\ b <= now /\ Admits(b)
    BY HitConstants DEF RateInv, DeploymentTypeOK
  <2>2. /\ Place(hits + 1, Opened, b) \in Nat
        /\ Place(hits, Opened, b) + more <= Place(hits + 1, Opened, b)
    <3>1. hits > 0 /\ hits + 1 \in Nat /\ hits + 1 > 0
      BY <1>0
    <3>2. Place(hits + 1, Opened, b) \in 0..(2 * HitMax - 1)
      BY <1>11, <2>1, <3>1, PlaceNumbers
    <3>3. /\ Place(hits, Opened, b) \in 0..(2 * HitMax - 1)
          /\ Place(hits, Opened, b) <= Place(hits + 1, Opened, b)
          /\ hits < HitMax => Place(hits + 1, Opened, b) = Place(hits, Opened, b) + 1
      BY <1>0, <1>11, <2>1, <3>1, PlaceNumbers
    <3>. QED BY <1>5, <3>2, <3>3, HitConstants
  <2>3. /\ Cardinality(Since(admitted, b)) \in Nat /\ Memories(b) \in Nat /\ HitMax * restarts \in Nat
        /\ Place(hits, Opened, b) \in 0..(2 * HitMax - 1)
    BY <1>0, <2>1, Quantities
  <2>4. Cardinality(Since(admitted', b)) = Cardinality(Since(admitted, b)) + more
    BY <1>4, <2>1
  <2>5. Cardinality(Since(admitted', b)) + Waits
          <= Place(hits + 1, Opened, b) + Memories(b) + HitMax * restarts
    BY <1>2, <1>5, <2>1, <2>2, <2>3, <2>4 DEF Admits
  <2>6. Memories(b)' = Memories(b)
    BY <1>1 DEF Memories
  <2>. QED BY <1>1, <1>2, <1>3, <2>5, <2>6 DEF Admits
<1>. QED BY <1>1, <1>6, <1>7, <1>8, <1>12, <1>13, <1>14 DEF RateInv

(***************************************************************************)
(* EXPIRE.                                                                 *)
(***************************************************************************)
LEMMA ExpiresHit ==
    ASSUME DeploymentTypeOK, RateInv, NEW w \in Worker, ExpireHit(w)
    PROVE  RateInv'
<1>0. /\ HitsTyped /\ HitsCounted /\ HitsTimed /\ CountedLetThrough /\ hits \in Nat
      /\ now \in 0..MaxTime
  BY DEF RateInv, HitsTyped, DeploymentTypeOK
<1>1. w \in hitting /\ hits > 0 /\ Opened = now
  BY <1>0 DEF ExpireHit, HitsTimed
<1>2. /\ hitsUntil' = now + HitWindow /\ hitting' = hitting \ {w} /\ Decide(1)
      /\ now' = now /\ redisUp' = redisUp /\ outages' = outages
      /\ UNCHANGED <<hits, hitMemory, asked, severed, restarts>>
  BY <1>1 DEF ExpireHit, deployment
<1>3. Waits' = Waits - 1 /\ Waits \in Nat /\ Waits' \in Int
  BY <1>0, <1>1, <1>2, WaitsCounted DEF Waits
<1>4. /\ hitsUntil' \in 0..NoExpiry /\ hitsUntil' # NoExpiry /\ now < hitsUntil'
      /\ hitsUntil' - HitWindow = now
  BY <1>0, <1>2, HitConstants
<1>5. Opened' = now
  BY <1>1, <1>2, <1>4 DEF Opened
<1>6. /\ admitted' = Append(admitted, now) /\ refusedEarly' = refusedEarly
  BY <1>2, HitConstants DEF Decide
<1>7. /\ admitted' \in Seq(0..MaxTime) /\ Len(admitted') = Len(admitted) + 1
      /\ \A i \in DOMAIN admitted' : admitted'[i] <= now
      /\ \A b \in Int : b <= now =>
             Cardinality(Since(admitted', b)) = Cardinality(Since(admitted, b)) + 1
  BY <1>0, <1>6, AppendedNow
<1>8. HitsTyped'
  BY <1>0, <1>2, <1>4, <1>6, <1>7 DEF HitsTyped
<1>9. HitsCounted'
  <2>1. \A v \in Worker : hitMemory[v].count \in Nat
    BY <1>0 DEF HitsTyped
  <2>2. Len(admitted) \in Nat /\ asked \in Nat
    BY <1>0 DEF HitsTyped
  <2>. QED BY <1>0, <1>2, <1>3, <1>7, <2>1, <2>2 DEF HitsCounted
<1>10. HitsTimed'
  BY <1>0, <1>1, <1>2, <1>4, <1>5, <1>7, HitConstants DEF HitsTimed
<1>11. ASSUME NEW b \in Int, b <= now PROVE Cardinality(Since(admitted, b)) \in Nat
  BY <1>0, SinceCounted DEF HitsTyped
<1>12. CountedLetThrough'
  <2>1. ASSUME ~severed PROVE Capped(hits) <= Cardinality(Since(admitted', now)) + Waits'
    <3>1. Capped(hits) <= Cardinality(Since(admitted, now)) + Waits
      BY <1>0, <1>1, <2>1 DEF CountedLetThrough
    <3>2. Cardinality(Since(admitted', now)) = Cardinality(Since(admitted, now)) + 1
      BY <1>0, <1>7
    <3>3. Cardinality(Since(admitted, now)) \in Nat
      BY <1>0, <1>11
    <3>. QED BY <1>3, <3>1, <3>2, <3>3
  <2>2. \A v \in Worker : now < hitMemory[v].reset =>
           Capped(hitMemory[v].count)
             <= Cardinality(Since(admitted', hitMemory[v].reset - HitWindow))
    BY <1>0, <1>2, MemoriesLetThrough
  <2>. QED BY <1>2, <1>4, <1>5, <2>1, <2>2 DEF CountedLetThrough
<1>13. ASSUME NEW b \in (now - HitWindow + 1)..now PROVE Admits(b)'
  <2>1. b \in Int /\ b <= now /\ Admits(b)
    BY <1>0, HitConstants DEF RateInv
  <2>2. /\ Cardinality(Since(admitted, b)) \in Nat
        /\ Cardinality(Since(admitted', b)) = Cardinality(Since(admitted, b)) + 1
    BY <1>7, <1>11, <2>1
  <2>3. Memories(b)' = Memories(b)
    BY <1>2 DEF Memories
  <2>4. Place(hits, Opened, b)' = Place(hits, Opened, b)
    BY <1>1, <1>2, <1>5
  <2>5. Cardinality(Since(admitted', b)) + Waits' = Cardinality(Since(admitted, b)) + Waits
    BY <1>3, <2>2
  <2>. QED BY <1>2, <2>1, <2>3, <2>4, <2>5 DEF Admits
<1>. QED BY <1>2, <1>6, <1>8, <1>9, <1>10, <1>12, <1>13 DEF RateInv

(***************************************************************************)
(* The fallback.  A memory pays for what it lets through, and refuses      *)
(* nobody early.                                                           *)
(***************************************************************************)
Renewed(m) == IF now < m.reset THEN [m EXCEPT !.count = @ + 1]
              ELSE [count |-> 1, reset |-> now + HitWindow]

\* Its place grows by one with each request that it lets through.
LEMMA RenewedShare ==
    ASSUME NEW m \in [count: Nat, reset: 0..NoExpiry], now \in 0..MaxTime,
           now < m.reset => m.count > 0
    PROVE  /\ Renewed(m) \in [count: Nat, reset: 0..NoExpiry]
           /\ Renewed(m).count \in 1..(m.count + 1) /\ now < Renewed(m).reset
           /\ m.reset <= now + HitWindow => Renewed(m).reset <= now + HitWindow
           /\ \A b \in Int : b <= now =>
                 /\ Share(m, now, b) \in Nat
                 /\ Share(Renewed(m), now, b) \in 0..(2 * HitMax - 1)
                 /\ Share(m, now, b) <= Share(Renewed(m), now, b)
                 /\ Renewed(m).count <= HitMax =>
                       Share(Renewed(m), now, b) = Share(m, now, b) + 1
<1>0. m.count \in Nat /\ m.reset \in Int /\ now \in Int /\ m.reset - HitWindow \in Int
  BY HitConstants
<1>1. CASE now < m.reset
  <2>1. /\ Renewed(m) = [m EXCEPT !.count = @ + 1]
        /\ Renewed(m).count = m.count + 1 /\ Renewed(m).reset = m.reset
    BY <1>1 DEF Renewed
  <2>2. Renewed(m) \in [count: Nat, reset: 0..NoExpiry]
    BY <1>0, <2>1
  <2>3. ASSUME NEW b \in Int, b <= now
        PROVE  /\ Share(m, now, b) \in Nat
               /\ Share(Renewed(m), now, b) \in 0..(2 * HitMax - 1)
               /\ Share(m, now, b) <= Share(Renewed(m), now, b)
               /\ Renewed(m).count <= HitMax => Share(Renewed(m), now, b) = Share(m, now, b) + 1
    <3>1. /\ Share(m, now, b) = Place(m.count, m.reset - HitWindow, b)
          /\ Share(Renewed(m), now, b) = Place(m.count + 1, m.reset - HitWindow, b)
      BY <1>1, <2>1 DEF Share
    <3>2. m.count > 0 /\ m.count + 1 \in Nat /\ m.count + 1 > 0
      BY <1>0, <1>1
    <3>3. Place(m.count + 1, m.reset - HitWindow, b) \in 0..(2 * HitMax - 1)
      BY <1>0, <3>2, PlaceNumbers
    <3>4. /\ Place(m.count, m.reset - HitWindow, b) \in 0..(2 * HitMax - 1)
          /\ Place(m.count, m.reset - HitWindow, b) <= Place(m.count + 1, m.reset - HitWindow, b)
          /\ m.count < HitMax =>
                Place(m.count + 1, m.reset - HitWindow, b)
                  = Place(m.count, m.reset - HitWindow, b) + 1
      BY <1>0, <3>2, PlaceNumbers
    <3>5. m.count + 1 <= HitMax => m.count < HitMax
      BY <1>0, HitConstants
    <3>. QED BY <2>1, <3>1, <3>3, <3>4, <3>5, HitConstants
  <2>. QED BY <1>0, <1>1, <2>1, <2>2, <2>3
<1>2. CASE ~(now < m.reset)
  <2>1. Renewed(m) = [count |-> 1, reset |-> now + HitWindow]
    BY <1>2 DEF Renewed
  <2>2. /\ Renewed(m) \in [count: Nat, reset: 0..NoExpiry]
        /\ Renewed(m).count = 1 /\ Renewed(m).reset = now + HitWindow
        /\ now < now + HitWindow
    BY <2>1, HitConstants
  <2>3. ASSUME NEW b \in Int, b <= now
        PROVE  Share(m, now, b) = HitMax - 1 /\ Share(Renewed(m), now, b) = HitMax
    <3>1. Share(m, now, b) = HitMax - 1
      BY <1>2 DEF Share
    <3>2. (now + HitWindow) - HitWindow = now
      BY <1>0, HitConstants
    <3>3. Share(Renewed(m), now, b) = Place(1, now, b)
      <4>1. Renewed(m).reset - HitWindow = (now + HitWindow) - HitWindow
        BY <2>2
      <4>2. Renewed(m).reset - HitWindow = now
        BY <3>2, <4>1
      <4>3. now < Renewed(m).reset
        BY <2>2
      <4>. QED BY <2>2, <4>2, <4>3 DEF Share
    <3>. QED BY <1>0, <2>3, <3>1, <3>3, FirstInPlace
  <2>4. 1 \in 1..(m.count + 1)
    BY <1>0
  <2>5. HitMax - 1 \in Nat /\ HitMax \in 0..(2 * HitMax - 1) /\ HitMax = (HitMax - 1) + 1
    BY HitConstants
  <2>6. HitMax - 1 <= HitMax
    BY HitConstants
  <2>7. now + HitWindow <= now + HitWindow
    BY <1>0, HitConstants
  <2>. QED BY <2>2, <2>3, <2>4, <2>5, <2>6, <2>7
<1>. QED BY <1>1, <1>2

\* The request that a memory lets through takes a part that nobody had.
LEMMA SharesRenewed ==
    ASSUME DeploymentTypeOK, HitsTyped, HitsTimed, NEW w \in Worker, NEW b \in Int, b <= now,
           NEW memory, memory = [hitMemory EXCEPT ![w] = Renewed(hitMemory[w])]
    PROVE  Cardinality(Shares(memory, now, b))
             >= Cardinality(Shares(hitMemory, now, b))
                + (IF Renewed(hitMemory[w]).count <= HitMax THEN 1 ELSE 0)
<1>. DEFINE old == Shares(hitMemory, now, b)
<1>. DEFINE new == Shares(memory, now, b)
<1>. DEFINE place == Share(hitMemory[w], now, b)
<1>1. memory[w] = Renewed(hitMemory[w]) /\ \A v \in Worker \ {w} : memory[v] = hitMemory[v]
  BY DEF HitsTyped
<1>2. hitMemory[w] \in [count: Nat, reset: 0..NoExpiry] /\ now \in 0..MaxTime
  BY OpenedRecently
<1>3. now < hitMemory[w].reset => hitMemory[w].count > 0
  BY DEF HitsTimed
<1>4. /\ place \in Nat /\ Share(memory[w], now, b) \in 0..(2 * HitMax - 1)
      /\ place <= Share(memory[w], now, b)
      /\ Renewed(hitMemory[w]).count <= HitMax => Share(memory[w], now, b) = place + 1
  BY <1>1, <1>2, <1>3, RenewedShare
<1>5. old \in SUBSET Parts /\ new \in SUBSET Parts
  BY SharesAreParts
<1>. HIDE DEF place
<1>6. old \subseteq new
  <2>1. ASSUME NEW x \in old PROVE x \in new
    <3>1. x \in Parts /\ x[1] \in Worker /\ x[2] \in Int /\ x[2] <= Share(hitMemory[x[1]], now, b)
      BY HitConstants DEF Shares, Parts
    <3>2. x[1] = w => x[2] <= Share(memory[w], now, b)
      BY <1>4, <3>1, HitConstants DEF place
    <3>. QED BY <1>1, <3>1, <3>2 DEF Shares
  <2>. QED BY <2>1
<1>7. CASE Renewed(hitMemory[w]).count <= HitMax
  <2>. DEFINE x == <<w, place + 1>>
  <2>1. x \in Parts
    BY <1>4, <1>7, HitConstants DEF Parts
  <2>2. x[1] = w /\ x[2] = place + 1
    OBVIOUS
  <2>3. x \in new
    BY <1>4, <1>7, <2>1, <2>2 DEF Shares
  <2>4. x \notin old
    BY <1>4, <2>2 DEF Shares, place
  <2>. HIDE DEF old, new, x
  <2>5. Cardinality(old) + 1 <= Cardinality(new)
    BY <1>5, <1>6, <2>3, <2>4, PartsGrow
  <2>6. Cardinality(old) \in Nat /\ Cardinality(new) \in Nat
    BY <1>5, PartsCounted
  <2>7. Cardinality(new) >= Cardinality(old) + (IF Renewed(hitMemory[w]).count <= HitMax THEN 1 ELSE 0)
    BY <1>7, <2>5, <2>6
  <2>. QED BY <2>7 DEF old, new
<1>8. CASE ~(Renewed(hitMemory[w]).count <= HitMax)
  <2>. HIDE DEF old, new
  <2>1. Cardinality(old) <= Cardinality(new)
    BY <1>5, <1>6, PartsGrow
  <2>2. Cardinality(old) \in Nat /\ Cardinality(new) \in Nat
    BY <1>5, PartsCounted
  <2>3. Cardinality(new) >= Cardinality(old) + (IF Renewed(hitMemory[w]).count <= HitMax THEN 1 ELSE 0)
    BY <1>8, <2>1, <2>2
  <2>. QED BY <2>3 DEF old, new
<1>. QED BY <1>7, <1>8

\* What the fallback leaves of the invariant, whatever becomes of the counter.
LEMMA MemoryHit ==
    ASSUME DeploymentTypeOK, RateInv, NEW w \in Worker, HitInMemory(w), NEW more,
           more = IF Renewed(hitMemory[w]).count <= HitMax THEN 1 ELSE 0
    PROVE  /\ hitMemory' \in [Worker -> [count: Nat, reset: 0..NoExpiry]]
           /\ \A v \in Worker :
                 /\ hitMemory'[v].count <= hitMemory[v].count + 1
                 /\ hitMemory'[v].reset <= now + HitWindow
                 /\ now < hitMemory'[v].reset => hitMemory'[v].count > 0
                 /\ now < hitMemory'[v].reset =>
                       Capped(hitMemory'[v].count)
                         <= Cardinality(Since(admitted', hitMemory'[v].reset - HitWindow))
           /\ refusedEarly' = refusedEarly
           /\ admitted' \in Seq(0..MaxTime) /\ Len(admitted') = Len(admitted) + more
           /\ \A i \in DOMAIN admitted' : admitted'[i] <= now
           /\ more = 0 => admitted' = admitted
           /\ more \in {0, 1}
           /\ \A b \in Int : b <= now =>
                 /\ Cardinality(Since(admitted', b)) = Cardinality(Since(admitted, b)) + more
                 /\ Cardinality(Shares(hitMemory', now, b))
                      >= Cardinality(Shares(hitMemory, now, b)) + more
<1>. DEFINE m == hitMemory[w]
<1>. DEFINE n == Renewed(m)
<1>0. HitsTyped /\ HitsTimed /\ CountedLetThrough /\ now \in 0..MaxTime /\ now \in Int
  BY HitConstants DEF RateInv, DeploymentTypeOK
<1>1. hitMemory' = [hitMemory EXCEPT ![w] = n] /\ Decide(n.count)
  BY DEF HitInMemory, Renewed
<1>2. /\ m \in [count: Nat, reset: 0..NoExpiry] /\ m.reset <= now + HitWindow
      /\ now < m.reset => m.count > 0
  BY <1>0 DEF HitsTyped, HitsTimed
<1>3. /\ n \in [count: Nat, reset: 0..NoExpiry] /\ n.count \in 1..(m.count + 1) /\ now < n.reset
      /\ n.reset <= now + HitWindow
  BY <1>0, <1>2, RenewedShare
<1>4. hitMemory'[w] = n /\ \A v \in Worker \ {w} : hitMemory'[v] = hitMemory[v]
  BY <1>0, <1>1 DEF HitsTyped
<1>5. hitMemory' \in [Worker -> [count: Nat, reset: 0..NoExpiry]]
  BY <1>0, <1>1, <1>3 DEF HitsTyped
<1>6. n.count \in Nat /\ m.count \in Nat /\ n.count > 0 /\ n.count <= m.count + 1
  BY <1>2, <1>3
<1>7. /\ admitted' \in Seq(0..MaxTime) /\ Len(admitted') = Len(admitted) + more
      /\ \A i \in DOMAIN admitted' : admitted'[i] <= now
      /\ \A b \in Int : b <= now =>
             Cardinality(Since(admitted', b)) = Cardinality(Since(admitted, b)) + more
  BY <1>0, <1>1, <1>6, DecisionRecorded
<1>8. more \in {0, 1} /\ (more = 0 => admitted' = admitted)
  BY <1>1 DEF Decide
<1>9. ASSUME NEW b \in Int, b <= now
      PROVE  Cardinality(Shares(hitMemory', now, b))
               >= Cardinality(Shares(hitMemory, now, b)) + more
  BY <1>0, <1>1, <1>9, SharesRenewed
<1>10. ASSUME NEW b \in Int PROVE Cardinality(Since(admitted, b)) \in Nat
  BY <1>0, SinceCounted DEF HitsTyped
<1>. HIDE DEF n
<1>11. Capped(n.count) <= Cardinality(Since(admitted', n.reset - HitWindow))
  <2>1. CASE now < m.reset
    <3>1. n.reset = m.reset /\ n.count = m.count + 1
      BY <1>2, <2>1 DEF n, Renewed
    <3>2. m.reset - HitWindow \in Int /\ m.reset - HitWindow <= now
      BY <1>0, OpenedRecently
    <3>3. Capped(m.count) <= Cardinality(Since(admitted, m.reset - HitWindow))
      BY <1>0, <2>1 DEF CountedLetThrough
    <3>4. /\ Capped(m.count) \in Nat /\ Capped(m.count + 1) \in Nat
          /\ Capped(m.count + 1) <= Capped(m.count) + more
      BY <1>6, <3>1, HitConstants DEF Capped, n
    <3>5. PICK start \in Int : start = m.reset - HitWindow
      BY <3>2
    <3>6. /\ Cardinality(Since(admitted', start)) = Cardinality(Since(admitted, start)) + more
          /\ Cardinality(Since(admitted, start)) \in Nat
      BY <1>7, <1>10, <3>2, <3>5
    <3>7. Capped(m.count + 1) <= Cardinality(Since(admitted', start))
      BY <1>8, <3>3, <3>4, <3>5, <3>6
    <3>. QED BY <3>1, <3>5, <3>7
  <2>2. CASE ~(now < m.reset)
    <3>1. n.count = 1 /\ n.reset = now + HitWindow
      BY <2>2 DEF n, Renewed
    <3>2. n.reset - HitWindow = now /\ Capped(n.count) = 1 /\ more = 1
      BY <1>0, <3>1, HitConstants DEF Capped, n
    <3>3. Cardinality(Since(admitted', now)) = Cardinality(Since(admitted, now)) + 1
      BY <1>0, <1>7, <3>2
    <3>. QED BY <1>0, <1>10, <3>2, <3>3
  <2>. QED BY <2>1, <2>2
<1>12. refusedEarly' = refusedEarly
  <2>1. CASE n.count <= HitMax
    BY <1>1, <2>1 DEF Decide
  <2>2. CASE ~(n.count <= HitMax)
    <3>1. now < m.reset /\ HitMax <= m.count
      BY <1>2, <1>6, <2>2, HitConstants DEF n, Renewed
    <3>2. Capped(m.count) = HitMax
      BY <1>6, <3>1, HitConstants DEF Capped
    <3>. DEFINE start == m.reset - HitWindow
    <3>3. start \in Int /\ now - HitWindow < start
      BY <1>0, <3>1, OpenedRecently
    <3>4. HitMax <= Cardinality(Since(admitted, start))
      BY <1>0, <3>1, <3>2 DEF CountedLetThrough
    <3>. HIDE DEF start
    <3>5. HitMax <= Cardinality(Since(admitted, start)) + Waits
      BY <1>0, <1>10, <3>3, <3>4, WaitsCounted, HitConstants
    <3>6. ~(LastWindow + Waits < HitMax)
      BY <1>0, <3>3, <3>5, RefusedAfterMany
    <3>. QED BY <1>0, <1>1, <2>2, <3>6 DEF Decide, Waits, HitsTyped
  <2>. QED BY <2>1, <2>2
<1>13. ASSUME NEW v \in Worker
       PROVE  /\ hitMemory'[v].count <= hitMemory[v].count + 1
              /\ hitMemory'[v].reset <= now + HitWindow
              /\ now < hitMemory'[v].reset => hitMemory'[v].count > 0
              /\ now < hitMemory'[v].reset =>
                    Capped(hitMemory'[v].count)
                      <= Cardinality(Since(admitted', hitMemory'[v].reset - HitWindow))
  <2>1. CASE v = w
    BY <1>3, <1>4, <1>6, <1>11, <2>1
  <2>2. CASE v # w
    <3>1. hitMemory'[v] = hitMemory[v] /\ hitMemory[v].count \in Nat
      BY <1>0, <1>4, <2>2 DEF HitsTyped
    <3>2. now < hitMemory[v].reset =>
             Capped(hitMemory[v].count)
               <= Cardinality(Since(admitted', hitMemory[v].reset - HitWindow))
      BY <1>0, <1>1, <1>6, MemoriesLetThrough
    <3>. QED BY <1>0, <3>1, <3>2 DEF HitsTimed
  <2>. QED BY <2>1, <2>2
<1>. QED BY <1>5, <1>7, <1>8, <1>9, <1>12, <1>13

(***************************************************************************)
(* EXPIRE raises, and the memory decides.                                  *)
(***************************************************************************)
LEMMA ExpireRaised ==
    ASSUME DeploymentTypeOK, RateInv, NEW w \in Worker, NEW done \in BOOLEAN,
           ExpireRaises(w, done)
    PROVE  RateInv'
<1>0. /\ HitsTyped /\ HitsCounted /\ HitsTimed /\ CountedLetThrough /\ hits \in Nat
      /\ now \in 0..MaxTime /\ now \in Int
  BY HitConstants DEF RateInv, HitsTyped, DeploymentTypeOK
<1>1. w \in hitting /\ hits > 0 /\ Opened = now /\ ~redisUp /\ outages # 0
  BY <1>0 DEF ExpireRaises, HitsTimed
<1>2. /\ hitsUntil' = (IF done THEN now + HitWindow ELSE hitsUntil) /\ hitting' = hitting \ {w}
      /\ HitInMemory(w) /\ severed' = (severed \/ ~done \/ admitted' = admitted)
      /\ now' = now /\ redisUp' = redisUp /\ outages' = outages
      /\ UNCHANGED <<hits, asked, restarts>>
  BY <1>1 DEF ExpireRaises, deployment
<1>3. Waits' = Waits - 1 /\ Waits \in Nat /\ Waits' \in Nat
  <2>1. /\ IsFiniteSet(hitting') /\ Waits' = Waits - 1 /\ Waits \in Nat
    BY <1>0, <1>1, <1>2, WaitsCounted, FS_RemoveElement DEF Waits
  <2>2. Waits' \in Nat
    BY <2>1, FS_CardinalityType DEF Waits
  <2>. QED BY <2>1, <2>2
<1>4. PICK more : more = IF Renewed(hitMemory[w]).count <= HitMax THEN 1 ELSE 0
  OBVIOUS
<1>5. /\ hitMemory' \in [Worker -> [count: Nat, reset: 0..NoExpiry]]
      /\ \A v \in Worker :
            /\ hitMemory'[v].count <= hitMemory[v].count + 1
            /\ hitMemory'[v].reset <= now + HitWindow
            /\ now < hitMemory'[v].reset => hitMemory'[v].count > 0
            /\ now < hitMemory'[v].reset =>
                  Capped(hitMemory'[v].count)
                    <= Cardinality(Since(admitted', hitMemory'[v].reset - HitWindow))
      /\ refusedEarly' = refusedEarly
      /\ admitted' \in Seq(0..MaxTime) /\ Len(admitted') = Len(admitted) + more
      /\ \A i \in DOMAIN admitted' : admitted'[i] <= now
      /\ more = 0 => admitted' = admitted
      /\ more \in {0, 1}
      /\ \A b \in Int : b <= now =>
            /\ Cardinality(Since(admitted', b)) = Cardinality(Since(admitted, b)) + more
            /\ Cardinality(Shares(hitMemory', now, b))
                 >= Cardinality(Shares(hitMemory, now, b)) + more
  BY <1>2, <1>4, MemoryHit
<1>6. /\ hitsUntil' \in 0..NoExpiry
      /\ hitsUntil' # NoExpiry => now < hitsUntil' /\ hitsUntil' <= now + HitWindow
  BY <1>0, <1>1, <1>2, HitConstants DEF HitsTyped, HitsTimed
<1>7. Opened' = now
  <2>1. CASE done
    BY <1>0, <1>1, <1>2, <2>1, HitConstants DEF Opened
  <2>2. CASE ~done
    BY <1>1, <1>2, <2>2 DEF Opened
  <2>. QED BY <2>1, <2>2
<1>8. HitsTyped'
  <2>1. hitting' \subseteq Worker /\ severed' \in BOOLEAN /\ refusedEarly' \in BOOLEAN
    BY <1>0, <1>2, <1>5, Zenon DEF HitsTyped
  <2>2. hits' \in Nat /\ asked' \in 0..MaxHits /\ restarts' \in 0..MaxDeaths
    BY <1>0, <1>2 DEF HitsTyped
  <2>. QED BY <1>5, <1>6, <2>1, <2>2, Zenon DEF HitsTyped
<1>9. HitsCounted'
  <2>1. \A v \in Worker : hitMemory[v].count \in Nat /\ hitMemory'[v].count \in Nat
    BY <1>0, <1>5 DEF HitsTyped
  <2>2. Len(admitted) \in Nat /\ asked \in Nat
    BY <1>0 DEF HitsTyped
  <2>3. ASSUME NEW v \in Worker PROVE hitMemory'[v].count + Waits' <= asked'
    <3>1. hitMemory[v].count + Waits <= asked
      BY <1>0 DEF HitsCounted
    <3>2. hitMemory'[v].count <= hitMemory[v].count + 1
      BY <1>5
    <3>3. hitMemory[v].count \in Nat /\ hitMemory'[v].count \in Nat
      BY <2>1
    <3>. QED BY <1>2, <1>3, <2>2, <3>1, <3>2, <3>3
  <2>4. hits' <= asked' /\ Waits' <= asked' /\ Len(admitted') + Waits' <= asked'
    BY <1>0, <1>2, <1>3, <1>5, <2>2 DEF HitsCounted
  <2>. QED BY <2>3, <2>4 DEF HitsCounted
<1>10. HitsTimed'
  BY <1>0, <1>1, <1>2, <1>5, <1>6, <1>7 DEF HitsTimed
<1>11. ASSUME NEW b \in Int PROVE Cardinality(Since(admitted, b)) \in Nat
  BY <1>0, SinceCounted DEF HitsTyped
<1>12. CountedLetThrough'
  <2>1. ASSUME ~severed'
        PROVE  /\ hitsUntil' # NoExpiry
               /\ Capped(hits) <= Cardinality(Since(admitted', now)) + Waits'
    <3>1. ~severed /\ done /\ more = 1
      BY <1>2, <1>5, <2>1
    <3>2. Capped(hits) <= Cardinality(Since(admitted, now)) + Waits
      BY <1>0, <1>1, <3>1 DEF CountedLetThrough
    <3>3. Cardinality(Since(admitted', now)) = Cardinality(Since(admitted, now)) + 1
      BY <1>0, <1>5, <3>1
    <3>4. hitsUntil' # NoExpiry
      BY <1>0, <1>2, <3>1, HitConstants
    <3>. QED BY <1>0, <1>3, <1>11, <3>2, <3>3, <3>4
  <2>. QED BY <1>2, <1>5, <1>7, <2>1 DEF CountedLetThrough
<1>13. ASSUME NEW b \in (now - HitWindow + 1)..now PROVE Admits(b)'
  <2>1. b \in Int /\ b <= now /\ Admits(b)
    BY <1>0, HitConstants DEF RateInv
  <2>2. /\ Cardinality(Since(admitted, b)) \in Nat /\ Place(hits, Opened, b) \in Nat
        /\ Memories(b) \in Nat /\ HitMax * restarts \in Nat
    BY <1>0, <2>1, Quantities, HitConstants
  <2>3. Place(hits, Opened, b)' = Place(hits, Opened, b)
    BY <1>1, <1>2, <1>7
  <2>4. Memories(b)' \in Nat /\ Memories(b)' >= Memories(b) + more
    <3>1. Cardinality(Shares(hitMemory', now, b)) \in Nat
      BY SharesAreParts, PartsCounted
    <3>. QED BY <1>1, <1>2, <1>5, <2>1, <3>1 DEF Memories
  <2>5. Cardinality(Since(admitted', b)) = Cardinality(Since(admitted, b)) + more
    BY <1>5, <2>1
  <2>6. PICK memories \in Nat : memories = Memories(b)'
    BY <2>4
  <2>7. Cardinality(Since(admitted', b)) + Waits'
           <= Place(hits, Opened, b) + memories + HitMax * restarts
    <3>1. Cardinality(Since(admitted, b)) + Waits
             <= Place(hits, Opened, b) + Memories(b) + HitMax * restarts
      BY <2>1 DEF Admits
    <3>2. PICK deaths \in Nat : deaths = HitMax * restarts
      BY <2>2
    <3>3. Cardinality(Since(admitted, b)) + Waits <= Place(hits, Opened, b) + Memories(b) + deaths
      BY <3>1, <3>2
    <3>4. memories >= Memories(b) + more /\ more \in Int
      BY <1>5, <2>4, <2>6
    <3>5. Cardinality(Since(admitted', b)) + Waits' <= Place(hits, Opened, b) + memories + deaths
      BY <1>3, <2>2, <2>5, <3>3, <3>4
    <3>. QED BY <3>2, <3>5
  <2>. QED BY <1>2, <2>3, <2>6, <2>7 DEF Admits
<1>. QED BY <1>2, <1>5, <1>8, <1>9, <1>10, <1>12, <1>13 DEF RateInv

(***************************************************************************)
(* INCR raises, and the memory decides.                                    *)
(***************************************************************************)
LEMMA CountRaised ==
    ASSUME DeploymentTypeOK, RateInv, NEW w \in Worker, NEW done \in BOOLEAN,
           CountRaises(w, done)
    PROVE  RateInv'
<1>0. /\ HitsTyped /\ HitsCounted /\ HitsTimed /\ CountedLetThrough /\ hits \in Nat
      /\ now \in 0..MaxTime /\ now \in Int
  BY HitConstants DEF RateInv, HitsTyped, DeploymentTypeOK
<1>1. /\ asked < MaxHits /\ asked' = asked + 1 /\ ~redisUp /\ outages # 0
      /\ hits' = (IF done THEN hits + 1 ELSE hits)
      /\ hitsUntil' = (IF done /\ hits = 0 THEN NoExpiry ELSE hitsUntil)
      /\ severed' = (severed \/ done) /\ HitInMemory(w) /\ hitting' = hitting
      /\ now' = now /\ redisUp' = redisUp /\ outages' = outages
      /\ UNCHANGED <<restarts>>
  BY <1>0 DEF CountRaises, NewHit, deployment, HitsTimed
<1>2. Waits' = Waits /\ Waits \in Nat
  BY <1>0, <1>1, WaitsCounted DEF Waits
<1>3. PICK more : more = IF Renewed(hitMemory[w]).count <= HitMax THEN 1 ELSE 0
  OBVIOUS
<1>4. /\ hitMemory' \in [Worker -> [count: Nat, reset: 0..NoExpiry]]
      /\ \A v \in Worker :
            /\ hitMemory'[v].count <= hitMemory[v].count + 1
            /\ hitMemory'[v].reset <= now + HitWindow
            /\ now < hitMemory'[v].reset => hitMemory'[v].count > 0
            /\ now < hitMemory'[v].reset =>
                  Capped(hitMemory'[v].count)
                    <= Cardinality(Since(admitted', hitMemory'[v].reset - HitWindow))
      /\ refusedEarly' = refusedEarly
      /\ admitted' \in Seq(0..MaxTime) /\ Len(admitted') = Len(admitted) + more
      /\ \A i \in DOMAIN admitted' : admitted'[i] <= now
      /\ more = 0 => admitted' = admitted
      /\ more \in {0, 1}
      /\ \A b \in Int : b <= now =>
            /\ Cardinality(Since(admitted', b)) = Cardinality(Since(admitted, b)) + more
            /\ Cardinality(Shares(hitMemory', now, b))
                 >= Cardinality(Shares(hitMemory, now, b)) + more
  BY <1>1, <1>3, MemoryHit
<1>5. hits' \in Nat /\ hits <= hits' /\ hits' <= hits + 1 /\ hitsUntil' \in 0..NoExpiry
  BY <1>0, <1>1, HitConstants DEF HitsTyped
<1>6. Opened' = Opened
  <2>1. CASE done /\ hits = 0
    <3>1. hitsUntil' = NoExpiry
      BY <1>1, <2>1
    <3>. QED BY <1>1, <2>1, <3>1 DEF Opened
  <2>2. CASE ~(done /\ hits = 0)
    <3>1. hitsUntil' = hitsUntil /\ (hits' = 0 <=> hits = 0)
      BY <1>0, <1>1, <2>2
    <3>. QED BY <1>1, <3>1 DEF Opened
  <2>. QED BY <2>1, <2>2
<1>7. HitsTyped'
  <2>1. severed' \in BOOLEAN /\ hitting' \subseteq Worker /\ refusedEarly' \in BOOLEAN
    BY <1>0, <1>1, <1>4, Zenon DEF HitsTyped
  <2>2. asked' \in 0..MaxHits /\ restarts' \in 0..MaxDeaths
    BY <1>0, <1>1, HitConstants DEF HitsTyped
  <2>. QED BY <1>4, <1>5, <2>1, <2>2, Zenon DEF HitsTyped
<1>8. HitsCounted'
  <2>1. \A v \in Worker : hitMemory[v].count \in Nat /\ hitMemory'[v].count \in Nat
    BY <1>0, <1>4 DEF HitsTyped
  <2>2. Len(admitted) \in Nat /\ asked \in Nat
    BY <1>0 DEF HitsTyped
  <2>3. ASSUME NEW v \in Worker PROVE hitMemory'[v].count + Waits' <= asked'
    <3>1. hitMemory[v].count + Waits <= asked
      BY <1>0 DEF HitsCounted
    <3>2. hitMemory'[v].count <= hitMemory[v].count + 1
      BY <1>4
    <3>3. hitMemory[v].count \in Nat /\ hitMemory'[v].count \in Nat
      BY <2>1
    <3>. QED BY <1>1, <1>2, <2>2, <3>1, <3>2, <3>3
  <2>4. hits' <= asked' /\ Waits' <= asked' /\ Len(admitted') + Waits' <= asked'
    BY <1>0, <1>1, <1>2, <1>4, <1>5, <2>2 DEF HitsCounted
  <2>. QED BY <2>3, <2>4 DEF HitsCounted
<1>9. HitsTimed'
  <2>1. hits' > 0 /\ hitsUntil' # NoExpiry => now < hitsUntil' /\ hitsUntil' <= now + HitWindow
    BY <1>0, <1>1 DEF HitsTimed
  <2>2. hitting # {} => hits' > 0 /\ Opened' = now
    BY <1>0, <1>5, <1>6 DEF HitsTimed
  <2>. QED BY <1>0, <1>1, <1>4, <2>1, <2>2 DEF HitsTimed
<1>10. ASSUME NEW b \in Int PROVE Cardinality(Since(admitted, b)) \in Nat
  BY <1>0, SinceCounted DEF HitsTyped
<1>11. Opened \in Int /\ Opened <= now
  BY <1>0, OpenedRecently
<1>12. CountedLetThrough'
  <2>1. ASSUME ~severed', hits' > 0
        PROVE  /\ hitsUntil' = NoExpiry => hitting # {}
               /\ Capped(hits') <= Cardinality(Since(admitted', Opened)) + Waits
    <3>1. ~severed /\ hits' = hits /\ hitsUntil' = hitsUntil
      BY <1>1, <2>1
    <3>2. /\ hitsUntil = NoExpiry => hitting # {}
          /\ Capped(hits) <= Cardinality(Since(admitted, Opened)) + Waits
      BY <1>0, <2>1, <3>1 DEF CountedLetThrough
    <3>3. Cardinality(Since(admitted', Opened)) = Cardinality(Since(admitted, Opened)) + more
      BY <1>4, <1>11
    <3>4. Capped(hits) \in Nat
      BY <1>0, HitConstants DEF Capped
    <3>5. more \in {0, 1} /\ Cardinality(Since(admitted, Opened)) \in Nat
      BY <1>4, <1>10, <1>11
    <3>6. Capped(hits) <= Cardinality(Since(admitted', Opened)) + Waits
      BY <1>2, <3>2, <3>3, <3>4, <3>5
    <3>. QED BY <3>1, <3>2, <3>6
  <2>. QED BY <1>1, <1>2, <1>4, <1>6, <2>1 DEF CountedLetThrough
<1>13. ASSUME NEW b \in (now - HitWindow + 1)..now PROVE Admits(b)'
  <2>1. b \in Int /\ b <= now /\ Admits(b)
    BY <1>0, HitConstants DEF RateInv
  <2>2. /\ Cardinality(Since(admitted, b)) \in Nat /\ Place(hits, Opened, b) \in Nat
        /\ Memories(b) \in Nat /\ HitMax * restarts \in Nat
    BY <1>0, <2>1, Quantities, HitConstants
  <2>3. Place(hits', Opened, b) \in Nat /\ Place(hits, Opened, b) <= Place(hits', Opened, b)
    <3>1. hits > 0 \/ b <= Opened
      BY <1>0, <2>1 DEF Opened
    <3>2. /\ Place(hits, Opened, b) <= Place(hits + 1, Opened, b)
      BY <1>0, <1>11, <2>1, <3>1, PlaceNumbers
    <3>3. hits + 1 \in Nat /\ hits + 1 > 0
      BY <1>0
    <3>4. Place(hits + 1, Opened, b) \in 0..(2 * HitMax - 1)
      BY <1>11, <2>1, <3>3, PlaceNumbers
    <3>. QED BY <1>1, <2>2, <3>2, <3>4, HitConstants
  <2>4. Memories(b)' \in Nat /\ Memories(b)' >= Memories(b) + more
    <3>1. Cardinality(Shares(hitMemory', now, b)) \in Nat
      BY SharesAreParts, PartsCounted
    <3>. QED BY <1>1, <1>4, <2>1, <3>1 DEF Memories
  <2>5. Cardinality(Since(admitted', b)) = Cardinality(Since(admitted, b)) + more
    BY <1>4, <2>1
  <2>6. PICK memories \in Nat : memories = Memories(b)'
    BY <2>4
  <2>7. PICK place \in Nat : place = Place(hits', Opened, b)
    BY <2>3
  <2>8. Cardinality(Since(admitted', b)) + Waits <= place + memories + HitMax * restarts
    <3>1. Cardinality(Since(admitted, b)) + Waits
             <= Place(hits, Opened, b) + Memories(b) + HitMax * restarts
      BY <2>1 DEF Admits
    <3>2. PICK deaths \in Nat : deaths = HitMax * restarts
      BY <2>2
    <3>3. Cardinality(Since(admitted, b)) + Waits <= Place(hits, Opened, b) + Memories(b) + deaths
      BY <3>1, <3>2
    <3>4. memories >= Memories(b) + more /\ more \in Int /\ Place(hits, Opened, b) <= place
      BY <1>4, <2>3, <2>4, <2>6, <2>7
    <3>5. Cardinality(Since(admitted', b)) + Waits <= place + memories + deaths
      BY <1>2, <2>2, <2>5, <3>3, <3>4
    <3>. QED BY <3>2, <3>5
  <2>. QED BY <1>1, <1>2, <1>6, <2>6, <2>7, <2>8 DEF Admits
<1>. QED BY <1>1, <1>4, <1>7, <1>8, <1>9, <1>12, <1>13 DEF RateInv

(***************************************************************************)
(* A worker dies with its memory: HitMax more may be let through.          *)
(***************************************************************************)
LEMMA HitterLost ==
    ASSUME DeploymentTypeOK, RateInv, NEW w \in Worker, HitterDies(w)
    PROVE  RateInv'
<1>0. /\ HitsTyped /\ HitsCounted /\ HitsTimed /\ CountedLetThrough /\ hits \in Nat
      /\ now \in 0..MaxTime /\ now \in Int /\ restarts \in Nat
  BY HitConstants DEF RateInv, HitsTyped, DeploymentTypeOK
<1>1. /\ restarts < MaxDeaths /\ restarts' = restarts + 1
      /\ hitMemory' = [hitMemory EXCEPT ![w] = NoWindow]
      /\ severed' = (severed \/ w \in hitting) /\ hitting' = hitting \ {w}
      /\ now' = now /\ redisUp' = redisUp /\ outages' = outages
      /\ UNCHANGED <<hits, hitsUntil, asked, admitted, refusedEarly>>
  BY DEF HitterDies, deployment
<1>2. /\ Waits \in Nat /\ Waits' \in Nat /\ Waits' <= Waits
      /\ ~severed' => ~severed /\ hitting' = hitting /\ Waits' = Waits
  <2>1. Waits \in Nat
    BY <1>0, WaitsCounted
  <2>2. CASE w \in hitting
    <3>1. Waits' = Waits - 1 /\ severed'
      BY <1>0, <1>1, <2>2, WaitsCounted DEF Waits
    <3>2. Waits # 0
      BY <1>0, <2>2, WaitsCounted
    <3>. QED BY <2>1, <3>1, <3>2
  <2>3. CASE w \notin hitting
    <3>1. hitting' = hitting
      BY <1>1, <2>3
    <3>2. Waits' = Waits
      BY <3>1 DEF Waits
    <3>3. ~severed' => ~severed
      BY <1>1
    <3>. QED BY <2>1, <3>1, <3>2, <3>3
  <2>. QED BY <2>2, <2>3
<1>3. NoWindow \in [count: Nat, reset: 0..NoExpiry] /\ NoWindow.count = 0 /\ NoWindow.reset = 0
  BY HitConstants DEF NoWindow
<1>4. hitMemory'[w] = NoWindow /\ \A v \in Worker \ {w} : hitMemory'[v] = hitMemory[v]
  BY <1>0, <1>1 DEF HitsTyped
<1>5. hitMemory' \in [Worker -> [count: Nat, reset: 0..NoExpiry]]
  BY <1>0, <1>1, <1>3 DEF HitsTyped
<1>6. Opened' = Opened
  BY <1>1 DEF Opened
<1>7. HitsTyped'
  <2>1. severed' \in BOOLEAN /\ hitting' \subseteq Worker /\ refusedEarly' \in BOOLEAN
    BY <1>0, <1>1, Zenon DEF HitsTyped
  <2>2. hits' \in Nat /\ hitsUntil' \in 0..NoExpiry /\ asked' \in 0..MaxHits /\ restarts' \in 0..MaxDeaths
    BY <1>0, <1>1, HitConstants DEF HitsTyped
  <2>3. admitted' \in Seq(0..MaxTime)
    BY <1>0, <1>1 DEF HitsTyped
  <2>. QED BY <1>5, <2>1, <2>2, <2>3, Zenon DEF HitsTyped
<1>8. HitsCounted'
  <2>1. Len(admitted) \in Nat /\ asked \in Nat
    BY <1>0 DEF HitsTyped
  <2>2. ASSUME NEW v \in Worker PROVE hitMemory'[v].count + Waits' <= asked'
    <3>1. hitMemory[v].count + Waits <= asked /\ hitMemory[v].count \in Nat
      BY <1>0 DEF HitsCounted, HitsTyped
    <3>2. hitMemory'[v].count \in {0, hitMemory[v].count}
      BY <1>3, <1>4
    <3>. QED BY <1>1, <1>2, <2>1, <3>1, <3>2
  <2>3. hits' <= asked' /\ Waits' <= asked' /\ Len(admitted') + Waits' <= asked'
    BY <1>0, <1>1, <1>2, <2>1 DEF HitsCounted
  <2>. QED BY <2>2, <2>3 DEF HitsCounted
<1>9. HitsTimed'
  <2>1. \A v \in Worker : /\ hitMemory'[v].reset <= now + HitWindow
                          /\ now < hitMemory'[v].reset => hitMemory'[v].count > 0
    BY <1>0, <1>3, <1>4, HitConstants DEF HitsTimed
  <2>2. hitting' # {} => hitting # {}
    BY <1>1
  <2>. QED BY <1>0, <1>1, <1>6, <2>1, <2>2 DEF HitsTimed
<1>10. CountedLetThrough'
  <2>1. ASSUME NEW v \in Worker, now < hitMemory'[v].reset
        PROVE  Capped(hitMemory'[v].count)
                 <= Cardinality(Since(admitted, hitMemory'[v].reset - HitWindow))
    <3>1. v # w
      BY <1>0, <1>3, <1>4, <2>1
    <3>. QED BY <1>0, <1>4, <2>1, <3>1 DEF CountedLetThrough
  <2>2. ASSUME ~severed', hits > 0
        PROVE  /\ hitsUntil = NoExpiry => hitting' # {}
               /\ Capped(hits) <= Cardinality(Since(admitted, Opened)) + Waits'
    BY <1>0, <1>2, <2>2 DEF CountedLetThrough
  <2>. QED BY <1>1, <1>6, <2>1, <2>2 DEF CountedLetThrough
<1>11. ASSUME NEW b \in (now - HitWindow + 1)..now PROVE Admits(b)'
  <2>1. b \in Int /\ b <= now /\ Admits(b)
    BY <1>0, HitConstants DEF RateInv
  <2>2. /\ Cardinality(Since(admitted, b)) \in Nat /\ Place(hits, Opened, b) \in Nat
        /\ Memories(b) \in Nat
    BY <1>0, <2>1, Quantities, HitConstants
  <2>3. Place(hits, Opened, b)' = Place(hits, Opened, b)
    BY <1>1, <1>6
  <2>4. Memories(b)' \in Nat /\ Memories(b) <= Memories(b)' + HitMax
    <3>. DEFINE old == Shares(hitMemory, now, b)
    <3>. DEFINE new == Shares(hitMemory', now, b)
    <3>1. old \in SUBSET Parts /\ new \in SUBSET Parts
      BY SharesAreParts
    <3>2. ASSUME NEW x \in old, x \notin {w} \X (HitMax..(2 * HitMax - 1)) PROVE x \in new
      <4>1. /\ x \in Parts /\ x = <<x[1], x[2]>> /\ x[1] \in Worker /\ x[2] \in 1..(2 * HitMax - 1)
            /\ x[2] <= Share(hitMemory[x[1]], now, b)
        BY DEF Shares, Parts
      <4>2. CASE x[1] = w
        <5>1. x[2] <= HitMax - 1
          BY <3>2, <4>1, <4>2, HitConstants
        <5>2. Share(NoWindow, now, b) = HitMax - 1
          BY <1>0, <1>3 DEF Share
        <5>. QED BY <1>4, <4>1, <4>2, <5>1, <5>2 DEF Shares
      <4>3. CASE x[1] # w
        BY <1>4, <4>1, <4>3 DEF Shares
      <4>. QED BY <4>2, <4>3
    <3>3. old \ ({w} \X (HitMax..(2 * HitMax - 1))) \subseteq new
      BY <3>2
    <3>. HIDE DEF old, new
    <3>4. Cardinality(old) <= Cardinality(new) + HitMax
      BY <3>1, <3>3, PartsLost
    <3>5. Cardinality(old) \in Nat /\ Cardinality(new) \in Nat
      BY <3>1, PartsCounted
    <3>6. /\ Memories(b) = IF outages = 0 THEN 0 ELSE Cardinality(old)
          /\ Memories(b)' = IF outages = 0 THEN 0 ELSE Cardinality(new)
      BY <1>1 DEF Memories, old, new
    <3>. QED BY <3>4, <3>5, <3>6, HitConstants
  <2>5. PICK memories \in Nat : memories = Memories(b)'
    BY <2>4
  <2>6. PICK deaths \in Nat : deaths = HitMax * restarts
    BY <1>0, HitConstants
  <2>7. HitMax * restarts' = deaths + HitMax
    BY <1>0, <1>1, <2>6, HitConstants
  <2>8. Cardinality(Since(admitted, b)) + Waits <= Place(hits, Opened, b) + Memories(b) + deaths
    BY <2>1, <2>6 DEF Admits
  <2>9. Memories(b) <= memories + HitMax
    BY <2>4, <2>5
  <2>10. Cardinality(Since(admitted, b)) + Waits'
           <= Place(hits, Opened, b) + memories + (deaths + HitMax)
    BY <1>2, <2>2, <2>8, <2>9, HitConstants
  <2>. QED BY <1>1, <2>3, <2>5, <2>7, <2>10 DEF Admits
<1>. QED BY <1>1, <1>2, <1>7, <1>8, <1>9, <1>10, <1>11 DEF RateInv

(***************************************************************************)
(* Redis.                                                                  *)
(***************************************************************************)
LEMMA RedisKeepsRate ==
    ASSUME DeploymentTypeOK, RateInv, RedisFails \/ RedisRecovers \/ UNCHANGED deployment,
           UNCHANGED rateVars
    PROVE  RateInv'
<1>0. HitsTyped /\ HitsCounted /\ HitsTimed /\ CountedLetThrough /\ outages \in Nat
  BY DEF RateInv, DeploymentTypeOK
<1>1. /\ now' = now /\ outages' \in Nat /\ outages <= outages' /\ (~redisUp' => outages' > 0)
  BY <1>0 DEF RedisFails, RedisRecovers, deployment, HitsTimed
<1>2. UNCHANGED <<hits, hitsUntil, hitMemory, hitting, asked, admitted, refusedEarly, severed, restarts>>
  BY DEF rateVars, hitHistory
<1>3. Waits' = Waits /\ Opened' = Opened
  BY <1>1, <1>2 DEF Waits, Opened
<1>4. HitsTyped' /\ HitsCounted' /\ CountedLetThrough'
  BY <1>0, <1>1, <1>2, <1>3 DEF HitsTyped, HitsCounted, CountedLetThrough
<1>5. HitsTimed'
  BY <1>0, <1>1, <1>2, <1>3 DEF HitsTimed
<1>6. ASSUME NEW b \in (now - HitWindow + 1)..now PROVE Admits(b)'
  <2>1. b \in Int /\ b <= now /\ Admits(b)
    BY <1>0, HitConstants DEF RateInv, DeploymentTypeOK
  <2>2. /\ Cardinality(Since(admitted, b)) \in Nat /\ Waits \in Nat /\ Memories(b) \in Nat
        /\ Place(hits, Opened, b) \in Nat /\ HitMax * restarts \in Nat
    BY <1>0, <2>1, Quantities, HitConstants
  <2>3. Memories(b)' \in Nat /\ Memories(b) <= Memories(b)'
    <3>1. Cardinality(Shares(hitMemory, now, b)) \in Nat
      BY SharesAreParts, PartsCounted
    <3>. QED BY <1>0, <1>1, <1>2, <3>1 DEF Memories
  <2>4. PICK memories \in Nat : memories = Memories(b)'
    BY <2>3
  <2>5. PICK deaths \in Nat : deaths = HitMax * restarts
    BY <2>2
  <2>6. Cardinality(Since(admitted, b)) + Waits <= Place(hits, Opened, b) + Memories(b) + deaths
    BY <2>1, <2>5 DEF Admits
  <2>7. Cardinality(Since(admitted, b)) + Waits <= Place(hits, Opened, b) + memories + deaths
    BY <2>2, <2>3, <2>4, <2>6
  <2>8. Place(hits, Opened, b)' = Place(hits, Opened, b)
    BY <1>2, <1>3
  <2>. QED BY <1>2, <1>3, <2>4, <2>5, <2>7, <2>8 DEF Admits
<1>. QED BY <1>1, <1>2, <1>4, <1>5, <1>6 DEF RateInv

(***************************************************************************)
(* The clock.  A window that ends started before all that is still asked   *)
(* about.                                                                  *)
(***************************************************************************)
LEMMA PlaceLater ==
    ASSUME NEW n \in Nat, NEW t \in Int, NEW end \in Int, NEW b \in Int,
           n > 0, t < end, b <= t, t - HitWindow + 1 < b
    PROVE  Place(n, end - HitWindow, b) <= (IF end <= t + 1 THEN HitMax - 1
                                            ELSE Place(n, end - HitWindow, b))
<1>1. CASE end <= t + 1
  <2>1. end - HitWindow \in Int /\ b > end - HitWindow
    BY <1>1, HitConstants
  <2>2. Place(n, end - HitWindow, b) <= HitMax - 1
    BY <2>1, PlaceNumbers
  <2>. QED BY <1>1, <2>2
<1>2. CASE ~(end <= t + 1)
  <2>1. end - HitWindow \in Int
    BY HitConstants
  <2>2. Place(n, end - HitWindow, b) \in 0..(2 * HitMax - 1)
    BY <2>1, PlaceNumbers
  <2>. QED BY <1>2, <2>2, HitConstants
<1>. QED BY <1>1, <1>2

LEMMA SharesLater ==
    ASSUME DeploymentTypeOK, HitsTyped, HitsTimed, NEW b \in Int, b <= now,
           now - HitWindow + 1 < b
    PROVE  Shares(hitMemory, now, b) \subseteq Shares(hitMemory, now + 1, b)
<1>1. SUFFICES ASSUME NEW x \in Shares(hitMemory, now, b)
               PROVE  x[2] <= Share(hitMemory[x[1]], now + 1, b)
  BY DEF Shares
<1>2. PICK m : m = hitMemory[x[1]]
  OBVIOUS
<1>3. /\ x[1] \in Worker /\ x[2] \in Int /\ x[2] <= Share(m, now, b)
      /\ m \in [count: Nat, reset: 0..NoExpiry] /\ now \in Int /\ m.reset \in Int
      /\ m.count \in Nat /\ (now < m.reset => m.count > 0)
  BY <1>2, HitConstants DEF Shares, Parts, HitsTyped, HitsTimed, DeploymentTypeOK
<1>4. CASE now < m.reset
  <2>1. Share(m, now, b) = Place(m.count, m.reset - HitWindow, b)
    BY <1>4 DEF Share
  <2>2. Place(m.count, m.reset - HitWindow, b)
          <= (IF m.reset <= now + 1 THEN HitMax - 1 ELSE Place(m.count, m.reset - HitWindow, b))
    BY <1>3, <1>4, PlaceLater
  <2>3. Share(m, now + 1, b)
          = (IF m.reset <= now + 1 THEN HitMax - 1 ELSE Place(m.count, m.reset - HitWindow, b))
    BY <1>3 DEF Share
  <2>4. Place(m.count, m.reset - HitWindow, b) \in Int
    <3>1. m.reset - HitWindow \in Int
      BY <1>3, HitConstants
    <3>2. Place(m.count, m.reset - HitWindow, b) \in 0..(2 * HitMax - 1)
      BY <1>3, <1>4, <3>1, PlaceNumbers
    <3>. QED BY <3>2, HitConstants
  <2>5. Share(m, now + 1, b) \in Int
    BY <2>3, <2>4, HitConstants
  <2>. QED BY <1>2, <1>3, <2>1, <2>2, <2>3, <2>4, <2>5
<1>5. CASE ~(now < m.reset)
  <2>1. ~(now + 1 < m.reset)
    BY <1>3, <1>5
  <2>2. Share(m, now, b) = HitMax - 1 /\ Share(m, now + 1, b) = HitMax - 1
    BY <1>5, <2>1 DEF Share
  <2>. QED BY <1>2, <1>3, <2>2
<1>. QED BY <1>4, <1>5

LEMMA RateTicks ==
    ASSUME DeploymentTypeOK, RateInv, HitTick
    PROVE  RateInv'
<1>0. /\ HitsTyped /\ HitsCounted /\ HitsTimed /\ CountedLetThrough /\ hits \in Nat
      /\ now \in 0..MaxTime /\ now \in Int /\ hitsUntil \in 0..NoExpiry /\ hitsUntil \in Int
      /\ outages \in Nat
  BY HitConstants DEF RateInv, HitsTyped, DeploymentTypeOK
<1>1. /\ hitting = {} /\ now < MaxTime /\ now' = now + 1 /\ redisUp' = redisUp /\ outages' = outages
      /\ hits' = (IF hitsUntil <= now + 1 THEN 0 ELSE hits)
      /\ UNCHANGED <<hitsUntil, hitMemory, hitting, asked, admitted, refusedEarly, severed, restarts>>
  BY DEF HitTick, TimePasses, hitHistory
<1>2. Waits' = Waits /\ Waits = 0
  BY <1>0, <1>1, WaitsCounted DEF Waits
<1>3. hits' \in Nat /\ hits' <= hits /\ (hits' > 0 => hits' = hits /\ ~(hitsUntil <= now + 1))
  BY <1>0, <1>1
<1>4. HitsTyped'
  BY <1>0, <1>1, <1>3 DEF HitsTyped
<1>5. HitsCounted'
  <2>1. asked \in Nat
    BY <1>0 DEF HitsTyped
  <2>. QED BY <1>0, <1>1, <1>2, <1>3, <2>1 DEF HitsCounted
<1>6. HitsTimed'
  <2>1. ASSUME NEW v \in Worker
        PROVE  /\ hitMemory[v].reset <= (now + 1) + HitWindow
               /\ now + 1 < hitMemory[v].reset => hitMemory[v].count > 0
    <3>1. hitMemory[v].reset \in Int /\ hitMemory[v].reset <= now + HitWindow
      BY <1>0, HitConstants DEF HitsTyped, HitsTimed
    <3>2. now < hitMemory[v].reset => hitMemory[v].count > 0
      BY <1>0 DEF HitsTimed
    <3>. QED BY <1>0, <3>1, <3>2, HitConstants
  <2>2. \A i \in DOMAIN admitted : admitted[i] <= now + 1
    <3>1. \A i \in DOMAIN admitted : admitted[i] \in Int /\ admitted[i] <= now
      BY <1>0, TicksAreNumbers DEF HitsTyped, HitsTimed
    <3>. QED BY <1>0, <3>1
  <2>3. hits' > 0 /\ hitsUntil # NoExpiry =>
           now + 1 < hitsUntil /\ hitsUntil <= (now + 1) + HitWindow
    BY <1>0, <1>3, HitConstants DEF HitsTimed
  <2>. QED BY <1>0, <1>1, <2>1, <2>2, <2>3 DEF HitsTimed
<1>7. CountedLetThrough'
  <2>1. ASSUME NEW v \in Worker, now + 1 < hitMemory[v].reset
        PROVE  Capped(hitMemory[v].count)
                 <= Cardinality(Since(admitted, hitMemory[v].reset - HitWindow))
    <3>1. hitMemory[v].reset \in Int
      BY <1>0, HitConstants DEF HitsTyped
    <3>2. now < hitMemory[v].reset
      BY <1>0, <2>1, <3>1
    <3>. QED BY <1>0, <3>2 DEF CountedLetThrough
  <2>2. ASSUME ~severed, hits' > 0
        PROVE  /\ hitsUntil # NoExpiry
               /\ Capped(hits') <= Cardinality(Since(admitted, Opened')) + Waits
    <3>1. hits' = hits /\ hits > 0
      BY <1>3, <2>2
    <3>2. hitsUntil # NoExpiry /\ Capped(hits) <= Cardinality(Since(admitted, Opened)) + Waits
      BY <1>0, <1>1, <2>2, <3>1 DEF CountedLetThrough
    <3>3. Opened' = Opened
      BY <1>1, <3>1, <3>2 DEF Opened
    <3>. QED BY <3>1, <3>2, <3>3
  <2>. QED BY <1>1, <1>2, <2>1, <2>2 DEF CountedLetThrough
<1>8. ASSUME NEW b \in ((now + 1) - HitWindow + 1)..(now + 1) PROVE Admits(b)'
  <2>0. b \in Int /\ b <= now + 1 /\ now - HitWindow + 1 < b
    BY <1>0, HitConstants
  <2>1. PICK place : place = Place(hits, Opened, b)'
    OBVIOUS
  <2>2. place \in Nat
    <3>1. Opened' \in Int /\ (hits' > 0 \/ b <= Opened')
      BY <1>0, <1>1, <1>3, <2>0, HitConstants DEF Opened
    <3>2. Place(hits', Opened', b) \in 0..(2 * HitMax - 1)
      BY <1>3, <2>0, <3>1, PlaceNumbers
    <3>. QED BY <2>1, <3>2, HitConstants
  <2>3. PICK memories : memories = Memories(b)'
    OBVIOUS
  <2>4. memories = IF outages = 0 THEN 0 ELSE Cardinality(Shares(hitMemory, now + 1, b))
    BY <1>1, <2>3 DEF Memories
  <2>5. Cardinality(Shares(hitMemory, now + 1, b)) \in Nat
    BY SharesAreParts, PartsCounted
  <2>6. PICK deaths \in Nat : deaths = HitMax * restarts
    BY <1>0, HitConstants DEF HitsTyped
  <2>7. Cardinality(Since(admitted, b)) <= place + memories + deaths
    <3>1. CASE b = now + 1
      <4>1. \A i \in DOMAIN admitted : admitted[i] < b
        <5>1. \A i \in DOMAIN admitted : admitted[i] \in Int /\ admitted[i] <= now
          BY <1>0, TicksAreNumbers DEF HitsTyped, HitsTimed
        <5>. QED BY <1>0, <3>1, <5>1
      <4>2. Cardinality(Since(admitted, b)) = 0
        BY <1>0, <2>0, <4>1, NoneToCome DEF HitsTyped
      <4>. QED BY <2>2, <2>4, <2>5, <2>6, <4>2
    <3>2. CASE b # now + 1
      <4>1. b <= now /\ b \in (now - HitWindow + 1)..now
        BY <1>0, <2>0, <3>2, HitConstants
      <4>2. Cardinality(Since(admitted, b)) <= Place(hits, Opened, b) + Memories(b) + deaths
        <5>1. Cardinality(Since(admitted, b)) \in Nat
          BY <1>0, <2>0, SinceCounted DEF HitsTyped
        <5>. QED BY <1>2, <2>6, <4>1, <5>1 DEF Admits, RateInv
      <4>3. Place(hits, Opened, b) <= place
        <5>1. CASE hits = 0 \/ hitsUntil = NoExpiry
          <6>1. Opened = now
            BY <5>1 DEF Opened
          <6>2. hits' = hits
            BY <1>0, <1>1, <5>1, HitConstants
          <6>3. Opened' = now + 1
            BY <1>1, <5>1, <6>2 DEF Opened
          <6>4. place = Place(hits, now + 1, b)
            BY <2>1, <6>2, <6>3
          <6>5. Place(hits, now, b) = Place(hits, now + 1, b)
            BY <1>0, <4>1, <2>0 DEF Place
          <6>. QED BY <2>2, <6>1, <6>4, <6>5
        <5>2. CASE ~(hits = 0 \/ hitsUntil = NoExpiry)
          <6>1. hits > 0 /\ now < hitsUntil /\ Opened = hitsUntil - HitWindow
            BY <1>0, <5>2 DEF Opened, HitsTimed
          <6>2. Place(hits, hitsUntil - HitWindow, b)
                  <= (IF hitsUntil <= now + 1 THEN HitMax - 1
                      ELSE Place(hits, hitsUntil - HitWindow, b))
            BY <1>0, <2>0, <4>1, <6>1, PlaceLater
          <6>3. place = (IF hitsUntil <= now + 1 THEN HitMax - 1
                         ELSE Place(hits, hitsUntil - HitWindow, b))
            <7>1. CASE hitsUntil <= now + 1
              <8>1. hits' = 0 /\ Opened' = now + 1
                BY <1>1, <7>1 DEF Opened
              <8>2. Place(0, now + 1, b) = HitMax - 1
                BY <1>0, <2>0, FirstInPlace
              <8>. QED BY <2>1, <7>1, <8>1, <8>2
            <7>2. CASE ~(hitsUntil <= now + 1)
              <8>1. hits' = hits /\ Opened' = hitsUntil - HitWindow
                BY <1>1, <5>2, <7>2 DEF Opened
              <8>. QED BY <2>1, <7>2, <8>1
            <7>. QED BY <7>1, <7>2
          <6>. QED BY <6>1, <6>2, <6>3
        <5>. QED BY <5>1, <5>2
      <4>4. Memories(b) <= memories
        <5>1. Cardinality(Shares(hitMemory, now, b)) <= Cardinality(Shares(hitMemory, now + 1, b))
          BY <1>0, <2>0, <4>1, SharesLater, SharesAreParts, PartsGrow
        <5>. QED BY <2>4, <2>5, <5>1 DEF Memories
      <4>5. /\ Cardinality(Since(admitted, b)) \in Nat /\ Place(hits, Opened, b) \in Nat
            /\ Memories(b) \in Nat /\ memories \in Nat
        BY <1>0, <2>4, <2>5, <4>1, Quantities, HitConstants
      <4>. QED BY <2>2, <2>6, <4>2, <4>3, <4>4, <4>5
    <3>. QED BY <3>1, <3>2
  <2>8. Cardinality(Since(admitted, b)) \in Nat
    BY <1>0, <2>0, SinceCounted DEF HitsTyped
  <2>9. Cardinality(Since(admitted, b)) + Waits' <= place + memories + deaths
    BY <1>2, <2>7, <2>8
  <2>. QED BY <1>1, <2>1, <2>3, <2>6, <2>9 DEF Admits
<1>. QED BY <1>1, <1>4, <1>5, <1>6, <1>7, <1>8 DEF RateInv

LEMMA RateStep ==
    DeploymentTypeOK /\ RateInv /\ (RateNext \/ UNCHANGED <<deployment, rateVars>>) => RateInv'
<1>. SUFFICES ASSUME DeploymentTypeOK, RateInv, RateNext \/ UNCHANGED <<deployment, rateVars>>
              PROVE  RateInv'
  OBVIOUS
<1>1. ASSUME NEW w \in Worker, CountHit(w) PROVE RateInv'
  BY <1>1, OpensWindow, CountsAgain
<1>2. ASSUME NEW w \in Worker, ExpireHit(w) PROVE RateInv'
  BY <1>2, ExpiresHit
<1>3. ASSUME NEW w \in Worker, HitterDies(w) PROVE RateInv'
  BY <1>3, HitterLost
<1>4. ASSUME NEW w \in Worker, NEW done \in BOOLEAN, ExpireRaises(w, done) PROVE RateInv'
  BY <1>4, ExpireRaised
<1>5. ASSUME NEW w \in Worker, NEW done \in BOOLEAN, CountRaises(w, done) PROVE RateInv'
  BY <1>5, CountRaised
<1>6. CASE HitTick
  BY <1>6, RateTicks
<1>7. CASE (RedisFails \/ RedisRecovers) /\ UNCHANGED rateVars
  BY <1>7, RedisKeepsRate
<1>8. CASE UNCHANGED <<deployment, rateVars>>
  BY <1>8, RedisKeepsRate
<1>. QED BY <1>1, <1>2, <1>3, <1>4, <1>5, <1>6, <1>7, <1>8 DEF RateNext

------------------------------------------------------------------------------
(* Roles and what they grant *)

(***************************************************************************)
(* The queue of _expand_roles, in any hierarchy: what it adds in a round,  *)
(* the sets to which it adds nothing, and the least of them.               *)
(***************************************************************************)
Round(h, A)     == A \cup UNION {Normalized(h[x]) : x \in A \cap DOMAIN h}
Closed(h, D)    == \A x \in D \cap DOMAIN h : Normalized(h[x]) \subseteq D
Names(h, S)     == Normalized(S) \cup Normalized(UNION {h[x] : x \in DOMAIN h})
Least(h, U, A)  == {y \in U : \A D \in SUBSET U : A \subseteq D /\ Closed(h, D) => y \in D}

\* The rounds from A, if they end.
Rounds(f, h, U) ==
    f = [A \in SUBSET U |-> IF Round(h, A) = A THEN A ELSE f[Round(h, A)]]

LEMMA RoundFacts ==
    ASSUME NEW h, NEW S, NEW A \in SUBSET Names(h, S)
    PROVE  LET U == Names(h, S) IN
           /\ Round(h, A) \in SUBSET U /\ A \subseteq Round(h, A)
           /\ Round(h, A) = A <=> Closed(h, A)
           /\ Least(h, U, A) \in SUBSET U /\ A \subseteq Least(h, U, A)
           /\ Closed(h, Least(h, U, A))
           /\ Closed(h, A) => Least(h, U, A) = A
           /\ Least(h, U, Round(h, A)) = Least(h, U, A)
<1>. DEFINE U == Names(h, S)
<1>1. \A x \in DOMAIN h : Normalized(h[x]) \subseteq U
  BY DEF Names, Normalized
<1>. HIDE DEF U
<1>2. Round(h, A) \in SUBSET U /\ A \subseteq Round(h, A)
  BY <1>1 DEF Round, U
<1>3. Round(h, A) = A <=> Closed(h, A)
  BY DEF Round, Closed
<1>4. Least(h, U, A) \in SUBSET U /\ A \subseteq Least(h, U, A)
  BY DEF Least, U
<1>5. Closed(h, Least(h, U, A))
  BY <1>1 DEF Closed, Least
<1>6. Closed(h, A) => Least(h, U, A) = A
  BY <1>4 DEF Least, U
<1>7. ASSUME NEW D \in SUBSET U, Closed(h, D)
      PROVE  A \subseteq D <=> Round(h, A) \subseteq D
  BY <1>7 DEF Round, Closed
<1>8. Least(h, U, Round(h, A)) = Least(h, U, A)
  BY <1>7 DEF Least
<1>. QED BY <1>2, <1>3, <1>4, <1>5, <1>6, <1>8 DEF U

\* Every round that is not the last leaves fewer names to be found.
LEMMA RoundsEnd ==
    ASSUME NEW h, NEW S, IsFiniteSet(Names(h, S)), NEW f, Rounds(f, h, Names(h, S)),
           NEW A \in SUBSET Names(h, S)
    PROVE  f[A] = Least(h, Names(h, S), A)
<1>. DEFINE U == Names(h, S)
            Left(B) == Cardinality(U \ B)
            Bad == {B \in SUBSET U : f[B] # Least(h, U, B)}
            T == {Left(B) : B \in Bad}
<1>1. \A B \in SUBSET U : IsFiniteSet(U \ B) /\ Left(B) \in Nat
  BY FS_Subset, FS_CardinalityType
<1>2. \A B \in SUBSET U : f[B] = IF Round(h, B) = B THEN B ELSE f[Round(h, B)]
  BY DEF Rounds
<1>3. ASSUME NEW B \in SUBSET U
      PROVE  /\ Round(h, B) \in SUBSET U /\ B \subseteq Round(h, B)
             /\ Round(h, B) = B => Least(h, U, B) = B
             /\ Least(h, U, Round(h, B)) = Least(h, U, B)
  <2>1. Round(h, B) \in SUBSET U
    BY RoundFacts
  <2>2. B \subseteq Round(h, B)
    BY RoundFacts
  <2>3. Round(h, B) = B => Least(h, U, B) = B
    BY RoundFacts
  <2>4. Least(h, U, Round(h, B)) = Least(h, U, B)
    BY RoundFacts
  <2>. QED BY <2>1, <2>2, <2>3, <2>4
<1>. HIDE DEF U, Left
<1>4. ASSUME Bad # {} PROVE FALSE
  <2>1. T \in SUBSET Nat /\ T # {}
    BY <1>1, <1>4
  <2>2. PICK m \in T : \A k \in T : m <= k
    <3>. HIDE DEF T
    <3>. QED BY <2>1, SmallestExists
  <2>3. PICK B \in Bad : Left(B) = m
    BY <2>2
  <2>. DEFINE C == Round(h, B)
  <2>4. B \in SUBSET U /\ C \in SUBSET U /\ B \subseteq C /\ f[B] # Least(h, U, B)
    BY <1>3
  <2>5. C # B /\ f[B] = f[C] /\ Least(h, U, C) = Least(h, U, B)
    BY <1>2, <1>3, <2>4
  <2>6. C \in Bad
    BY <2>4, <2>5
  <2>. HIDE DEF C, Bad
  <2>7. Left(C) < Left(B)
    <3>1. U \ C \subseteq U \ B /\ U \ C # U \ B
      BY <2>4, <2>5
    <3>2. IsFiniteSet(U \ B)
      BY <1>1, <2>4
    <3>3. Cardinality(U \ C) < Cardinality(U \ B)
      BY <3>1, <3>2, FS_Subset, FS_CardinalityType
    <3>. QED BY <3>3 DEF Left
  <2>8. m \in Nat /\ Left(C) \in Nat
    BY <1>1, <2>1, <2>2, <2>4
  <2>. QED BY <2>2, <2>3, <2>6, <2>7, <2>8
<1>. QED BY <1>4 DEF U

(***************************************************************************)
(* In every hierarchy of finitely many names, cyclic or not, with aliases  *)
(* or without, the queue of _expand_roles ends, and it has then found the  *)
(* least set that holds the roles and what its own members inherit.        *)
(***************************************************************************)
THEOREM QueueFindsLeast ==
    ASSUME NEW h, NEW S, IsFiniteSet(Names(h, S))
    PROVE  /\ Normalized(S) \subseteq ExpandAlong(h, S)
           /\ Closed(h, ExpandAlong(h, S))
           /\ \A D : Normalized(S) \subseteq D /\ Closed(h, D) => ExpandAlong(h, S) \subseteq D
<1>. DEFINE U == Names(h, S)
            N == Normalized(S)
<1>1. N \in SUBSET U
  BY DEF Names
<1>. DEFINE g == [A \in SUBSET U |-> Least(h, U, A)]
<1>2. Rounds(g, h, U)
  <2>1. \A A \in SUBSET U :
            /\ Round(h, A) \in SUBSET U
            /\ Round(h, A) = A => Least(h, U, A) = A
            /\ Least(h, U, Round(h, A)) = Least(h, U, A)
    BY RoundFacts
  <2>. HIDE DEF U
  <2>. QED BY <2>1 DEF Rounds
<1>3. \E f : Rounds(f, h, U) /\ ExpandAlong(h, S) = f[N]
  <2>. HIDE DEF g
  <2>. QED BY <1>2, Zenon DEF ExpandAlong, Rounds, Round, Names
<1>4. ExpandAlong(h, S) = Least(h, U, N)
  BY <1>1, <1>3, RoundsEnd
<1>5. N \subseteq Least(h, U, N) /\ Closed(h, Least(h, U, N))
  BY <1>1, RoundFacts
<1>6. ASSUME NEW D, N \subseteq D, Closed(h, D) PROVE Least(h, U, N) \subseteq D
  <2>1. \A x \in DOMAIN h : Normalized(h[x]) \subseteq U
    BY DEF Names, Normalized
  <2>. HIDE DEF U
  <2>2. D \cap U \in SUBSET U /\ N \subseteq D \cap U /\ Closed(h, D \cap U)
    BY <1>1, <1>6, <2>1 DEF Closed
  <2>. QED BY <2>2 DEF Least
<1>. QED BY <1>4, <1>5, <1>6

\* Without an alias among the names, that is the closure.
LEMMA ClosureFound ==
    ASSUME NEW X, IsFiniteSet(X), "super-admin" \notin X,
           NEW h \in [X -> SUBSET X], NEW S \in SUBSET X
    PROVE  ExpandAlong(h, S) = Closure(h, S, X)
<1>. DEFINE E == ExpandAlong(h, S)
            Is(C) == /\ S \subseteq C /\ \A x \in C : h[x] \subseteq C
                     /\ \A D \in SUBSET X :
                           S \subseteq D /\ (\A x \in D : h[x] \subseteq D) => C \subseteq D
<1>1. \A D \in SUBSET X : Normalized(D) = D
  BY DEF Normalized, Alias
<1>2. \A x \in X : h[x] \in SUBSET X
  OBVIOUS
<1>3. IsFiniteSet(Names(h, S))
  <2>1. Names(h, S) \subseteq X
    BY <1>1, <1>2 DEF Names
  <2>. QED BY <2>1, FS_Subset
<1>4. \A D \in SUBSET X : Closed(h, D) <=> \A x \in D : h[x] \subseteq D
  BY <1>1, <1>2 DEF Closed
<1>5. S \subseteq E /\ Closed(h, E)
      /\ \A D \in SUBSET X : S \subseteq D /\ Closed(h, D) => E \subseteq D
  BY <1>1, <1>3, QueueFindsLeast
<1>6. E \in SUBSET X
  <2>1. Closed(h, X)
    BY <1>2, <1>4
  <2>. HIDE DEF E
  <2>. QED BY <1>5, <2>1
<1>. HIDE DEF E
<1>7. Is(E)
  BY <1>4, <1>5, <1>6
<1>8. \A C \in SUBSET X : Is(C) => C = E
  <2>1. SUFFICES ASSUME NEW C \in SUBSET X, Is(C) PROVE C \subseteq E /\ E \subseteq C
    OBVIOUS
  <2>2. C \subseteq E
    BY <1>6, <1>7, <2>1
  <2>3. E \subseteq C
    BY <1>7, <2>1
  <2>. QED BY <2>2, <2>3
<1>9. Closure(h, S, X) = CHOOSE C \in SUBSET X : Is(C)
  BY DEF Closure
<1>. HIDE DEF Is
<1>10. Closure(h, S, X) \in SUBSET X /\ Is(Closure(h, S, X))
  BY <1>6, <1>7, <1>9
<1>. QED BY <1>8, <1>10 DEF E

LEMMA RolesFinite ==
    IsFiniteSet(Role) /\ IsFiniteSet({"developer", "editor", "viewer"})
<1>1. IsFiniteSet({"viewer"}) /\ IsFiniteSet({"editor", "viewer"})
      /\ IsFiniteSet({"developer", "editor", "viewer"})
  <2>1. IsFiniteSet({"viewer"})
    BY FS_Singleton
  <2>2. IsFiniteSet({"viewer"} \cup {"editor"})
    BY <2>1, FS_AddElement
  <2>3. {"viewer"} \cup {"editor"} = {"editor", "viewer"}
    OBVIOUS
  <2>4. IsFiniteSet({"editor", "viewer"} \cup {"developer"})
    BY <2>2, <2>3, FS_AddElement
  <2>5. {"editor", "viewer"} \cup {"developer"} = {"developer", "editor", "viewer"}
    OBVIOUS
  <2>. QED BY <2>1, <2>2, <2>3, <2>4, <2>5
<1>2. IsFiniteSet({"developer", "editor", "viewer"} \cup {"admin"})
  BY <1>1, FS_AddElement
<1>3. IsFiniteSet(({"developer", "editor", "viewer"} \cup {"admin"}) \cup {"superadmin"})
  BY <1>2, FS_AddElement
<1>4. ({"developer", "editor", "viewer"} \cup {"admin"}) \cup {"superadmin"} = Role
  BY DEF Role
<1>. QED BY <1>1, <1>3, <1>4

LEMMA RoleOrder ==
    /\ Inherits \in [Role -> SUBSET Role]
    /\ \A x \in Role : \A y \in Inherits[x] : Inherits[y] \subseteq Inherits[x]
    /\ \A x, need \in Role : need \in {x} \cup Inherits[x] <=> AtLeast(x, need)
<1>1. /\ DOMAIN Inherits = Role
      /\ Inherits["superadmin"] = {"admin", "developer", "editor", "viewer"}
      /\ Inherits["admin"] = {"developer", "editor", "viewer"}
      /\ Inherits["developer"] = {"editor", "viewer"}
      /\ Inherits["editor"] = {"viewer"} /\ Inherits["viewer"] = {}
  BY DEF Inherits, Role
<1>2. Inherits = [x \in Role |-> Inherits[x]]
  BY DEF Inherits, Role
<1>3. /\ Level("superadmin") = 5 /\ Level("admin") = 4 /\ Level("developer") = 3
      /\ Level("editor") = 2 /\ Level("viewer") = 1
  BY DEF Level, Role
<1>4. Inherits \in [Role -> SUBSET Role]
  <2>1. \A x \in Role : Inherits[x] \in SUBSET Role
    BY <1>1 DEF Role
  <2>. QED BY <1>2, <2>1
<1>5. \A x \in Role : \A y \in Inherits[x] : Inherits[y] \subseteq Inherits[x]
  BY <1>1 DEF Role
<1>6. ASSUME NEW x \in Role, NEW need \in Role
      PROVE  need \in {x} \cup Inherits[x] <=> AtLeast(x, need)
  <2>1. CASE x = "superadmin"
    BY <1>1, <1>3, <2>1 DEF Role, AtLeast
  <2>2. CASE x = "admin"
    BY <1>1, <1>3, <2>2 DEF Role, AtLeast
  <2>3. CASE x = "developer"
    BY <1>1, <1>3, <2>3 DEF Role, AtLeast
  <2>4. CASE x = "editor"
    BY <1>1, <1>3, <2>4 DEF Role, AtLeast
  <2>5. CASE x = "viewer"
    BY <1>1, <1>3, <2>5 DEF Role, AtLeast
  <2>. QED BY <2>1, <2>2, <2>3, <2>4, <2>5 DEF Role
<1>. QED BY <1>4, <1>5, <1>6

\* The default hierarchy names every inherited role, so one round is enough.
LEMMA DefaultExpanded ==
    ASSUME NEW S \in SUBSET RoleName
    PROVE  /\ Normalized(S) \in SUBSET Role
           /\ ExpandAlong(Inherits, S) = Expand(Normalized(S))
<1>. DEFINE N == Normalized(S)
            E == ExpandAlong(Inherits, S)
<1>1. N \in SUBSET Role /\ \A D \in SUBSET Role : Normalized(D) = D
  BY DEF Normalized, RoleName, Alias, Role
<1>2. /\ Inherits \in [Role -> SUBSET Role] /\ \A x \in Role : Inherits[x] \in SUBSET Role
      /\ \A x \in Role : \A y \in Inherits[x] : Inherits[y] \subseteq Inherits[x]
  BY RoleOrder
<1>3. IsFiniteSet(Names(Inherits, S))
  <2>1. Names(Inherits, S) \subseteq Role
    <3>1. UNION {Inherits[x] : x \in DOMAIN Inherits} \in SUBSET Role
      BY <1>2
    <3>2. Normalized(UNION {Inherits[x] : x \in DOMAIN Inherits}) \subseteq Role
      BY <1>1, <3>1
    <3>. QED BY <1>1, <3>2 DEF Names
  <2>. QED BY <2>1, RolesFinite, FS_Subset
<1>4. \A D \in SUBSET Role : Closed(Inherits, D) <=> \A x \in D : Inherits[x] \subseteq D
  BY <1>1, <1>2 DEF Closed
<1>5. N \subseteq E /\ Closed(Inherits, E)
      /\ \A D \in SUBSET Role : N \subseteq D /\ Closed(Inherits, D) => E \subseteq D
  BY <1>1, <1>3, QueueFindsLeast
<1>. HIDE DEF N, E
<1>6. /\ Expand(N) \in SUBSET Role /\ N \subseteq Expand(N)
      /\ \A x \in Expand(N) : Inherits[x] \subseteq Expand(N)
  BY <1>1, <1>2 DEF Expand
<1>7. E \subseteq Expand(N)
  BY <1>4, <1>5, <1>6
<1>8. Expand(N) \subseteq E
  <2>1. \A x \in E : Inherits[x] \subseteq E
    BY <1>4, <1>5, <1>6, <1>7
  <2>. QED BY <1>5, <2>1 DEF Expand
<1>. QED BY <1>1, <1>7, <1>8 DEF N, E

\* What the roles below admin list grows along the hierarchy.
LEMMA ListsGrow ==
    /\ Listed("viewer") \subseteq Listed("editor")
    /\ Listed("editor") \subseteq Listed("developer")
BY DEF Listed, Role, RolePermissions, Editing

LEMMA GrantsAlike ==
    ASSUME NEW S \in SUBSET RoleName, NEW p
    PROVE  HasPermission(S, {}, p) <=> Allows(S, Flagged(S), {}, p)
<1>. DEFINE N == Normalized(S)
            high == {"superadmin", "admin"}
<1>1. N \in SUBSET Role /\ ExpandAlong(Inherits, S) = Expand(N) /\ S \cup {} = S
  BY DefaultExpanded
<1>2. Allows(S, Flagged(S), {}, p) <=> \/ N \cap high # {}
                           \/ \E n \in S : Covers(Listed(n), p)
  <2>1. N \cap high # {} <=> S \cap high # {} \/ "superadmin" \in N
    BY DEF Normalized, Alias
  <2>. QED BY <2>1 DEF Allows, ListsPermission, EvaluateAbac, Flagged
<1>3. CASE N \cap high # {}
  <2>1. Expand(N) \cap high # {}
    BY <1>3 DEF Expand
  <2>2. HasPermission(S, {}, p)
    BY <1>1, <2>1 DEF HasPermission, EffectivePermissions, Covers
  <2>. QED BY <1>2, <1>3, <2>2
<1>4. CASE N \cap high = {}
  <2>1. S = N /\ N \subseteq {"developer", "editor", "viewer"}
    BY <1>1, <1>4 DEF Normalized, Alias, Role
  <2>2. \A x \in N : Inherits[x] \subseteq {"editor", "viewer"}
    BY <2>1 DEF Inherits
  <2>3. Expand(N) \cap high = {}
    BY <1>4, <2>2 DEF Expand
  <2>4. ASSUME NEW x \in Expand(N) PROVE \E n \in N : Listed(x) \subseteq Listed(n)
    <3>1. CASE x \in N
      BY <3>1
    <3>2. CASE x \notin N
      <4>1. PICK n \in N : x \in Inherits[n]
        BY <3>2 DEF Expand
      <4>2. CASE n = "developer"
        BY <4>1, <4>2, ListsGrow DEF Inherits
      <4>3. CASE n = "editor"
        BY <4>1, <4>3, ListsGrow DEF Inherits
      <4>4. CASE n = "viewer"
        BY <4>1, <4>4 DEF Inherits
      <4>. QED BY <2>1, <4>2, <4>3, <4>4
    <3>. QED BY <3>1, <3>2
  <2>5. HasPermission(S, {}, p) <=> \E x \in Expand(N) : Covers(Listed(x), p)
    BY <1>1, <2>3 DEF HasPermission, EffectivePermissions, Covers
  <2>6. (\E x \in Expand(N) : Covers(Listed(x), p)) <=> \E n \in N : Covers(Listed(n), p)
    BY <2>4 DEF Covers, Expand
  <2>. QED BY <1>2, <1>4, <2>1, <2>5, <2>6
<1>. QED BY <1>3, <1>4

\* What the evaluator adds to that for the active workspace.
LEMMA ScopeAdds ==
    ASSUME NEW S \in SUBSET RoleName, NEW W \in SUBSET RoleName, NEW p,
           HasPermission(S, {}, p)
    PROVE  HasPermission(S, W, p)
<1>. DEFINE N == Normalized(S)
            M == Normalized(S \cup W)
            high == {"superadmin", "admin"}
<1>1. ExpandAlong(Inherits, S) = Expand(N) /\ S \cup {} = S
  BY DefaultExpanded
<1>2. ExpandAlong(Inherits, S \cup W) = Expand(M)
  <2>1. S \cup W \in SUBSET RoleName
    OBVIOUS
  <2>. QED BY <2>1, DefaultExpanded
<1>3. N \subseteq M
  BY DEF Normalized
<1>. HIDE DEF N, M
<1>4. Expand(N) \subseteq Expand(M)
  BY <1>3 DEF Expand
<1>5. CASE Expand(M) \cap high # {}
  BY <1>2, <1>5 DEF HasPermission, EffectivePermissions, Covers
<1>6. CASE Expand(M) \cap high = {}
  <2>1. EffectivePermissions(S) \subseteq EffectivePermissions(S \cup W)
    BY <1>1, <1>2, <1>4, <1>6 DEF EffectivePermissions
  <2>. QED BY <1>1, <2>1 DEF HasPermission, Covers
<1>. QED BY <1>5, <1>6

LEMMA NothingTaken ==
    ASSUME NEW S, NEW n, NEW ties, NEW p, Allows(S, Flagged(S), ties, p)
    PROVE  Allows(S \cup {n}, Flagged(S \cup {n}), ties, p)
<1>1. Flagged(S) => Flagged(S \cup {n})
  BY DEF Flagged, Normalized
<1>2. CASE ListsPermission(S, p)
  BY <1>2 DEF Allows, ListsPermission
<1>3. CASE EvaluateAbac(S, Flagged(S), ties, p)
  BY <1>1, <1>3 DEF Allows, EvaluateAbac
<1>. QED BY <1>2, <1>3 DEF Allows

(***************************************************************************)
(* The two ways to decide agree on global roles, for every set of roles    *)
(* and aliases and every permission, and the workspace role only adds:     *)
(* by QueueFindsLeast and the order of the roles.  Neither takes anything  *)
(* away from whom it gives a role.                                         *)
(***************************************************************************)
THEOREM GrantsAlways == GrantsAgree
<1>1. ASSUME NEW h \in [{"developer", "editor", "viewer"} -> SUBSET {"developer", "editor", "viewer"}],
             NEW S \in SUBSET {"developer", "editor", "viewer"}
      PROVE  ExpandAlong(h, S) = Closure(h, S, {"developer", "editor", "viewer"})
  <2>1. "super-admin" \notin {"developer", "editor", "viewer"}
    OBVIOUS
  <2>. QED BY <2>1, RolesFinite, ClosureFound
<1>2. ASSUME NEW S \in SUBSET Role PROVE ExpandAlong(Inherits, S) = Expand(S)
  <2>1. S \in SUBSET RoleName /\ Normalized(S) = S
    BY DEF RoleName, Normalized, Alias, Role
  <2>. QED BY <2>1, DefaultExpanded
<1>3. \A x, need \in Role : need \in Expand({x}) <=> AtLeast(x, need)
  <2>1. \A x : Expand({x}) = {x} \cup Inherits[x]
    BY DEF Expand
  <2>. QED BY <2>1, RoleOrder
<1>4. \A S, W \in SUBSET RoleName, p \in Permission :
          /\ HasPermission(S, {}, p) <=> Allows(S, Flagged(S), {}, p)
          /\ HasPermission(S, {}, p) => HasPermission(S, W, p)
  BY GrantsAlike, ScopeAdds
<1>. QED BY <1>1, <1>2, <1>3, <1>4, NothingTaken DEF GrantsAgree

------------------------------------------------------------------------------
(***************************************************************************)
(* What is claimed of the user, in a cache or by a query that may fail,    *)
(* was said by the evaluator then or later.                                *)
(***************************************************************************)
Claims ==
    {<<decided.engine, decided.asOf>>}
    \cup {<<decidedHere[w].engine, decidedHere[w].asOf>> : w \in Worker}
    \cup {<<EngineSays(query[q].subject), query[q].asOf>> : q \in Asking}

Told(c) == c[1] # "open" => lastSaid[c[1]] >= c[2]

Follows ==
    /\ lastSaid[EvaluatorSays(roles)] = now /\ \A v \in Verdict : lastSaid[v] <= now
    /\ \A c \in Claims : Told(c)

LEMMA InitFollows == DeploymentInit /\ PolicyInit => Follows
<1>. SUFFICES ASSUME DeploymentInit, PolicyInit PROVE Follows
  OBVIOUS
<1>1. lastSaid[EvaluatorSays(roles)] = now /\ \A v \in Verdict : lastSaid[v] <= now
  BY SaidInWords, PolicyAssumption, DeploymentAssumption DEF PolicyInit, DeploymentInit, LongAgo
<1>2. Asking = {}
  BY DEF PolicyInit, Asking
<1>3. \A c \in Claims : c[1] = "open"
  BY <1>2 DEF PolicyInit, Claims, Undecided
<1>. QED BY <1>1, <1>3 DEF Follows, Told

\* The evaluator speaks for the roles of now, and what it said is not unsaid.
LEMMA SaidLater ==
    ASSUME DeploymentTypeOK, PolicyInv, Follows, [PolicyNext]_<<deployment, policyVars>>
    PROVE  /\ lastSaid'[EvaluatorSays(roles')] = now' /\ now' >= now
           /\ \A v \in Verdict : lastSaid'[v] >= lastSaid[v] /\ lastSaid'[v] <= now'
<1>. USE DeploymentAssumption, PolicyAssumption
<1>1. now \in 0..MaxTime /\ lastSaid \in [Verdict -> LongAgo..MaxTime] /\ LongAgo \in Int
      /\ lastSaid[EvaluatorSays(roles)] = now /\ MaxTime \in Nat
      /\ \A v \in Verdict : lastSaid[v] <= now
  BY DEF DeploymentTypeOK, PolicyInv, PolicyTypeOK, Follows, LongAgo
<1>2. CASE lastSaid' = lastSaid /\ roles' = roles /\ now' = now
  BY <1>1, <1>2
<1>3. ASSUME NEW names \in Holdings, ChangeRoles(names)
      PROVE  /\ lastSaid'[EvaluatorSays(roles')] = now' /\ now' >= now
             /\ \A v \in Verdict : lastSaid'[v] >= lastSaid[v] /\ lastSaid'[v] <= now'
  <2>1. roles' = names /\ lastSaid' = [lastSaid EXCEPT ![EvaluatorSays(names)] = now] /\ now' = now
    BY <1>3 DEF ChangeRoles, deployment
  <2>. QED BY <1>1, <2>1, SaidInWords
<1>4. CASE PolicyTick
  <2>1. now' = now + 1 /\ lastSaid' = [lastSaid EXCEPT ![EvaluatorSays(roles)] = now + 1]
        /\ roles' = roles
    BY <1>4 DEF PolicyTick, TimePasses
  <2>. QED BY <1>1, <2>1, SaidInWords
<1>5. \/ lastSaid' = lastSaid /\ roles' = roles /\ now' = now
      \/ \E names \in Holdings : ChangeRoles(names)
      \/ PolicyTick
  BY DEF PolicyNext, ServeCached, ReloadPolicies, DecideLocally, AskOpa, OpaAnswers, OpaFails,
         RedisFails, RedisRecovers, deployment, policyVars
<1>. QED BY <1>2, <1>3, <1>4, <1>5

\* A step claims nothing new but what the evaluator says now.
LEMMA ClaimsStep ==
    ASSUME DeploymentTypeOK, PolicyInv, [PolicyNext]_<<deployment, policyVars>>
    PROVE  \A c \in Claims' : c \in Claims \/ c[1] = "open" \/ c = <<EvaluatorSays(roles), now>>
<1>. DEFINE Fine(d) ==
         \/ d = decided \/ (\E w \in Worker : d = decidedHere[w])
         \/ d.engine = "open" \/ (d.engine = EvaluatorSays(roles) /\ d.asOf = now)
         \/ \E q \in Asking : d.engine = EngineSays(query[q].subject) /\ d.asOf = query[q].asOf
            FineQuery(r) ==
         \/ \E q \in Asking : r = query[q]
         \/ EngineSays(r.subject) \in {"open", EvaluatorSays(roles)} /\ r.asOf = now
<1>1. ASSUME NEW u \in {TheUser, MadeUp}
      PROVE  EngineSays(u) \in {"open", EvaluatorSays(roles)}
  <2>1. roles \in SUBSET RoleName
    BY PolicyAssumption DEF PolicyInv, PolicyTypeOK
  <2>2. HasPermission(roles, {}, Asked) <=> Allows(roles, Flagged(roles), {}, Asked)
    BY <2>1, GrantsAlike
  <2>. QED BY <2>2 DEF EngineSays, EvaluatorSays, TheUser, AsVerdict
<1>2. /\ decidedHere \in [Worker -> Decision] /\ query \in [QuerySlot -> {NoQuery} \cup Pending]
      /\ Undecided.engine = "open"
  BY DEF PolicyInv, PolicyTypeOK, Undecided
<1>3. SUFFICES Fine(decided') /\ (\A w \in Worker : Fine(decidedHere'[w]))
               /\ (\A q \in Asking' : FineQuery(query'[q]))
  BY DEF Claims
<1>4. ASSUME UNCHANGED <<decided, decidedHere, query>> PROVE
      Fine(decided') /\ (\A w \in Worker : Fine(decidedHere'[w]))
               /\ (\A q \in Asking' : FineQuery(query'[q]))
  BY <1>4 DEF Asking
<1>5. ASSUME NEW w \in Worker, NEW u \in {TheUser, MadeUp}, DecideLocally(w, u)
      PROVE  Fine(decided') /\ (\A v \in Worker : Fine(decidedHere'[v]))
               /\ (\A q \in Asking' : FineQuery(query'[q]))
  <2>. DEFINE d == [asOf |-> now, until |-> now + DecisionTtl, engine |-> EngineSays(u)]
  <2>1. decided' \in {d, decided} /\ decidedHere' = [decidedHere EXCEPT ![w] = d] /\ query' = query
    BY <1>5 DEF DecideLocally, CacheDecision
  <2>2. Fine(d)
    BY <1>1
  <2>3. \A q \in Asking' : FineQuery(query'[q])
    BY <2>1 DEF Asking
  <2>. HIDE DEF d, FineQuery
  <2>. QED BY <1>2, <2>1, <2>2, <2>3
<1>6. ASSUME NEW q \in QuerySlot, NEW w \in Worker, NEW u \in {TheUser, MadeUp}, AskOpa(q, w, u)
      PROVE  Fine(decided') /\ (\A v \in Worker : Fine(decidedHere'[v]))
               /\ (\A p \in Asking' : FineQuery(query'[p]))
  <2>. DEFINE r == [pc |-> "asked", worker |-> w, asOf |-> now, subject |-> u]
  <2>1. query' = [query EXCEPT ![q] = r] /\ UNCHANGED <<decided, decidedHere>>
    BY <1>6 DEF AskOpa
  <2>2. FineQuery(r)
    BY <1>1
  <2>. HIDE DEF r
  <2>3. \A p \in Asking' : query'[p] = r \/ (p \in Asking /\ query'[p] = query[p])
    BY <1>2, <2>1 DEF Asking
  <2>. QED BY <2>1, <2>2, <2>3
<1>7. ASSUME NEW q \in QuerySlot, OpaAnswers(q) \/ OpaFails(q)
      PROVE  Fine(decided') /\ (\A v \in Worker : Fine(decidedHere'[v]))
               /\ (\A p \in Asking' : FineQuery(query'[p]))
  <2>1. q \in Asking /\ query' = [query EXCEPT ![q] = NoQuery]
    BY <1>7 DEF OpaAnswers, OpaFails, Asking
  <2>2. PICK verdict \in {"open", EngineSays(query[q].subject)} :
            CacheDecision(query[q].worker, query[q].asOf, verdict)
    BY <1>7 DEF OpaAnswers, OpaFails
  <2>. DEFINE d == [asOf |-> query[q].asOf, until |-> now + DecisionTtl, engine |-> verdict]
  <2>3. decided' \in {d, decided} /\ decidedHere' = [decidedHere EXCEPT ![query[q].worker] = d]
    BY <2>2 DEF CacheDecision
  <2>4. Fine(d)
    BY <2>1
  <2>5. \A p \in Asking' : p \in Asking /\ query'[p] = query[p]
    BY <1>2, <2>1 DEF Asking
  <2>. HIDE DEF d
  <2>. QED BY <1>2, <2>3, <2>4, <2>5
<1>8. ASSUME NEW w \in Worker, ReloadPolicies(w)
      PROVE  Fine(decided') /\ (\A v \in Worker : Fine(decidedHere'[v]))
               /\ (\A p \in Asking' : FineQuery(query'[p]))
  <2>1. decided' \in {decided, Undecided} /\ decidedHere' = [decidedHere EXCEPT ![w] = Undecided]
        /\ query' = query
    BY <1>8 DEF ReloadPolicies, InvalidateCache
  <2>. HIDE DEF Undecided
  <2>. QED BY <1>2, <2>1 DEF Asking
<1>9. CASE PolicyTick
  <2>1. decided' \in {decided, Undecided} /\ query' = query
        /\ \A w \in Worker : decidedHere'[w] \in {decidedHere[w], Undecided}
    BY <1>9 DEF PolicyTick, Unexpired
  <2>. HIDE DEF Undecided
  <2>. QED BY <1>2, <2>1 DEF Asking
<1>10. \/ UNCHANGED <<decided, decidedHere, query>>
       \/ \E w \in Worker, u \in {TheUser, MadeUp} : DecideLocally(w, u)
       \/ \E q \in QuerySlot, w \in Worker, u \in {TheUser, MadeUp} : AskOpa(q, w, u)
       \/ \E q \in QuerySlot : OpaAnswers(q) \/ OpaFails(q)
       \/ \E w \in Worker : ReloadPolicies(w)
       \/ PolicyTick
  BY DEF PolicyNext, ServeCached, ChangeRoles, policyVars
<1>. HIDE DEF Fine, FineQuery
<1>. QED BY <1>4, <1>5, <1>6, <1>7, <1>8, <1>9, <1>10

LEMMA FollowsStep ==
    DeploymentTypeOK /\ PolicyInv /\ Follows /\ [PolicyNext]_<<deployment, policyVars>> => Follows'
<1>. SUFFICES ASSUME DeploymentTypeOK, PolicyInv, Follows, [PolicyNext]_<<deployment, policyVars>>
              PROVE  Follows'
  OBVIOUS
<1>1. /\ lastSaid'[EvaluatorSays(roles')] = now' /\ now' >= now
      /\ \A v \in Verdict : lastSaid'[v] >= lastSaid[v] /\ lastSaid'[v] <= now'
  BY SaidLater
<1>2. \A c \in Claims' : c \in Claims \/ c[1] = "open" \/ c = <<EvaluatorSays(roles), now>>
  BY ClaimsStep
<1>3. \A c \in Claims : c[1] \in Verdict \cup {"open"} /\ c[2] \in Int /\ Told(c)
  <2>1. \A d \in Decision : d.engine \in Verdict \cup {"open"} /\ d.asOf \in Int
    BY DEF Decision
  <2>2. \A q \in Asking : query[q].asOf \in Int
    BY DEF PolicyInv, PolicyTypeOK, Asking, Pending
  <2>3. decided \in Decision /\ decidedHere \in [Worker -> Decision]
    BY DEF PolicyInv, PolicyTypeOK
  <2>. QED BY <2>1, <2>2, <2>3, SaidInWords DEF Claims, Follows
<1>4. lastSaid \in [Verdict -> Int] /\ lastSaid' \in [Verdict -> Int] /\ now \in Int
  <2>1. PolicyInv'
    BY PolicyStep
  <2>. QED BY <2>1, PolicyAssumption, DeploymentAssumption
           DEF PolicyInv, PolicyTypeOK, LongAgo, DeploymentTypeOK
<1>5. ASSUME NEW c \in Claims', c[1] # "open" PROVE lastSaid'[c[1]] >= c[2]
  <2>1. CASE c \in Claims
    BY <1>1, <1>3, <1>4, <1>5, <2>1 DEF Told
  <2>2. CASE c = <<EvaluatorSays(roles), now>>
    BY <1>1, <1>4, <2>2, SaidInWords DEF Follows
  <2>. QED BY <1>2, <1>5, <2>1, <2>2
<1>. QED BY <1>1, <1>5 DEF Follows, Told

\* A decision is served while it is young, and so is what it repeats.
LEMMA FollowsShown ==
    DeploymentTypeOK /\ PolicyInv /\ Follows => EngineFollowsEvaluator
<1>. SUFFICES ASSUME DeploymentTypeOK, PolicyInv, Follows, NEW w \in Worker,
                     Cached(w).engine # "open"
              PROVE  now - lastSaid[Cached(w).engine] < DecisionTtl + Patience
  BY DEF EngineFollowsEvaluator
<1>1. Cached(w) # Undecided
  BY DEF Undecided
<1>2. Cached(w) \in Decision /\ now - Cached(w).asOf < DecisionTtl + Patience
  BY <1>1, CachedIsYoung
<1>3. Cached(w) \in {decided, decidedHere[w]}
  BY <1>1 DEF Cached
<1>4. <<Cached(w).engine, Cached(w).asOf>> \in Claims
  BY <1>3 DEF Claims
<1>5. lastSaid[Cached(w).engine] >= Cached(w).asOf
  BY <1>4 DEF Follows, Told
<1>6. lastSaid[Cached(w).engine] \in Int /\ Cached(w).asOf \in Int
  BY <1>2, PolicyAssumption, DeploymentAssumption
     DEF PolicyInv, PolicyTypeOK, LongAgo, DeploymentTypeOK, Decision
<1>. QED BY <1>2, <1>5, <1>6, PolicyAssumption DEF DeploymentTypeOK

------------------------------------------------------------------------------
(***************************************************************************)
(* The other parts do to Deployment what its own actions do.               *)
(***************************************************************************)
DeploymentNext == TimePasses \/ RedisFails \/ RedisRecovers

LEMMA OneTimeDeployment == OneTimeNext => DeploymentNext \/ UNCHANGED deployment
BY DEF OneTimeNext, DeploymentNext, StartCeremony, StartLogin, GetEntry, TakeFromMemory,
       DelEntry, RestartTaker, SaveEntry

LEMMA PolicyDeployment == PolicyNext => DeploymentNext \/ UNCHANGED deployment
BY DEF PolicyNext, DeploymentNext, ServeCached, DecideLocally, ReloadPolicies, AskOpa,
       OpaAnswers, OpaFails, ChangeRoles, PolicyTick

LEMMA RateDeployment == RateNext => DeploymentNext \/ UNCHANGED deployment
BY DEF RateNext, DeploymentNext, CountHit, ExpireHit, HitterDies, ExpireRaises, CountRaises,
       HitTick

LEMMA ConnectionsDeployment == ConnectionsNext => DeploymentNext \/ UNCHANGED deployment
BY DEF ConnectionsNext, DeploymentNext, Connect, RelayTo, ClientLeaves, Disconnect, SendTo,
       Publish, Broadcast, Notify, StartSending, Receive, LoseSubscription, Subscribe

LEMMA AccessDeployment == AccessNext => DeploymentNext \/ UNCHANGED deployment
BY DEF AccessNext, DeploymentNext, Enter, Authenticate, RequireAuth, Respond, SwitchWorkspace,
       LogOut, RestartWorker

LEMMA DeploymentKept ==
    ASSUME DeploymentTypeOK, DeploymentNext \/ UNCHANGED deployment
    PROVE  DeploymentTypeOK'
<1>. USE DeploymentAssumption DEF DeploymentTypeOK
<1>1. CASE TimePasses
  BY <1>1 DEF TimePasses
<1>2. CASE RedisFails
  <2>1. redisUp' \in BOOLEAN
    BY <1>2 DEF RedisFails
  <2>2. now' \in 0..MaxTime /\ outages' \in 0..MaxOutages
    BY <1>2 DEF RedisFails
  <2>. QED BY <2>1, <2>2
<1>3. CASE RedisRecovers
  BY <1>3 DEF RedisRecovers
<1>4. CASE UNCHANGED deployment
  BY <1>4 DEF deployment
<1>. QED BY <1>1, <1>2, <1>3, <1>4 DEF DeploymentNext

LEMMA ResetPart == Spec => ResetSpec
<1>1. Init => ResetInit
  BY DEF Init
<1>2. [Next]_serviceVars => [ResetNext]_resetVars
  BY DEF Next, serviceVars, notReset, notTasks, notMeta, notEntry, notRule, notRate, notConn,
         notAccess
<1>. QED BY <1>1, <1>2, PTL DEF Spec, ResetSpec

LEMMA TasksPart == Spec => TasksInit /\ [][TasksNext]_taskVars
<1>1. Init => TasksInit
  BY DEF Init
<1>2. [Next]_serviceVars => [TasksNext]_taskVars
  BY DEF Next, serviceVars, notReset, notTasks, notMeta, notEntry, notRule, notRate, notConn,
         notAccess
<1>. QED BY <1>1, <1>2, PTL DEF Spec

LEMMA ConnectionsPart == Spec => ConnectionsInit /\ [][ConnectionsNext]_connVars
<1>1. Init => ConnectionsInit
  BY DEF Init
<1>2. [Next]_serviceVars => [ConnectionsNext]_connVars
  BY DEF Next, serviceVars, notReset, notTasks, notMeta, notEntry, notRule, notRate, notConn,
         notAccess
<1>. QED BY <1>1, <1>2, PTL DEF Spec

LEMMA PasskeysPart == Spec => PasskeysInit /\ [][PasskeysNext]_metaVars
<1>1. Init => PasskeysInit
  BY DEF Init
<1>2. [Next]_serviceVars => [PasskeysNext]_metaVars
  BY DEF Next, serviceVars, notReset, notTasks, notMeta, notEntry, notRule, notRate, notConn,
         notAccess
<1>. QED BY <1>1, <1>2, PTL DEF Spec

(***************************************************************************)
(* A part with deadlines takes the steps of the clock that others cause.   *)
(***************************************************************************)
LEMMA OneTimePart ==
    [Next]_serviceVars => [OneTimeNext]_<<deployment, oneTimeVars>>
<1>1. [Next]_serviceVars =>
          \/ OneTimeNext
          \/ UNCHANGED oneTimeVars /\ (DeploymentNext \/ UNCHANGED deployment)
  BY AccessDeployment, PolicyDeployment, RateDeployment, ConnectionsDeployment
     DEF Next, serviceVars, notReset, notTasks, notMeta, notRule, notRate, notConn, notAccess
<1>2. DeploymentNext /\ UNCHANGED oneTimeVars => OneTimeNext
  BY DEF DeploymentNext, OneTimeNext
<1>. QED BY <1>1, <1>2

LEMMA AccessPart == Spec => AccessSpec
<1>1. Init => DeploymentInit /\ AccessInit
  BY DEF Init
<1>2. [Next]_serviceVars => [AccessNext]_<<deployment, accessVars>>
  <2>1. [Next]_serviceVars =>
            \/ AccessNext
            \/ UNCHANGED accessVars /\ (DeploymentNext \/ UNCHANGED deployment)
    BY OneTimeDeployment, PolicyDeployment, RateDeployment, ConnectionsDeployment
       DEF Next, serviceVars, notReset, notTasks, notMeta, notEntry, notRule, notRate, notConn
  <2>2. DeploymentNext /\ UNCHANGED accessVars => AccessNext
    BY DEF DeploymentNext, AccessNext
  <2>. QED BY <2>1, <2>2
<1>. QED BY <1>1, <1>2, PTL DEF Spec, AccessSpec

LEMMA DeploymentStep ==
    DeploymentTypeOK /\ [Next]_serviceVars => DeploymentTypeOK'
<1>1. [Next]_serviceVars => DeploymentNext \/ UNCHANGED deployment
  BY OneTimeDeployment, PolicyDeployment, RateDeployment, ConnectionsDeployment, AccessDeployment
     DEF Next, serviceVars
<1>. QED BY <1>1, DeploymentKept

LEMMA InitDeployment == Init => DeploymentTypeOK
BY DeploymentAssumption DEF Init, DeploymentInit, DeploymentTypeOK

(***************************************************************************)
(* In the server as a whole a reset link sets the password once, no more   *)
(* links are open than requests run at once, a login made with an older    *)
(* password ends with a reset, and a token logged out in Redis is refused  *)
(* for the rest of its life.                                               *)
(***************************************************************************)
THEOREM ServerKeeps == Spec => [](LinkSafety /\ ResetEndsOldLogins /\ RevokedStaysOut)
BY ResetPart, AccessPart, LinksAreSafe, OldLoginsEnd, LogoutLasts, PTL

LEMMA TasksAlways == Spec => []TasksInv
<1>1. TasksInit /\ [][TasksNext]_taskVars => []TasksInv
  BY InitTasks, TasksStep, PTL
<1>. QED BY <1>1, TasksPart, PTL

(***************************************************************************)
(* A task is changed only by someone who had the rank in its workspace or  *)
(* in his account, whatever rank, membership and workspace are taken away  *)
(* between a request's checks and its writing.                             *)
(***************************************************************************)
THEOREM TasksAreGuarded == Spec => []ChangedByInsider
<1>1. TasksInv => ChangedByInsider
  BY DEF TasksInv
<1>. QED BY <1>1, TasksAlways, PTL

(***************************************************************************)
(* News of a task goes only to where it had been, or to nowhere, although  *)
(* its workspace is read long before the change is written.                *)
(***************************************************************************)
THEOREM NewsStaysInside == Spec => []ToldWherePlaced
<1>1. TasksInv => ToldWherePlaced
  BY DEF TasksInv
<1>. QED BY <1>1, TasksAlways, PTL

LEMMA OneTimeAlways == Spec => []OneTimeInv
<1>1. Init => OneTimeInv
  BY InitOneTime DEF Init
<1>2. OneTimeInv /\ [Next]_serviceVars => OneTimeInv'
  <2>1. OneTimeInv => DeploymentTypeOK
    BY DEF OneTimeInv
  <2>. QED BY <2>1, OneTimePart, DeploymentStep, OneTimeStep
<1>. QED BY <1>1, <1>2, PTL DEF Spec

(***************************************************************************)
(* The challenge of a ceremony or the state of an OAuth login lets through *)
(* one request of each worker at most, one if it was saved in memory, and  *)
(* none after its time but for a state in memory: for every number of      *)
(* workers, however the GET and the DEL of each interleave.                *)
(***************************************************************************)
THEOREM EntriesUsedOnce == Spec => []OneTimeUse
BY OneTimeAlways, OneTimeHolds, PTL

(***************************************************************************)
(* No socket hears an event twice, and a socket that is due one and stays  *)
(* hears it, unless Redis lost it on its way.                              *)
(***************************************************************************)
THEOREM EventsHeardOnce == Spec => []HeardOnce
<1>1. ConnectionsInit /\ [][ConnectionsNext]_connVars => []EventsInv
  BY InitEvents, EventsStep, PTL
<1>. QED BY <1>1, EventsHold, ConnectionsPart, PTL

(***************************************************************************)
(* While another part moves nothing is asked or decided, and the clock is  *)
(* that of the other part.                                                 *)
(***************************************************************************)
NothingDecided ==
    /\ PolicyTypeOK /\ PolicyKept
    /\ decided = Undecided /\ \A w \in Worker : decidedHere[w] = Undecided

PolicyHere == IF moving = "policy" THEN PolicyInv /\ Follows ELSE NothingDecided

LEMMA InitPolicyHere == Init => PolicyHere
<1>. SUFFICES ASSUME Init PROVE PolicyHere
  OBVIOUS
<1>1. PolicyInv /\ Follows
  BY InitPolicy, InitFollows DEF Init
<1>2. NothingDecided
  BY <1>1 DEF Init, PolicyInit, NothingDecided, PolicyInv, PolicyKept
<1>. QED BY <1>1, <1>2 DEF PolicyHere

LEMMA PolicyHereStep ==
    DeploymentTypeOK /\ PolicyHere /\ [Next]_serviceVars => PolicyHere'
<1>. SUFFICES ASSUME DeploymentTypeOK, PolicyHere, [Next]_serviceVars PROVE PolicyHere'
  OBVIOUS
<1>1. \/ moving = "policy" /\ [PolicyNext]_<<deployment, policyVars>> /\ moving' = moving
      \/ moving # "policy" /\ UNCHANGED <<moving, policyVars>>
  BY DEF Next, serviceVars, notReset, notTasks, notMeta, notEntry, notRule, notRate, notConn,
         notAccess
<1>2. CASE moving = "policy" /\ [PolicyNext]_<<deployment, policyVars>> /\ moving' = moving
  BY <1>2, PolicyStep, FollowsStep DEF PolicyHere
<1>3. CASE moving # "policy" /\ UNCHANGED <<moving, policyVars>>
  BY <1>3 DEF PolicyHere, NothingDecided, PolicyTypeOK, PolicyKept, ServedInTime,
              CircuitByFailures, policyVars
<1>. QED BY <1>1, <1>2, <1>3

LEMMA PolicyAlways == Spec => [](DeploymentTypeOK /\ PolicyHere)
<1>1. DeploymentTypeOK /\ [Next]_serviceVars => DeploymentTypeOK'
  BY DeploymentStep
<1>. QED BY <1>1, InitDeployment, InitPolicyHere, PolicyHereStep, PTL DEF Spec

LEMMA PasskeysAlways == Spec => []MetaInv
<1>1. PasskeysInit /\ [][PasskeysNext]_metaVars => []MetaInv
  BY InitMeta, MetaStep, PTL
<1>. QED BY <1>1, PasskeysPart, PTL

(***************************************************************************)
(* While no write failed and no handler wrote a copy that another's        *)
(* answered change had left behind (in its hands, or in the memory of a    *)
(* worker that had not heard of the change), what was removed stays        *)
(* removed and no counter of a passkey goes back behind an accepted        *)
(* signature, whatever else the workers and Redis remember.                *)
(***************************************************************************)
THEOREM EditsKept == Spec => []AnsweredEditsKept
<1>1. MetaInv => AnsweredEditsKept
  BY MetaHolds
<1>. QED BY <1>1, PasskeysAlways, PTL

(***************************************************************************)
(* The alarm for a cloned authenticator has a cause: the authenticator     *)
(* does not count, or a later signature of it was accepted before.         *)
(***************************************************************************)
THEOREM AlarmsHaveCauses == Spec => []AlarmsExplained
<1>1. MetaInv => AlarmsExplained
  BY MetaHolds
<1>. QED BY <1>1, PasskeysAlways, PTL

(***************************************************************************)
(* However the caches of the workers and Redis are read and filled, no     *)
(* decision is served longer after its facts were read than a query and a  *)
(* time to live last; and the circuit of a worker is open exactly after    *)
(* Failures failed queries in a row, in whatever order they end.           *)
(***************************************************************************)
THEOREM DecisionsKept == Spec => []PolicyKept
<1>1. PolicyHere => PolicyKept
  BY DEF PolicyHere, NothingDecided, PolicyInv, PolicyKept
<1>. QED BY <1>1, PolicyAlways, PTL

(***************************************************************************)
(* What a worker cut off from OPA decided for a user, and whatever worker  *)
(* serves it from whatever cache, the permission evaluator said of his     *)
(* global roles less than a query and a time to live before: for any roles *)
(* and aliases, any permission and any number of workers and queries.      *)
(***************************************************************************)
THEOREM LocalDecisionsFollow == Spec => []EngineFollowsEvaluator
<1>1. NothingDecided => EngineFollowsEvaluator
  BY DEF NothingDecided, EngineFollowsEvaluator, Cached, Undecided
<1>2. DeploymentTypeOK /\ PolicyHere => EngineFollowsEvaluator
  BY <1>1, FollowsShown DEF PolicyHere
<1>. QED BY <1>2, PolicyAlways, PTL

(***************************************************************************)
(* No request is between INCR and EXPIRE while another part moves, and     *)
(* there is no counter that the clock could end.                           *)
(***************************************************************************)
RateHere == RateInv /\ (moving # "rate" => hits = 0 /\ hitting = {})

LEMMA InitRateHere == Init => RateHere
BY InitRate DEF Init, RateInit, RateHere

LEMMA RateHereStep ==
    DeploymentTypeOK /\ RateHere /\ [Next]_serviceVars => RateHere'
<1>. SUFFICES ASSUME DeploymentTypeOK, RateHere, [Next]_serviceVars PROVE RateHere'
  OBVIOUS
<1>1. \/ moving = "rate" /\ RateNext /\ moving' = moving
      \/ moving # "rate" /\ UNCHANGED <<moving, rateVars>> /\ DeploymentNext
      \/ UNCHANGED <<moving, deployment, rateVars>>
  BY OneTimeDeployment, PolicyDeployment, ConnectionsDeployment, AccessDeployment
     DEF Next, serviceVars, notReset, notTasks, notMeta, notEntry, notRule, notRate, notConn,
         notAccess
<1>2. CASE moving = "rate" /\ RateNext /\ moving' = moving
  BY <1>2, RateStep DEF RateHere
<1>3. CASE moving # "rate" /\ UNCHANGED <<moving, rateVars>> /\ DeploymentNext
  <2>1. hits = 0 /\ hitting = {} /\ RateInv
    BY <1>3 DEF RateHere
  <2>2. /\ UNCHANGED rateVars
        /\ UNCHANGED <<hits, hitsUntil, hitMemory, hitting, asked, hitHistory>>
    BY <1>3 DEF rateVars
  <2>3. TimePasses => HitTick
    BY <2>1, <2>2 DEF HitTick
  <2>4. RateNext
    BY <1>3, <2>2, <2>3 DEF DeploymentNext, RateNext
  <2>. QED BY <1>3, <2>1, <2>2, <2>4, RateStep DEF RateHere
<1>4. CASE UNCHANGED <<moving, deployment, rateVars>>
  <2>1. RateInv'
    BY <1>4, RateStep DEF RateHere
  <2>. QED BY <1>4, <2>1 DEF RateHere, rateVars
<1>. QED BY <1>1, <1>2, <1>3, <1>4

LEMMA RateAlways == Spec => [](DeploymentTypeOK /\ RateHere)
<1>1. DeploymentTypeOK /\ [Next]_serviceVars => DeploymentTypeOK'
  BY DeploymentStep
<1>. QED BY <1>1, InitDeployment, InitRateHere, RateHereStep, PTL DEF Spec

(***************************************************************************)
(* However the windows of Redis and of the memories of the workers lie, no *)
(* more requests are let through in HitWindow ticks than RateKept says,    *)
(* and none is refused early but after a cut-off INCR: for every limit,    *)
(* window, number of workers, of outages and of deaths.                    *)
(***************************************************************************)
THEOREM RateIsLimited == Spec => []RateKept
<1>1. DeploymentTypeOK /\ RateHere => RateKept
  BY RateIsKept DEF RateHere
<1>. QED BY <1>1, RateAlways, PTL

LEMMA AccessAlways == Spec => [](DeploymentTypeOK /\ AccessInv /\ BlocksTyped)
<1>1. DeploymentTypeOK /\ [Next]_serviceVars => DeploymentTypeOK'
  BY DeploymentStep
<1>2. Init => DeploymentTypeOK /\ AccessInv /\ BlocksTyped
  BY InitDeployment, InitAccess, InitBlocks DEF Init
<1>3. Spec => AccessSpec
  BY AccessPart
<1>. QED BY <1>1, <1>2, <1>3, AccessStep, BlocksStep, PTL DEF Spec, AccessSpec

(***************************************************************************)
(* Type correctness of the server, the parts that rest included: every     *)
(* handler leaves the rows, keys and copies that the next one reads.       *)
(***************************************************************************)
THEOREM ServicesTyped == Spec => []TypeOK
<1>1. TasksInv => TasksTypeOK
  BY DEF TasksInv
<1>2. OneTimeInv => OneTimeTypeOK
  BY DEF OneTimeInv
<1>3. PolicyHere => PolicyTypeOK
  BY DEF PolicyHere, NothingDecided, PolicyInv
<1>4. RateHere => RateTypeOK
  BY RateHolds DEF RateHere
<1>5. DeploymentTypeOK /\ ResetTypeOK /\ TasksTypeOK /\ PasskeysTypeOK /\ OneTimeTypeOK
      /\ PolicyTypeOK /\ RateTypeOK /\ ConnectionsTypeOK /\ AccessTypeOK
        => TypeOK
  BY DEF TypeOK
<1>6. Spec => []ResetTypeOK
  BY ResetPart, ResetTypes, PTL
<1>7. Spec => []ConnectionsTypeOK
  BY ConnectionsPart, ConnectionsTypes, PTL
<1>. QED BY <1>1, <1>2, <1>3, <1>4, <1>5, <1>6, <1>7, TasksAlways, PasskeysAlways, MetaHolds,
            OneTimeAlways, PolicyAlways, RateAlways, AccessAlways, AccessHolds, PTL
================================================================================
