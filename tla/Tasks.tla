--------------------------------- MODULE Tasks ---------------------------------
(***************************************************************************)
(* Task cards (task_repository.py, api/v1/task_router.py).  A request      *)
(* reads the task, checks the caller's role in the workspace the task was  *)
(* in, writes in a later transaction and then tells the connections of the *)
(* workspace it knows.  In between the task may be moved or deleted, the   *)
(* caller demoted and the workspace deleted.                               *)
(*                                                                         *)
(* Workspaces are numbered in the order of their creation; 0 stands for a  *)
(* name that is no workspace ("ws_default").                               *)
(***************************************************************************)
EXTENDS Integers, FiniteSets

CONSTANTS
    Person,
    Workspaces,      \* number of workspaces at first
    MaxTasks,        \* bound on the tasks ever created
    MaxMoves,        \* bound on the changes of roles
    TaskSlot         \* slots for requests running at the same time

ASSUME TasksAssumption ==
    Workspaces \in Nat \ {0} /\ MaxTasks \in Nat /\ MaxMoves \in Nat

VARIABLES
    standing,        \* workspaces that exist
    rank,            \* rank of each person in each workspace, and (0) in his account
    rankMoves,       \* changes of it so far
    task,            \* rows of tasks
    created,         \* how many there were
    taskReq,
    placed,          \* workspaces each task has been in (history)
    ranked,          \* ranks each person has had in each workspace (history)
    changed,         \* who wrote each task, and with which rank (history)
    toldOf           \* workspaces whose connections heard of each task (history)

taskHistory == <<placed, ranked, changed, toldOf>>
taskVars == <<standing, rank, rankMoves, task, created, taskReq, taskHistory>>

TaskId == 1..MaxTasks
Ws     == 1..Workspaces
WsName == 0..Workspaces
Quiet  == [pc |-> "quiet"]
NoTask == [ws |-> 0]

\* Ranks: none (or invited, or a viewer), editor, admin.
Rank   == 0..2
Editor == 1
Admin  == 2

TasksTypeOK ==
    /\ standing \subseteq Ws
    /\ rank \in [WsName -> [Person -> Rank]] /\ rankMoves \in 0..MaxMoves
    /\ created \in 0..MaxTasks
    /\ task \in [TaskId -> {NoTask} \cup [ws: Ws, by: Person]]
    /\ taskReq \in [TaskSlot -> {Quiet}
           \cup [pc: {"create"}, by: Person, ws: WsName]
           \cup [pc: {"update", "delete"}, by: Person, ws: Ws, task: TaskId]]
    /\ placed \in [TaskId -> SUBSET Ws]
    /\ ranked \in [WsName -> [Person -> Rank]]
    /\ changed \in [TaskId -> SUBSET (Person \X {Editor, Admin})]
    /\ toldOf \in [TaskId -> SUBSET WsName]

\* At first everybody is an editor of one workspace.
TasksInit ==
    /\ standing = Ws
    /\ \E home \in [Person -> Ws] :
           rank = [w \in WsName |-> [u \in Person |-> IF home[u] = w THEN Editor ELSE 0]]
    /\ rankMoves = 0
    /\ task = [t \in TaskId |-> NoTask] /\ created = 0
    /\ taskReq = [r \in TaskSlot |-> Quiet]
    /\ placed = [t \in TaskId |-> {}]
    /\ ranked = rank
    /\ changed = [t \in TaskId |-> {}]
    /\ toldOf = [t \in TaskId |-> {}]

\* has_role: the role in the workspace, if there is one, or in the account.
Ranks(u, k, w) == rank[0][u] >= k \/ (w \in standing /\ rank[w][u] >= k)

\* Roles come and go (Membership has how).
ChangeRank(w, u, k) ==
    /\ rankMoves < MaxMoves /\ k # rank[w][u] /\ w \in standing \cup {0}
    /\ rankMoves' = rankMoves + 1
    /\ rank' = [rank EXCEPT ![w][u] = k]
    /\ ranked' = IF ranked[w][u] < k THEN [ranked EXCEPT ![w][u] = k] ELSE ranked
    /\ UNCHANGED <<standing, task, created, taskReq, placed, changed, toldOf>>

\* The database deletes the tasks and the memberships with a workspace.
CloseWorkspace(w) ==
    /\ w \in standing
    /\ standing' = standing \ {w}
    /\ rank' = [rank EXCEPT ![w] = [u \in Person |-> 0]]
    /\ task' = [t \in TaskId |-> IF task[t].ws = w THEN NoTask ELSE task[t]]
    /\ UNCHANGED <<rankMoves, created, taskReq, taskHistory>>

------------------------------------------------------------------------------
TaskAnswered(r) == taskReq' = [taskReq EXCEPT ![r] = Quiet]

MayCreate(r, u, w) ==
    /\ taskReq[r] = Quiet /\ Ranks(u, Editor, w)
    /\ taskReq' = [taskReq EXCEPT ![r] = [pc |-> "create", by |-> u, ws |-> w]]
    /\ UNCHANGED <<standing, rank, rankMoves, task, created, taskHistory>>

\* Mutant: every task goes to the oldest workspace.
ResolveOldest(w) == CHOOSE o \in standing : \A x \in standing : o <= x

\* _resolve_workspace_id: a name that is no workspace means the oldest one.
Resolve(w) ==
    IF w \in standing THEN w ELSE CHOOSE o \in standing : \A x \in standing : o <= x

\* Without any workspace the repository raises.
NowhereToGo(r) ==
    /\ taskReq[r].pc \in {"create", "update"} /\ standing = {}
    /\ TaskAnswered(r)
    /\ UNCHANGED <<standing, rank, rankMoves, task, created, taskHistory>>

NewTask(q) == [ws |-> Resolve(q.ws), by |-> q.by]

\* create_task of the repository, and the router's broadcast to the workspace
\* that was named.
CreateTask(r) ==
    LET q == taskReq[r]
        t == created + 1
    IN  /\ q.pc = "create" /\ standing # {} /\ created < MaxTasks
        /\ created' = t
        /\ task' = [task EXCEPT ![t] = NewTask(q)]
        /\ placed' = [placed EXCEPT ![t] = {Resolve(q.ws)}]
        /\ toldOf' = [toldOf EXCEPT ![t] = {q.ws}]
        /\ TaskAnswered(r)
        /\ UNCHANGED <<standing, rank, rankMoves, ranked, changed>>

\* Mutant: the role in any workspace will do.
MayUpdateAny(r, u, t) ==
    /\ taskReq[r] = Quiet /\ task[t] # NoTask
    /\ \E w \in standing : Ranks(u, Editor, w)
    /\ taskReq' = [taskReq EXCEPT ![r] =
                       [pc |-> "update", by |-> u, ws |-> task[t].ws, task |-> t]]
    /\ UNCHANGED <<standing, rank, rankMoves, task, created, taskHistory>>

MayUpdate(r, u, t) ==
    /\ taskReq[r] = Quiet /\ task[t] # NoTask
    /\ Ranks(u, Editor, task[t].ws)
    /\ taskReq' = [taskReq EXCEPT ![r] =
                       [pc |-> "update", by |-> u, ws |-> task[t].ws, task |-> t]]
    /\ UNCHANGED <<standing, rank, rankMoves, task, created, taskHistory>>

Wrote(q, k) == changed' = [changed EXCEPT ![q.task] = @ \cup {<<q.by, k>>}]

Moved(q, to) == [task EXCEPT ![q.task].ws = to]

\* update_task: fields of the card, and the workspace when the request names
\* one, which nobody checks.  The workspace read before is told, even when the
\* task is gone (unless somebody new was to be notified of it, which raises).
UpdateTask(r, move, w) ==
    LET q  == taskReq[r]
        to == IF move THEN Resolve(w) ELSE task[q.task].ws
    IN  /\ q.pc = "update" /\ standing # {}
        /\ IF task[q.task] # NoTask
           THEN /\ task' = Moved(q, to)
                /\ placed' = [placed EXCEPT ![q.task] = @ \cup {to}]
                /\ Wrote(q, Editor)
           ELSE UNCHANGED <<task, placed, changed>>
        /\ toldOf' = [toldOf EXCEPT ![q.task] = @ \cup {q.ws}]
        /\ TaskAnswered(r)
        /\ UNCHANGED <<standing, rank, rankMoves, created, ranked>>

MayDelete(r, u, t) ==
    /\ taskReq[r] = Quiet /\ task[t] # NoTask
    /\ \/ Ranks(u, Admin, task[t].ws)
       \/ task[t].by = u /\ Ranks(u, Editor, task[t].ws)
    /\ taskReq' = [taskReq EXCEPT ![r] =
                       [pc |-> "delete", by |-> u, ws |-> task[t].ws, task |-> t]]
    /\ UNCHANGED <<standing, rank, rankMoves, task, created, taskHistory>>

DeleteTask(r) ==
    LET q == taskReq[r] IN
    /\ q.pc = "delete"
    /\ IF task[q.task] # NoTask
       THEN /\ task' = [task EXCEPT ![q.task] = NoTask]
            /\ Wrote(q, IF task[q.task].by = q.by THEN Editor ELSE Admin)
            /\ toldOf' = [toldOf EXCEPT ![q.task] = @ \cup {q.ws}]
       ELSE UNCHANGED <<task, changed, toldOf>>
    /\ TaskAnswered(r)
    /\ UNCHANGED <<standing, rank, rankMoves, created, placed, ranked>>

TasksNext ==
    \/ \E w \in WsName, u \in Person, k \in Rank : ChangeRank(w, u, k)
    \/ \E w \in Ws : CloseWorkspace(w)
    \/ \E r \in TaskSlot, u \in Person :
           \/ \E w \in WsName : MayCreate(r, u, w)
           \/ \E t \in TaskId : MayUpdate(r, u, t) \/ MayDelete(r, u, t)
    \/ \E r \in TaskSlot :
           \/ NowhereToGo(r) \/ CreateTask(r) \/ DeleteTask(r)
           \/ \E move \in BOOLEAN, w \in WsName : UpdateTask(r, move, w)

------------------------------------------------------------------------------
(* Properties *)

\* A task is changed or deleted only by somebody who was an editor, for the
\* deletion of another's task an administrator, of some workspace the task had
\* been in (or everywhere), although it may have been moved, and he demoted,
\* between the check and the change.
ChangedByInsider ==
    \A t \in TaskId : \A c \in changed[t] :
        \E w \in placed[t] \cup {0} : ranked[w][c[1]] >= c[2]

\* The connections that hear of a task are those of a workspace it was in, or of
\* one that is no more: moves and deletions overlapping with a request make no
\* other workspace's members see it.
ToldWherePlaced ==
    \A t \in TaskId : \A w \in toldOf[t] : w \in placed[t] \/ w \notin standing
================================================================================
