-------------------------------- MODULE Passkeys --------------------------------
(***************************************************************************)
(* The metadata of one account: its passkeys with their signature counters *)
(* (api/v1/webauthn_router.py, webauthn_service.py), its second factor     *)
(* (api/v1/mfa_router.py) and what an OAuth login records in it            *)
(* (api/v1/oauth_router.py).  All of it is one JSON column: a handler      *)
(* reads the user through the cache, edits the metadata and writes it      *)
(* whole, with other handlers in between, on this worker or another.       *)
(*                                                                         *)
(* Redis is taken to answer (UserCache has its failures).  An entry of a   *)
(* worker's memory is handed out as it is, so an edit shows in it before   *)
(* it is written; the entry in Redis is a copy.  A change reaches the      *)
(* memory of the other workers by an event that comes late or never.       *)
(***************************************************************************)
EXTENDS Deployment

CONSTANTS
    Key,            \* passkeys
    MetaSlot,       \* slots for handlers running at the same time
    MaxSigned,      \* bound on the signatures of a key
    MaxEdits        \* bound on the requests

ASSUME PasskeysAssumption ==
    MaxSigned \in Nat \ {0} /\ MaxEdits \in Nat /\ "mfa" \notin Key

VARIABLES
    counterless,    \* keys whose authenticator does not count
    meta,           \* users.metadata
    cachedMeta,     \* ... in the memory of each worker
    redisMeta,      \* ... in Redis
    edit,           \* handlers
    edits,          \* how many there were
    signed,         \* signatures each authenticator has made
    removed,        \* items whose removal was answered (history)
    accepted,       \* latest signature accepted and answered, of each key (history)
    alarmed,        \* alarms, with the signatures before them that were accepted (history)
    overlapped      \* a handler wrote metadata read before a change (history)

metaHistory == <<removed, accepted, alarmed, overlapped>>
metaVars == <<counterless, meta, cachedMeta, redisMeta, edit, edits, signed, metaHistory>>

Absent == -1
Item   == Key \cup {"mfa"}
\* "old" marks a copy that an answered change of another handler left behind.
Meta   == [count: [Key -> Absent..MaxSigned + 1], mfa: BOOLEAN, pending: BOOLEAN, old: BOOLEAN]
NoMeta == [count |-> <<>>]
NoEdit == [pc |-> "none"]
Registered(m) == {k \in Key : m.count[k] # Absent}
Items(m) == Registered(m) \cup (IF m.mfa THEN {"mfa"} ELSE {})

Ceremony == {"register", "login"}
Op == Ceremony \cup {"remove", "setup", "confirm", "disable", "link"}

PasskeysTypeOK ==
    /\ counterless \subseteq Key
    /\ meta \in Meta /\ ~meta.old
    /\ cachedMeta \in [Worker -> Meta \cup {NoMeta}] /\ redisMeta \in Meta \cup {NoMeta}
    /\ \A s \in MetaSlot : edit[s] = NoEdit \/
           /\ edit[s].pc \in {"signed", "query", "scan", "selected", "write", "committed"}
           /\ edit[s].op \in Op /\ edit[s].key \in Key /\ edit[s].no \in 0..MaxSigned
           /\ edit[s].at \in Worker
           /\ edit[s].pc \in {"selected", "write", "committed"} => edit[s].copy \in Meta
    /\ edits \in 0..MaxEdits /\ signed \in [Key -> 0..MaxSigned]
    /\ removed \subseteq Item /\ accepted \in [Key -> 0..MaxSigned]
    /\ alarmed \subseteq (Key \X BOOLEAN) /\ overlapped \in BOOLEAN

\* The counter an authenticator sends with its n-th signature.
Counter(k, n) == IF k \in counterless THEN 0 ELSE n

\* Any account, the registration of its passkeys being their first signature.
PasskeysInit ==
    /\ counterless \in SUBSET Key
    /\ \E keys \in SUBSET Key, mfa \in BOOLEAN :
           /\ meta = [count |-> [k \in Key |-> IF k \in keys THEN Counter(k, 1) ELSE Absent],
                      mfa |-> mfa, pending |-> FALSE, old |-> FALSE]
           /\ signed = [k \in Key |-> IF k \in keys THEN 1 ELSE 0]
    /\ cachedMeta = [w \in Worker |-> NoMeta] /\ redisMeta = NoMeta
    /\ edit = [s \in MetaSlot |-> NoEdit] /\ edits = 0
    /\ removed = {} /\ accepted = [k \in Key |-> 0] /\ alarmed = {} /\ overlapped = FALSE

------------------------------------------------------------------------------
(* What the handlers do with the metadata at hand *)

\* Sign Counter Clone Detection.
Regressed(k, n, m) ==
    /\ Counter(k, n) > 0 \/ m.count[k] > 0
    /\ Counter(k, n) <= m.count[k]

Refused(q, m) ==
    \/ q.op \in {"login", "remove"} /\ m.count[q.key] = Absent
    \/ q.op = "login" /\ m.count[q.key] # Absent /\ Regressed(q.key, q.no, m)
    \/ q.op = "confirm" /\ ~m.pending /\ ~m.mfa

\* Mutant: the next signature has to skip one.
CountedAhead(q, m) == Counter(q.key, q.no) + 1

CountedAs(q, m) ==
    IF Counter(q.key, q.no) > 0 THEN Counter(q.key, q.no) ELSE m.count[q.key] + 1

\* The record of a verified registration.
FirstCount(q) == Counter(q.key, q.no)

RegisterKey(q, m)  == [m EXCEPT !.count[q.key] = FirstCount(q)]
LogInWithKey(q, m) == [m EXCEPT !.count[q.key] = CountedAs(q, m)]
RemoveKey(q, m)    == [m EXCEPT !.count[q.key] = Absent]
SetUpMfa(m)        == [m EXCEPT !.pending = TRUE]
ConfirmMfa(m)      == [m EXCEPT !.mfa = TRUE, !.pending = FALSE]
DisableMfa(m)      == [m EXCEPT !.mfa = FALSE, !.pending = FALSE]
\* Names and pictures, which no property is about.
LinkProvider(m)    == m

Edited(q, m) ==
    CASE q.op = "register" -> RegisterKey(q, m)
      [] q.op = "login"    -> LogInWithKey(q, m)
      [] q.op = "remove"   -> RemoveKey(q, m)
      [] q.op = "setup"    -> SetUpMfa(m)
      [] q.op = "confirm"  -> ConfirmMfa(m)
      [] q.op = "disable"  -> DisableMfa(m)
      [] q.op = "link"     -> LinkProvider(m)

After(q, m) == IF Refused(q, m) THEN m ELSE Edited(q, m)

\* From the metadata at hand up to the write.
Handle(s, m) ==
    LET q == edit[s] IN
    /\ edit' = [edit EXCEPT ![s] =
           IF Refused(q, m) THEN NoEdit
           ELSE [q EXCEPT !.pc = "write", !.copy = Edited(q, m)]]
    /\ alarmed' = IF q.op = "login" /\ Refused(q, m) /\ m.count[q.key] # Absent
                  THEN alarmed \cup {<<q.key, q.no < m.count[q.key]>>} ELSE alarmed
    /\ removed' = IF q.op = "confirm" THEN removed \ {"mfa"} ELSE removed
    /\ UNCHANGED <<counterless, meta, edits, signed, accepted, overlapped>>

------------------------------------------------------------------------------
(* Requests *)

Request(w, op, k, n, m) ==
    [pc |-> "signed", at |-> w, op |-> op, key |-> k, no |-> n, copy |-> m]

\* The authenticator signs for a registration or a login; the request is on its
\* way to a worker.
Sign(s, w, op, k) ==
    /\ edit[s] = NoEdit /\ edits < MaxEdits /\ edits' = edits + 1
    /\ signed[k] < MaxSigned /\ signed' = [signed EXCEPT ![k] = @ + 1]
    /\ (op = "register") <=> (signed[k] = 0)
    /\ edit' = [edit EXCEPT ![s] = Request(w, op, k, signed'[k], NoMeta)]
    /\ UNCHANGED <<counterless, meta, cachedMeta, redisMeta, metaHistory>>

Ask(s, w, op, k) ==
    /\ edit[s] = NoEdit /\ edits < MaxEdits /\ edits' = edits + 1
    /\ edit' = [edit EXCEPT ![s] = Request(w, op, k, 0, NoMeta)]
    /\ UNCHANGED <<counterless, meta, cachedMeta, redisMeta, signed, metaHistory>>

\* The memory of the worker a handler runs on.
InItsMemory(s) == cachedMeta[edit[s].at]

Remember(s, m) == cachedMeta' = [cachedMeta EXCEPT ![edit[s].at] = m]

\* get_by_id, get_by_identifier: the memory, ...
FindInMemory(s) ==
    /\ edit[s].pc = "signed" /\ InItsMemory(s) # NoMeta
    /\ Handle(s, InItsMemory(s))
    /\ Remember(s, After(edit[s], InItsMemory(s)))
    /\ UNCHANGED redisMeta

\* ... Redis, ...
FindInRedis(s) ==
    /\ edit[s].pc = "signed" /\ InItsMemory(s) = NoMeta /\ redisMeta # NoMeta
    /\ Handle(s, redisMeta)
    /\ Remember(s, After(edit[s], redisMeta))
    /\ UNCHANGED redisMeta

\* ... or the row, for which the handler waits; a login without an identifier
\* reads all users past the cache.
Query(s, scan) ==
    /\ edit[s].pc = "signed"
    /\ IF scan THEN edit[s].op = "login" ELSE InItsMemory(s) = NoMeta /\ redisMeta = NoMeta
    /\ edit' = [edit EXCEPT ![s].pc = IF scan THEN "scan" ELSE "query"]
    /\ UNCHANGED <<counterless, meta, cachedMeta, redisMeta, edits, signed, metaHistory>>

SelectUser(s) ==
    /\ edit[s].pc = "query"
    /\ edit' = [edit EXCEPT ![s].pc = "selected", ![s].copy = meta]
    /\ UNCHANGED <<counterless, meta, cachedMeta, redisMeta, edits, signed, metaHistory>>

\* The row is cached and, in memory, edited.
FillAndEdit(s) ==
    /\ edit[s].pc = "selected"
    /\ redisMeta' = edit[s].copy
    /\ Handle(s, edit[s].copy)
    /\ Remember(s, After(edit[s], edit[s].copy))

ScanUsers(s) ==
    /\ edit[s].pc = "scan"
    /\ Handle(s, meta)
    /\ UNCHANGED <<cachedMeta, redisMeta>>

\* The UPDATE of update_user.
WriteMeta(s) ==
    /\ edit[s].pc = "write"
    /\ meta' = [edit[s].copy EXCEPT !.old = FALSE]
    /\ overlapped' = (overlapped \/ edit[s].copy.old)
    /\ edit' = [edit EXCEPT ![s].pc = "committed"]
    /\ UNCHANGED <<counterless, cachedMeta, redisMeta, edits, signed, removed, accepted,
                   alarmed>>

\* A copy that is not the row is old from now on.
Outdated(m) == [m EXCEPT !.old = (m # meta)]

\* What the other handlers hold, ...
Outdate(s) ==
    [r \in MetaSlot |->
        IF r = s THEN NoEdit
        ELSE IF edit[r].pc \in {"selected", "write"} THEN [edit[r] EXCEPT !.copy = Outdated(@)]
        ELSE edit[r]]

\* ... and what the other workers remember; the worker forgets its own.
ForgetHere(s) ==
    cachedMeta' = [w \in Worker |->
        IF w = edit[s].at \/ cachedMeta[w] = NoMeta THEN NoMeta ELSE Outdated(cachedMeta[w])]

Answered(s) ==
    LET q == edit[s] IN
    /\ q.pc = "committed"
    /\ edit' = Outdate(s)
    /\ overlapped' = (overlapped \/ meta # [q.copy EXCEPT !.old = FALSE])
    /\ removed' = removed \cup (IF q.op = "remove" THEN {q.key}
                                ELSE IF q.op = "disable" THEN {"mfa"} ELSE {})
    /\ accepted' = IF q.op = "login" THEN [accepted EXCEPT ![q.key] = q.no] ELSE accepted
    /\ UNCHANGED <<counterless, meta, edits, signed, alarmed>>

\* Mutant: the entry in Redis stays.
AnswerKeepingRedis(s) == Answered(s) /\ ForgetHere(s) /\ UNCHANGED redisMeta

\* The cache is invalidated, the other workers are told, and the request is
\* answered.
Answer(s) == Answered(s) /\ ForgetHere(s) /\ redisMeta' = NoMeta

\* The UPDATE fails; an edit that shows in the memory stays there.
WriteFails(s) ==
    /\ edit[s].pc = "write"
    /\ edit' = [edit EXCEPT ![s] = NoEdit]
    /\ overlapped' = TRUE
    /\ UNCHANGED <<counterless, meta, cachedMeta, redisMeta, edits, signed, removed, accepted,
                   alarmed>>

\* The entry of a worker's memory expires, or that of Redis, ...
ExpireInMemory(w) ==
    /\ cachedMeta[w] # NoMeta
    /\ cachedMeta' = [cachedMeta EXCEPT ![w] = NoMeta]
    /\ UNCHANGED <<counterless, meta, redisMeta, edit, edits, signed, metaHistory>>

ExpireInRedis ==
    /\ redisMeta # NoMeta /\ redisMeta' = NoMeta
    /\ UNCHANGED <<counterless, meta, cachedMeta, edit, edits, signed, metaHistory>>

\* ... or a worker hears of a change of the row (of these handlers, or of others
\* that leave the metadata alone) and drops both.
HearOfChange(w) ==
    /\ cachedMeta[w] # NoMeta /\ redisMeta # NoMeta
    /\ cachedMeta' = [cachedMeta EXCEPT ![w] = NoMeta] /\ redisMeta' = NoMeta
    /\ UNCHANGED <<counterless, meta, edit, edits, signed, metaHistory>>

PasskeysNext ==
    \/ \E s \in MetaSlot, w \in Worker, k \in Key :
           \/ \E op \in Ceremony : Sign(s, w, op, k)
           \/ \E op \in Op \ Ceremony : Ask(s, w, op, k)
    \/ \E s \in MetaSlot :
           \/ FindInMemory(s) \/ FindInRedis(s) \/ SelectUser(s) \/ FillAndEdit(s)
           \/ ScanUsers(s) \/ WriteMeta(s) \/ Answer(s) \/ WriteFails(s)
           \/ \E scan \in BOOLEAN : Query(s, scan)
    \/ \E w \in Worker : ExpireInMemory(w) \/ HearOfChange(w)
    \/ ExpireInRedis

------------------------------------------------------------------------------
(* Properties *)

\* What has been removed (a passkey, the second factor) stays removed, and a
\* counter never goes back behind a signature that was accepted, whatever Redis
\* and the memories hold, unless a handler wrote metadata that another's answered
\* change had left behind (in its hands, or in the memory of a worker that had
\* not heard of the change), or a write failed.
AnsweredEditsKept ==
    ~overlapped =>
        /\ removed \cap Items(meta) = {}
        /\ \A k \in Registered(meta) : meta.count[k] >= Counter(k, accepted[k])

\* The alarm of a cloned authenticator has a cause: the authenticator does not
\* count, or a later signature of it was accepted before this one.
AlarmsExplained == \A a \in alarmed : a[1] \in counterless \/ a[2]
================================================================================
