----------------------------- MODULE PasswordReset -----------------------------
(***************************************************************************)
(* Reset links and what a reset ends: the password, the sessions and the   *)
(* trusted devices of one account (api/v1/auth_router.py, the reset tokens *)
(* of user_repository.py, device_trust_service.py), against the logins     *)
(* that run at the same time (authenticator.py).                           *)
(*                                                                         *)
(* A password is known by the reset link that set it, 0 being the first.   *)
(* Every transaction, Redis call and wait for the user is a step of its    *)
(* own; a worker may die between any two steps of a reset.  A login may be *)
(* served a row that has been replaced, from a cache that has not dropped  *)
(* it (UserCache is about how long that lasts), and a session may be off   *)
(* the index of the account (SessionStore is about how it gets there).     *)
(***************************************************************************)
EXTENDS Integers, FiniteSets

CONSTANTS
    MaxLinks,      \* bound on the reset links ever issued
    MaxSessions,   \* bound on the sessions open at once
    MaxKept,       \* bound on the replaced rows in caches, and on trusted devices
    LoginSlot,     \* slots for logins in progress,
    ForgotSlot,    \* ... for requests of a link
    ResetSlot      \* ... and for resets

ASSUME PasswordResetAssumption ==
    /\ {MaxLinks, MaxSessions, MaxKept} \subseteq Nat
    /\ IsFiniteSet(ForgotSlot)

VARIABLES
    stored,        \* password in the user row, and whether its hash is of an old cost
    links,         \* rows of password_reset_tokens
    issuedLinks,   \* how many there are
    cached,        \* rows replaced since that a cache, or a handler about to
                   \* fill one, still holds
    sessions,      \* live sessions: the password each was opened with, if it is
                   \* in the index, and the resets that have read its entry
    trusted,       \* passwords behind the trusted devices
    locked,        \* the account is locked
    login, forgot, reset,
    setBy,         \* times each link set the password (history)
    closed,        \* passwords that a completed reset did away with (history)
    late,          \* ... with a login under way, or a row cached, when a reset
                   \* that does away with them read the index (history)
    missed,        \* ... with a session that such a reset did not delete (history)
    revived        \* passwords stored again by a login (history)

resetHistory == <<setBy, closed, late, missed, revived>>
resetVars == <<stored, cached, links, issuedLinks, sessions, trusted, locked, login, forgot,
               reset, resetHistory>>

Link == 1..MaxLinks
Password == 0..MaxLinks
Row == [password: Password, oldCost: BOOLEAN]
Session == [password: Password, indexed: BOOLEAN, seenBy: SUBSET ResetSlot]
Free == [pc |-> "free"]

ResetTypeOK ==
    /\ stored \in Row /\ cached \subseteq Row
    /\ issuedLinks \in 0..MaxLinks
    /\ links \in [Link -> [open: BOOLEAN, expired: BOOLEAN]]
    /\ sessions \subseteq Session /\ trusted \subseteq Password
    /\ locked \in BOOLEAN
    /\ login \in [LoginSlot -> {Free} \cup
           [pc: {"rehash", "verified", "recognized", "challenged", "remember"},
            password: Password]]
    /\ forgot \in [ForgotSlot -> {Free} \cup [pc: {"clearing"}, clears: SUBSET Link]]
    /\ reset \in [ResetSlot -> {Free} \cup
           [pc: {"verified", "reverified", "consumed", "purging", "purged", "revoked"},
            link: Link, ends: SUBSET Password]]
    /\ setBy \in [Link -> Nat]
    /\ closed \cup late \cup missed \cup revived \subseteq Password

ResetInit ==
    /\ stored \in [password: {0}, oldCost: BOOLEAN] /\ cached = {}
    /\ links = [k \in Link |-> [open |-> FALSE, expired |-> FALSE]]
    /\ issuedLinks = 0
    /\ sessions = {} /\ trusted = {} /\ locked = FALSE
    /\ login = [l \in LoginSlot |-> Free]
    /\ forgot = [f \in ForgotSlot |-> Free]
    /\ reset = [r \in ResetSlot |-> Free]
    /\ setBy = [k \in Link |-> 0]
    /\ closed = {} /\ late = {} /\ missed = {} /\ revived = {}

------------------------------------------------------------------------------
(* Logins with the right password *)

LoginStep(l, state) ==
    /\ login' = [login EXCEPT ![l] = state]
    /\ UNCHANGED <<links, issuedLinks, locked, forgot, reset, setBy, closed, late,
                   missed>>

\* authenticate_credentials up to the verification of the password: the row is
\* the one stored or one that get_by_identifier still finds in a cache.
CheckPassword(l) ==
    /\ login[l] = Free /\ ~locked
    /\ \E row \in {stored} \cup cached :
           LoginStep(l, [pc |-> IF row.oldCost THEN "rehash" ELSE "verified",
                         password |-> row.password])
    /\ UNCHANGED <<stored, cached, sessions, trusted, revived>>

\* A hash of an old cost is replaced, whatever the row holds by now.
Rehash(l) ==
    LET p == login[l].password IN
    /\ login[l].pc = "rehash" /\ Cardinality(cached) < MaxKept
    /\ stored' = [password |-> p, oldCost |-> FALSE]
    /\ cached' = cached \cup {stored}
    /\ revived' = IF stored.password = p THEN revived ELSE revived \cup {p}
    /\ LoginStep(l, [pc |-> "verified", password |-> p])
    /\ UNCHANGED <<sessions, trusted>>

\* The account has a second factor, and verify_trusted_device finds the device
\* that is presented, whichever password it was trusted with.
PresentDevice(l) ==
    /\ login[l].pc = "verified" /\ trusted # {}
    /\ LoginStep(l, [login[l] EXCEPT !.pc = "recognized"])
    /\ UNCHANGED <<stored, cached, sessions, trusted, revived>>

\* ... or does not, and a challenge is created.
AskSecondFactor(l) ==
    /\ login[l].pc = "verified"
    /\ LoginStep(l, [login[l] EXCEPT !.pc = "challenged"])
    /\ UNCHANGED <<stored, cached, sessions, trusted, revived>>

\* No second factor, a device just recognized, or the code of the challenge,
\* after which the device may be remembered.  The session is not in the index
\* when create_session keeps it in memory because a call to Redis raised.
OpenSession(l) ==
    /\ login[l].pc \in {"verified", "recognized", "challenged"}
    /\ Cardinality(sessions) < MaxSessions
    /\ \E entered \in BOOLEAN :
           sessions' = sessions \cup {[password |-> login[l].password, indexed |-> entered,
                                      seenBy |-> {}]}
    /\ \/ LoginStep(l, Free)
       \/ /\ login[l].pc = "challenged"
          /\ LoginStep(l, [login[l] EXCEPT !.pc = "remember"])
    /\ UNCHANGED <<stored, cached, trusted, revived>>

\* create_trusted_device.
TrustDevice(l) ==
    /\ login[l].pc = "remember" /\ Cardinality(trusted) < MaxKept
    /\ trusted' = trusted \cup {login[l].password}
    /\ LoginStep(l, Free)
    /\ UNCHANGED <<stored, cached, sessions, revived>>

\* A challenge nobody answers.
ForgetChallenge(l) ==
    /\ login[l].pc = "challenged"
    /\ LoginStep(l, Free)
    /\ UNCHANGED <<stored, cached, sessions, trusted, revived>>

\* Wrong guesses in between (LoginLockout counts them).
LockAccount ==
    /\ locked' = TRUE
    /\ UNCHANGED <<stored, cached, links, issuedLinks, sessions, trusted, login, forgot, reset,
                   resetHistory>>

\* A replaced row is served no more: the worker has handled the invalidation,
\* or the entry has expired.
ForgetRow(row) ==
    /\ row \in cached /\ cached' = cached \ {row}
    /\ UNCHANGED <<stored, links, issuedLinks, sessions, trusted, locked, login, forgot, reset,
                   resetHistory>>

------------------------------------------------------------------------------
(* A session or a device ends: logout, revocation, expiry; a logout         *)
(* everywhere ends one after the other                                     *)

Logout(s) ==
    /\ s \in sessions /\ sessions' = sessions \ {s}
    /\ UNCHANGED <<stored, cached, links, issuedLinks, trusted, locked, login, forgot, reset,
                   resetHistory>>

RevokeDevice(p) ==
    /\ p \in trusted /\ trusted' = trusted \ {p}
    /\ UNCHANGED <<stored, cached, links, issuedLinks, sessions, locked, login, forgot, reset,
                   resetHistory>>

OffIndex(S) == {[s EXCEPT !.indexed = FALSE] : s \in S}

\* The index ends after its one life; the sessions in it go on sliding.
IndexExpires ==
    /\ sessions' = OffIndex(sessions)
    /\ UNCHANGED <<stored, cached, links, issuedLinks, trusted, locked, login, forgot, reset,
                   resetHistory>>

------------------------------------------------------------------------------
(* Links *)

Open(k) == links[k].open /\ ~links[k].expired
OpenLinks == {k \in Link : links[k].open}

\* create_password_reset_token: its UPDATE sees the links that are open now,
\* not one that another transaction inserts meanwhile.
ClearLinks(f) ==
    /\ forgot[f] = Free /\ issuedLinks < MaxLinks
    /\ forgot' = [forgot EXCEPT ![f] = [pc |-> "clearing", clears |-> OpenLinks]]
    /\ UNCHANGED <<stored, cached, links, issuedLinks, sessions, trusted, locked, login,
                   reset, resetHistory>>

\* Mutant: the links issued before stay open.
IssueLinkOnly(f) ==
    /\ forgot[f] # Free /\ issuedLinks < MaxLinks
    /\ issuedLinks' = issuedLinks + 1
    /\ links' = [links EXCEPT ![issuedLinks'] = [open |-> TRUE, expired |-> FALSE]]
    /\ forgot' = [forgot EXCEPT ![f] = Free]
    /\ UNCHANGED <<stored, cached, sessions, trusted, locked, login, reset, resetHistory>>

\* ... and its commit.
IssueLink(f) ==
    /\ forgot[f] # Free /\ issuedLinks < MaxLinks
    /\ issuedLinks' = issuedLinks + 1
    /\ links' = [k \in Link |->
                     IF k = issuedLinks' THEN [open |-> TRUE, expired |-> FALSE]
                     ELSE IF k \in forgot[f].clears THEN [links[k] EXCEPT !.open = FALSE]
                     ELSE links[k]]
    /\ forgot' = [forgot EXCEPT ![f] = Free]
    /\ UNCHANGED <<stored, cached, sessions, trusted, locked, login, reset, resetHistory>>

ExpireLink(k) ==
    /\ Open(k)
    /\ links' = [links EXCEPT ![k].expired = TRUE]
    /\ UNCHANGED <<stored, cached, issuedLinks, sessions, trusted, locked, login, forgot,
                   reset, resetHistory>>

------------------------------------------------------------------------------
(* Resets *)

ResetStep(r, state) == reset' = [reset EXCEPT ![r] = state]

\* verify_password_reset_token, called by the handler ...
VerifyLink(r, k) ==
    /\ reset[r] = Free /\ Open(k)
    /\ ResetStep(r, [pc |-> "verified", link |-> k, ends |-> {}])
    /\ UNCHANGED <<stored, cached, links, issuedLinks, sessions, trusted, locked, login,
                   forgot, resetHistory>>

\* ... and again by consume_password_reset_token.
VerifyAgain(r) ==
    /\ reset[r].pc = "verified"
    /\ ResetStep(r, IF Open(reset[r].link) THEN [reset[r] EXCEPT !.pc = "reverified"] ELSE Free)
    /\ UNCHANGED <<stored, cached, links, issuedLinks, sessions, trusted, locked, login,
                   forgot, resetHistory>>

\* Passwords the account has had.
Had == {0} \cup {k \in Link : setBy[k] > 0}

\* Mutant: the UPDATE of the link lacks its condition.
ConsumeUsed(r) ==
    LET k == reset[r].link IN
    /\ reset[r].pc = "reverified" /\ Cardinality(cached) < MaxKept
    /\ \A f \in ForgotSlot : forgot[f] # Free => k \notin forgot[f].clears
    /\ links' = [links EXCEPT ![k].open = FALSE]
    /\ stored' = [password |-> k, oldCost |-> FALSE]
    /\ cached' = cached \cup {stored}
    /\ setBy' = [setBy EXCEPT ![k] = @ + 1]
    /\ ResetStep(r, [reset[r] EXCEPT !.pc = "consumed", !.ends = Had \ (revived \cup {k})])
    /\ UNCHANGED <<issuedLinks, sessions, trusted, locked, login, forgot, closed, late, missed,
                   revived>>

\* The transaction of consume_password_reset_token: the link is marked if it is
\* still open, and the password written, which leaves copies of the row it
\* replaces in the caches until they are invalidated.  It waits for a
\* transaction that is clearing the link.
Consume(r) ==
    LET k == reset[r].link IN
    /\ reset[r].pc = "reverified" /\ Cardinality(cached) < MaxKept
    /\ \A f \in ForgotSlot : forgot[f] # Free => k \notin forgot[f].clears
    /\ IF links[k].open
       THEN /\ links' = [links EXCEPT ![k].open = FALSE]
            /\ stored' = [password |-> k, oldCost |-> FALSE]
            /\ cached' = cached \cup {stored}
            /\ setBy' = [setBy EXCEPT ![k] = @ + 1]
            /\ ResetStep(r, [reset[r] EXCEPT !.pc = "consumed", !.ends = Had \ revived])
       ELSE /\ ResetStep(r, Free)
            /\ UNCHANGED <<links, stored, cached, setBy>>
    /\ UNCHANGED <<issuedLinks, sessions, trusted, locked, login, forgot, closed, late, missed,
                   revived>>

\* delete_all_user_sessions reads the index; nothing is found, or the call
\* raises, and only the memory of this worker is cleared, ...
Passwords(S) == {s.password : s \in S}
UnderWay == {login[l] : l \in {x \in LoginSlot : login[x] # Free}}
Misses(r, S) == missed' = missed \cup ((reset[r].ends \cap Passwords(S)) \ late')
InMemory == {s \in sessions : ~s.indexed}

ReadIndex(r) ==
    LET found == {s \in sessions : s.indexed} IN
    /\ reset[r].pc = "consumed"
    /\ late' = late \cup (reset[r].ends \cap (Passwords(cached) \cup Passwords(UnderWay)))
    /\ \/ /\ found # {}
          /\ sessions' = (sessions \ found) \cup {[s EXCEPT !.seenBy = @ \cup {r}] : s \in found}
          /\ Misses(r, sessions \ found)
          /\ ResetStep(r, [reset[r] EXCEPT !.pc = "purging"])
       \/ /\ \E here \in SUBSET InMemory : sessions' = sessions \ here
          /\ Misses(r, sessions)
          /\ ResetStep(r, [reset[r] EXCEPT !.pc = "purged"])
    /\ UNCHANGED <<stored, cached, links, issuedLinks, trusted, locked, login, forgot,
                   setBy, closed, revived>>

Unseen(S, r) == {[s EXCEPT !.seenBy = @ \ {r}] : s \in S}

\* Mutant: the pipeline is filled and never executed.
FillPipeline(r) ==
    /\ reset[r].pc = "purging"
    /\ \E here \in SUBSET InMemory : sessions' = Unseen(sessions \ here, r)
    /\ ResetStep(r, [reset[r] EXCEPT !.pc = "purged"])
    /\ UNCHANGED <<stored, cached, links, issuedLinks, trusted, locked, login, forgot,
                   setBy, closed, late, missed, revived>>

\* ... and one MULTI deletes the sessions found and the index, with whatever
\* has been entered since; or it raises, which is swallowed.
DeleteSessions(r) ==
    /\ reset[r].pc = "purging"
    /\ UNCHANGED late
    /\ \E here \in SUBSET InMemory :
           \/ /\ sessions' = OffIndex({s \in sessions \ here : r \notin s.seenBy})
              /\ UNCHANGED missed
           \/ /\ sessions' = Unseen(sessions \ here, r)
              /\ Misses(r, sessions)
    /\ ResetStep(r, [reset[r] EXCEPT !.pc = "purged"])
    /\ UNCHANGED <<stored, cached, links, issuedLinks, trusted, locked, login, forgot,
                   setBy, closed, revived>>

\* Mutant: the devices stay trusted.
KeepDevices(r) ==
    /\ reset[r].pc = "purged"
    /\ closed' = closed \cup reset[r].ends
    /\ ResetStep(r, [reset[r] EXCEPT !.pc = "revoked", !.ends = {}])
    /\ UNCHANGED <<stored, cached, links, issuedLinks, sessions, trusted, locked, login,
                   forgot, setBy, late, missed, revived>>

\* revoke_all_trusted_devices.
RevokeAllDevices(r) ==
    /\ reset[r].pc = "purged"
    /\ trusted' = {}
    /\ closed' = closed \cup reset[r].ends
    /\ ResetStep(r, [reset[r] EXCEPT !.pc = "revoked", !.ends = {}])
    /\ UNCHANGED <<stored, cached, links, issuedLinks, sessions, locked, login, forgot,
                   setBy, late, missed, revived>>

\* unlock_account.
UnlockAccount(r) ==
    /\ reset[r].pc = "revoked"
    /\ locked' = FALSE
    /\ ResetStep(r, Free)
    /\ UNCHANGED <<stored, cached, links, issuedLinks, sessions, trusted, login, forgot,
                   resetHistory>>

\* The worker dies; what it committed stays.
AbortReset(r) ==
    /\ reset[r] # Free
    /\ sessions' = Unseen(sessions, r)
    /\ ResetStep(r, Free)
    /\ UNCHANGED <<stored, cached, links, issuedLinks, trusted, locked, login, forgot,
                   resetHistory>>

ResetNext ==
    \/ \E l \in LoginSlot :
           \/ CheckPassword(l) \/ Rehash(l) \/ PresentDevice(l) \/ AskSecondFactor(l)
           \/ OpenSession(l) \/ TrustDevice(l) \/ ForgetChallenge(l)
    \/ LockAccount \/ IndexExpires
    \/ \E row \in Row : ForgetRow(row)
    \/ \E s \in sessions : Logout(s)
    \/ \E p \in Password : RevokeDevice(p)
    \/ \E f \in ForgotSlot : ClearLinks(f) \/ IssueLink(f)
    \/ \E k \in Link : ExpireLink(k)
    \/ \E r \in ResetSlot :
           \/ \E k \in Link : VerifyLink(r, k)
           \/ VerifyAgain(r) \/ Consume(r) \/ ReadIndex(r)
           \/ DeleteSessions(r) \/ RevokeAllDevices(r) \/ UnlockAccount(r) \/ AbortReset(r)

ResetSpec == ResetInit /\ [][ResetNext]_resetVars

------------------------------------------------------------------------------
(* Properties *)

\* Once a reset has revoked the devices, the passwords before it open nothing
\* and nothing opened with them is left, except
\*   - a password that the rehash of a login wrote back,
\*   - what a login has opened since that had passed the check of its password,
\*     or was served a row cached before, when the reset read the index,
\*   - sessions that were off the index then, or that Redis failed to delete.
\* What other resets, crashed or still on their way, do in between makes no
\* difference.
ResetEndsOldLogins ==
    \A p \in closed \ revived :
        /\ p # stored.password
        /\ p \in trusted => p \in late
        /\ p \in Passwords(sessions) => p \in late \cup missed

\* One link sets the password once, however many requests present it at once
\* and whatever other links are requested or used meanwhile.
LinkSetsOnce == \A k \in Link : setBy[k] <= 1

\* Requesting a link closes the ones before, except those that were requested
\* at the same time: as many are open as requests can run at once.
OpenLinksBounded == Cardinality(OpenLinks) <= Cardinality(ForgotSlot)

LinkSafety == LinkSetsOnce /\ OpenLinksBounded
================================================================================
