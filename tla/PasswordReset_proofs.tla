-------------------------- MODULE PasswordReset_proofs --------------------------
(***************************************************************************)
(* Reset links for every number of links, logins, requests and resets: a   *)
(* link sets the password once, no more links are open than requests of a  *)
(* link can run at once, and a reset ends every login made with a password *)
(* it replaced.                                                            *)
(*                                                                         *)
(* The first needs that an open link has not set the password yet.  The    *)
(* second has no count that every step keeps: it follows because each open *)
(* link can be ascribed to the slot that issued it, a slot having at most  *)
(* one, because a slot that issues again saw its own.  The third needs     *)
(* what a reset still has to end while it runs.                            *)
(***************************************************************************)
EXTENDS PasswordReset, FiniteSetTheorems, TLAPS

LinksTyped ==
    /\ issuedLinks \in 0..MaxLinks
    /\ links \in [Link -> [open: BOOLEAN, expired: BOOLEAN]]
    /\ setBy \in [Link -> {0, 1}]
    /\ forgot \in [ForgotSlot -> {Free} \cup [pc: {"clearing"}, clears: SUBSET Link]]

Resetting ==
    [pc: {"verified", "reverified", "consumed", "purging", "purged", "revoked"}, link: Link,
     ends: SUBSET Password]

ResetsTyped == reset \in [ResetSlot -> {Free} \cup Resetting]

\* Only a link that was issued and has not been used is open.
OpenUnused ==
    \A k \in Link :
        /\ links[k].open => k <= issuedLinks /\ setBy[k] = 0
        /\ k > issuedLinks => setBy[k] = 0

\* Open links have different issuers, and an issuer at work knows its own.
Ascribed(issuer, open, requests) ==
    /\ \A j, k \in open : issuer[j] = issuer[k] => j = k
    /\ \A k \in open :
           requests[issuer[k]] # Free => k \in requests[issuer[k]].clears

OneLinkEach == \E issuer \in [OpenLinks -> ForgotSlot] : Ascribed(issuer, OpenLinks, forgot)

LinkInv == LinksTyped /\ ResetsTyped /\ OpenUnused /\ OneLinkEach

------------------------------------------------------------------------------
(***************************************************************************)
(* Closing links disturbs no ascription.                                   *)
(***************************************************************************)
LEMMA FewerLinks ==
    ASSUME OneLinkEach, OpenLinks' \subseteq OpenLinks, forgot' = forgot
    PROVE  OneLinkEach'
<1>1. PICK issuer \in [OpenLinks -> ForgotSlot] : Ascribed(issuer, OpenLinks, forgot)
  BY DEF OneLinkEach
<1>. DEFINE rest == [k \in OpenLinks' |-> issuer[k]]
<1>2. rest \in [OpenLinks' -> ForgotSlot]
  OBVIOUS
<1>3. Ascribed(rest, OpenLinks', forgot')
  BY <1>1 DEF Ascribed
<1>. QED BY <1>2, <1>3 DEF OneLinkEach

(***************************************************************************)
(* A step that leaves the links, their count, their effects and the        *)
(* requests alone can only break the type of the resets.                   *)
(***************************************************************************)
LEMMA LinksAlone ==
    ASSUME LinkInv, ResetsTyped', UNCHANGED <<links, issuedLinks, forgot, setBy>>
    PROVE  LinkInv'
<1>1. OpenLinks' = OpenLinks
  BY DEF OpenLinks
<1>2. OneLinkEach'
  BY <1>1, FewerLinks DEF LinkInv
<1>3. LinksTyped' /\ OpenUnused'
  BY DEF LinkInv, LinksTyped, OpenUnused
<1>. QED BY <1>2, <1>3 DEF LinkInv

LEMMA InitLinks == ResetInit => LinkInv
<1>. SUFFICES ASSUME ResetInit PROVE LinkInv
  OBVIOUS
<1>. USE PasswordResetAssumption DEF ResetInit
<1>1. LinksTyped
  BY DEF LinksTyped, Link
<1>2. ResetsTyped
  BY DEF ResetsTyped
<1>3. OpenUnused
  BY DEF OpenUnused, Link
<1>4. OpenLinks = {}
  BY DEF OpenLinks, Link
<1>5. OneLinkEach
  <2>. DEFINE none == [k \in OpenLinks |-> CHOOSE f \in ForgotSlot : TRUE]
  <2>1. none \in [OpenLinks -> ForgotSlot] /\ Ascribed(none, OpenLinks, forgot)
    BY <1>4 DEF Ascribed
  <2>. QED BY <2>1 DEF OneLinkEach
<1>. QED BY <1>1, <1>2, <1>3, <1>5 DEF LinkInv

(***************************************************************************)
(* A request of a link starts: it sees every open link, so its own.        *)
(***************************************************************************)
LEMMA ClearLinksKeeps ==
    ASSUME LinkInv, NEW f \in ForgotSlot, ClearLinks(f)
    PROVE  LinkInv'
<1>. USE DEF ClearLinks, resetHistory
<1>1. OpenLinks' = OpenLinks /\ OpenLinks \subseteq Link
  BY DEF OpenLinks
<1>2. LinksTyped'
  <2>1. [pc |-> "clearing", clears |-> OpenLinks] \in [pc: {"clearing"}, clears: SUBSET Link]
    BY <1>1
  <2>. QED BY <2>1 DEF LinkInv, LinksTyped
<1>3. OpenUnused' /\ ResetsTyped'
  BY DEF LinkInv, OpenUnused, ResetsTyped
<1>4. PICK issuer \in [OpenLinks -> ForgotSlot] : Ascribed(issuer, OpenLinks, forgot)
  BY DEF LinkInv, OneLinkEach
<1>5. \A k \in OpenLinks : forgot'[issuer[k]] # Free => k \in forgot'[issuer[k]].clears
  <2>. TAKE k \in OpenLinks
  <2>1. CASE issuer[k] = f
    BY <2>1 DEF LinkInv, LinksTyped
  <2>2. CASE issuer[k] # f
    BY <2>2, <1>4 DEF LinkInv, LinksTyped, Ascribed
  <2>. QED BY <2>1, <2>2
<1>6. Ascribed(issuer, OpenLinks', forgot')
  BY <1>1, <1>4, <1>5 DEF Ascribed
<1>. QED BY <1>1, <1>2, <1>3, <1>6 DEF LinkInv, OneLinkEach

(***************************************************************************)
(* The new link takes the place of the one its slot had issued before.     *)
(***************************************************************************)
LEMMA IssueLinkKeeps ==
    ASSUME LinkInv, NEW f \in ForgotSlot, IssueLink(f)
    PROVE  LinkInv'
<1>. USE PasswordResetAssumption DEF IssueLink, resetHistory
<1>. DEFINE new == issuedLinks + 1
<1>1. new \in Link /\ issuedLinks' = new /\ issuedLinks \in Nat
  BY DEF LinkInv, LinksTyped, Link
<1>2. /\ forgot[f] \in [pc: {"clearing"}, clears: SUBSET Link]
      /\ forgot' \in [ForgotSlot -> {Free} \cup [pc: {"clearing"}, clears: SUBSET Link]]
  BY DEF LinkInv, LinksTyped
<1>3. \A k \in Link :
          links'[k] = IF k = new THEN [open |-> TRUE, expired |-> FALSE]
                      ELSE IF k \in forgot[f].clears THEN [links[k] EXCEPT !.open = FALSE]
                      ELSE links[k]
  BY <1>1
<1>4. LinksTyped'
  <2>1. \A k \in Link : links[k] \in [open: BOOLEAN, expired: BOOLEAN]
    BY DEF LinkInv, LinksTyped
  <2>2. \A k \in Link : links'[k] \in [open: BOOLEAN, expired: BOOLEAN]
    <3>. TAKE k \in Link
    <3>1. \A x \in [open: BOOLEAN, expired: BOOLEAN] :
              [x EXCEPT !.open = FALSE] \in [open: BOOLEAN, expired: BOOLEAN]
      OBVIOUS
    <3>2. [links[k] EXCEPT !.open = FALSE] \in [open: BOOLEAN, expired: BOOLEAN]
      BY ONLY <2>1, <3>1, k \in Link
    <3>3. [open |-> TRUE, expired |-> FALSE] \in [open: BOOLEAN, expired: BOOLEAN]
      OBVIOUS
    <3>. QED BY ONLY <1>3, <2>1, <3>2, <3>3, k \in Link
  <2>3. links' \in [Link -> [open: BOOLEAN, expired: BOOLEAN]]
    BY <1>1, <2>2
  <2>. QED BY <1>1, <1>2, <2>3 DEF LinkInv, LinksTyped, Link
<1>5. \A k \in Link : links'[k].open =>
          k = new \/ (links[k].open /\ k \notin forgot[f].clears)
  BY <1>3 DEF LinkInv, LinksTyped
<1>6. OpenUnused'
  BY <1>1, <1>5 DEF LinkInv, OpenUnused, Link
<1>7. OpenLinks' \subseteq {new} \cup (OpenLinks \ forgot[f].clears)
  BY <1>5 DEF OpenLinks
<1>8. PICK issuer \in [OpenLinks -> ForgotSlot] : Ascribed(issuer, OpenLinks, forgot)
  BY DEF LinkInv, OneLinkEach
<1>. DEFINE next == [k \in OpenLinks' |-> IF k = new THEN f ELSE issuer[k]]
<1>9. next \in [OpenLinks' -> ForgotSlot]
  BY <1>7
<1>10. \A k \in OpenLinks' : k # new => k \in OpenLinks /\ issuer[k] # f /\ next[k] = issuer[k]
  BY <1>7, <1>8 DEF Ascribed
<1>11. Ascribed(next, OpenLinks', forgot')
  <2>1. \A j, k \in OpenLinks' : next[j] = next[k] => j = k
    BY <1>8, <1>10 DEF Ascribed
  <2>2. \A k \in OpenLinks' : forgot'[next[k]] # Free => k \in forgot'[next[k]].clears
    <3>. TAKE k \in OpenLinks'
    <3>1. CASE k = new
      BY <3>1 DEF LinkInv, LinksTyped
    <3>2. CASE k # new
      <4>1. forgot'[next[k]] = forgot[issuer[k]]
        BY <3>2, <1>8, <1>10 DEF LinkInv, LinksTyped
      <4>. QED BY <4>1, <3>2, <1>8, <1>10 DEF Ascribed
    <3>. QED BY <3>1, <3>2
  <2>. QED BY <2>1, <2>2 DEF Ascribed
<1>12. ResetsTyped'
  BY DEF LinkInv, ResetsTyped
<1>. QED BY <1>4, <1>6, <1>9, <1>11, <1>12 DEF LinkInv, OneLinkEach

(***************************************************************************)
(* An open link has not been used, and is closed by its use.               *)
(***************************************************************************)
LEMMA ConsumeKeeps ==
    ASSUME LinkInv, NEW r \in ResetSlot, Consume(r)
    PROVE  LinkInv'
<1>. USE PasswordResetAssumption
<1>. DEFINE k == reset[r].link
<1>1. reset[r] \in Resetting /\ k \in Link
  BY DEF Consume, LinkInv, ResetsTyped, Free, Resetting
<1>2. Had \subseteq Password
  BY DEF Had, Link, Password
<1>3. CASE ~links[k].open
  <2>1. ResetsTyped'
    BY <1>3 DEF Consume, ResetStep, LinkInv, ResetsTyped
  <2>. QED BY <1>3, <2>1, LinksAlone DEF Consume
<1>4. CASE links[k].open
  <2>1. /\ links' = [links EXCEPT ![k].open = FALSE]
        /\ setBy' = [setBy EXCEPT ![k] = @ + 1]
        /\ reset' = [reset EXCEPT ![r] = [@ EXCEPT !.pc = "consumed", !.ends = Had \ revived]]
        /\ issuedLinks' = issuedLinks /\ forgot' = forgot
    BY <1>4 DEF Consume, ResetStep
  <2>2. ResetsTyped'
    <3>1. [reset[r] EXCEPT !.pc = "consumed", !.ends = Had \ revived] \in Resetting
      BY <1>1, <1>2 DEF Resetting
    <3>. QED BY <2>1, <3>1 DEF LinkInv, ResetsTyped
  <2>3. setBy[k] = 0 /\ k <= issuedLinks
    BY <1>1, <1>4 DEF LinkInv, OpenUnused
  <2>4. LinksTyped'
    <3>1. links' \in [Link -> [open: BOOLEAN, expired: BOOLEAN]]
      BY <1>1, <2>1 DEF LinkInv, LinksTyped
    <3>2. setBy' \in [Link -> {0, 1}]
      BY <1>1, <2>1, <2>3 DEF LinkInv, LinksTyped
    <3>. QED BY <2>1, <3>1, <3>2 DEF LinkInv, LinksTyped
  <2>5. \A j \in Link : /\ links'[j].open => links[j].open /\ j # k
                        /\ setBy'[j] = IF j = k THEN 1 ELSE setBy[j]
    BY <1>1, <2>1, <2>3 DEF LinkInv, LinksTyped
  <2>6. OpenUnused'
    BY <1>1, <2>1, <2>3, <2>5 DEF LinkInv, LinksTyped, OpenUnused, Link
  <2>7. OpenLinks' \subseteq OpenLinks
    BY <2>5 DEF OpenLinks
  <2>8. OneLinkEach'
    BY <2>1, <2>7, FewerLinks DEF LinkInv
  <2>. QED BY <2>2, <2>4, <2>6, <2>8 DEF LinkInv
<1>. QED BY <1>3, <1>4

(***************************************************************************)
(* Expiry leaves a link as open as it was.                                 *)
(***************************************************************************)
LEMMA ExpireLinkKeeps ==
    ASSUME LinkInv, NEW k \in Link, ExpireLink(k)
    PROVE  LinkInv'
<1>. USE DEF ExpireLink, resetHistory
<1>1. \A j \in Link : links'[j].open = links[j].open
  BY DEF LinkInv, LinksTyped
<1>2. LinksTyped'
  BY DEF LinkInv, LinksTyped
<1>3. OpenUnused'
  BY <1>1 DEF LinkInv, OpenUnused
<1>4. OpenLinks' = OpenLinks
  BY <1>1 DEF OpenLinks
<1>5. OneLinkEach' /\ ResetsTyped'
  BY <1>4, FewerLinks DEF LinkInv, ResetsTyped
<1>. QED BY <1>2, <1>3, <1>5 DEF LinkInv

(***************************************************************************)
(* The other steps of a reset change its progress only.                    *)
(***************************************************************************)
LEMMA ResetKeeps ==
    ASSUME LinkInv, NEW r \in ResetSlot,
           \/ \E k \in Link : VerifyLink(r, k)
           \/ VerifyAgain(r) \/ ReadIndex(r) \/ DeleteSessions(r) \/ RevokeAllDevices(r)
           \/ UnlockAccount(r) \/ AbortReset(r)
    PROVE  LinkInv'
<1>. USE DEF ResetStep, LinkInv, ResetsTyped
<1>1. ASSUME NEW k \in Link, VerifyLink(r, k) PROVE LinkInv'
  <2>1. ResetsTyped'
    BY <1>1 DEF VerifyLink, Resetting
  <2>. QED BY <1>1, <2>1, LinksAlone DEF VerifyLink, resetHistory
<1>2. CASE VerifyAgain(r)
  <2>1. ResetsTyped'
    BY <1>2 DEF VerifyAgain, Resetting, Free
  <2>. QED BY <1>2, <2>1, LinksAlone DEF VerifyAgain, resetHistory
<1>3. CASE ReadIndex(r) \/ DeleteSessions(r)
  <2>1. ResetsTyped'
    BY <1>3 DEF ReadIndex, DeleteSessions, Resetting, Free
  <2>. QED BY <1>3, <2>1, LinksAlone DEF ReadIndex, DeleteSessions
<1>4. CASE RevokeAllDevices(r)
  <2>1. reset[r] \in Resetting
    BY <1>4 DEF RevokeAllDevices, Free
  <2>2. [reset[r] EXCEPT !.pc = "revoked", !.ends = {}] \in Resetting
    BY <2>1 DEF Resetting
  <2>3. ResetsTyped'
    BY <1>4, <2>2 DEF RevokeAllDevices
  <2>. QED BY <1>4, <2>3, LinksAlone DEF RevokeAllDevices
<1>5. CASE UnlockAccount(r)
  <2>1. ResetsTyped'
    BY <1>5 DEF UnlockAccount
  <2>. QED BY <1>5, <2>1, LinksAlone DEF UnlockAccount, resetHistory
<1>6. CASE AbortReset(r)
  <2>1. ResetsTyped'
    BY <1>6 DEF AbortReset
  <2>. QED BY <1>6, <2>1, LinksAlone DEF AbortReset, resetHistory
<1>. QED BY <1>1, <1>2, <1>3, <1>4, <1>5, <1>6

(***************************************************************************)
(* Logins, locks, logouts and expiries leave links and resets alone.       *)
(***************************************************************************)
LEMMA LoginsKeep ==
    ASSUME LinkInv,
           \/ \E l \in LoginSlot :
                  \/ CheckPassword(l) \/ Rehash(l) \/ PresentDevice(l) \/ AskSecondFactor(l)
                  \/ OpenSession(l) \/ TrustDevice(l) \/ ForgetChallenge(l)
           \/ LockAccount \/ IndexExpires
           \/ \E row \in Row : ForgetRow(row)
           \/ \E s \in sessions : Logout(s)
           \/ \E p \in Password : RevokeDevice(p)
           \/ UNCHANGED resetVars
    PROVE  LinkInv'
<1>1. UNCHANGED <<links, issuedLinks, forgot, setBy, reset>>
  BY DEF CheckPassword, Rehash, PresentDevice, AskSecondFactor, OpenSession, TrustDevice,
         ForgetChallenge, LoginStep, LockAccount, IndexExpires, ForgetRow, Logout, RevokeDevice,
         resetVars, resetHistory
<1>2. ResetsTyped'
  BY <1>1 DEF LinkInv, ResetsTyped
<1>. QED BY <1>1, <1>2, LinksAlone

LEMMA LinkStep == LinkInv /\ [ResetNext]_resetVars => LinkInv'
<1>. SUFFICES ASSUME LinkInv, [ResetNext]_resetVars PROVE LinkInv'
  OBVIOUS
<1>1. ASSUME NEW f \in ForgotSlot, ClearLinks(f) \/ IssueLink(f) PROVE LinkInv'
  BY <1>1, ClearLinksKeeps, IssueLinkKeeps
<1>2. ASSUME NEW r \in ResetSlot, Consume(r) PROVE LinkInv'
  BY <1>2, ConsumeKeeps
<1>3. ASSUME NEW k \in Link, ExpireLink(k) PROVE LinkInv'
  BY <1>3, ExpireLinkKeeps
<1>. QED BY <1>1, <1>2, <1>3, ResetKeeps, LoginsKeep DEF ResetNext

(***************************************************************************)
(* As many links are open as slots can be told apart.                      *)
(***************************************************************************)
LEMMA LinksCounted == LinkInv => LinkSafety
<1>. SUFFICES ASSUME LinkInv PROVE LinkSafety
  OBVIOUS
<1>1. LinkSetsOnce
  BY DEF LinkInv, LinksTyped, LinkSetsOnce
<1>2. PICK issuer \in [OpenLinks -> ForgotSlot] : Ascribed(issuer, OpenLinks, forgot)
  BY DEF LinkInv, OneLinkEach
<1>3. issuer \in Injection(OpenLinks, ForgotSlot)
  BY <1>2 DEF Ascribed, Injection, IsInjective
<1>4. OpenLinksBounded
  BY <1>3, FS_Injection, PasswordResetAssumption DEF OpenLinksBounded
<1>. QED BY <1>1, <1>4 DEF LinkSafety

(***************************************************************************)
(* One link sets the password once, and at most one link per concurrent    *)
(* request is open, whatever requests, resets, expiries and crashes of     *)
(* workers interleave.                                                     *)
(***************************************************************************)
THEOREM LinksAreSafe == ResetSpec => []LinkSafety
<1>1. ResetSpec => []LinkInv
  BY InitLinks, LinkStep, PTL DEF ResetSpec
<1>. QED BY <1>1, LinksCounted, PTL


------------------------------------------------------------------------------
(***************************************************************************)
(* What a reset ends.                                                      *)
(*                                                                         *)
(* The property speaks of passwords whose reset has revoked the devices;   *)
(* what makes it inductive is what the reset has achieved at each step on  *)
(* the way there, whatever the other resets and the logins do.             *)
(***************************************************************************)

LoggingIn ==
    [pc: {"rehash", "verified", "recognized", "challenged", "remember"}, password: Password]

LoginsTyped ==
    /\ stored \in Row /\ cached \subseteq Row
    /\ sessions \subseteq Session
    /\ login \in [LoginSlot -> {Free} \cup LoggingIn]

\* Every password in use, or away with, is one the account has had, so the
\* password that a link not yet used will set is none of them.
OnlyHad ==
    /\ stored.password \in Had
    /\ Passwords(cached) \cup Passwords(sessions) \cup trusted \cup closed \subseteq Had
    /\ \A l \in LoginSlot : login[l] # Free => login[l].password \in Had
    /\ \A r \in ResetSlot : reset[r] # Free => reset[r].ends \subseteq Had

Entering == {l \in LoginSlot : login[l] # Free}

\* What opens nothing new: neither stored, nor cached, nor in the hands of a
\* login.
OutOfUse(p) ==
    /\ p # stored.password /\ p \notin Passwords(cached)
    /\ \A l \in Entering : login[l].password # p

\* Once the link is consumed the earlier passwords are stored no more, once the
\* index has been read they open nothing and their sessions are those that were
\* found there, ...
Ending(r) ==
    /\ reset[r].pc \in {"consumed", "purging", "purged"} =>
           \A p \in reset[r].ends \ revived : p # stored.password
    /\ reset[r].pc \in {"purging", "purged"} =>
           \A p \in reset[r].ends \ (late \cup revived) : OutOfUse(p)
    /\ reset[r].pc = "purging" =>
           \A p \in reset[r].ends \ (late \cup missed \cup revived) :
               \A s \in sessions : s.password = p => r \in s.seenBy
    /\ reset[r].pc = "purged" =>
           \A p \in reset[r].ends \ (late \cup missed \cup revived) :
               p \notin Passwords(sessions)

EndsOnTheWay == \A r \in ResetSlot : Ending(r)

\* ... and once the devices are revoked none of these is left either.
EndsDone ==
    \A p \in closed \ revived :
        /\ p # stored.password
        /\ p \notin late => p \notin trusted /\ OutOfUse(p)
        /\ p \notin late \cup missed => p \notin Passwords(sessions)

EndInv == LoginsTyped /\ OnlyHad /\ EndsOnTheWay /\ EndsDone

LEMMA InitEnds == ResetInit => EndInv
<1>. SUFFICES ASSUME ResetInit PROVE EndInv
  OBVIOUS
<1>. USE PasswordResetAssumption DEF ResetInit
<1>1. LoginsTyped
  BY DEF LoginsTyped, Row, Password
<1>2. OnlyHad
  BY DEF OnlyHad, Had, Free, Passwords
<1>3. EndsOnTheWay /\ EndsDone
  BY DEF EndsOnTheWay, Ending, EndsDone, Free
<1>. QED BY <1>1, <1>2, <1>3 DEF EndInv

------------------------------------------------------------------------------
(***************************************************************************)
(* The sessions after a step go back to sessions before it, which no reset *)
(* but r had read without having read them now.                            *)
(***************************************************************************)
From(t, s, r) == t.password = s.password /\ \A x \in s.seenBy : x # r => x \in t.seenBy
CarriedBut(r) == sessions' \subseteq Session /\ \A t \in sessions' : \E s \in sessions : From(t, s, r)

Carried ==
    /\ sessions' \subseteq Session
    /\ \A t \in sessions' : \E s \in sessions : t.password = s.password /\ s.seenBy \subseteq t.seenBy

LEMMA CarriedIsBut == \A r : Carried => CarriedBut(r)
BY DEF Carried, CarriedBut, From

LEMMA OffIndexCarries ==
    ASSUME sessions \subseteq Session, NEW S \in SUBSET sessions, sessions' = OffIndex(S)
    PROVE  Carried
<1>1. ASSUME NEW s \in Session
      PROVE  /\ [s EXCEPT !.indexed = FALSE] \in Session
             /\ [s EXCEPT !.indexed = FALSE].password = s.password
             /\ [s EXCEPT !.indexed = FALSE].seenBy = s.seenBy
  BY DEF Session
<1>2. ASSUME NEW t \in sessions'
      PROVE  t \in Session /\ \E s \in sessions : t.password = s.password /\ s.seenBy \subseteq t.seenBy
  <2>1. PICK s \in S : t = [s EXCEPT !.indexed = FALSE]
    BY DEF OffIndex
  <2>. QED BY <1>1, <2>1
<1>. QED BY <1>2 DEF Carried

LEMMA UnseenCarries ==
    ASSUME sessions \subseteq Session, NEW r, NEW S \in SUBSET sessions,
           sessions' = Unseen(S, r)
    PROVE  CarriedBut(r)
<1>1. ASSUME NEW s \in Session
      PROVE  /\ [s EXCEPT !.seenBy = @ \ {r}] \in Session
             /\ [s EXCEPT !.seenBy = @ \ {r}].password = s.password
             /\ [s EXCEPT !.seenBy = @ \ {r}].seenBy = s.seenBy \ {r}
  BY DEF Session
<1>2. ASSUME NEW t \in sessions'
      PROVE  t \in Session /\ \E s \in sessions : From(t, s, r)
  <2>1. PICK s \in S : t = [s EXCEPT !.seenBy = @ \ {r}]
    BY DEF Unseen
  <2>. QED BY <1>1, <2>1 DEF From
<1>. QED BY <1>2 DEF CarriedBut

(***************************************************************************)
(* What the end of a password asks of the sessions survives such a step.   *)
(***************************************************************************)
LEMMA CarriedEnds ==
    ASSUME NEW r, CarriedBut(r)
    PROVE  /\ Passwords(sessions') \subseteq Passwords(sessions)
           /\ \A x, p : /\ x # r
                        /\ \A s \in sessions : s.password = p => x \in s.seenBy
                        => \A s \in sessions' : s.password = p => x \in s.seenBy
BY DEF CarriedBut, From, Passwords

(***************************************************************************)
(* Sessions and devices end, rows leave the caches, links come and go:     *)
(* nothing old comes back.                                                 *)
(***************************************************************************)
LEMMA EndsAlone ==
    ASSUME EndInv, UNCHANGED <<stored, login, reset, setBy, closed, late, missed, revived>>,
           cached' \subseteq cached, trusted' \subseteq trusted, Carried
    PROVE  EndInv'
<1>1. LoginsTyped'
  BY DEF EndInv, LoginsTyped, Carried
<1>2. Passwords(sessions') \subseteq Passwords(sessions) /\ Passwords(cached') \subseteq Passwords(cached)
  BY DEF Carried, Passwords
<1>3. OnlyHad'
  BY <1>2 DEF EndInv, OnlyHad, Had
<1>4. \A p : OutOfUse(p) => OutOfUse(p)'
  BY <1>2 DEF OutOfUse, Entering
<1>5. \A x, p : (\A s \in sessions : s.password = p => x \in s.seenBy)
                => \A s \in sessions' : s.password = p => x \in s.seenBy
  BY DEF Carried
<1>6. EndsOnTheWay'
  BY <1>2, <1>4, <1>5 DEF EndInv, EndsOnTheWay, Ending
<1>7. EndsDone'
  BY <1>2, <1>4 DEF EndInv, EndsDone
<1>. QED BY <1>1, <1>3, <1>6, <1>7 DEF EndInv

(***************************************************************************)
(* A login goes on with the password it was started with, and opens a      *)
(* session or trusts a device with none but that.                          *)
(***************************************************************************)
LEMMA LoginGoesOn ==
    ASSUME EndInv, NEW l \in LoginSlot, login[l] # Free,
           NEW s \in {Free} \cup LoggingIn, s = Free \/ s.password = login[l].password,
           login' = [login EXCEPT ![l] = s],
           sessions' \subseteq Session,
           \A t \in sessions' : t \in sessions \/ t.password = login[l].password,
           trusted' \subseteq trusted \cup {login[l].password},
           UNCHANGED <<stored, cached, reset, setBy, closed, late, missed, revived>>
    PROVE  EndInv'
<1>1. LoginsTyped'
  BY DEF EndInv, LoginsTyped
<1>2. \A x \in LoginSlot : login'[x] = IF x = l THEN s ELSE login[x]
  BY DEF EndInv, LoginsTyped
<1>3. \A x \in LoginSlot : login'[x] # Free =>
          login[x] # Free /\ login'[x].password = login[x].password
  BY <1>2
<1>4. Passwords(sessions') \subseteq Passwords(sessions) \cup {login[l].password}
  BY DEF Passwords
<1>5. OnlyHad'
  BY <1>3, <1>4 DEF EndInv, OnlyHad, Had
<1>6. \A p : OutOfUse(p) => OutOfUse(p)' /\ p # login[l].password
  BY <1>3 DEF OutOfUse, Entering
<1>7. EndsOnTheWay'
  <2>1. \A r \in ResetSlot : reset[r].pc \in {"purging", "purged"} =>
            \A p \in reset[r].ends \ (late \cup missed \cup revived) : p # login[l].password
    BY <1>6 DEF EndInv, EndsOnTheWay, Ending
  <2>. QED BY <1>4, <1>6, <2>1 DEF EndInv, EndsOnTheWay, Ending
<1>8. EndsDone'
  BY <1>4, <1>6 DEF EndInv, EndsDone
<1>. QED BY <1>1, <1>5, <1>7, <1>8 DEF EndInv

LEMMA CheckPasswordEnds ==
    ASSUME EndInv, NEW l \in LoginSlot, CheckPassword(l)
    PROVE  EndInv'
<1>. USE DEF CheckPassword, LoginStep
<1>0. PICK row \in {stored} \cup cached :
          login' = [login EXCEPT ![l] = [pc |-> IF row.oldCost THEN "rehash" ELSE "verified",
                                         password |-> row.password]]
  OBVIOUS
<1>. DEFINE s == [pc |-> IF row.oldCost THEN "rehash" ELSE "verified",
                  password |-> row.password]
<1>1. s \in LoggingIn
  BY DEF EndInv, LoginsTyped, LoggingIn, Row
<1>2. LoginsTyped'
  BY <1>0, <1>1 DEF EndInv, LoginsTyped
<1>3. \A x \in LoginSlot : login'[x] = IF x = l THEN s ELSE login[x]
  BY <1>0 DEF EndInv, LoginsTyped
<1>4. s.password = stored.password \/ s.password \in Passwords(cached)
  BY DEF Passwords
<1>5. OnlyHad'
  BY <1>3, <1>4 DEF EndInv, OnlyHad, Had
<1>6. \A p : OutOfUse(p) => OutOfUse(p)'
  BY <1>3, <1>4 DEF OutOfUse, Entering
<1>7. EndsOnTheWay' /\ EndsDone'
  BY <1>6 DEF EndInv, EndsOnTheWay, Ending, EndsDone
<1>. QED BY <1>2, <1>5, <1>7 DEF EndInv

(***************************************************************************)
(* A rehash writes the password of the login, which is then revived unless *)
(* it is still the one stored; the row it replaces may stay cached.        *)
(***************************************************************************)
LEMMA RehashEnds ==
    ASSUME EndInv, NEW l \in LoginSlot, Rehash(l)
    PROVE  EndInv'
<1>. USE DEF Rehash, LoginStep
<1>. DEFINE p == login[l].password
            s == [pc |-> "verified", password |-> p]
<1>1. login[l] \in LoggingIn /\ login[l] # Free
  BY DEF EndInv, LoginsTyped, LoggingIn, Free
<1>2. LoginsTyped'
  BY <1>1 DEF EndInv, LoginsTyped, LoggingIn, Row
<1>3. \A x \in LoginSlot : login'[x] = IF x = l THEN s ELSE login[x]
  BY DEF EndInv, LoginsTyped
<1>4. stored'.password = p /\ p \in Had
  BY <1>1 DEF EndInv, OnlyHad
<1>5. Passwords(cached') = Passwords(cached) \cup {stored.password}
  BY DEF Passwords
<1>6. OnlyHad'
  <2>1. Had' = Had
    BY DEF Had
  <2>2. \A x \in LoginSlot : login'[x] # Free => login'[x].password \in Had
    BY <1>3, <1>4 DEF EndInv, OnlyHad
  <2>3. Passwords(cached') \subseteq Had
    BY <1>5 DEF EndInv, OnlyHad
  <2>. QED BY <1>4, <2>1, <2>2, <2>3 DEF EndInv, OnlyHad
<1>7. \A x \in LoginSlot : login'[x] # Free =>
          login[x] # Free /\ login'[x].password = login[x].password
  BY <1>1, <1>3
<1>8. revived \subseteq revived' /\ (stored.password # p => p \in revived')
  OBVIOUS
<1>9. \A q : q # stored.password /\ q \notin revived' => q # stored'.password
  BY <1>4, <1>8
<1>10. \A q : OutOfUse(q) /\ q \notin revived' => OutOfUse(q)'
  BY <1>5, <1>7, <1>9 DEF OutOfUse, Entering
<1>11. EndsOnTheWay'
  BY <1>8, <1>9, <1>10 DEF EndInv, EndsOnTheWay, Ending
<1>12. EndsDone'
  BY <1>8, <1>9, <1>10 DEF EndInv, EndsDone
<1>. QED BY <1>2, <1>6, <1>11, <1>12 DEF EndInv

(***************************************************************************)
(* A reset that verifies its link, ends or dies has nothing to keep.       *)
(***************************************************************************)
LEMMA ResetRests ==
    ASSUME LinkInv, EndInv, NEW r \in ResetSlot, NEW s,
           s.pc \notin {"consumed", "purging", "purged"}, s = Free \/ s.ends \subseteq Had,
           reset' = [reset EXCEPT ![r] = s], CarriedBut(r),
           UNCHANGED <<stored, cached, login, trusted, setBy, closed, late, missed, revived>>
    PROVE  EndInv'
<1>1. LoginsTyped'
  BY DEF EndInv, LoginsTyped, CarriedBut
<1>2. \A x \in ResetSlot : reset'[x] = IF x = r THEN s ELSE reset[x]
  BY DEF LinkInv, ResetsTyped
<1>3. Passwords(sessions') \subseteq Passwords(sessions)
  BY CarriedEnds
<1>4. OnlyHad'
  BY <1>2, <1>3 DEF EndInv, OnlyHad, Had
<1>5. \A p : OutOfUse(p) <=> OutOfUse(p)'
  BY DEF OutOfUse, Entering
<1>6. EndsOnTheWay'
  <2>1. ASSUME NEW x \in ResetSlot PROVE Ending(x)'
    <3>1. CASE x = r
      BY <1>2, <3>1 DEF Ending
    <3>2. CASE x # r
      <4>1. reset'[x] = reset[x] /\ Ending(x)
        BY <1>2, <3>2 DEF EndInv, EndsOnTheWay
      <4>. QED BY <1>3, <1>5, <3>2, <4>1, CarriedEnds DEF Ending
    <3>. QED BY <3>1, <3>2
  <2>. QED BY <2>1 DEF EndsOnTheWay
<1>7. EndsDone'
  BY <1>3, <1>5 DEF EndInv, EndsDone
<1>. QED BY <1>1, <1>4, <1>6, <1>7 DEF EndInv

(***************************************************************************)
(* The password a link sets is new, for an open link has not been used.    *)
(***************************************************************************)
LEMMA ConsumeEnds ==
    ASSUME LinkInv, EndInv, NEW r \in ResetSlot, Consume(r)
    PROVE  EndInv'
<1>. DEFINE k == reset[r].link
            s == [reset[r] EXCEPT !.pc = "consumed", !.ends = Had \ revived]
<1>1. reset[r] \in Resetting /\ k \in Link
  BY DEF Consume, LinkInv, ResetsTyped, Free, Resetting
<1>2. CASE ~links[k].open
  <2>1. CarriedBut(r)
    BY <1>2 DEF Consume, CarriedBut, From, EndInv, LoginsTyped
  <2>. QED BY <1>2, <2>1, ResetRests DEF Consume, ResetStep, Free
<1>3. CASE links[k].open
  <2>1. /\ stored' = [password |-> k, oldCost |-> FALSE]
        /\ cached' = cached \cup {stored}
        /\ setBy' = [setBy EXCEPT ![k] = @ + 1]
        /\ reset' = [reset EXCEPT ![r] = s]
        /\ UNCHANGED <<login, sessions, trusted, closed, late, missed, revived>>
    BY <1>3 DEF Consume, ResetStep
  <2>2. k \notin Had
    BY <1>1, <1>3, PasswordResetAssumption DEF LinkInv, OpenUnused, Had, Link
  <2>3. Had \subseteq Had' /\ k \in Had'
    BY <1>1, <2>1 DEF Had, LinkInv, LinksTyped
  <2>4. \A x \in ResetSlot : reset'[x] = IF x = r THEN s ELSE reset[x]
    BY <2>1 DEF LinkInv, ResetsTyped
  <2>5. s.pc = "consumed" /\ s.ends = Had \ revived
    BY <1>1 DEF Resetting
  <2>6. stored'.password = k /\ Passwords(cached') = Passwords(cached) \cup {stored.password}
    BY <2>1 DEF Passwords
  <2>7. LoginsTyped'
    BY <1>1, <2>1 DEF EndInv, LoginsTyped, Link, Password, Row
  <2>8. OnlyHad'
    BY <2>1, <2>3, <2>4, <2>5, <2>6 DEF EndInv, OnlyHad
  <2>9. \A p \in Had : p # stored'.password /\ (OutOfUse(p) => OutOfUse(p)')
    BY <2>1, <2>2, <2>6 DEF OutOfUse, Entering
  <2>10. EndsOnTheWay'
    <3>1. ASSUME NEW x \in ResetSlot, reset'[x].pc \in {"consumed", "purging", "purged"}
          PROVE  reset'[x].ends \subseteq Had
      <4>1. CASE x = r
        BY <2>4, <2>5, <4>1
      <4>2. CASE x # r
        <5>1. reset'[x] = reset[x] /\ reset[x] # Free
          BY <2>4, <3>1, <4>2 DEF Free
        <5>. QED BY <5>1 DEF EndInv, OnlyHad
      <4>. QED BY <4>1, <4>2
    <3>2. \A x \in ResetSlot : reset'[x].pc \in {"purging", "purged"} => x # r /\ reset'[x] = reset[x]
      BY <2>4, <2>5
    <3>. QED BY <2>1, <2>9, <3>1, <3>2 DEF EndInv, EndsOnTheWay, Ending
  <2>11. EndsDone'
    BY <2>1, <2>9 DEF EndInv, EndsDone, OnlyHad
  <2>. QED BY <2>7, <2>8, <2>10, <2>11 DEF EndInv
<1>. QED BY <1>2, <1>3

(***************************************************************************)
(* A reset gets further with what it ends: only what its new place asks of *)
(* it remains to be shown.                                                 *)
(***************************************************************************)
LEMMA ResetGetsFurther ==
    ASSUME LinkInv, EndInv, NEW r \in ResetSlot, NEW pc \in {"purging", "purged"},
           reset[r] # Free, reset' = [reset EXCEPT ![r] = [reset[r] EXCEPT !.pc = pc]],
           CarriedBut(r), late \subseteq late', missed \subseteq missed', Ending(r)',
           UNCHANGED <<stored, cached, login, trusted, setBy, closed, revived>>
    PROVE  EndInv'
<1>. DEFINE s == [reset[r] EXCEPT !.pc = pc]
<1>1. s # Free /\ s.ends = reset[r].ends
  BY DEF LinkInv, ResetsTyped, Free, Resetting
<1>2. \A x \in ResetSlot : reset'[x] = IF x = r THEN s ELSE reset[x]
  BY DEF LinkInv, ResetsTyped
<1>3. Passwords(sessions') \subseteq Passwords(sessions)
  BY CarriedEnds
<1>4. LoginsTyped'
  BY DEF EndInv, LoginsTyped, CarriedBut
<1>5. OnlyHad'
  BY <1>1, <1>2, <1>3 DEF EndInv, OnlyHad, Had
<1>6. \A p : OutOfUse(p) <=> OutOfUse(p)'
  BY DEF OutOfUse, Entering
<1>7. EndsOnTheWay'
  <2>1. ASSUME NEW x \in ResetSlot, x # r PROVE Ending(x)'
    <3>1. reset'[x] = reset[x] /\ Ending(x)
      BY <1>2, <2>1 DEF EndInv, EndsOnTheWay
    <3>. QED BY <1>3, <1>6, <2>1, <3>1, CarriedEnds DEF Ending
  <2>. QED BY <2>1 DEF EndsOnTheWay
<1>8. EndsDone'
  BY <1>3, <1>6 DEF EndInv, EndsDone
<1>. QED BY <1>4, <1>5, <1>7, <1>8 DEF EndInv

(***************************************************************************)
(* Whoever is under way, and whatever row is cached, when the index is     *)
(* read counts as late; every session is found there or counts as missed.  *)
(***************************************************************************)
LEMMA ReadIndexEnds ==
    ASSUME LinkInv, EndInv, NEW r \in ResetSlot, ReadIndex(r)
    PROVE  EndInv'
<1>. DEFINE found == {s \in sessions : s.indexed}
            ends == reset[r].ends
            read(s) == [s EXCEPT !.seenBy = @ \cup {r}]
<1>1. reset[r] \in Resetting /\ reset[r] # Free /\ reset[r].pc = "consumed"
  BY DEF ReadIndex, LinkInv, ResetsTyped, Free, Resetting
<1>2. /\ late' = late \cup (ends \cap (Passwords(cached) \cup Passwords(UnderWay)))
      /\ UNCHANGED <<stored, cached, login, trusted, setBy, closed, revived>>
  BY DEF ReadIndex
<1>3. \A p \in ends \ revived : p # stored.password
  BY <1>1 DEF EndInv, EndsOnTheWay, Ending
<1>4. \A p \in ends \ (late' \cup revived) : OutOfUse(p)'
  <2>1. \A l \in Entering : login[l].password \in Passwords(UnderWay)
    BY DEF Entering, Passwords, UnderWay
  <2>2. \A p \in ends \ (late' \cup revived) : OutOfUse(p)
    BY <1>2, <1>3, <2>1 DEF OutOfUse
  <2>. QED BY <1>2, <2>2 DEF OutOfUse, Entering
<1>5. CASE /\ sessions' = (sessions \ found) \cup {read(s) : s \in found}
           /\ Misses(r, sessions \ found)
           /\ ResetStep(r, [reset[r] EXCEPT !.pc = "purging"])
  <2>1. \A s \in Session : /\ read(s) \in Session /\ read(s).password = s.password
                           /\ read(s).seenBy = s.seenBy \cup {r}
    BY DEF Session
  <2>2. sessions \subseteq Session
    BY DEF EndInv, LoginsTyped
  <2>3. ASSUME NEW t \in sessions'
        PROVE  /\ t \in Session
               /\ \E s \in sessions : From(t, s, r) /\ (r \in t.seenBy \/ s \notin found)
    <3>1. CASE t \in sessions \ found
      BY <2>2, <3>1 DEF From
    <3>2. CASE t \in {read(s) : s \in found}
      <4>1. PICK s \in found : t = read(s)
        BY <3>2
      <4>. QED BY <2>1, <2>2, <4>1 DEF From
    <3>. QED BY <1>5, <3>1, <3>2
  <2>4. CarriedBut(r)
    BY <2>3 DEF CarriedBut
  <2>5. \A p \in ends \ (late' \cup missed') : p \notin Passwords(sessions \ found)
    BY <1>5 DEF Misses
  <2>6. \A p \in ends \ (late' \cup missed') : \A t \in sessions' :
            t.password = p => r \in t.seenBy
    BY <2>3, <2>5 DEF From, Passwords
  <2>7. reset' = [reset EXCEPT ![r] = [reset[r] EXCEPT !.pc = "purging"]]
    BY <1>5 DEF ResetStep
  <2>8. reset'[r].pc = "purging" /\ reset'[r].ends = ends
    BY <1>1, <2>7 DEF LinkInv, ResetsTyped, Resetting
  <2>9. Ending(r)'
    BY <1>2, <1>3, <1>4, <2>6, <2>8 DEF Ending
  <2>10. late \subseteq late' /\ missed \subseteq missed'
    BY <1>2, <1>5 DEF Misses
  <2>. QED BY <1>1, <1>2, <2>4, <2>7, <2>9, <2>10, ResetGetsFurther
<1>6. ASSUME NEW here \in SUBSET InMemory, sessions' = sessions \ here, Misses(r, sessions),
             ResetStep(r, [reset[r] EXCEPT !.pc = "purged"])
      PROVE  EndInv'
  <2>1. CarriedBut(r)
    BY <1>6 DEF CarriedBut, From, EndInv, LoginsTyped
  <2>2. \A p \in ends \ (late' \cup missed') : p \notin Passwords(sessions')
    BY <1>6 DEF Misses, Passwords
  <2>3. reset' = [reset EXCEPT ![r] = [reset[r] EXCEPT !.pc = "purged"]]
    BY <1>6 DEF ResetStep
  <2>4. reset'[r].pc = "purged" /\ reset'[r].ends = ends
    BY <1>1, <2>3 DEF LinkInv, ResetsTyped, Resetting
  <2>5. Ending(r)'
    BY <1>2, <1>3, <1>4, <2>2, <2>4 DEF Ending
  <2>6. late \subseteq late' /\ missed \subseteq missed'
    BY <1>2, <1>6 DEF Misses
  <2>. QED BY <1>1, <1>2, <2>1, <2>3, <2>5, <2>6, ResetGetsFurther
<1>. QED BY <1>5, <1>6 DEF ReadIndex

(***************************************************************************)
(* The sessions found are deleted, or they count as missed.                *)
(***************************************************************************)
LEMMA DeleteSessionsEnds ==
    ASSUME LinkInv, EndInv, NEW r \in ResetSlot, DeleteSessions(r)
    PROVE  EndInv'
<1>. DEFINE ends == reset[r].ends
<1>1. /\ reset[r] \in Resetting /\ reset[r] # Free /\ reset[r].pc = "purging"
      /\ reset' = [reset EXCEPT ![r] = [reset[r] EXCEPT !.pc = "purged"]]
      /\ UNCHANGED <<stored, cached, login, trusted, setBy, closed, late, revived>>
  BY DEF DeleteSessions, ResetStep, LinkInv, ResetsTyped, Free, Resetting
<1>2. reset'[r].pc = "purged" /\ reset'[r].ends = ends
  BY <1>1 DEF LinkInv, ResetsTyped, Resetting
<1>3. \A p \in ends \ revived : p # stored.password
  BY <1>1 DEF EndInv, EndsOnTheWay, Ending
<1>4. \A p \in ends \ (late' \cup revived) : OutOfUse(p)'
  <2>1. \A p \in ends \ (late \cup revived) : OutOfUse(p)
    BY <1>1 DEF EndInv, EndsOnTheWay, Ending
  <2>. QED BY <1>1, <2>1 DEF OutOfUse, Entering
<1>5. PICK here \in SUBSET InMemory :
          \/ /\ sessions' = OffIndex({s \in sessions \ here : r \notin s.seenBy})
             /\ UNCHANGED missed
          \/ /\ sessions' = Unseen(sessions \ here, r)
             /\ Misses(r, sessions)
  BY DEF DeleteSessions
<1>6. sessions \subseteq Session
  BY DEF EndInv, LoginsTyped
<1>7. CarriedBut(r) /\ missed \subseteq missed'
  <2>1. CASE /\ sessions' = OffIndex({s \in sessions \ here : r \notin s.seenBy})
             /\ UNCHANGED missed
    <3>. DEFINE S == {s \in sessions \ here : r \notin s.seenBy}
    <3>1. S \in SUBSET sessions /\ sessions' = OffIndex(S)
      BY <2>1
    <3>2. Carried
      <4>. HIDE DEF S
      <4>. QED BY <1>6, <3>1, OffIndexCarries
    <3>. QED BY <2>1, <3>2, CarriedIsBut
  <2>2. CASE sessions' = Unseen(sessions \ here, r) /\ Misses(r, sessions)
    BY <1>6, <2>2, UnseenCarries DEF Misses
  <2>. QED BY <1>5, <2>1, <2>2
<1>8. \A p \in ends \ (late' \cup missed' \cup revived) : p \notin Passwords(sessions')
  <2>1. CASE /\ sessions' = OffIndex({s \in sessions \ here : r \notin s.seenBy})
             /\ UNCHANGED missed
    <3>1. \A s \in Session : [s EXCEPT !.indexed = FALSE].password = s.password
      BY DEF Session
    <3>2. \A t \in sessions' : \E s \in sessions : s.password = t.password /\ r \notin s.seenBy
      BY <1>6, <2>1, <3>1 DEF OffIndex
    <3>3. \A p \in ends \ (late \cup missed \cup revived) :
              \A s \in sessions : s.password = p => r \in s.seenBy
      BY <1>1 DEF EndInv, EndsOnTheWay, Ending
    <3>. QED BY <1>1, <2>1, <3>2, <3>3 DEF Passwords
  <2>2. CASE sessions' = Unseen(sessions \ here, r) /\ Misses(r, sessions)
    <3>1. \A p \in ends \ (late' \cup missed') : p \notin Passwords(sessions)
      BY <2>2 DEF Misses
    <3>2. Passwords(sessions') \subseteq Passwords(sessions)
      BY <1>7, CarriedEnds
    <3>. QED BY <3>1, <3>2
  <2>. QED BY <1>5, <2>1, <2>2
<1>9. Ending(r)'
  BY <1>1, <1>2, <1>3, <1>4, <1>8 DEF Ending
<1>. QED BY <1>1, <1>7, <1>9, ResetGetsFurther

LEMMA RevokeAllDevicesEnds ==
    ASSUME LinkInv, EndInv, NEW r \in ResetSlot, RevokeAllDevices(r)
    PROVE  EndInv'
<1>. USE DEF RevokeAllDevices, ResetStep
<1>. DEFINE s == [reset[r] EXCEPT !.pc = "revoked", !.ends = {}]
<1>1. s.pc = "revoked" /\ s.ends = {} /\ reset[r] # Free
  BY DEF LinkInv, ResetsTyped, Free, Resetting
<1>2. \A x \in ResetSlot : reset'[x] = IF x = r THEN s ELSE reset[x]
  BY DEF LinkInv, ResetsTyped
<1>3. LoginsTyped'
  BY DEF EndInv, LoginsTyped
<1>4. OnlyHad'
  BY <1>1, <1>2 DEF EndInv, OnlyHad, Had
<1>5. \A p : OutOfUse(p)' <=> OutOfUse(p)
  BY DEF OutOfUse, Entering
<1>6. EndsOnTheWay'
  BY <1>1, <1>2, <1>5 DEF EndInv, EndsOnTheWay, Ending
<1>7. EndsDone'
  BY <1>5 DEF EndInv, EndsDone, EndsOnTheWay, Ending
<1>. QED BY <1>3, <1>4, <1>6, <1>7 DEF EndInv

LEMMA ResetEnds ==
    ASSUME LinkInv, EndInv, NEW r \in ResetSlot,
           \/ \E k \in Link : VerifyLink(r, k)
           \/ VerifyAgain(r) \/ UnlockAccount(r) \/ AbortReset(r)
    PROVE  EndInv'
<1>. USE DEF ResetStep, resetHistory
<1>0. sessions \subseteq Session /\ (sessions' = sessions => CarriedBut(r))
  BY DEF CarriedBut, From, EndInv, LoginsTyped
<1>1. ASSUME NEW k \in Link, VerifyLink(r, k) PROVE EndInv'
  BY <1>0, <1>1, ResetRests DEF VerifyLink
<1>2. CASE VerifyAgain(r)
  <2>. DEFINE s == [reset[r] EXCEPT !.pc = "reverified"]
  <2>1. s.pc = "reverified" /\ s.ends = reset[r].ends /\ reset[r] # Free
    BY <1>2 DEF VerifyAgain, LinkInv, ResetsTyped, Free, Resetting
  <2>2. s.ends \subseteq Had
    BY <2>1 DEF EndInv, OnlyHad
  <2>3. CASE Open(reset[r].link)
    BY <1>0, <1>2, <2>1, <2>2, <2>3, ResetRests DEF VerifyAgain
  <2>4. CASE ~Open(reset[r].link)
    BY <1>0, <1>2, <2>4, ResetRests DEF VerifyAgain, Free
  <2>. QED BY <2>3, <2>4
<1>3. CASE UnlockAccount(r)
  BY <1>0, <1>3, ResetRests DEF UnlockAccount, Free
<1>4. CASE AbortReset(r)
  <2>1. CarriedBut(r)
    BY <1>0, <1>4, UnseenCarries DEF AbortReset
  <2>. QED BY <1>4, <2>1, ResetRests DEF AbortReset, Free
<1>. QED BY <1>1, <1>2, <1>3, <1>4

LEMMA LoginEnds ==
    ASSUME EndInv, NEW l \in LoginSlot,
           \/ CheckPassword(l) \/ Rehash(l) \/ PresentDevice(l) \/ AskSecondFactor(l)
           \/ OpenSession(l) \/ TrustDevice(l) \/ ForgetChallenge(l)
    PROVE  EndInv'
<1>. USE DEF LoginStep
<1>. DEFINE at(pc) == [login[l] EXCEPT !.pc = pc]
<1>1. ASSUME login[l].pc # "free"
      PROVE  /\ login[l] # Free
             /\ \A pc \in {"recognized", "challenged", "remember"} :
                    at(pc) \in LoggingIn /\ at(pc).password = login[l].password
  BY <1>1 DEF EndInv, LoginsTyped, LoggingIn, Free
<1>2. sessions \subseteq Session
  BY DEF EndInv, LoginsTyped
<1>3. CASE PresentDevice(l)
  BY <1>1, <1>2, <1>3, LoginGoesOn DEF PresentDevice
<1>4. CASE AskSecondFactor(l)
  BY <1>1, <1>2, <1>4, LoginGoesOn DEF AskSecondFactor
<1>5. CASE OpenSession(l)
  <2>1. login[l] \in LoggingIn
    BY <1>1, <1>5 DEF OpenSession, EndInv, LoginsTyped
  <2>2. PICK entered \in BOOLEAN :
            sessions' = sessions \cup {[password |-> login[l].password, indexed |-> entered,
                                       seenBy |-> {}]}
    BY <1>5 DEF OpenSession
  <2>3. /\ sessions' \subseteq Session
        /\ \A t \in sessions' : t \in sessions \/ t.password = login[l].password
    BY <1>2, <2>1, <2>2 DEF Session, LoggingIn
  <2>. QED BY <1>1, <1>5, <2>3, LoginGoesOn DEF OpenSession
<1>6. CASE TrustDevice(l)
  BY <1>1, <1>2, <1>6, LoginGoesOn DEF TrustDevice
<1>7. CASE ForgetChallenge(l)
  BY <1>1, <1>2, <1>7, LoginGoesOn DEF ForgetChallenge
<1>. QED BY <1>3, <1>4, <1>5, <1>6, <1>7, CheckPasswordEnds, RehashEnds

LEMMA OthersEnd ==
    ASSUME EndInv,
           \/ LockAccount \/ IndexExpires
           \/ \E row \in Row : ForgetRow(row)
           \/ \E s \in sessions : Logout(s)
           \/ \E p \in Password : RevokeDevice(p)
           \/ \E f \in ForgotSlot : ClearLinks(f) \/ IssueLink(f)
           \/ \E k \in Link : ExpireLink(k)
           \/ UNCHANGED resetVars
    PROVE  EndInv'
<1>1. /\ UNCHANGED <<stored, login, reset, setBy, closed, late, missed, revived>>
      /\ cached' \subseteq cached /\ trusted' \subseteq trusted
      /\ sessions' \subseteq sessions \/ sessions' = OffIndex(sessions)
  BY DEF LockAccount, IndexExpires, ForgetRow, Logout, RevokeDevice, ClearLinks, IssueLink,
         ExpireLink, resetVars, resetHistory
<1>2. sessions \subseteq Session
  BY DEF EndInv, LoginsTyped
<1>3. Carried
  <2>1. CASE sessions' \subseteq sessions
    BY <1>2, <2>1 DEF Carried
  <2>2. CASE sessions' = OffIndex(sessions)
    BY <1>2, <2>2, OffIndexCarries
  <2>. QED BY <1>1, <2>1, <2>2
<1>. QED BY <1>1, <1>3, EndsAlone

LEMMA EndStep == LinkInv /\ EndInv /\ [ResetNext]_resetVars => EndInv'
<1>. SUFFICES ASSUME LinkInv, EndInv, [ResetNext]_resetVars PROVE EndInv'
  OBVIOUS
<1>. QED BY LoginEnds, OthersEnd, ConsumeEnds, ReadIndexEnds, DeleteSessionsEnds,
            RevokeAllDevicesEnds, ResetEnds
         DEF ResetNext

(***************************************************************************)
(* After a completed reset no session, no trusted device and no further    *)
(* login rests on an earlier password, but for logins under way and rows   *)
(* cached when the index was read, sessions off the index or left by an    *)
(* error of Redis, and passwords that a rehash wrote back; other resets,   *)
(* finished, crashed or still on their way, change nothing of it.          *)
(***************************************************************************)
THEOREM OldLoginsEnd == ResetSpec => []ResetEndsOldLogins
<1>1. ResetSpec => [](LinkInv /\ EndInv)
  BY InitLinks, InitEnds, LinkStep, EndStep, PTL DEF ResetSpec
<1>2. EndInv => ResetEndsOldLogins
  BY DEF EndInv, EndsDone, OutOfUse, ResetEndsOldLogins
<1>. QED BY <1>1, <1>2, PTL

(***************************************************************************)
(* What the two invariants leave open of the types.                        *)
(***************************************************************************)
RestTyped == locked \in BOOLEAN /\ late \cup missed \cup revived \subseteq Password

LEMMA RestStep == LinkInv /\ EndInv /\ RestTyped /\ [ResetNext]_resetVars => RestTyped'
<1>. SUFFICES ASSUME LinkInv, EndInv, RestTyped, [ResetNext]_resetVars PROVE RestTyped'
  OBVIOUS
<1>1. \A l \in LoginSlot : login[l] # Free => login[l].password \in Password
  BY DEF EndInv, LoginsTyped, LoggingIn
<1>2. ASSUME NEW l \in LoginSlot, Rehash(l) PROVE RestTyped'
  <2>1. login[l] # Free
    BY <1>2 DEF Rehash, Free
  <2>. QED BY <1>1, <1>2, <2>1 DEF Rehash, LoginStep, RestTyped
<1>3. ASSUME NEW r \in ResetSlot, ReadIndex(r) \/ DeleteSessions(r) PROVE RestTyped'
  <2>1. reset[r].ends \subseteq Password
    BY <1>3 DEF ReadIndex, DeleteSessions, LinkInv, ResetsTyped, Free, Resetting
  <2>2. late' \subseteq late \cup reset[r].ends /\ missed' \subseteq missed \cup reset[r].ends
    BY <1>3 DEF ReadIndex, DeleteSessions, Misses
  <2>3. UNCHANGED <<locked, revived>>
    BY <1>3 DEF ReadIndex, DeleteSessions
  <2>. QED BY <2>1, <2>2, <2>3 DEF RestTyped
<1>4. ASSUME NEW r \in ResetSlot, UnlockAccount(r) PROVE RestTyped'
  BY <1>4 DEF UnlockAccount, resetHistory, RestTyped
<1>5. CASE LockAccount
  BY <1>5 DEF LockAccount, resetHistory, RestTyped
<1>6. CASE UNCHANGED <<locked, late, missed, revived>>
  BY <1>6 DEF RestTyped
<1>7. ASSUME NEW l \in LoginSlot,
             \/ CheckPassword(l) \/ PresentDevice(l) \/ AskSecondFactor(l)
             \/ OpenSession(l) \/ TrustDevice(l) \/ ForgetChallenge(l)
      PROVE  UNCHANGED <<locked, late, missed, revived>>
  BY <1>7 DEF CheckPassword, PresentDevice, AskSecondFactor, OpenSession, TrustDevice,
              ForgetChallenge, LoginStep
<1>8. ASSUME NEW r \in ResetSlot,
             \/ \E k \in Link : VerifyLink(r, k)
             \/ VerifyAgain(r) \/ Consume(r) \/ RevokeAllDevices(r) \/ AbortReset(r)
      PROVE  UNCHANGED <<locked, late, missed, revived>>
  BY <1>8 DEF VerifyLink, VerifyAgain, Consume, RevokeAllDevices, AbortReset, resetHistory
<1>9. ASSUME \/ IndexExpires
             \/ \E row \in Row : ForgetRow(row)
             \/ \E s \in sessions : Logout(s)
             \/ \E p \in Password : RevokeDevice(p)
             \/ \E f \in ForgotSlot : ClearLinks(f) \/ IssueLink(f)
             \/ \E k \in Link : ExpireLink(k)
             \/ UNCHANGED resetVars
      PROVE  UNCHANGED <<locked, late, missed, revived>>
  BY <1>9 DEF IndexExpires, ForgetRow, Logout, RevokeDevice, ClearLinks, IssueLink, ExpireLink,
              resetHistory, resetVars
<1>. QED BY <1>2, <1>3, <1>4, <1>5, <1>6, <1>7, <1>8, <1>9 DEF ResetNext

LEMMA ResetHolds == LinkInv /\ EndInv /\ RestTyped => ResetTypeOK
<1>. SUFFICES ASSUME LinkInv, EndInv, RestTyped PROVE ResetTypeOK
  OBVIOUS
<1>1. Had \subseteq Password
  BY PasswordResetAssumption DEF Had, Password, Link
<1>2. trusted \cup closed \subseteq Password
  BY <1>1 DEF EndInv, OnlyHad
<1>3. setBy \in [Link -> Nat]
  BY DEF LinkInv, LinksTyped
<1>. QED BY <1>2, <1>3 DEF LinkInv, LinksTyped, ResetsTyped, Resetting, EndInv, LoginsTyped,
                           LoggingIn, RestTyped, ResetTypeOK

LEMMA ResetTypes == ResetSpec => []ResetTypeOK
<1>1. ResetInit => RestTyped
  BY DEF ResetInit, RestTyped
<1>2. ResetSpec => [](LinkInv /\ EndInv /\ RestTyped)
  BY <1>1, InitLinks, InitEnds, LinkStep, EndStep, RestStep, PTL DEF ResetSpec
<1>. QED BY <1>2, ResetHolds, PTL
================================================================================
