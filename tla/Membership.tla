------------------------------ MODULE Membership ------------------------------
(***************************************************************************)
(* Workspaces, memberships and invitations (workspace_repository.py,       *)
(* api/v1/workspace_router.py) and the older system-wide team table        *)
(* (task_repository.py, api/v1/team_router.py), which is scope 0 here.     *)
(*                                                                         *)
(* A person is his e-mail address.  A request of an administrator first    *)
(* finds out whether he may (Permit) and acts in a later transaction.      *)
(* Accepting an invitation is four: read the invitation, read the account, *)
(* write the account, activate the membership.  Each transaction is one    *)
(* action.  Accounts are read through the caches of the workers, which may *)
(* still serve a list of roles that has been replaced (UserCache is about  *)
(* how long), or that a handler has edited in place and not written yet.   *)
(***************************************************************************)
EXTENDS Integers, FiniteSets, Roles

CONSTANTS
    Account,        \* persons, by address
    Registered,     \* those that have an account at first, as viewers ...
    Root,           \* ... and those of them that are administrators
    Subject,        \* persons that requests name by address
    InviteRole,     \* roles named in invitations and role changes
    Name,           \* display names, which may be somebody's address
    Slot,           \* slots for requests running at the same time
    MaxWorkspaces,  \* bound on the workspaces ever created
    MaxRequests,    \* bound on the requests of administrators, enrolments and sign-ups included
    MaxTokens       \* bound on the invitations ever issued

ASSUME MembershipAssumption ==
    /\ Registered \subseteq Account /\ Root \subseteq Registered
    /\ Subject \subseteq Account /\ InviteRole \subseteq Role
    /\ Name \ Account # {}
    /\ MaxWorkspaces \in Nat /\ MaxTokens \in Nat /\ MaxRequests \in Nat

ASSUME FiniteSlots == IsFiniteSet(Slot)

VARIABLES
    asked,          \* requests so far, against MaxRequests
    made, live,     \* workspaces created so far; those that still exist
    member,         \* rows of workspace_members, and of team_members in scope 0
    registered,     \* persons that have an account
    roles,          \* the global roles in their user rows
    cached,         \* what caches may serve besides: rows replaced, edited or deleted
    tokens,         \* invitation tokens issued so far
    forTeam,        \* those of the team table
    req,            \* state of each request
    granted,        \* roles ever given to a person (history)
    aliased,        \* persons whose row was changed in another's name (history)
    logins,         \* logins that ended the acceptance of each token (history)
    accepted,       \* roles a person accepted and did not lose since (history)
    behind,         \* acceptances under way whose roles are not those stored, because
                    \* they came from a cache or another has written since (history)
    clashed,        \* persons whose roles such an acceptance wrote (history)
    appointed       \* persons to whom an administrator gave an account (history)

history == <<granted, aliased, logins, accepted, behind, clashed, appointed>>
vars    == <<asked, made, live, member, registered, roles, cached, tokens, forTeam, req, history>>

Workspace == 1..MaxWorkspaces
Scope     == {0} \cup Workspace
Token     == 1..MaxTokens

Row == [status: {"invited", "active"}, role: Role, token: {0} \cup Token,
        expired: BOOLEAN, name: Name]
NoRow == [status |-> "none"]

\* A user row as a cache holds it; the account may be gone since.
Copy == [roles: SUBSET Role, gone: BOOLEAN]

\* In the place of the account's roles: there was none; it was deleted since.
Unregistered == {"none"}
Deleted      == {"gone"}

Request ==
    [pc: {"permitted"}, op: {"invite", "role", "remove", "delete", "create"}, by: Account, w: Scope]
    \cup [pc: {"deleted"}, who: Account]
    \cup [pc: {"invited", "loaded", "saved"}, w: Scope, who: Account, role: Role, token: Token,
          roles: {Unregistered, Deleted} \cup SUBSET Role]
Idle == [pc |-> "idle"]

TypeOK ==
    /\ asked \in 0..MaxRequests
    /\ made \in 0..MaxWorkspaces /\ live \subseteq 1..made
    /\ member \in [Scope -> [Account -> {NoRow} \cup Row]]
    /\ registered \subseteq Account
    /\ roles \in [Account -> SUBSET Role] /\ cached \in [Account -> SUBSET Copy]
    /\ tokens \in 0..MaxTokens /\ forTeam \subseteq 1..tokens
    /\ req \in [Slot -> {Idle} \cup Request]
    /\ granted \in [Account -> SUBSET Role]
    /\ aliased \cup clashed \cup appointed \subseteq Account /\ behind \subseteq Slot
    /\ logins \in [Token -> Nat]
    /\ accepted \in [Account -> SUBSET Role]

InitialRoles(u) ==
    (IF u \in Registered THEN {"viewer"} ELSE {}) \cup (IF u \in Root THEN {"admin"} ELSE {})

Init ==
    /\ asked = 0
    /\ made = 0 /\ live = {}
    /\ member = [w \in Scope |-> [u \in Account |-> NoRow]]
    /\ registered = Registered
    /\ roles = [u \in Account |-> InitialRoles(u)]
    /\ cached = [u \in Account |-> {}]
    /\ tokens = 0 /\ forTeam = {}
    /\ req = [r \in Slot |-> Idle]
    /\ granted = roles
    /\ aliased = {} /\ behind = {} /\ clashed = {} /\ appointed = {}
    /\ logins = [t \in Token |-> 0]
    /\ accepted = [u \in Account |-> {}]

Goto(r, state) == req' = [req EXCEPT ![r] = state]
Finish(r)      == Goto(r, Idle)
Grant(u, role) == granted' = [granted EXCEPT ![u] = @ \cup {role}]

Ask == asked < MaxRequests /\ asked' = asked + 1

\* The rows an identifier means: e-mail or display name in a workspace, the
\* e-mail alone in the team table.
Matching(w, i) ==
    {e \in Account : /\ member[w][e] # NoRow
                     /\ \/ e = i
                        \/ w # 0 /\ member[w][e].name = i}

\* The rows that get_by_id and get_by_identifier may return.
Current(u) == [roles |-> roles[u], gone |-> FALSE]
Served(u)  == (IF u \in registered THEN {Current(u)} ELSE {}) \cup cached[u]

\* has_role.  get_member returns some row that the caller's address matches,
\* as member's address or as display name.
HasRole(u, need, w) ==
    \E row \in Served(u) :
        \/ "superadmin" \in row.roles
        \/ need \in Expand(row.roles)
        \/ /\ w \in live
           /\ \E e \in Matching(w, u) :
                  /\ member[w][e].status = "active"
                  /\ need \in Expand({member[w][e].role})

------------------------------------------------------------------------------
(* Requests of administrators *)

\* create_workspace: whoever creates a workspace is its administrator.
CreateWorkspace(u, n) ==
    /\ u \in registered /\ made < MaxWorkspaces
    /\ made' = made + 1
    /\ live' = live \cup {made'}
    /\ member' = [member EXCEPT ![made'][u] =
                      [status |-> "active", role |-> "admin", token |-> 0, expired |-> FALSE, name |-> n]]
    /\ Grant(u, "admin")
    /\ UNCHANGED <<asked, registered, roles, cached, tokens, forTeam, req,
                   aliased, logins, accepted, behind, clashed, appointed>>

\* What the request is to change is looked at only in the later transaction.
Permit(r, u, op, w) ==
    /\ req[r] = Idle
    /\ Ask
    /\ HasRole(u, "admin", w)
    /\ Goto(r, [pc |-> "permitted", op |-> op, by |-> u, w |-> w])
    /\ UNCHANGED <<made, live, member, registered, roles, cached, tokens, forTeam, history>>

Permitted(r, op) == req[r].pc = "permitted" /\ req[r].op = op
Gone(w) == w # 0 /\ w \notin live

\* The workspace was deleted after the check: the request is refused.
RefuseGone(r) ==
    /\ req[r].pc = "permitted" /\ Gone(req[r].w)
    /\ Finish(r)
    /\ UNCHANGED <<asked, made, live, member, registered, roles, cached, tokens, forTeam, history>>

\* The row an invitation writes over whatever the address had.
Invitation(n, role) ==
    [status |-> "invited", role |-> role, token |-> tokens + 1, expired |-> FALSE, name |-> n]

\* A new token, of a workspace or of the team table.
IssueToken(w) ==
    /\ tokens < MaxTokens /\ tokens' = tokens + 1
    /\ forTeam' = IF w = 0 THEN forTeam \cup {tokens'} ELSE forTeam

\* Mutant: an invitation that leaves the token of an earlier row.
InviteKeepingToken(r, who, role) ==
    LET w == req[r].w IN
    /\ Permitted(r, "invite") /\ ~Gone(w) /\ IssueToken(w)
    /\ \E n \in Name \ Account :
           member' = [member EXCEPT ![w][who] =
                          IF @ = NoRow THEN Invitation(n, role)
                          ELSE [Invitation(n, role) EXCEPT !.token = member[w][who].token]]
    /\ Grant(who, role)
    /\ Finish(r)
    /\ UNCHANGED <<asked, made, live, registered, roles, cached, aliased, logins, accepted,
                   behind, clashed, appointed>>

\* invite_member: an upsert, which turns a membership into an invitation.
InviteMember(r, who, role) ==
    LET w == req[r].w IN
    /\ Permitted(r, "invite") /\ ~Gone(w) /\ IssueToken(w)
    /\ \E n \in Name \ Account : member' = [member EXCEPT ![w][who] = Invitation(n, role)]
    /\ Grant(who, role)
    /\ Finish(r)
    /\ UNCHANGED <<asked, made, live, registered, roles, cached, aliased, logins, accepted,
                   behind, clashed, appointed>>

\* Mutant: the condition on the identifier is lost.
WithEveryRole(w, i, role) ==
    [member EXCEPT ![w] =
        [e \in Account |-> IF @[e] = NoRow THEN NoRow ELSE [@[e] EXCEPT !.role = role]]]

\* The UPDATE changes every row of the workspace the identifier matches.
WithRole(w, i, role) ==
    [member EXCEPT ![w] =
        [e \in Account |-> IF e \in Matching(w, i) THEN [@[e] EXCEPT !.role = role] ELSE @[e]]]

UpdateMemberRole(r, i, role) ==
    LET w    == req[r].w
        rows == Matching(w, i)
    IN  /\ Permitted(r, "role") /\ ~Gone(w)
        /\ member' = WithRole(w, i, role)
        /\ IF i \in Account THEN Grant(i, role) ELSE UNCHANGED granted
        /\ aliased' = aliased \cup (rows \ {i})
        /\ Finish(r)
        /\ UNCHANGED <<asked, made, live, registered, roles, cached, tokens, forTeam, logins,
                       accepted, behind, clashed, appointed>>

\* The DELETE takes every row of the workspace the identifier matches.
Without(w, i) ==
    [member EXCEPT ![w] = [e \in Account |-> IF e \in Matching(w, i) THEN NoRow ELSE @[e]]]

\* The caller's own address is refused.
RemoveMember(r, i) ==
    LET w == req[r].w IN
    /\ Permitted(r, "remove") /\ w # 0 /\ ~Gone(w)
    /\ member' = IF i = req[r].by THEN member ELSE Without(w, i)
    /\ Finish(r)
    /\ UNCHANGED <<asked, made, live, registered, roles, cached, tokens, forTeam, history>>

\* delete_workspace, and the database removes its memberships.
DeleteWorkspace(r) ==
    LET w == req[r].w IN
    /\ Permitted(r, "delete") /\ w \in live
    /\ live' = live \ {w}
    /\ member' = [member EXCEPT ![w] = [e \in Account |-> NoRow]]
    /\ Finish(r)
    /\ UNCHANGED <<asked, made, registered, roles, cached, tokens, forTeam, history>>

\* An acceptance that goes on with the id of u's account.
Holds(x, u) ==
    /\ req[x].pc \in {"loaded", "saved"} /\ req[x].who = u
    /\ req[x].pc = "loaded" => req[x].roles # Unregistered

\* remove_team_member: first the account, then the row of the team table.
DeleteAccount(r, who) ==
    LET q == req[r] IN
    /\ Permitted(r, "remove") /\ q.w = 0 /\ q.by # who
    /\ registered' = registered \ {who}
    /\ IF who \in registered
       THEN /\ roles' = [roles EXCEPT ![who] = {}]
            /\ cached' = [cached EXCEPT ![who] = {[c EXCEPT !.gone = TRUE] : c \in Served(who)}]
            /\ accepted' = [accepted EXCEPT ![who] = {}]
       ELSE UNCHANGED <<roles, cached, accepted>>
    /\ req' = [x \in Slot |->
                   IF x = r THEN [pc |-> "deleted", who |-> who]
                   ELSE IF Holds(x, who) THEN [req[x] EXCEPT !.roles = Deleted] ELSE req[x]]
    /\ UNCHANGED <<asked, made, live, member, tokens, forTeam, granted, aliased, logins,
                   behind, clashed, appointed>>

\* admin_create_user: create_user refuses an address that has an account.
CreateUser(r, who, role) ==
    /\ Permitted(r, "create")
    /\ IF who \in registered
       THEN UNCHANGED <<registered, roles, granted, appointed>>
       ELSE /\ registered' = registered \cup {who}
            /\ appointed' = appointed \cup {who}
            /\ roles' = [roles EXCEPT ![who] = {role}]
            /\ Grant(who, role)
    /\ Finish(r)
    /\ UNCHANGED <<asked, made, live, member, cached, tokens, forTeam, aliased, logins, accepted,
                   behind, clashed>>

RemoveTeamRow(r) ==
    /\ req[r].pc = "deleted"
    /\ member' = [member EXCEPT ![0][req[r].who] = NoRow]
    /\ Finish(r)
    /\ UNCHANGED <<asked, made, live, registered, roles, cached, tokens, forTeam, history>>

\* add_member, called by the embedding application; a token stays in the row.
AddMember(w, u, role) ==
    /\ w \in live
    /\ Ask
    /\ member' = [member EXCEPT ![w][u] =
                      IF @ = NoRow
                      THEN [status |-> "active", role |-> role, token |-> 0,
                            expired |-> FALSE, name |-> CHOOSE n \in Name : n \notin Account]
                      ELSE [@ EXCEPT !.status = "active", !.role = role]]
    /\ Grant(u, role)
    /\ UNCHANGED <<made, live, registered, roles, cached, tokens, forTeam, req,
                   aliased, logins, accepted, behind, clashed, appointed>>

\* create_user for an address that has no account.
NewViewer(u) ==
    /\ u \notin registered
    /\ Ask
    /\ registered' = registered \cup {u}
    /\ roles' = [roles EXCEPT ![u] = {"viewer"}]
    /\ Grant(u, "viewer")
    /\ UNCHANGED <<made, live, member, cached, tokens, forTeam, req,
                   aliased, logins, accepted, behind, clashed, appointed>>

\* The public registration, and the first OAuth login of an address.
Register(u)  == NewViewer(u)
Provision(u) == NewViewer(u)

------------------------------------------------------------------------------
(* Accepting an invitation *)

\* A look-up by token finds the row, in any state of it.
HasToken(w, e, t) == member[w][e] # NoRow /\ member[w][e].token = t /\ t # 0

\* Mutant: an accepted row, whose token is gone, is found as well.
StandsAccepted(w, e, t) ==
    /\ member[w][e] # NoRow /\ member[w][e].token = t
    /\ w # 0 => member[w][e].status = "invited"

\* get_invitation_by_token: a workspace invitation must still be pending, the
\* team table is asked for the token alone.
Stands(w, e, t) ==
    /\ HasToken(w, e, t)
    /\ w # 0 => member[w][e].status = "invited"

ReadInvitation(r, w, e) ==
    /\ req[r] = Idle
    /\ member[w][e] # NoRow /\ Stands(w, e, member[w][e].token)
    /\ ~member[w][e].expired
    /\ Goto(r, [pc |-> "invited", w |-> w, who |-> e,
                role |-> member[w][e].role, token |-> member[w][e].token, roles |-> {}])
    /\ UNCHANGED <<asked, made, live, member, registered, roles, cached, tokens, forTeam, history>>

\* The account of the address, stored or cached, or that there is none.  The
\* role is appended to the list in place, which is the list in this worker's
\* cache.
LoadAccount(r) ==
    LET q == req[r] IN
    /\ q.pc = "invited"
    /\ \/ \E row \in Served(q.who) :
              /\ Goto(r, [q EXCEPT !.pc = "loaded",
                                   !.roles = IF row.gone THEN Deleted ELSE row.roles])
              /\ cached' = IF q.role \in row.roles THEN cached
                           ELSE [cached EXCEPT ![q.who] =
                                     @ \cup {[row EXCEPT !.roles = @ \cup {q.role}]}]
              /\ behind' = IF row = Current(q.who) THEN behind \ {r} ELSE behind \cup {r}
       \/ /\ q.who \notin registered
          /\ Goto(r, [q EXCEPT !.pc = "loaded", !.roles = Unregistered])
          /\ UNCHANGED <<cached, behind>>
    /\ UNCHANGED <<asked, made, live, member, registered, roles, tokens, forTeam,
                   granted, aliased, logins, accepted, clashed, appointed>>

\* accept_invitation of the team table: one UPDATE on the token.
MarkedInTeam(q) ==
    IF HasToken(0, q.who, q.token)
    THEN [member EXCEPT ![0][q.who].status = "active", ![0][q.who].token = 0]
    ELSE member

\* update_user: caches still hold the row it replaces, and acceptances that
\* have read that row go on with it.
WriteRoles(r, list) ==
    LET u == req[r].who IN
    /\ roles' = [roles EXCEPT ![u] = list]
    /\ cached' = [cached EXCEPT ![u] = (@ \cup {Current(u)}) \ {[roles |-> list, gone |-> FALSE]}]
    /\ behind' = (behind \ {r}) \cup
                     {x \in Slot \ {r} : req[x].pc = "loaded" /\ req[x].who = u}
    /\ clashed' = IF r \in behind THEN clashed \cup {u} ELSE clashed

\* Mutant: the invitation's role replaces the roles of the account.
SaveOnlyInvited(r) ==
    LET q == req[r] IN
    /\ q.pc = "loaded" /\ q.roles \notin {Unregistered, Deleted}
    /\ WriteRoles(r, {q.role})
    /\ Goto(r, [q EXCEPT !.pc = "saved"])
    /\ UNCHANGED <<asked, made, live, member, registered, tokens, forTeam,
                   granted, aliased, logins, accepted, appointed>>

\* update_user with the roles read before and the invitation's role.
SaveAccount(r) ==
    LET q == req[r] IN
    /\ q.pc = "loaded" /\ q.roles \notin {Unregistered, Deleted}
    /\ WriteRoles(r, q.roles \cup {q.role})
    /\ Goto(r, [q EXCEPT !.pc = "saved"])
    /\ UNCHANGED <<asked, made, live, member, registered, tokens, forTeam,
                   granted, aliased, logins, accepted, appointed>>

\* create_user.
RegisterAccount(r) ==
    LET q == req[r] IN
    /\ q.pc = "loaded" /\ q.roles = Unregistered /\ q.who \notin registered
    /\ registered' = registered \cup {q.who}
    /\ roles' = [roles EXCEPT ![q.who] = {q.role}]
    /\ Goto(r, [q EXCEPT !.pc = "saved"])
    /\ UNCHANGED <<asked, made, live, member, cached, tokens, forTeam, history>>

\* The account is gone, but a cache still has its row for get_by_id: the
\* handler does not notice.
MissAccount(r) ==
    LET q == req[r] IN
    /\ q.pc = "loaded" /\ q.roles = Deleted
    /\ \E row \in cached[q.who] : row.gone
    /\ Goto(r, [q EXCEPT !.pc = "saved"])
    /\ UNCHANGED <<asked, made, live, member, registered, roles, cached, tokens, forTeam, history>>

\* The account was created by another request, or deleted, in between: the
\* handler raises, that of the team table after it has marked the invitation.
AccountMoved(r) ==
    LET q == req[r] IN
    /\ q.pc = "loaded"
    /\ q.roles = Deleted \/ (q.roles = Unregistered /\ q.who \in registered)
    /\ member' = IF q.roles = Deleted /\ q.w = 0 THEN MarkedInTeam(q) ELSE member
    /\ Finish(r)
    /\ UNCHANGED <<asked, made, live, registered, roles, cached, tokens, forTeam, history>>

\* The acceptance ends with tokens and a session for the account.
LogIn(q) ==
    /\ logins' = [logins EXCEPT ![q.token] = @ + 1]
    /\ accepted' = IF q.roles # Deleted
                   THEN [accepted EXCEPT ![q.who] = @ \cup {q.role}] ELSE accepted

\* Mutant: the membership is found by address, not by the token.
ActivateByAddress(r) ==
    LET q == req[r] IN
    /\ q.pc = "saved" /\ q.w # 0
    /\ member' = IF member[q.w][q.who] # NoRow
                 THEN [member EXCEPT ![q.w][q.who].status = "active", ![q.w][q.who].token = 0]
                 ELSE member
    /\ LogIn(q)
    /\ Finish(r)
    /\ UNCHANGED <<asked, made, live, registered, roles, cached, tokens, forTeam, granted, aliased,
                   behind, clashed, appointed>>

\* accept_invitation of the workspace repository: one UPDATE on the token,
\* which raises when the account it names is gone.
Activate(r) ==
    LET q == req[r] IN
    /\ q.pc = "saved" /\ q.w # 0
    /\ IF q.roles # Deleted /\ Stands(q.w, q.who, q.token) /\ ~member[q.w][q.who].expired
       THEN /\ \E n \in Name :
                   member' = [member EXCEPT ![q.w][q.who].status = "active",
                                            ![q.w][q.who].token = 0,
                                            ![q.w][q.who].name = n]
            /\ LogIn(q)
       ELSE UNCHANGED <<member, logins, accepted>>
    /\ Finish(r)
    /\ UNCHANGED <<asked, made, live, registered, roles, cached, tokens, forTeam, granted, aliased,
                   behind, clashed, appointed>>

\* The handler of the team table logs in whatever the UPDATE answered.
ActivateTeam(r) ==
    LET q == req[r] IN
    /\ q.pc = "saved" /\ q.w = 0
    /\ member' = MarkedInTeam(q)
    /\ LogIn(q)
    /\ Finish(r)
    /\ UNCHANGED <<asked, made, live, registered, roles, cached, tokens, forTeam, granted, aliased,
                   behind, clashed, appointed>>

\* An OAuth login writes the name its provider knows into every membership of
\* the address.
SyncName(u, n) ==
    /\ u \in registered
    /\ member' = [w \in Scope |->
                     IF w = 0 \/ member[w][u] = NoRow THEN member[w]
                     ELSE [member[w] EXCEPT ![u].name = n]]
    /\ member' # member
    /\ UNCHANGED <<asked, made, live, registered, roles, cached, tokens, forTeam, req, history>>

\* The last worker has handled the invalidation, or its copy has expired.
Forget(u) ==
    /\ cached[u] # {} /\ cached' = [cached EXCEPT ![u] = {}]
    /\ UNCHANGED <<asked, made, live, member, registered, roles, tokens, forTeam, req, history>>

Expire(w, e) ==
    /\ member[w][e] # NoRow /\ member[w][e].token # 0 /\ ~member[w][e].expired
    /\ member' = [member EXCEPT ![w][e].expired = TRUE]
    /\ UNCHANGED <<asked, made, live, registered, roles, cached, tokens, forTeam, req, history>>

------------------------------------------------------------------------------
Administer(r, u) ==
    \/ \E w \in live, op \in {"invite", "role", "remove", "delete"} : Permit(r, u, op, w)
    \/ \E op \in {"invite", "remove", "create"} : Permit(r, u, op, 0)

Proceed(r) ==
    \/ \E e \in Subject, role \in InviteRole : InviteMember(r, e, role)
    \/ \E i \in Subject \cup Name, role \in InviteRole : UpdateMemberRole(r, i, role)
    \/ \E i \in Subject \cup Name : RemoveMember(r, i)
    \/ \E e \in Subject : DeleteAccount(r, e)
    \/ \E e \in Subject, role \in InviteRole : CreateUser(r, e, role)
    \/ RefuseGone(r) \/ DeleteWorkspace(r) \/ RemoveTeamRow(r)
    \/ LoadAccount(r) \/ SaveAccount(r) \/ RegisterAccount(r) \/ MissAccount(r)
    \/ AccountMoved(r) \/ Activate(r) \/ ActivateTeam(r)

Next ==
    \/ \E u \in Account, n \in Name : CreateWorkspace(u, n)
    \/ \E r \in Slot, u \in Account : Administer(r, u)
    \/ \E r \in Slot, w \in Scope, e \in Account : ReadInvitation(r, w, e)
    \/ \E r \in Slot : Proceed(r)
    \/ \E w \in Workspace, u \in Subject, role \in InviteRole : AddMember(w, u, role)
    \/ \E u \in Account, n \in Name : SyncName(u, n)
    \/ \E u \in Account : Register(u) \/ Provision(u)
    \/ \E w \in Scope, e \in Account : Expire(w, e)
    \/ \E u \in Account : Forget(u)

Spec == Init /\ [][Next]_vars

------------------------------------------------------------------------------
(* Properties *)

\* Whoever passes has_role holds a role that an administrator (or founding a
\* workspace) gave him: no order of invitations, role changes, removals and
\* acceptances makes one.  Two ways to come by authority are the code's and
\* excepted: somebody's display name is his address, or a role change meant
\* for another matched him by display name.
AuthorityWasGranted ==
    \A u \in Account \ aliased, w \in Scope :
        (\A e \in Matching(w, u) : e = u) =>
            \A need \in Role : HasRole(u, need, w) =>
                need \in Expand(granted[u])

\* README.md: "isolated organizational tenant boundaries".  Where nothing but
\* workspace invitations was issued, an administrator of a workspace is one of
\* its administrators, was one from the start or was given the account.
TenantsIsolated ==
    forTeam = {} =>
        \A u \in Account \ (Root \cup appointed), w \in live : HasRole(u, "admin", w) =>
            \E e \in Matching(w, u) : member[w][e].role = "admin"

\* However many requests accept one invitation at once, one of them logs in
\* through a workspace invitation; the team table's handler ignores what its
\* UPDATE answers and logs in every request that had read the invitation.
InvitationUses ==
    \A t \in Token : logins[t] <= IF t \in forTeam THEN Cardinality(Slot) ELSE 1

\* A role that was accepted stays in the account, whatever invitations are
\* accepted next to it, unless one of the acceptances wrote a list of roles
\* that it had not read from the database (but from a cache that had not
\* dropped it), or that another had written over between its read and its
\* write.
AcceptedRoleKept ==
    \A u \in registered \ clashed : accepted[u] \subseteq roles[u]

\* Members and invitations live as MembershipLife says.
Life == INSTANCE MembershipLife WITH
            Person <- Account, Place <- Scope, Ticket <- Token, NoTicket <- 0,
            in <- {x \in Scope \X Account :
                       member[x[1]][x[2]] # NoRow /\ member[x[1]][x[2]].status = "active"},
            offer <- [w \in Scope |-> [u \in Account |->
                          IF member[w][u] # NoRow /\ member[w][u].status = "invited"
                          THEN member[w][u].token ELSE 0]],
            issued <- 1..tokens
LifeSpec == Life!LifeSpec
==============================================================================
