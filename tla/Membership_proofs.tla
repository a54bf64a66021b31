---------------------------- MODULE Membership_proofs ----------------------------
(***************************************************************************)
(* Memberships for every number of persons, workspaces, requests and       *)
(* invitations: types, no authority that nobody granted, the               *)
(* implementation of MembershipLife, the roles that were accepted, and how *)
(* often an invitation logs somebody in.                                   *)
(***************************************************************************)
EXTENDS Membership, FiniteSetTheorems, TLAPS

Rows == [Scope -> [Account -> {NoRow} \cup Row]]

(***************************************************************************)
(* What one kind of step does to the rows: it replaces one of them ...     *)
(***************************************************************************)
OneRow(w, e, row) ==
    /\ row \in {NoRow} \cup Row
    /\ member' \in Rows
    /\ member'[w][e] = row
    /\ \A x \in Scope, y \in Account : x # w \/ y # e => member'[x][y] = member[x][y]

LEMMA ReplaceRow ==
    ASSUME member \in Rows, NEW w \in Scope, NEW e \in Account, NEW row \in {NoRow} \cup Row,
           member' = [member EXCEPT ![w][e] = row]
    PROVE  OneRow(w, e, row)
BY DEF Rows, OneRow

LEMMA ActiveRow ==
    ASSUME NEW row \in Row
    PROVE  /\ [row EXCEPT !.status = "active", !.token = 0] \in Row
           /\ [row EXCEPT !.status = "active", !.token = 0].role = row.role
           /\ [row EXCEPT !.status = "active", !.token = 0].status = "active"
           /\ [row EXCEPT !.status = "active", !.token = 0].token = 0
BY DEF Row

LEMMA RowExists == ASSUME NEW row \in {NoRow} \cup Row PROVE row # NoRow <=> row \in Row
BY DEF Row, NoRow

LEMMA ScopeType ==
    /\ 0 \in Scope /\ Workspace \subseteq Scope
    /\ Token \subseteq Nat \ {0}
    /\ \A n \in 0..MaxWorkspaces : 1..n \subseteq Workspace
BY MembershipAssumption DEF Scope, Workspace, Token

(***************************************************************************)
(* What the phase of a request tells of its record.                        *)
(***************************************************************************)
LEMMA RequestType ==
    ASSUME NEW q \in {Idle} \cup Request
    PROVE  /\ q.pc = "permitted" =>
                  /\ q \in [pc: {"permitted"}, op: {"invite", "role", "remove", "delete", "create"},
                            by: Account, w: Scope]
                  /\ q.w \in Scope
           /\ q.pc = "deleted" => q.who \in Account
           /\ q.pc \in {"invited", "loaded", "saved"} =>
                  /\ q \in [pc: {"invited", "loaded", "saved"}, w: Scope, who: Account, role: Role,
                            token: Token, roles: {Unregistered, Deleted} \cup SUBSET Role]
                  /\ q.w \in Scope /\ q.who \in Account /\ q.role \in Role /\ q.token \in Token
                  /\ q.roles \in {Unregistered, Deleted} \cup SUBSET Role
BY DEF Request, Idle

LEMMA GotoType ==
    ASSUME req \in [Slot -> {Idle} \cup Request], NEW r \in Slot, NEW q \in {Idle} \cup Request,
           Goto(r, q)
    PROVE  req' \in [Slot -> {Idle} \cup Request]
BY DEF Goto

LEMMA GrantType ==
    ASSUME granted \in [Account -> SUBSET Role], NEW u \in Account, NEW role \in Role,
           Grant(u, role)
    PROVE  /\ granted' \in [Account -> SUBSET Role]
           /\ role \in granted'[u]
           /\ \A x \in Account : granted[x] \subseteq granted'[x]
BY DEF Grant

------------------------------------------------------------------------------
(* Types *)

LEMMA InitType == Init => TypeOK
<1>. SUFFICES ASSUME Init PROVE TypeOK
  OBVIOUS
<1>. USE MembershipAssumption DEF Init
<1>1. \A u \in Account : InitialRoles(u) \in SUBSET Role
  BY DEF InitialRoles, Role
<1>2. roles \in [Account -> SUBSET Role] /\ granted \in [Account -> SUBSET Role]
  BY <1>1
<1>3. member \in [Scope -> [Account -> {NoRow} \cup Row]]
  OBVIOUS
<1>. QED BY <1>2, <1>3 DEF TypeOK

LEMMA CreateWorkspaceType ==
    ASSUME TypeOK, NEW u \in Account, NEW n \in Name, CreateWorkspace(u, n)
    PROVE  TypeOK' /\ made' \in Scope /\ u \in registered
           /\ \E row \in Row :
                  /\ OneRow(made', u, row)
                  /\ row.status = "active" /\ row.role = "admin" /\ row.token = 0
<1>. USE MembershipAssumption DEF CreateWorkspace
<1>. DEFINE row == [status |-> "active", role |-> "admin", token |-> 0, expired |-> FALSE, name |-> n]
<1>1. made' \in 1..MaxWorkspaces /\ made' = made + 1 /\ made \in Nat
  BY DEF TypeOK
<1>2. made' \in Scope
  BY <1>1 DEF Scope, Workspace
<1>3. row \in Row /\ row.status = "active" /\ row.role = "admin" /\ row.token = 0
  BY DEF Row, Role
<1>4. OneRow(made', u, row)
  BY <1>2, <1>3, ReplaceRow DEF TypeOK, Rows
<1>5. live' \subseteq 1..made'
  BY <1>1 DEF TypeOK
<1>6. granted' \in [Account -> SUBSET Role]
  BY GrantType DEF TypeOK, Role
<1>7. TypeOK'
  BY <1>1, <1>4, <1>5, <1>6 DEF TypeOK, OneRow, Rows
<1>. QED BY <1>2, <1>3, <1>4, <1>7

LEMMA PermitType ==
    ASSUME TypeOK, NEW r \in Slot, NEW u \in Account, NEW w \in Scope,
           NEW op \in {"invite", "role", "remove", "delete", "create"}, Permit(r, u, op, w)
    PROVE  TypeOK'
<1>. USE MembershipAssumption DEF Permit, Ask, history
<1>1. asked' \in 0..MaxRequests
  BY DEF TypeOK
<1>2. [pc |-> "permitted", op |-> op, by |-> u, w |-> w] \in {Idle} \cup Request
  BY DEF Request
<1>3. req' \in [Slot -> {Idle} \cup Request]
  BY <1>2, GotoType DEF TypeOK
<1>. QED BY <1>1, <1>3 DEF TypeOK

(***************************************************************************)
(* Requests that end: the slot is idle again.                              *)
(***************************************************************************)
LEMMA FinishType ==
    ASSUME TypeOK, NEW r \in Slot, Finish(r)
    PROVE  req' \in [Slot -> {Idle} \cup Request]
BY GotoType DEF TypeOK, Finish

LEMMA RefuseGoneType ==
    ASSUME TypeOK, NEW r \in Slot, RefuseGone(r)
    PROVE  TypeOK'
BY FinishType DEF RefuseGone, TypeOK, history

LEMMA PermittedScope ==
    ASSUME TypeOK, NEW r \in Slot, req[r].pc = "permitted"
    PROVE  req[r].w \in Scope
BY RequestType DEF TypeOK

LEMMA InviteMemberType ==
    ASSUME TypeOK, NEW r \in Slot, NEW who \in Account, NEW role \in Role,
           InviteMember(r, who, role)
    PROVE  TypeOK' /\ tokens' = tokens + 1 /\ tokens' \in Token /\ req[r].w \in Scope
           /\ \E row \in Row :
                  /\ OneRow(req[r].w, who, row)
                  /\ row.status = "invited" /\ row.role = role /\ row.token = tokens'
<1>. USE MembershipAssumption
<1>1. req[r].w \in Scope
  BY PermittedScope DEF InviteMember, Permitted
<1>2. tokens' = tokens + 1 /\ tokens' \in Token /\ tokens' \in 0..MaxTokens
      /\ forTeam' \subseteq 1..tokens'
  BY DEF InviteMember, IssueToken, TypeOK, Token
<1>3. PICK n \in Name : member' = [member EXCEPT ![req[r].w][who] = Invitation(n, role)]
  BY DEF InviteMember
<1>4. /\ Invitation(n, role) \in Row
      /\ Invitation(n, role).status = "invited" /\ Invitation(n, role).role = role
      /\ Invitation(n, role).token = tokens'
  BY <1>2 DEF Invitation, Row
<1>5. OneRow(req[r].w, who, Invitation(n, role))
  BY <1>1, <1>3, <1>4, ReplaceRow DEF TypeOK, Rows
<1>6. granted' \in [Account -> SUBSET Role] /\ req' \in [Slot -> {Idle} \cup Request]
  BY GrantType, FinishType DEF InviteMember, TypeOK
<1>7. TypeOK'
  BY <1>2, <1>5, <1>6 DEF TypeOK, InviteMember, OneRow, Rows
<1>. QED BY <1>1, <1>2, <1>4, <1>5, <1>7

(***************************************************************************)
(* A change of role keeps which rows there are, and their state.           *)
(***************************************************************************)
LEMMA UpdateMemberRoleType ==
    ASSUME TypeOK, NEW r \in Slot, NEW i \in Account \cup Name, NEW role \in Role,
           UpdateMemberRole(r, i, role)
    PROVE  /\ TypeOK'
           /\ \A w \in Scope, e \in Account :
                  \/ member'[w][e] = member[w][e]
                  \/ /\ w = req[r].w /\ e \in Matching(w, i)
                     /\ member[w][e] \in Row
                     /\ member'[w][e] = [member[w][e] EXCEPT !.role = role]
<1>. USE DEF UpdateMemberRole
<1>. DEFINE w == req[r].w
<1>1. w \in Scope
  BY PermittedScope DEF Permitted
<1>2. \A x \in Scope, e \in Account :
          member'[x][e] = IF x = w /\ e \in Matching(w, i)
                          THEN [member[x][e] EXCEPT !.role = role] ELSE member[x][e]
  BY <1>1 DEF WithRole, TypeOK
<1>3. \A e \in Matching(w, i) : e \in Account /\ member[w][e] \in Row
  BY <1>1, RowExists DEF Matching, TypeOK
<1>4. \A e \in Matching(w, i) : [member[w][e] EXCEPT !.role = role] \in Row
  BY <1>3 DEF Row
<1>5. member' = [member EXCEPT ![w] = [e \in Account |->
                     IF e \in Matching(w, i) THEN [@[e] EXCEPT !.role = role] ELSE @[e]]]
  BY DEF WithRole
<1>6. member' \in Rows
  <2>1. member \in Rows
    BY DEF TypeOK, Rows
  <2>2. [e \in Account |-> IF e \in Matching(w, i) THEN [member[w][e] EXCEPT !.role = role]
                          ELSE member[w][e]] \in [Account -> {NoRow} \cup Row]
    BY <1>1, <1>4, <2>1 DEF Rows
  <2>. QED BY <1>1, <1>5, <2>1, <2>2 DEF Rows
<1>7. granted' \in [Account -> SUBSET Role] /\ req' \in [Slot -> {Idle} \cup Request]
  BY GrantType, FinishType DEF TypeOK
<1>8. Matching(w, i) \subseteq Account
  BY DEF Matching
<1>9. TypeOK'
  BY <1>6, <1>7, <1>8 DEF TypeOK, Rows
<1>. QED BY <1>2, <1>3, <1>9

(***************************************************************************)
(* A removal takes rows of one scope away and leaves the others.           *)
(***************************************************************************)
Removed(w) ==
    /\ member' \in Rows
    /\ \A x \in Scope, e \in Account :
           member'[x][e] = member[x][e] \/ (x = w /\ member'[x][e] = NoRow)

LEMMA RemoveMemberType ==
    ASSUME TypeOK, NEW r \in Slot, NEW i \in Account \cup Name, RemoveMember(r, i)
    PROVE  TypeOK' /\ req[r].w \in Scope /\ Removed(req[r].w)
<1>. USE DEF RemoveMember, history
<1>. DEFINE w == req[r].w
<1>1. w \in Scope
  BY PermittedScope DEF Permitted
<1>2. Removed(w)
  BY <1>1 DEF Without, TypeOK, Rows, Removed
<1>3. TypeOK'
  BY <1>2, FinishType DEF TypeOK, Removed, Rows
<1>. QED BY <1>1, <1>2, <1>3

LEMMA DeleteWorkspaceType ==
    ASSUME TypeOK, NEW r \in Slot, DeleteWorkspace(r)
    PROVE  TypeOK' /\ req[r].w \in Scope /\ Removed(req[r].w)
<1>. USE DEF DeleteWorkspace, history
<1>. DEFINE w == req[r].w
<1>1. w \in Scope
  BY PermittedScope DEF Permitted
<1>2. Removed(w)
  BY <1>1 DEF TypeOK, Rows, Removed
<1>3. TypeOK'
  BY <1>2, FinishType DEF TypeOK, Removed, Rows
<1>. QED BY <1>1, <1>2, <1>3

LEMMA RemoveTeamRowType ==
    ASSUME TypeOK, NEW r \in Slot, RemoveTeamRow(r)
    PROVE  TypeOK' /\ Removed(0)
<1>. USE DEF RemoveTeamRow, history
<1>1. req[r].who \in Account /\ 0 \in Scope
  BY RequestType, ScopeType DEF TypeOK
<1>2. Removed(0)
  BY <1>1 DEF TypeOK, Rows, Removed
<1>3. TypeOK'
  BY <1>2, FinishType DEF TypeOK, Removed, Rows
<1>. QED BY <1>2, <1>3

\* What caches serve of an account.
LEMMA ServedType ==
    ASSUME TypeOK, NEW u \in Account
    PROVE  /\ Current(u) \in Copy /\ Served(u) \subseteq Copy
           /\ Current(u).roles = roles[u] /\ Current(u).gone = FALSE
           /\ \A row \in Served(u) :
                  /\ row.roles \in SUBSET Role /\ row.gone \in BOOLEAN
                  /\ (row = Current(u) /\ u \in registered) \/ row \in cached[u]
<1>1. /\ Current(u) \in Copy /\ Current(u).roles = roles[u] /\ Current(u).gone = FALSE
  BY DEF TypeOK, Current, Copy
<1>2. cached[u] \subseteq Copy
  BY DEF TypeOK
<1>3. Served(u) \subseteq Copy /\ \A row \in Copy : row.roles \in SUBSET Role /\ row.gone \in BOOLEAN
  BY <1>1, <1>2 DEF Served, Copy
<1>. HIDE DEF Current
<1>4. \A row \in Served(u) : (row = Current(u) /\ u \in registered) \/ row \in cached[u]
  BY DEF Served
<1>. QED BY <1>1, <1>3, <1>4

LEMMA DeleteAccountType ==
    ASSUME TypeOK, NEW r \in Slot, NEW who \in Account, DeleteAccount(r, who)
    PROVE  TypeOK'
<1>. USE DEF DeleteAccount
<1>1. [pc |-> "deleted", who |-> who] \in Request
  BY DEF Request
<1>2. \A x \in Slot : Holds(x, who) => [req[x] EXCEPT !.roles = Deleted] \in Request
  <2>. TAKE x \in Slot
  <2>. HAVE Holds(x, who)
  <2>1. req[x].pc \in {"loaded", "saved"} /\ req[x] \in {Idle} \cup Request
    BY DEF Holds, TypeOK
  <2>2. req[x] \in [pc: {"invited", "loaded", "saved"}, w: Scope, who: Account, role: Role,
                    token: Token, roles: {Unregistered, Deleted} \cup SUBSET Role]
    BY <2>1, RequestType
  <2>. QED BY <2>2 DEF Request
<1>3. req' \in [Slot -> {Idle} \cup Request]
  BY <1>1, <1>2 DEF TypeOK
<1>4. registered' \subseteq Account
  BY DEF TypeOK
<1>5. roles' \in [Account -> SUBSET Role] /\ accepted' \in [Account -> SUBSET Role]
  BY DEF TypeOK
<1>6. cached' \in [Account -> SUBSET Copy]
  <2>1. {[c EXCEPT !.gone = TRUE] : c \in Served(who)} \subseteq Copy
    <3>1. \A c \in Copy : [c EXCEPT !.gone = TRUE] \in Copy
      BY DEF Copy
    <3>2. Served(who) \subseteq Copy
      BY ServedType
    <3>. QED BY <3>1, <3>2
  <2>. QED BY <2>1 DEF TypeOK
<1>. QED BY <1>3, <1>4, <1>5, <1>6 DEF TypeOK

LEMMA CreateUserType ==
    ASSUME TypeOK, NEW r \in Slot, NEW who \in Account, NEW role \in Role,
           CreateUser(r, who, role)
    PROVE  TypeOK'
<1>. USE DEF CreateUser
<1>1. req' \in [Slot -> {Idle} \cup Request]
  BY FinishType
<1>2. CASE who \in registered
  BY <1>1, <1>2 DEF TypeOK
<1>3. CASE who \notin registered
  <2>1. granted' \in [Account -> SUBSET Role]
    BY <1>3, GrantType DEF TypeOK
  <2>2. roles' \in [Account -> SUBSET Role]
    BY <1>3 DEF TypeOK
  <2>. QED BY <1>1, <1>3, <2>1, <2>2 DEF TypeOK
<1>. QED BY <1>2, <1>3

LEMMA AddMemberType ==
    ASSUME TypeOK, NEW w \in Workspace, NEW u \in Account, NEW role \in Role,
           AddMember(w, u, role)
    PROVE  TypeOK' /\ w \in Scope
           /\ \E row \in Row :
                  /\ OneRow(w, u, row)
                  /\ row.status = "active" /\ row.role = role
                  /\ row.token = IF member[w][u] = NoRow THEN 0 ELSE member[w][u].token
<1>. USE MembershipAssumption DEF AddMember
<1>. DEFINE row == IF member[w][u] = NoRow
                   THEN [status |-> "active", role |-> role, token |-> 0,
                         expired |-> FALSE, name |-> CHOOSE n \in Name : n \notin Account]
                   ELSE [member[w][u] EXCEPT !.status = "active", !.role = role]
<1>1. w \in Scope
  BY ScopeType
<1>2. member[w][u] \in {NoRow} \cup Row
  BY <1>1 DEF TypeOK
<1>3. /\ row \in Row /\ row.status = "active" /\ row.role = role
      /\ row.token = IF member[w][u] = NoRow THEN 0 ELSE member[w][u].token
  <2>1. CASE member[w][u] = NoRow
    <3>1. (CHOOSE n \in Name : n \notin Account) \in Name
      OBVIOUS
    <3>. QED BY <2>1, <3>1 DEF Row
  <2>2. CASE member[w][u] \in Row
    BY <2>2, RowExists DEF Row
  <2>. QED BY <1>2, <2>1, <2>2
<1>4. member' = [member EXCEPT ![w][u] = row]
  BY DEF TypeOK
<1>. HIDE DEF row
<1>5. OneRow(w, u, row)
  BY <1>1, <1>3, <1>4, ReplaceRow DEF TypeOK, Rows
<1>6. granted' \in [Account -> SUBSET Role]
  BY GrantType DEF TypeOK
<1>7. TypeOK'
  BY <1>5, <1>6 DEF TypeOK, OneRow, Rows, Ask
<1>. QED BY <1>1, <1>3, <1>5, <1>7

LEMMA NewViewerType ==
    ASSUME TypeOK, NEW u \in Account, NewViewer(u)
    PROVE  TypeOK'
<1>. USE DEF NewViewer
<1>1. granted' \in [Account -> SUBSET Role]
  BY GrantType DEF TypeOK, Role
<1>2. roles' \in [Account -> SUBSET Role]
  BY DEF TypeOK, Role
<1>. QED BY <1>1, <1>2, MembershipAssumption DEF TypeOK, Ask

(***************************************************************************)
(* Acceptances.                                                            *)
(***************************************************************************)
Accepting ==
    [pc: {"invited", "loaded", "saved"}, w: Scope, who: Account, role: Role, token: Token,
     roles: {Unregistered, Deleted} \cup SUBSET Role]

LEMMA AcceptingType ==
    ASSUME TypeOK, NEW r \in Slot, req[r].pc \in {"invited", "loaded", "saved"}
    PROVE  /\ req[r] \in Accepting /\ Accepting \subseteq Request
           /\ req[r].w \in Scope /\ req[r].who \in Account /\ req[r].role \in Role
           /\ req[r].token \in Token
           /\ req[r].roles \in {Unregistered, Deleted} \cup SUBSET Role
BY RequestType DEF TypeOK, Accepting, Request

LEMMA ReadInvitationType ==
    ASSUME TypeOK, NEW r \in Slot, NEW w \in Scope, NEW e \in Account, ReadInvitation(r, w, e)
    PROVE  TypeOK' /\ member[w][e] \in Row
<1>. USE DEF ReadInvitation, history
<1>1. member[w][e] \in Row
  BY RowExists DEF TypeOK
<1>2. member[w][e].token \in Token /\ member[w][e].role \in Role
  BY <1>1 DEF Stands, HasToken, Row
<1>3. [pc |-> "invited", w |-> w, who |-> e, role |-> member[w][e].role,
       token |-> member[w][e].token, roles |-> {}] \in Request
  BY <1>2 DEF Request
<1>4. req' \in [Slot -> {Idle} \cup Request]
  BY <1>3, GotoType DEF TypeOK
<1>. QED BY <1>1, <1>4 DEF TypeOK

LEMMA EditedType ==
    ASSUME NEW row \in Copy, NEW role \in Role
    PROVE  /\ [row EXCEPT !.roles = @ \cup {role}] \in Copy
           /\ [row EXCEPT !.roles = @ \cup {role}].roles = row.roles \cup {role}
           /\ [row EXCEPT !.roles = @ \cup {role}].gone = row.gone
BY DEF Copy

\* What a request is after it has looked for the account.
LEMMA LoadedType ==
    ASSUME TypeOK, NEW r \in Slot, req[r].pc = "invited",
           NEW list \in {Unregistered, Deleted} \cup SUBSET Role
    PROVE  LET q == [req[r] EXCEPT !.pc = "loaded", !.roles = list] IN
           /\ q \in Request
           /\ q.pc = "loaded" /\ q.roles = list /\ q.w = req[r].w /\ q.who = req[r].who
           /\ q.role = req[r].role /\ q.token = req[r].token
BY AcceptingType DEF Accepting

LEMMA LoadAccountType ==
    ASSUME TypeOK, NEW r \in Slot, LoadAccount(r)
    PROVE  /\ TypeOK' /\ req[r].who \in Account /\ req[r].role \in Role
           /\ \E list \in {Unregistered, Deleted} \cup SUBSET Role :
                  Goto(r, [req[r] EXCEPT !.pc = "loaded", !.roles = list])
<1>. DEFINE q == req[r]
<1>1. q.pc = "invited" /\ q.who \in Account /\ q.role \in Role
  BY AcceptingType DEF LoadAccount
<1>2. ASSUME NEW row \in Served(q.who),
             Goto(r, [q EXCEPT !.pc = "loaded", !.roles = IF row.gone THEN Deleted ELSE row.roles]),
             cached' = IF q.role \in row.roles THEN cached
                       ELSE [cached EXCEPT ![q.who] = @ \cup {[row EXCEPT !.roles = @ \cup {q.role}]}]
      PROVE  /\ cached' \in [Account -> SUBSET Copy]
             /\ \E list \in {Unregistered, Deleted} \cup SUBSET Role :
                    Goto(r, [q EXCEPT !.pc = "loaded", !.roles = list])
  <2>1. row \in Copy /\ row.roles \in SUBSET Role
    <3>1. Served(q.who) \subseteq Copy
      BY <1>1, ServedType
    <3>. QED BY <3>1 DEF Copy
  <2>2. [row EXCEPT !.roles = @ \cup {q.role}] \in Copy
    BY <1>1, <2>1, EditedType
  <2>3. cached' \in [Account -> SUBSET Copy]
    BY <1>1, <1>2, <2>2 DEF TypeOK
  <2>. QED BY <1>2, <2>1, <2>3
<1>3. /\ cached' \in [Account -> SUBSET Copy] /\ behind' \subseteq Slot
      /\ \E list \in {Unregistered, Deleted} \cup SUBSET Role :
             Goto(r, [q EXCEPT !.pc = "loaded", !.roles = list])
  <2>1. behind' \subseteq Slot
    BY DEF LoadAccount, TypeOK
  <2>2. CASE q.who \notin registered /\ Goto(r, [q EXCEPT !.pc = "loaded", !.roles = Unregistered])
             /\ UNCHANGED cached
    BY <2>1, <2>2 DEF TypeOK
  <2>. QED BY <1>2, <2>1, <2>2 DEF LoadAccount
<1>4. PICK list \in {Unregistered, Deleted} \cup SUBSET Role :
          Goto(r, [q EXCEPT !.pc = "loaded", !.roles = list])
  BY <1>3
<1>5. req' \in [Slot -> {Idle} \cup Request]
  <2>1. [q EXCEPT !.pc = "loaded", !.roles = list] \in Request
    BY <1>1, LoadedType
  <2>. QED BY <1>4, <2>1, GotoType DEF TypeOK
<1>6. UNCHANGED <<asked, made, live, member, registered, roles, tokens, forTeam,
                  granted, aliased, logins, accepted, clashed, appointed>>
  BY DEF LoadAccount
<1>7. TypeOK'
  BY <1>3, <1>5, <1>6 DEF TypeOK
<1>. QED BY <1>1, <1>3, <1>7

LEMMA SavedType ==
    ASSUME TypeOK, NEW r \in Slot, req[r].pc = "loaded", Goto(r, [req[r] EXCEPT !.pc = "saved"])
    PROVE  req' \in [Slot -> {Idle} \cup Request]
<1>1. [req[r] EXCEPT !.pc = "saved"] \in Request
  BY AcceptingType DEF Accepting
<1>. QED BY <1>1, GotoType DEF TypeOK

LEMMA SaveAccountType ==
    ASSUME TypeOK, NEW r \in Slot, SaveAccount(r)
    PROVE  TypeOK'
<1>1. req' \in [Slot -> {Idle} \cup Request]
  BY SavedType DEF SaveAccount
<1>2. req[r].who \in Account /\ req[r].roles \cup {req[r].role} \in SUBSET Role
  BY AcceptingType DEF SaveAccount
<1>. PICK u \in Account, list \in SUBSET Role :
         u = req[r].who /\ list = req[r].roles \cup {req[r].role}
  BY <1>2
<1>3. /\ roles' = [roles EXCEPT ![u] = list]
      /\ cached' = [cached EXCEPT ![u] = (@ \cup {Current(u)}) \ {[roles |-> list, gone |-> FALSE]}]
      /\ clashed' \subseteq clashed \cup {u}
      /\ behind' = (behind \ {r}) \cup
                       {x \in Slot \ {r} : req[x].pc = "loaded" /\ req[x].who = u}
  BY DEF SaveAccount, WriteRoles
<1>4. /\ roles' \in [Account -> SUBSET Role]
      /\ clashed' \subseteq Account /\ behind' \subseteq Slot
  BY <1>3 DEF TypeOK
<1>5. cached' \in [Account -> SUBSET Copy]
  <2>1. Current(u) \in Copy /\ cached[u] \subseteq Copy /\ cached \in [Account -> SUBSET Copy]
    BY ServedType DEF TypeOK
  <2>2. (cached[u] \cup {Current(u)}) \ {[roles |-> list, gone |-> FALSE]} \in SUBSET Copy
    BY <2>1
  <2>. QED BY <1>3, <2>1, <2>2
<1>. QED BY <1>1, <1>4, <1>5 DEF TypeOK, SaveAccount

LEMMA MissAccountType ==
    ASSUME TypeOK, NEW r \in Slot, MissAccount(r)
    PROVE  TypeOK'
BY SavedType DEF MissAccount, TypeOK, history

LEMMA ForgetType ==
    ASSUME TypeOK, NEW u \in Account, Forget(u)
    PROVE  TypeOK'
BY DEF Forget, TypeOK, history

LEMMA RegisterAccountType ==
    ASSUME TypeOK, NEW r \in Slot, RegisterAccount(r)
    PROVE  TypeOK'
<1>. USE DEF RegisterAccount, history
<1>1. req' \in [Slot -> {Idle} \cup Request]
  BY SavedType
<1>2. req[r].who \in Account /\ req[r].role \in Role
  BY AcceptingType
<1>3. roles' \in [Account -> SUBSET Role] /\ registered' \subseteq Account
  BY <1>2 DEF TypeOK
<1>. QED BY <1>1, <1>3 DEF TypeOK

(***************************************************************************)
(* The row with the token of an invitation becomes active, its role stays. *)
(***************************************************************************)
Activated(w, e) ==
    /\ member[w][e] \in Row /\ member[w][e].token # 0
    /\ \E row \in Row :
           /\ OneRow(w, e, row)
           /\ row.status = "active" /\ row.role = member[w][e].role /\ row.token = 0

LEMMA MarkedType ==
    ASSUME TypeOK, NEW r \in Slot, req[r].pc \in {"loaded", "saved"},
           member' = MarkedInTeam(req[r])
    PROVE  /\ member' = member \/ Activated(0, req[r].who)
           /\ member' \in Rows
<1>. DEFINE e == req[r].who
<1>1. e \in Account /\ 0 \in Scope
  BY AcceptingType, ScopeType
<1>2. CASE HasToken(0, e, req[r].token)
  <2>1. member[0][e] \in Row /\ member[0][e].token # 0
    BY <1>1, <1>2, RowExists DEF HasToken, TypeOK
  <2>2. member' = [member EXCEPT ![0][e] = [member[0][e] EXCEPT !.status = "active", !.token = 0]]
    BY <1>1, <1>2 DEF MarkedInTeam, TypeOK
  <2>3. OneRow(0, e, [member[0][e] EXCEPT !.status = "active", !.token = 0])
    BY <1>1, <2>1, <2>2, ActiveRow, ReplaceRow DEF TypeOK, Rows
  <2>. QED BY <2>1, <2>3, ActiveRow DEF Activated, OneRow
<1>3. CASE ~HasToken(0, e, req[r].token)
  BY <1>3 DEF MarkedInTeam, TypeOK, Rows
<1>. QED BY <1>2, <1>3

LEMMA AccountMovedType ==
    ASSUME TypeOK, NEW r \in Slot, AccountMoved(r)
    PROVE  TypeOK' /\ (member' = member \/ Activated(0, req[r].who)) /\ req[r].who \in Account
<1>. USE DEF AccountMoved, history
<1>1. req' \in [Slot -> {Idle} \cup Request] /\ req[r].who \in Account
  BY FinishType, AcceptingType
<1>2. (member' = member \/ Activated(0, req[r].who)) /\ member' \in Rows
  BY MarkedType DEF TypeOK, Rows
<1>. QED BY <1>1, <1>2 DEF TypeOK, Rows

LEMMA LogInType ==
    ASSUME TypeOK, NEW r \in Slot, req[r].pc = "saved", LogIn(req[r])
    PROVE  logins' \in [Token -> Nat] /\ accepted' \in [Account -> SUBSET Role]
BY AcceptingType DEF LogIn, TypeOK

LEMMA ActivateType ==
    ASSUME TypeOK, NEW r \in Slot, Activate(r)
    PROVE  TypeOK' /\ (member' = member \/ Activated(req[r].w, req[r].who))
           /\ (UNCHANGED <<member, logins>> \/ Activated(req[r].w, req[r].who))
           /\ req[r].w \in Scope /\ req[r].who \in Account
<1>. USE DEF Activate
<1>. DEFINE w == req[r].w
            e == req[r].who
<1>1. w \in Scope /\ e \in Account /\ req' \in [Slot -> {Idle} \cup Request]
  BY AcceptingType, FinishType
<1>2. CASE ~(req[r].roles # Deleted /\ Stands(w, e, req[r].token) /\ ~member[w][e].expired)
  BY <1>1, <1>2 DEF TypeOK
<1>3. CASE req[r].roles # Deleted /\ Stands(w, e, req[r].token) /\ ~member[w][e].expired
  <2>1. PICK n \in Name : member' = [member EXCEPT ![w][e].status = "active",
                                                   ![w][e].token = 0, ![w][e].name = n]
    BY <1>3
  <2>. DEFINE row == [member[w][e] EXCEPT !.status = "active", !.token = 0, !.name = n]
  <2>2. HasToken(w, e, req[r].token)
    BY <1>3 DEF Stands
  <2>3. member[w][e] \in {NoRow} \cup Row
    BY ONLY <1>1, TypeOK DEF TypeOK
  <2>4. member[w][e] \in Row /\ member[w][e].token # 0
    BY <2>2, <2>3, RowExists DEF HasToken
  <2>5. row \in Row /\ row.status = "active" /\ row.role = member[w][e].role /\ row.token = 0
    BY <2>4 DEF Row
  <2>6. member' = [member EXCEPT ![w][e] = row]
    <3>1. member \in Rows
      BY DEF TypeOK, Rows
    <3>2. [member EXCEPT ![w][e].status = "active", ![w][e].token = 0, ![w][e].name = n] =
              [[member EXCEPT ![w][e].status = "active", ![w][e].token = 0] EXCEPT ![w][e].name = n]
      OBVIOUS
    <3>3. [member EXCEPT ![w][e].status = "active", ![w][e].token = 0] =
              [member EXCEPT ![w][e] = [member[w][e] EXCEPT !.status = "active", !.token = 0]]
      BY <3>1, <1>1 DEF Rows
    <3>4. \A x \in Row : [[member EXCEPT ![w][e] = x] EXCEPT ![w][e].name = n] =
                              [member EXCEPT ![w][e] = [x EXCEPT !.name = n]]
      BY <3>1, <1>1 DEF Rows
    <3>5. [member[w][e] EXCEPT !.status = "active", !.token = 0] \in Row
      BY <2>4, ActiveRow
    <3>6. [[member[w][e] EXCEPT !.status = "active", !.token = 0] EXCEPT !.name = n] = row
      OBVIOUS
    <3>. QED BY ONLY <3>2, <3>3, <3>4, <3>5, <3>6, <2>1
  <2>. HIDE DEF row
  <2>7. OneRow(w, e, row)
    BY <1>1, <2>5, <2>6, ReplaceRow DEF TypeOK, Rows
  <2>8. Activated(w, e)
    BY <2>4, <2>5, <2>7 DEF Activated
  <2>9. TypeOK'
    BY <1>1, <1>3, <2>7, LogInType DEF TypeOK, OneRow, Rows
  <2>. QED BY <1>1, <2>8, <2>9
<1>. QED BY <1>2, <1>3

LEMMA ActivateTeamType ==
    ASSUME TypeOK, NEW r \in Slot, ActivateTeam(r)
    PROVE  TypeOK' /\ (member' = member \/ Activated(0, req[r].who)) /\ req[r].who \in Account
<1>. USE DEF ActivateTeam
<1>1. req[r].who \in Account /\ req' \in [Slot -> {Idle} \cup Request]
  BY AcceptingType, FinishType
<1>2. (member' = member \/ Activated(0, req[r].who)) /\ member' \in Rows
  BY MarkedType
<1>3. TypeOK'
  BY <1>1, <1>2, LogInType DEF TypeOK, Rows
<1>. QED BY <1>1, <1>2, <1>3

(***************************************************************************)
(* Names and expiry leave status, role and token of every row.             *)
(***************************************************************************)
Relabelled ==
    /\ member' \in Rows
    /\ \A x \in Scope, e \in Account :
           \/ member[x][e] = NoRow /\ member'[x][e] = NoRow
           \/ /\ member[x][e] \in Row /\ member'[x][e] \in Row
              /\ member'[x][e].status = member[x][e].status
              /\ member'[x][e].role = member[x][e].role
              /\ member'[x][e].token = member[x][e].token

LEMMA SyncNameType ==
    ASSUME TypeOK, NEW u \in Account, NEW n \in Name, SyncName(u, n)
    PROVE  TypeOK' /\ Relabelled
<1>. USE DEF SyncName, history
<1>1. \A x \in Scope, e \in Account :
          member'[x][e] = IF x # 0 /\ member[x][u] # NoRow /\ e = u
                          THEN [member[x][e] EXCEPT !.name = n] ELSE member[x][e]
  BY DEF TypeOK
<1>2. \A x \in Scope, e \in Account : member[x][e] = NoRow \/ member[x][e] \in Row
  BY DEF TypeOK
<1>3. \A row \in Row : /\ [row EXCEPT !.name = n] \in Row
                       /\ [row EXCEPT !.name = n].status = row.status
                       /\ [row EXCEPT !.name = n].role = row.role
                       /\ [row EXCEPT !.name = n].token = row.token
  BY DEF Row
<1>4. member' \in Rows
  <2>1. \A x \in Scope : member'[x] \in [Account -> {NoRow} \cup Row]
    <3>. TAKE x \in Scope
    <3>1. CASE x = 0 \/ member[x][u] = NoRow
      BY <3>1 DEF TypeOK
    <3>2. CASE ~(x = 0 \/ member[x][u] = NoRow)
      <4>1. member'[x] = [member[x] EXCEPT ![u] = [member[x][u] EXCEPT !.name = n]]
        BY <3>2 DEF TypeOK
      <4>. QED BY <4>1, <3>2, <1>2, <1>3 DEF TypeOK
    <3>. QED BY <3>1, <3>2
  <2>. QED BY <2>1 DEF Rows
<1>5. Relabelled
  BY <1>1, <1>2, <1>3, <1>4 DEF Relabelled
<1>. QED BY <1>4, <1>5 DEF TypeOK, Rows

LEMMA ExpireType ==
    ASSUME TypeOK, NEW w \in Scope, NEW u \in Account, Expire(w, u)
    PROVE  TypeOK' /\ Relabelled
<1>. USE DEF Expire, history
<1>. DEFINE row == [member[w][u] EXCEPT !.expired = TRUE]
<1>1. member[w][u] \in Row
  BY RowExists DEF TypeOK
<1>2. /\ row \in Row /\ row.status = member[w][u].status
      /\ row.role = member[w][u].role /\ row.token = member[w][u].token
  BY <1>1 DEF Row
<1>3. member' = [member EXCEPT ![w][u] = row]
  BY DEF TypeOK
<1>. HIDE DEF row
<1>4. OneRow(w, u, row)
  BY <1>2, <1>3, ReplaceRow DEF TypeOK, Rows
<1>5. Relabelled
  <2>1. \A x \in Scope, e \in Account : member[x][e] \in {NoRow} \cup Row
    BY DEF TypeOK
  <2>. QED BY <1>1, <1>2, <1>4, <2>1 DEF Relabelled, OneRow
<1>. QED BY <1>4, <1>5 DEF TypeOK, OneRow, Rows

LEMMA AdministerType ==
    ASSUME TypeOK, NEW r \in Slot, NEW u \in Account, Administer(r, u)
    PROVE  TypeOK' /\ UNCHANGED <<member, tokens>>
<1>1. live \subseteq Scope /\ 0 \in Scope
  BY ScopeType DEF TypeOK
<1>2. PICK w \in Scope, op \in {"invite", "role", "remove", "delete", "create"} :
          Permit(r, u, op, w)
  BY <1>1 DEF Administer
<1>. QED BY <1>2, PermitType DEF Permit

(***************************************************************************)
(* The constants from which Next draws persons and roles.                  *)
(***************************************************************************)
LEMMA InputType ==
    /\ Subject \subseteq Account /\ InviteRole \subseteq Role
    /\ Workspace \subseteq Scope
BY MembershipAssumption, ScopeType

LEMMA ProceedType ==
    ASSUME TypeOK, NEW r \in Slot, Proceed(r)
    PROVE  TypeOK'
<1>1. ASSUME NEW e \in Subject, NEW role \in InviteRole,
             InviteMember(r, e, role) \/ CreateUser(r, e, role)
      PROVE  TypeOK'
  BY <1>1, InputType, InviteMemberType, CreateUserType
<1>2. ASSUME NEW i \in Subject \cup Name, NEW role \in InviteRole, UpdateMemberRole(r, i, role)
      PROVE  TypeOK'
  BY <1>2, InputType, UpdateMemberRoleType
<1>3. ASSUME NEW i \in Subject \cup Name, RemoveMember(r, i)
      PROVE  TypeOK'
  BY <1>3, InputType, RemoveMemberType
<1>4. ASSUME NEW e \in Subject, DeleteAccount(r, e)
      PROVE  TypeOK'
  BY <1>4, InputType, DeleteAccountType
<1>5. CASE RefuseGone(r) \/ DeleteWorkspace(r) \/ RemoveTeamRow(r)
  BY <1>5, RefuseGoneType, DeleteWorkspaceType, RemoveTeamRowType
<1>6. CASE LoadAccount(r) \/ SaveAccount(r) \/ RegisterAccount(r) \/ AccountMoved(r)
  BY <1>6, LoadAccountType, SaveAccountType, RegisterAccountType, AccountMovedType
<1>7. CASE Activate(r) \/ ActivateTeam(r) \/ MissAccount(r)
  BY <1>7, ActivateType, ActivateTeamType, MissAccountType
<1>. QED BY <1>1, <1>2, <1>3, <1>4, <1>5, <1>6, <1>7 DEF Proceed

LEMMA StepType == TypeOK /\ [Next]_vars => TypeOK'
<1>. SUFFICES ASSUME TypeOK, [Next]_vars PROVE TypeOK'
  OBVIOUS
<1>1. ASSUME NEW u \in Account, NEW n \in Name, CreateWorkspace(u, n) \/ SyncName(u, n)
      PROVE  TypeOK'
  BY <1>1, CreateWorkspaceType, SyncNameType
<1>2. ASSUME NEW r \in Slot, NEW u \in Account, Administer(r, u)
      PROVE  TypeOK'
  BY <1>2, AdministerType
<1>3. ASSUME NEW w \in Scope, NEW e \in Account,
             Expire(w, e) \/ \E r \in Slot : ReadInvitation(r, w, e)
      PROVE  TypeOK'
  BY <1>3, ExpireType, ReadInvitationType
<1>4. ASSUME NEW r \in Slot, Proceed(r)
      PROVE  TypeOK'
  BY <1>4, ProceedType
<1>5. ASSUME NEW w \in Workspace, NEW u \in Subject, NEW role \in InviteRole,
             AddMember(w, u, role)
      PROVE  TypeOK'
  BY <1>5, InputType, AddMemberType
<1>6. ASSUME NEW u \in Account, Register(u) \/ Provision(u)
      PROVE  TypeOK'
  BY <1>6, NewViewerType DEF Register, Provision
<1>7. CASE UNCHANGED vars
  BY <1>7 DEF TypeOK, vars, history
<1>8. ASSUME NEW u \in Account, Forget(u)
      PROVE  TypeOK'
  BY <1>8, ForgetType
<1>. QED BY <1>1, <1>2, <1>3, <1>4, <1>5, <1>6, <1>7, <1>8 DEF Next

(***************************************************************************)
(* Every reachable state is well typed.                                    *)
(***************************************************************************)
THEOREM MembershipTyped == Spec => []TypeOK
BY InitType, StepType, PTL DEF Spec

------------------------------------------------------------------------------
(* Authority *)

(***************************************************************************)
(* The inductive invariant behind AuthorityWasGranted: whatever carries a  *)
(* role, the account, a copy of it in a cache, a row or an acceptance      *)
(* under way, carries one its person was given.                            *)
(***************************************************************************)
RowsGranted ==
    \A w \in Scope, u \in Account \ aliased :
        member[w][u] # NoRow => member[w][u].role \in granted[u]

AccountsGranted ==
    \A u \in Account \ aliased :
        /\ roles[u] \subseteq granted[u]
        /\ \A c \in cached[u] : c.roles \subseteq granted[u]

RequestsGranted ==
    \A r \in Slot :
        req[r].pc \in {"invited", "loaded", "saved"} /\ req[r].who \notin aliased =>
            /\ req[r].role \in granted[req[r].who]
            /\ \/ req[r].roles \in {Unregistered, Deleted}
               \/ req[r].roles \subseteq granted[req[r].who]

AuthorityInv == TypeOK /\ RowsGranted /\ AccountsGranted /\ RequestsGranted

GrantsGrow ==
    /\ aliased \subseteq aliased'
    /\ \A u \in Account : granted[u] \subseteq granted'[u]

\* Each row has the role it had, or one its person was given.
RolesKept ==
    \A w \in Scope, u \in Account \ aliased' :
        member'[w][u] # NoRow =>
            \/ member'[w][u].role \in granted'[u]
            \/ member[w][u] # NoRow /\ member'[w][u].role = member[w][u].role

LEMMA RowsStay ==
    ASSUME AuthorityInv, GrantsGrow, RolesKept
    PROVE  RowsGranted'
BY DEF AuthorityInv, RowsGranted, GrantsGrow, RolesKept

\* An account and its copies have the roles they had, and granted ones.
AccountsKept ==
    \A u \in Account \ aliased' :
        /\ roles'[u] \subseteq roles[u] \cup granted'[u]
        /\ \A c \in cached'[u] :
               \/ c.roles \subseteq roles[u] \cup granted'[u]
               \/ \E d \in cached[u] : c.roles \subseteq d.roles \cup granted'[u]

LEMMA AccountsStay ==
    ASSUME AuthorityInv, GrantsGrow, AccountsKept
    PROVE  AccountsGranted'
<1>. SUFFICES ASSUME NEW u \in Account \ aliased'
              PROVE  /\ roles'[u] \subseteq granted'[u]
                     /\ \A c \in cached'[u] : c.roles \subseteq granted'[u]
  BY DEF AccountsGranted
<1>1. granted[u] \subseteq granted'[u] /\ u \in Account \ aliased
  BY DEF GrantsGrow
<1>2. roles[u] \subseteq granted[u] /\ \A c \in cached[u] : c.roles \subseteq granted[u]
  BY <1>1 DEF AuthorityInv, AccountsGranted
<1>. QED BY <1>1, <1>2 DEF AccountsKept

LEMMA SameAccountsKept ==
    ASSUME cached' = cached,
           \A u \in Account \ aliased' : roles'[u] \subseteq roles[u] \cup granted'[u]
    PROVE  AccountsKept
BY DEF AccountsKept

\* A request ends, starts without a role, or is what it was.
LEMMA RequestsStay ==
    ASSUME AuthorityInv, GrantsGrow,
           \A r \in Slot : req'[r].pc \in {"invited", "loaded", "saved"} => req'[r] = req[r]
    PROVE  RequestsGranted'
<1>. SUFFICES ASSUME NEW r \in Slot, req'[r].pc \in {"invited", "loaded", "saved"},
                     req'[r].who \notin aliased'
              PROVE  /\ req'[r].role \in granted'[req'[r].who]
                     /\ \/ req'[r].roles \in {Unregistered, Deleted}
                        \/ req'[r].roles \subseteq granted'[req'[r].who]
  BY DEF RequestsGranted
<1>1. req'[r] = req[r] /\ req[r].who \in Account
  BY AcceptingType DEF AuthorityInv
<1>. QED BY <1>1 DEF AuthorityInv, RequestsGranted, GrantsGrow

LEMMA OneRowRoles ==
    ASSUME NEW w \in Scope, NEW e \in Account, NEW row, OneRow(w, e, row),
           \/ row.role \in granted'[e]
           \/ member[w][e] # NoRow /\ row.role = member[w][e].role
    PROVE  RolesKept
BY DEF OneRow, RolesKept

LEMMA ActivatedRoles ==
    ASSUME NEW w \in Scope, NEW e \in Account, member' = member \/ Activated(w, e)
    PROVE  RolesKept
<1>1. CASE member' = member
  BY <1>1 DEF RolesKept
<1>2. CASE Activated(w, e)
  BY <1>2, RowExists, OneRowRoles DEF Activated
<1>. QED BY <1>1, <1>2

LEMMA RemovedRoles == ASSUME NEW w \in Scope, Removed(w) PROVE RolesKept
BY DEF Removed, RolesKept

LEMMA RelabelledRoles == Relabelled => RolesKept
BY RowExists DEF Relabelled, RolesKept

\* The requests that go on are those that were under way.
NoneStarts == \A r \in Slot : req'[r].pc \in {"invited", "loaded", "saved"} => req'[r] = req[r]

LEMMA FinishStarts ==
    ASSUME TypeOK, NEW r \in Slot, Finish(r)
    PROVE  NoneStarts
BY DEF TypeOK, Finish, Goto, Idle, NoneStarts

LEMMA GrantGrows ==
    ASSUME TypeOK, NEW u \in Account, NEW role \in Role, Grant(u, role), aliased \subseteq aliased'
    PROVE  GrantsGrow /\ role \in granted'[u]
BY GrantType DEF TypeOK, GrantsGrow

\* A step that keeps every kind of role keeps the invariant.
LEMMA AuthorityStays ==
    ASSUME AuthorityInv, TypeOK', GrantsGrow, RolesKept, NoneStarts, cached' = cached,
           \A u \in Account \ aliased' : roles'[u] \subseteq roles[u] \cup granted'[u]
    PROVE  AuthorityInv'
BY RowsStay, AccountsStay, SameAccountsKept, RequestsStay DEF AuthorityInv, NoneStarts

LEMMA SameGrants == ASSUME UNCHANGED <<granted, aliased>> PROVE GrantsGrow
BY DEF GrantsGrow

LEMMA SameRows == ASSUME member' = member PROVE RolesKept
BY DEF RolesKept

LEMMA WorkspacesAuthority ==
    ASSUME AuthorityInv, NEW u \in Account, NEW n \in Name, CreateWorkspace(u, n) \/ SyncName(u, n)
    PROVE  AuthorityInv'
<1>. USE DEF AuthorityInv
<1>1. CASE CreateWorkspace(u, n)
  <2>1. GrantsGrow /\ "admin" \in granted'[u]
    BY <1>1, GrantGrows DEF CreateWorkspace, Role
  <2>2. RolesKept
    BY <1>1, <2>1, CreateWorkspaceType, OneRowRoles
  <2>. QED BY <1>1, <2>1, <2>2, CreateWorkspaceType, AuthorityStays DEF CreateWorkspace, NoneStarts
<1>2. CASE SyncName(u, n)
  BY <1>2, SyncNameType, RelabelledRoles, SameGrants, AuthorityStays
     DEF SyncName, history, NoneStarts
<1>. QED BY <1>1, <1>2

LEMMA AdministerAuthority ==
    ASSUME AuthorityInv, NEW r \in Slot, NEW u \in Account, Administer(r, u)
    PROVE  AuthorityInv'
<1>. USE DEF AuthorityInv
<1>1. UNCHANGED <<member, granted, aliased, roles, cached>> /\ NoneStarts
  BY DEF Administer, Permit, history, Goto, TypeOK, NoneStarts
<1>. QED BY <1>1, AdministerType, SameGrants, SameRows, AuthorityStays

LEMMA InviteAuthority ==
    ASSUME AuthorityInv, NEW r \in Slot, NEW who \in Account, NEW role \in Role,
           InviteMember(r, who, role)
    PROVE  AuthorityInv'
<1>. USE DEF AuthorityInv
<1>1. GrantsGrow /\ role \in granted'[who]
  BY GrantGrows DEF InviteMember
<1>2. RolesKept
  BY <1>1, InviteMemberType, OneRowRoles
<1>. QED BY <1>1, <1>2, InviteMemberType, FinishStarts, AuthorityStays DEF InviteMember

LEMMA UpdateRoleAuthority ==
    ASSUME AuthorityInv, NEW r \in Slot, NEW i \in Account \cup Name, NEW role \in Role,
           UpdateMemberRole(r, i, role)
    PROVE  AuthorityInv'
<1>. USE DEF AuthorityInv
<1>1. aliased \subseteq aliased' /\ \A e \in Matching(req[r].w, i) \ aliased' : e = i
  BY DEF UpdateMemberRole
<1>2. GrantsGrow /\ (i \in Account => role \in granted'[i])
  <2>1. CASE i \in Account
    BY <1>1, <2>1, GrantGrows DEF UpdateMemberRole
  <2>2. CASE i \notin Account
    BY <1>1, <2>2 DEF UpdateMemberRole, GrantsGrow
  <2>. QED BY <2>1, <2>2
<1>3. RolesKept
  <2>. SUFFICES ASSUME NEW w \in Scope, NEW e \in Account \ aliased', member'[w][e] # NoRow
                PROVE  \/ member'[w][e].role \in granted'[e]
                       \/ member[w][e] # NoRow /\ member'[w][e].role = member[w][e].role
    BY DEF RolesKept
  <2>1. CASE member'[w][e] = member[w][e]
    BY <2>1
  <2>2. CASE /\ w = req[r].w /\ e \in Matching(w, i)
             /\ member[w][e] \in Row
             /\ member'[w][e] = [member[w][e] EXCEPT !.role = role]
    <3>1. member'[w][e].role = role
      BY <2>2 DEF Row
    <3>. QED BY <1>1, <1>2, <2>2, <3>1
  <2>. QED BY <2>1, <2>2, UpdateMemberRoleType
<1>. QED BY <1>2, <1>3, UpdateMemberRoleType, FinishStarts, AuthorityStays DEF UpdateMemberRole

LEMMA RemovalsAuthority ==
    ASSUME AuthorityInv, NEW r \in Slot, NEW i \in Account \cup Name,
           RemoveMember(r, i) \/ DeleteWorkspace(r) \/ RemoveTeamRow(r) \/ RefuseGone(r)
    PROVE  AuthorityInv'
<1>. USE DEF AuthorityInv, history
<1>1. CASE RemoveMember(r, i)
  BY <1>1, RemoveMemberType, RemovedRoles, FinishStarts, SameGrants, AuthorityStays
     DEF RemoveMember
<1>2. CASE DeleteWorkspace(r)
  BY <1>2, DeleteWorkspaceType, RemovedRoles, FinishStarts, SameGrants, AuthorityStays
     DEF DeleteWorkspace
<1>3. CASE RemoveTeamRow(r)
  BY <1>3, RemoveTeamRowType, ScopeType, RemovedRoles, FinishStarts, SameGrants, AuthorityStays
     DEF RemoveTeamRow
<1>4. CASE RefuseGone(r)
  BY <1>4, RefuseGoneType, SameRows, FinishStarts, SameGrants, AuthorityStays DEF RefuseGone
<1>. QED BY <1>1, <1>2, <1>3, <1>4

(***************************************************************************)
(* Deleting an account takes its roles, and those that an acceptance of it *)
(* holds.                                                                  *)
(***************************************************************************)
LEMMA DeleteAccountAuthority ==
    ASSUME AuthorityInv, NEW r \in Slot, NEW who \in Account, DeleteAccount(r, who)
    PROVE  AuthorityInv'
<1>. USE DEF AuthorityInv, DeleteAccount
<1>1. TypeOK' /\ GrantsGrow /\ RolesKept
  BY DeleteAccountType, SameGrants, SameRows
<1>2. AccountsGranted'
  <2>1. \A u \in Account : roles'[u] \subseteq roles[u]
    BY DEF TypeOK
  <2>2. \A u \in Account : u # who => cached'[u] = cached[u]
    BY DEF TypeOK
  <2>3. ASSUME NEW c \in cached'[who]
        PROVE  c.roles \subseteq roles[who] \/ \E d \in cached[who] : c.roles \subseteq d.roles
    <3>1. CASE who \in registered
      <4>1. PICK d \in Served(who) : c = [d EXCEPT !.gone = TRUE]
        BY <2>3, <3>1 DEF TypeOK
      <4>2. d \in Copy
        BY <4>1, ServedType
      <4>3. c.roles = d.roles
        BY <4>1, <4>2 DEF Copy
      <4>. QED BY <4>1, <4>3, ServedType
    <3>2. CASE who \notin registered
      BY <2>3, <3>2
    <3>. QED BY <3>1, <3>2
  <2>4. AccountsKept
    BY <2>1, <2>2, <2>3 DEF AccountsKept
  <2>. QED BY <1>1, <2>4, AccountsStay
<1>3. RequestsGranted'
  <2>. SUFFICES ASSUME NEW x \in Slot, req'[x].pc \in {"invited", "loaded", "saved"},
                       req'[x].who \notin aliased'
                PROVE  /\ req'[x].role \in granted'[req'[x].who]
                       /\ \/ req'[x].roles \in {Unregistered, Deleted}
                          \/ req'[x].roles \subseteq granted'[req'[x].who]
    BY DEF RequestsGranted
  <2>1. x # r
    BY DEF TypeOK
  <2>2. CASE Holds(x, who)
    <3>1. req[x] \in Accepting /\ req'[x] = [req[x] EXCEPT !.roles = Deleted]
      BY <2>1, <2>2, AcceptingType DEF Holds, TypeOK
    <3>2. /\ req'[x].pc = req[x].pc /\ req'[x].who = req[x].who
          /\ req'[x].role = req[x].role /\ req'[x].roles = Deleted
      BY <3>1 DEF Accepting
    <3>. QED BY <3>2 DEF RequestsGranted
  <2>3. CASE ~Holds(x, who)
    <3>1. req'[x] = req[x]
      BY <2>1, <2>3 DEF TypeOK
    <3>. QED BY <3>1 DEF RequestsGranted
  <2>. QED BY <2>2, <2>3
<1>. QED BY <1>1, <1>2, <1>3, RowsStay

LEMMA CreateUserAuthority ==
    ASSUME AuthorityInv, NEW r \in Slot, NEW who \in Account, NEW role \in Role,
           CreateUser(r, who, role)
    PROVE  AuthorityInv'
<1>. USE DEF AuthorityInv, CreateUser
<1>1. TypeOK' /\ RolesKept /\ NoneStarts
  BY CreateUserType, SameRows, FinishStarts
<1>2. CASE who \in registered
  BY <1>1, <1>2, SameGrants, AuthorityStays
<1>3. CASE who \notin registered
  <2>1. GrantsGrow /\ role \in granted'[who]
    BY <1>3, GrantGrows
  <2>2. \A u \in Account : roles'[u] \subseteq roles[u] \cup granted'[u]
    BY <1>3, <2>1 DEF TypeOK
  <2>. QED BY <1>1, <2>1, <2>2, AuthorityStays
<1>. QED BY <1>2, <1>3

LEMMA AddMemberAuthority ==
    ASSUME AuthorityInv, NEW w \in Workspace, NEW u \in Account, NEW role \in Role,
           AddMember(w, u, role)
    PROVE  AuthorityInv'
<1>. USE DEF AuthorityInv
<1>1. GrantsGrow /\ role \in granted'[u]
  BY GrantGrows DEF AddMember
<1>2. RolesKept
  BY <1>1, AddMemberType, OneRowRoles
<1>. QED BY <1>1, <1>2, AddMemberType, AuthorityStays DEF AddMember, NoneStarts

LEMMA NewViewerAuthority ==
    ASSUME AuthorityInv, NEW u \in Account, NewViewer(u)
    PROVE  AuthorityInv'
<1>. USE DEF AuthorityInv
<1>1. GrantsGrow /\ "viewer" \in granted'[u]
  BY GrantGrows DEF NewViewer, Role
<1>2. \A x \in Account : roles'[x] \subseteq roles[x] \cup granted'[x]
  BY <1>1 DEF NewViewer, TypeOK
<1>. QED BY <1>1, <1>2, NewViewerType, SameRows, AuthorityStays DEF NewViewer, NoneStarts

(***************************************************************************)
(* An acceptance carries the role of the row it read and the roles of the  *)
(* account.                                                                *)
(***************************************************************************)
RequestGranted(q) ==
    q.pc \in {"invited", "loaded", "saved"} /\ q.who \notin aliased =>
        /\ q.role \in granted[q.who]
        /\ \/ q.roles \in {Unregistered, Deleted}
           \/ q.roles \subseteq granted[q.who]

LEMMA RequestGoesOn ==
    ASSUME AuthorityInv, TypeOK', UNCHANGED <<granted, aliased>>, RolesKept,
           AccountsKept, NEW r \in Slot, NEW q, RequestGranted(q), Goto(r, q)
    PROVE  AuthorityInv'
<1>1. GrantsGrow
  BY SameGrants
<1>2. RequestsGranted'
  <2>. SUFFICES ASSUME NEW x \in Slot, req'[x].pc \in {"invited", "loaded", "saved"},
                       req'[x].who \notin aliased'
                PROVE  /\ req'[x].role \in granted'[req'[x].who]
                       /\ \/ req'[x].roles \in {Unregistered, Deleted}
                          \/ req'[x].roles \subseteq granted'[req'[x].who]
    BY DEF RequestsGranted
  <2>1. CASE x = r
    BY <2>1 DEF AuthorityInv, TypeOK, Goto, RequestGranted
  <2>2. CASE x # r
    BY <2>2 DEF AuthorityInv, TypeOK, Goto, RequestsGranted
  <2>. QED BY <2>1, <2>2
<1>. QED BY <1>1, <1>2, RowsStay, AccountsStay DEF AuthorityInv

LEMMA ReadInvitationAuthority ==
    ASSUME AuthorityInv, NEW r \in Slot, NEW w \in Scope, NEW e \in Account,
           ReadInvitation(r, w, e)
    PROVE  AuthorityInv'
<1>. USE DEF ReadInvitation, history
<1>. DEFINE q == [pc |-> "invited", w |-> w, who |-> e, role |-> member[w][e].role,
                  token |-> member[w][e].token, roles |-> {}]
<1>1. RequestGranted(q)
  BY DEF RequestGranted, AuthorityInv, RowsGranted
<1>. QED BY <1>1, ReadInvitationType, SameRows, SameAccountsKept, RequestGoesOn DEF AuthorityInv

LEMMA LoadAccountAuthority ==
    ASSUME AuthorityInv, NEW r \in Slot, LoadAccount(r)
    PROVE  AuthorityInv'
<1>. DEFINE q == req[r]
<1>1. /\ TypeOK /\ TypeOK' /\ q.pc = "invited" /\ q.who \in Account /\ q.role \in Role
      /\ UNCHANGED <<member, roles, granted, aliased>>
  BY LoadAccountType DEF AuthorityInv, LoadAccount
<1>2. RequestGranted(q)
  BY <1>1 DEF AuthorityInv, RequestsGranted, RequestGranted
<1>3. ASSUME NEW list \in {Unregistered, Deleted} \cup SUBSET Role,
             \/ list \in {Unregistered, Deleted}
             \/ q.who \notin aliased => list \subseteq granted[q.who],
             Goto(r, [q EXCEPT !.pc = "loaded", !.roles = list]), AccountsKept
      PROVE  AuthorityInv'
  <2>. DEFINE next == [q EXCEPT !.pc = "loaded", !.roles = list]
  <2>1. next.who = q.who /\ next.role = q.role /\ next.roles = list
    BY <1>1, LoadedType
  <2>2. RequestGranted(next)
    BY <1>1, <1>2, <1>3, <2>1 DEF RequestGranted
  <2>. QED BY <1>1, <1>3, <2>2, SameRows, RequestGoesOn
<1>4. ASSUME NEW row \in Served(q.who),
             Goto(r, [q EXCEPT !.pc = "loaded", !.roles = IF row.gone THEN Deleted ELSE row.roles]),
             cached' = IF q.role \in row.roles THEN cached
                       ELSE [cached EXCEPT ![q.who] = @ \cup {[row EXCEPT !.roles = @ \cup {q.role}]}]
      PROVE  AuthorityInv'
  <2>1. row \in Copy /\ row.roles \in SUBSET Role
    <3>1. Served(q.who) \subseteq Copy
      BY <1>1, ServedType
    <3>. QED BY <3>1 DEF Copy
  <2>2. row.roles = roles[q.who] \/ row \in cached[q.who]
    BY <1>1, ServedType
  <2>3. q.who \notin aliased => row.roles \subseteq granted[q.who] /\ q.role \in granted[q.who]
    BY <1>1, <1>2, <2>2 DEF AuthorityInv, AccountsGranted, RequestGranted
  <2>4. AccountsKept
    <3>. DEFINE edited == [row EXCEPT !.roles = @ \cup {q.role}]
    <3>1. edited.roles = row.roles \cup {q.role}
      BY <1>1, <2>1, EditedType
    <3>. HIDE DEF edited
    <3>2. \A u \in Account : \A c \in cached'[u] : c \in cached[u] \/ (u = q.who /\ c = edited)
      BY <1>1, <1>4 DEF TypeOK, edited
    <3>. QED BY <1>1, <2>3, <3>1, <3>2 DEF AccountsKept
  <2>. QED BY <1>3, <1>4, <2>1, <2>3, <2>4
<1>5. CASE Goto(r, [q EXCEPT !.pc = "loaded", !.roles = Unregistered]) /\ UNCHANGED cached
  BY <1>1, <1>3, <1>5, SameAccountsKept
<1>. QED BY <1>4, <1>5 DEF LoadAccount

LEMMA SavedGranted ==
    ASSUME AuthorityInv, NEW r \in Slot, req[r].pc = "loaded"
    PROVE  /\ RequestGranted(req[r])
           /\ RequestGranted([req[r] EXCEPT !.pc = "saved"])
<1>1. req[r] \in Accepting
  BY AcceptingType DEF AuthorityInv
<1>2. RequestGranted(req[r])
  BY DEF AuthorityInv, RequestsGranted, RequestGranted
<1>. QED BY <1>1, <1>2 DEF RequestGranted, Accepting

LEMMA SavesAuthority ==
    ASSUME AuthorityInv, NEW r \in Slot, SaveAccount(r) \/ RegisterAccount(r) \/ MissAccount(r)
    PROVE  AuthorityInv'
<1>. USE DEF AuthorityInv, history
<1>. DEFINE q == req[r]
<1>1. q.pc = "loaded" /\ Goto(r, [q EXCEPT !.pc = "saved"])
  BY DEF SaveAccount, RegisterAccount, MissAccount
<1>2. RequestGranted(q) /\ RequestGranted([q EXCEPT !.pc = "saved"])
      /\ q.who \in Account /\ q.role \in Role
  BY <1>1, SavedGranted, AcceptingType
<1>3. UNCHANGED <<granted, aliased>> /\ RolesKept /\ TypeOK'
  BY SaveAccountType, RegisterAccountType, MissAccountType, SameRows
     DEF SaveAccount, RegisterAccount, MissAccount
<1>4. AccountsKept
  <2>1. CASE SaveAccount(r)
    <3>1. /\ roles' = [roles EXCEPT ![q.who] = q.roles \cup {q.role}]
          /\ q.roles \notin {Unregistered, Deleted}
          /\ cached' = [cached EXCEPT ![q.who] =
                            (@ \cup {Current(q.who)}) \ {[roles |-> q.roles \cup {q.role}, gone |-> FALSE]}]
      BY <2>1 DEF SaveAccount, WriteRoles
    <3>2. \A u \in Account \ aliased' : roles'[u] \subseteq roles[u] \cup granted'[u]
      BY <1>1, <1>2, <1>3, <3>1 DEF TypeOK, RequestGranted
    <3>3. Current(q.who).roles = roles[q.who]
      BY <1>2, ServedType
    <3>4. \A u \in Account : \A c \in cached'[u] : c \in cached[u] \/ c.roles = roles[u]
      BY <1>2, <3>1, <3>3 DEF TypeOK
    <3>. QED BY <3>2, <3>4 DEF AccountsKept
  <2>2. CASE RegisterAccount(r)
    <3>1. roles' = [roles EXCEPT ![q.who] = {q.role}] /\ cached' = cached
      BY <2>2 DEF RegisterAccount
    <3>2. \A u \in Account \ aliased' : roles'[u] \subseteq roles[u] \cup granted'[u]
      BY <1>1, <1>2, <1>3, <3>1 DEF TypeOK, RequestGranted
    <3>. QED BY <3>1, <3>2, SameAccountsKept
  <2>3. CASE MissAccount(r)
    BY <2>3, SameAccountsKept DEF MissAccount
  <2>. QED BY <2>1, <2>2, <2>3
<1>. QED BY <1>1, <1>2, <1>3, <1>4, RequestGoesOn

\* Caches forget.
LEMMA ForgetAuthority ==
    ASSUME AuthorityInv, NEW u \in Account, Forget(u)
    PROVE  AuthorityInv'
<1>1. TypeOK /\ TypeOK' /\ UNCHANGED <<member, roles, granted, aliased, req>>
  BY ForgetType DEF AuthorityInv, Forget, history
<1>2. GrantsGrow /\ RolesKept
  BY <1>1, SameGrants, SameRows
<1>3. AccountsKept
  BY <1>1 DEF Forget, TypeOK, AccountsKept
<1>. QED BY <1>1, <1>2, <1>3, RowsStay, AccountsStay, RequestsStay DEF AuthorityInv

LEMMA EndsAuthority ==
    ASSUME AuthorityInv, NEW r \in Slot, AccountMoved(r) \/ Activate(r) \/ ActivateTeam(r)
    PROVE  AuthorityInv'
<1>. USE DEF AuthorityInv
<1>1. TypeOK' /\ RolesKept
  BY AccountMovedType, ActivateType, ActivateTeamType, ActivatedRoles, ScopeType
<1>2. UNCHANGED <<granted, aliased, roles, cached>> /\ Finish(r)
  BY DEF AccountMoved, Activate, ActivateTeam, history
<1>. QED BY <1>1, <1>2, SameGrants, FinishStarts, AuthorityStays

LEMMA ExpireAuthority ==
    ASSUME AuthorityInv, NEW w \in Scope, NEW e \in Account, Expire(w, e)
    PROVE  AuthorityInv'
BY ExpireType, RelabelledRoles, SameGrants, AuthorityStays
   DEF Expire, history, NoneStarts, AuthorityInv

LEMMA InitAuthority == Init => AuthorityInv
BY InitType DEF Init, AuthorityInv, RowsGranted, AccountsGranted, RequestsGranted, Idle

LEMMA ProceedAuthority ==
    ASSUME AuthorityInv, NEW r \in Slot, Proceed(r)
    PROVE  AuthorityInv'
<1>1. ASSUME NEW e \in Subject, NEW role \in InviteRole,
             InviteMember(r, e, role) \/ CreateUser(r, e, role)
      PROVE  AuthorityInv'
  BY <1>1, InputType, InviteAuthority, CreateUserAuthority
<1>2. ASSUME NEW i \in Subject \cup Name, NEW role \in InviteRole, UpdateMemberRole(r, i, role)
      PROVE  AuthorityInv'
  BY <1>2, InputType, UpdateRoleAuthority
<1>3. ASSUME NEW i \in Subject \cup Name, RemoveMember(r, i)
      PROVE  AuthorityInv'
  BY <1>3, InputType, RemovalsAuthority
<1>4. ASSUME NEW e \in Subject, DeleteAccount(r, e)
      PROVE  AuthorityInv'
  BY <1>4, InputType, DeleteAccountAuthority
<1>5. CASE RefuseGone(r) \/ DeleteWorkspace(r) \/ RemoveTeamRow(r)
  BY <1>5, MembershipAssumption, RemovalsAuthority
<1>6. CASE LoadAccount(r) \/ SaveAccount(r) \/ RegisterAccount(r) \/ MissAccount(r)
  BY <1>6, LoadAccountAuthority, SavesAuthority
<1>7. CASE AccountMoved(r) \/ Activate(r) \/ ActivateTeam(r)
  BY <1>7, EndsAuthority
<1>. QED BY <1>1, <1>2, <1>3, <1>4, <1>5, <1>6, <1>7 DEF Proceed

LEMMA StepAuthority == AuthorityInv /\ [Next]_vars => AuthorityInv'
<1>. SUFFICES ASSUME AuthorityInv, [Next]_vars PROVE AuthorityInv'
  OBVIOUS
<1>1. ASSUME NEW u \in Account, NEW n \in Name, CreateWorkspace(u, n) \/ SyncName(u, n)
      PROVE  AuthorityInv'
  BY <1>1, WorkspacesAuthority
<1>2. ASSUME NEW r \in Slot, NEW u \in Account, Administer(r, u)
      PROVE  AuthorityInv'
  BY <1>2, AdministerAuthority
<1>3. ASSUME NEW w \in Scope, NEW e \in Account,
             Expire(w, e) \/ \E r \in Slot : ReadInvitation(r, w, e)
      PROVE  AuthorityInv'
  BY <1>3, ExpireAuthority, ReadInvitationAuthority
<1>4. ASSUME NEW r \in Slot, Proceed(r)
      PROVE  AuthorityInv'
  BY <1>4, ProceedAuthority
<1>5. ASSUME NEW w \in Workspace, NEW u \in Subject, NEW role \in InviteRole,
             AddMember(w, u, role)
      PROVE  AuthorityInv'
  BY <1>5, InputType, AddMemberAuthority
<1>6. ASSUME NEW u \in Account, Register(u) \/ Provision(u)
      PROVE  AuthorityInv'
  BY <1>6, NewViewerAuthority DEF Register, Provision
<1>7. CASE UNCHANGED vars
  BY <1>7 DEF AuthorityInv, TypeOK, RowsGranted, AccountsGranted, RequestsGranted, vars, history
<1>8. ASSUME NEW u \in Account, Forget(u)
      PROVE  AuthorityInv'
  BY <1>8, ForgetAuthority
<1>. QED BY <1>1, <1>2, <1>3, <1>4, <1>5, <1>6, <1>7, <1>8 DEF Next

(***************************************************************************)
(* has_role expands the roles of the account and of rows found under the   *)
(* person's own address.                                                   *)
(***************************************************************************)
LEMMA GrantedAuthority == AuthorityInv => AuthorityWasGranted
<1>. SUFFICES ASSUME AuthorityInv, NEW u \in Account \ aliased, NEW w \in Scope,
                     \A e \in Matching(w, u) : e = u,
                     NEW need \in Role, HasRole(u, need, w)
              PROVE  need \in Expand(granted[u])
  BY DEF AuthorityWasGranted
<1>1. \A row \in Served(u) : row.roles \subseteq granted[u]
  BY ServedType DEF AuthorityInv, AccountsGranted
<1>2. ASSUME NEW row \in Served(u), "superadmin" \in row.roles
      PROVE  need \in Expand(granted[u])
  BY <1>1, <1>2 DEF Expand, Inherits, Role
<1>3. ASSUME NEW row \in Served(u), need \in Expand(row.roles)
      PROVE  need \in Expand(granted[u])
  BY <1>1, <1>3 DEF Expand
<1>4. CASE \E e \in Matching(w, u) :
              member[w][e].status = "active" /\ need \in Expand({member[w][e].role})
  <2>1. member[w][u] # NoRow /\ need \in Expand({member[w][u].role})
    BY <1>4 DEF Matching
  <2>2. member[w][u].role \in granted[u]
    BY <2>1 DEF AuthorityInv, RowsGranted
  <2>. QED BY <2>1, <2>2 DEF Expand
<1>. QED BY <1>2, <1>3, <1>4 DEF HasRole

(***************************************************************************)
(* Whoever passes has_role holds a role that he was given.                 *)
(***************************************************************************)
THEOREM AuthorityGranted == Spec => []AuthorityWasGranted
<1>1. Spec => []AuthorityInv
  BY InitAuthority, StepAuthority, PTL DEF Spec
<1>. QED BY <1>1, GrantedAuthority, PTL

------------------------------------------------------------------------------
(* Life *)

\* What MembershipLife sees of a row.
IsIn(row) == row # NoRow /\ row.status = "active"
OfferIn(row) == IF row # NoRow /\ row.status = "invited" THEN row.token ELSE 0

Inside == {x \in Scope \X Account : IsIn(member[x[1]][x[2]])}
Offers == [w \in Scope |-> [u \in Account |-> OfferIn(member[w][u])]]

LEMMA StutterLife ==
    ASSUME tokens' = tokens,
           \A w \in Scope, u \in Account :
               /\ IsIn(member'[w][u]) <=> IsIn(member[w][u])
               /\ OfferIn(member'[w][u]) = OfferIn(member[w][u])
    PROVE  UNCHANGED Life!lifeVars
<1>1. Inside' = Inside
  BY DEF Inside
<1>2. Offers' = Offers
  BY DEF Offers
<1>. QED BY <1>1, <1>2 DEF Life!lifeVars, Inside, Offers, IsIn, OfferIn

(***************************************************************************)
(* Replacing one row changes what is seen in one place.                    *)
(***************************************************************************)
LEMMA OneRowLife ==
    ASSUME NEW w \in Scope, NEW u \in Account, NEW row, OneRow(w, u, row)
    PROVE  /\ IsIn(row) => Inside' = Inside \cup {<<w, u>>}
           /\ ~IsIn(row) => Inside' = Inside \ {<<w, u>>}
           /\ Offers' = [Offers EXCEPT ![w][u] = OfferIn(row)]
<1>1. \A x \in Scope, y \in Account :
          member'[x][y] = IF x = w /\ y = u THEN row ELSE member[x][y]
  BY DEF OneRow
<1>2. \A z \in Scope \X Account : z \in Inside' <=>
          IF z = <<w, u>> THEN IsIn(row) ELSE z \in Inside
  BY <1>1 DEF Inside
<1>3. Inside \subseteq Scope \X Account /\ Inside' \subseteq Scope \X Account
  BY DEF Inside
<1>4. Offers' = [Offers EXCEPT ![w][u] = OfferIn(row)]
  <2>. DEFINE Next_ == [Offers EXCEPT ![w][u] = OfferIn(row)]
  <2>1. \A x \in Scope, y \in Account :
            OfferIn(member'[x][y]) = IF x = w /\ y = u THEN OfferIn(row) ELSE OfferIn(member[x][y])
    BY <1>1
  <2>2. Offers' = [x \in Scope |-> [y \in Account |-> OfferIn(member'[x][y])]]
    BY DEF Offers
  <2>3. Next_ = [x \in Scope |-> [y \in Account |->
                    IF x = w /\ y = u THEN OfferIn(row) ELSE OfferIn(member[x][y])]]
    BY DEF Offers
  <2>. HIDE DEF Next_
  <2>4. Offers' = Next_
    BY <2>1, <2>2, <2>3
  <2>. QED BY <2>4 DEF Next_
<1>. QED BY <1>2, <1>3, <1>4

LEMMA EnterLife ==
    ASSUME NEW w \in Scope, NEW u \in Account, NEW row \in Row, OneRow(w, u, row),
           row.status = "active", tokens' = tokens
    PROVE  Life!Enter(w, u)
<1>1. IsIn(row) /\ OfferIn(row) = 0
  BY RowExists DEF IsIn, OfferIn
<1>2. Inside' = Inside \cup {<<w, u>>} /\ Offers' = [Offers EXCEPT ![w][u] = 0]
  BY <1>1, OneRowLife
<1>. QED BY <1>2 DEF Life!Enter, Inside, Offers, IsIn, OfferIn

LEMMA OfferLife ==
    ASSUME NEW w \in Scope, NEW u \in Account, NEW row \in Row, OneRow(w, u, row),
           row.status = "invited", row.token = tokens', tokens \in Nat, tokens' = tokens + 1
    PROVE  Life!Offer(w, u, tokens')
<1>1. ~IsIn(row) /\ OfferIn(row) = tokens'
  BY RowExists DEF IsIn, OfferIn
<1>2. Inside' = Inside \ {<<w, u>>} /\ Offers' = [Offers EXCEPT ![w][u] = tokens']
  BY <1>1, OneRowLife
<1>3. tokens' \notin 1..tokens /\ 1..tokens' = (1..tokens) \cup {tokens'}
  OBVIOUS
<1>. QED BY <1>2, <1>3 DEF Life!Offer, Inside, Offers, IsIn, OfferIn

LEMMA TakeUpLife ==
    ASSUME NEW w \in Scope, NEW u \in Account, Activated(w, u), tokens' = tokens
    PROVE  Life!TakeUp(w, u) \/ UNCHANGED Life!lifeVars
<1>1. PICK row \in Row : OneRow(w, u, row) /\ row.status = "active"
  BY DEF Activated
<1>2. IsIn(row) /\ OfferIn(row) = 0 /\ row # NoRow
  BY <1>1, RowExists DEF IsIn, OfferIn
<1>3. member[w][u] # NoRow /\ member[w][u].token # 0 /\ member[w][u].status \in {"invited", "active"}
  BY RowExists DEF Activated, Row
<1>4. CASE member[w][u].status = "invited"
  <2>1. Inside' = Inside \cup {<<w, u>>} /\ Offers' = [Offers EXCEPT ![w][u] = 0]
    BY <1>1, <1>2, OneRowLife
  <2>2. Offers[w][u] # 0
    BY <1>3, <1>4 DEF Offers, OfferIn
  <2>. QED BY <2>1, <2>2 DEF Life!TakeUp, Inside, Offers, IsIn, OfferIn
<1>5. CASE member[w][u].status = "active"
  <2>1. IsIn(member[w][u]) /\ OfferIn(member[w][u]) = 0
    BY <1>3, <1>5 DEF IsIn, OfferIn
  <2>. QED BY <1>1, <1>2, <2>1, StutterLife DEF OneRow
<1>. QED BY <1>3, <1>4, <1>5

LEMMA LeaveLife ==
    ASSUME NEW w \in Scope, Removed(w), tokens' = tokens
    PROVE  \E gone \in SUBSET Account : Life!Leave(w, gone)
<1>. DEFINE gone == {u \in Account : member'[w][u] = NoRow}
<1>1. \A x \in Scope, u \in Account :
          member'[x][u] = IF x = w /\ u \in gone THEN NoRow ELSE member[x][u]
  BY DEF Removed
<1>2. ~IsIn(NoRow) /\ OfferIn(NoRow) = 0
  BY DEF IsIn, OfferIn
<1>3. Inside' = Inside \ ({w} \X gone)
  <2>1. \A z \in Scope \X Account :
            z \in Inside' <=> z \in Inside /\ ~(z[1] = w /\ z[2] \in gone)
    BY <1>1, <1>2 DEF Inside
  <2>2. Inside \subseteq Scope \X Account /\ Inside' \subseteq Scope \X Account
    BY DEF Inside
  <2>. HIDE DEF gone
  <2>. QED BY <2>1, <2>2
<1>4. Offers' = [Offers EXCEPT ![w] = [u \in Account |-> IF u \in gone THEN 0 ELSE @[u]]]
  <2>. HIDE DEF gone
  <2>1. \A x \in Scope, u \in Account :
            OfferIn(member'[x][u]) = IF x = w /\ u \in gone THEN 0 ELSE OfferIn(member[x][u])
    BY <1>1, <1>2
  <2>2. Offers' = [x \in Scope |-> [u \in Account |-> OfferIn(member'[x][u])]]
    BY DEF Offers
  <2>. QED BY <2>1, <2>2 DEF Offers
<1>5. Life!Leave(w, gone)
  BY <1>3, <1>4 DEF Life!Leave, Inside, Offers, IsIn, OfferIn
<1>6. gone \in SUBSET Account
  OBVIOUS
<1>. HIDE DEF gone
<1>. QED BY <1>5, <1>6 DEF Life!Leave

LEMMA InitLife == Init => Life!LifeInit
BY RowExists DEF Init, Life!LifeInit, NoRow

(***************************************************************************)
(* Each kind of step is a step of the promise, or none that it sees.       *)
(***************************************************************************)
LifeStep == [Life!LifeNext]_(Life!lifeVars)

LEMMA Enters ==
    ASSUME NEW w \in Scope, NEW u \in Account, NEW row \in Row, OneRow(w, u, row),
           row.status = "active", tokens' = tokens
    PROVE  LifeStep
<1>1. Life!Enter(w, u)
  BY EnterLife
<1>. QED BY <1>1 DEF Life!Enter, Life!LifeNext, LifeStep

LEMMA Invites ==
    ASSUME NEW w \in Scope, NEW u \in Account, NEW row \in Row, OneRow(w, u, row),
           row.status = "invited", row.token = tokens', tokens \in Nat, tokens' = tokens + 1,
           tokens' \in Token
    PROVE  LifeStep
<1>1. Life!Offer(w, u, tokens')
  BY OfferLife
<1>. QED BY <1>1 DEF Life!Offer, Life!LifeNext, LifeStep

LEMMA Accepts ==
    ASSUME NEW w \in Scope, NEW u \in Account, Activated(w, u), tokens' = tokens
    PROVE  LifeStep
<1>1. CASE Life!TakeUp(w, u)
  BY <1>1 DEF Life!TakeUp, Life!LifeNext, LifeStep
<1>. QED BY <1>1, TakeUpLife DEF LifeStep

LEMMA Leaves ==
    ASSUME NEW w \in Scope, Removed(w), tokens' = tokens
    PROVE  LifeStep
BY LeaveLife DEF Life!Leave, Life!LifeNext, LifeStep

LEMMA SameRowsLife == ASSUME UNCHANGED <<member, tokens>> PROVE LifeStep
BY StutterLife DEF LifeStep

LEMMA RelabelledLife == ASSUME Relabelled, tokens' = tokens PROVE LifeStep
<1>1. \A w \in Scope, u \in Account :
          /\ IsIn(member'[w][u]) <=> IsIn(member[w][u])
          /\ OfferIn(member'[w][u]) = OfferIn(member[w][u])
  BY RowExists DEF Relabelled, IsIn, OfferIn
<1>. QED BY <1>1, StutterLife DEF LifeStep

LEMMA UpdateRoleLife ==
    ASSUME TypeOK, NEW r \in Slot, NEW i \in Account \cup Name, NEW role \in Role,
           UpdateMemberRole(r, i, role)
    PROVE  LifeStep
<1>1. \A w \in Scope, u \in Account :
          \/ member'[w][u] = member[w][u]
          \/ /\ member[w][u] \in Row /\ member'[w][u] \in Row
             /\ member'[w][u].status = member[w][u].status
             /\ member'[w][u].token = member[w][u].token
  <2>1. \A row \in Row : /\ [row EXCEPT !.role = role] \in Row
                         /\ [row EXCEPT !.role = role].status = row.status
                         /\ [row EXCEPT !.role = role].token = row.token
    BY DEF Row
  <2>2. \A w \in Scope, u \in Account :
            \/ member'[w][u] = member[w][u]
            \/ /\ member[w][u] \in Row
               /\ member'[w][u] = [member[w][u] EXCEPT !.role = role]
    BY UpdateMemberRoleType
  <2>. TAKE w \in Scope, u \in Account
  <2>3. CASE member'[w][u] = member[w][u]
    BY <2>3
  <2>4. CASE member[w][u] \in Row /\ member'[w][u] = [member[w][u] EXCEPT !.role = role]
    <3>. DEFINE row == member[w][u]
    <3>1. /\ [row EXCEPT !.role = role] \in Row
          /\ [row EXCEPT !.role = role].status = row.status
          /\ [row EXCEPT !.role = role].token = row.token
      BY <2>4, <2>1
    <3>. QED BY <2>4, <3>1
  <2>. QED BY <2>2, <2>3, <2>4
<1>2. \A w \in Scope, u \in Account :
          /\ IsIn(member'[w][u]) <=> IsIn(member[w][u])
          /\ OfferIn(member'[w][u]) = OfferIn(member[w][u])
  BY <1>1, RowExists DEF IsIn, OfferIn
<1>3. tokens' = tokens
  BY DEF UpdateMemberRole
<1>. QED BY <1>2, <1>3, StutterLife DEF LifeStep

LEMMA ProceedLife ==
    ASSUME TypeOK, NEW r \in Slot, Proceed(r)
    PROVE  LifeStep
<1>1. ASSUME NEW e \in Subject, NEW role \in InviteRole, InviteMember(r, e, role)
      PROVE  LifeStep
  <2>1. /\ req[r].w \in Scope /\ e \in Account
        /\ tokens \in Nat /\ tokens' = tokens + 1 /\ tokens' \in Token
    BY <1>1, InputType, InviteMemberType, MembershipAssumption DEF TypeOK
  <2>2. PICK row \in Row : /\ OneRow(req[r].w, e, row)
                           /\ row.status = "invited" /\ row.token = tokens'
    BY <1>1, InputType, InviteMemberType
  <2>. QED BY <2>1, <2>2, Invites
<1>2. ASSUME NEW i \in Subject \cup Name, NEW role \in InviteRole, UpdateMemberRole(r, i, role)
      PROVE  LifeStep
  BY <1>2, InputType, UpdateRoleLife
<1>3. ASSUME NEW i \in Subject \cup Name, RemoveMember(r, i)
      PROVE  LifeStep
  BY <1>3, InputType, RemoveMemberType, Leaves DEF RemoveMember
<1>4. CASE DeleteWorkspace(r)
  BY <1>4, DeleteWorkspaceType, Leaves DEF DeleteWorkspace
<1>5. CASE RemoveTeamRow(r)
  BY <1>5, RemoveTeamRowType, ScopeType, Leaves DEF RemoveTeamRow
<1>6. ASSUME NEW e \in Subject, DeleteAccount(r, e) \/ \E role \in InviteRole : CreateUser(r, e, role)
      PROVE  LifeStep
  BY <1>6, SameRowsLife DEF DeleteAccount, CreateUser
<1>7. CASE \/ RefuseGone(r) \/ LoadAccount(r) \/ SaveAccount(r) \/ RegisterAccount(r)
           \/ MissAccount(r)
  BY <1>7, SameRowsLife DEF RefuseGone, LoadAccount, SaveAccount, RegisterAccount, MissAccount
<1>8. CASE AccountMoved(r) \/ Activate(r) \/ ActivateTeam(r)
  <2>1. tokens' = tokens
    BY <1>8 DEF AccountMoved, Activate, ActivateTeam
  <2>2. \/ member' = member
        \/ \E w \in Scope, u \in Account : Activated(w, u)
    <3>1. CASE AccountMoved(r)
      BY <3>1, AccountMovedType, ScopeType
    <3>2. CASE Activate(r)
      BY <3>2, ActivateType
    <3>3. CASE ActivateTeam(r)
      BY <3>3, ActivateTeamType, ScopeType
    <3>. QED BY <1>8, <3>1, <3>2, <3>3
  <2>. QED BY <2>1, <2>2, SameRowsLife, Accepts
<1>. QED BY <1>1, <1>2, <1>3, <1>4, <1>5, <1>6, <1>7, <1>8 DEF Proceed

LEMMA StepLife == TypeOK /\ [Next]_vars => LifeStep
<1>. SUFFICES ASSUME TypeOK, [Next]_vars PROVE LifeStep
  OBVIOUS
<1>1. ASSUME NEW u \in Account, NEW n \in Name, CreateWorkspace(u, n)
      PROVE  LifeStep
  BY <1>1, CreateWorkspaceType, Enters DEF CreateWorkspace
<1>2. ASSUME NEW u \in Account, NEW n \in Name, SyncName(u, n)
      PROVE  LifeStep
  BY <1>2, SyncNameType, RelabelledLife DEF SyncName
<1>3. ASSUME NEW r \in Slot, NEW u \in Account, Administer(r, u)
      PROVE  LifeStep
  BY <1>3, AdministerType, SameRowsLife
<1>4. ASSUME NEW w \in Scope, NEW e \in Account, Expire(w, e)
      PROVE  LifeStep
  BY <1>4, ExpireType, RelabelledLife DEF Expire
<1>5. ASSUME NEW w \in Scope, NEW e \in Account, NEW r \in Slot, ReadInvitation(r, w, e)
      PROVE  LifeStep
  BY <1>5, SameRowsLife DEF ReadInvitation
<1>6. ASSUME NEW r \in Slot, Proceed(r)
      PROVE  LifeStep
  BY <1>6, ProceedLife
<1>7. ASSUME NEW w \in Workspace, NEW u \in Subject, NEW role \in InviteRole,
             AddMember(w, u, role)
      PROVE  LifeStep
  BY <1>7, InputType, AddMemberType, Enters DEF AddMember
<1>8. ASSUME NEW u \in Account, Register(u) \/ Provision(u) \/ Forget(u)
      PROVE  LifeStep
  BY <1>8, SameRowsLife DEF Register, Provision, NewViewer, Forget
<1>9. CASE UNCHANGED vars
  BY <1>9, SameRowsLife DEF vars
<1>. QED BY <1>1, <1>2, <1>3, <1>4, <1>5, <1>6, <1>7, <1>8, <1>9 DEF Next

(***************************************************************************)
(* However requests interleave, memberships and invitations live as        *)
(* MembershipLife promises: nobody gets in but by founding, by enrolment   *)
(* or by the invitation that stands at that moment, and none stands after  *)
(* it was taken up, replaced, withdrawn or lost with its workspace.        *)
(***************************************************************************)
THEOREM LifeImplemented == Spec => LifeSpec
<1>1. Spec => []TypeOK
  BY MembershipTyped
<1>. QED BY <1>1, InitLife, StepLife, PTL DEF Spec, LifeSpec, Life!LifeSpec, LifeStep

------------------------------------------------------------------------------
(* Accepted roles *)

(***************************************************************************)
(* The inductive invariant behind AcceptedRoleKept: an acceptance that has *)
(* read an account names one that exists, and unless it has fallen behind  *)
(* it holds the list that is stored, so that what it writes only adds to   *)
(* it; one that has written the account finds its role there.              *)
(***************************************************************************)
RequestKept(x) ==
    /\ req[x].pc = "loaded" /\ req[x].roles \notin {Unregistered, Deleted} =>
           /\ req[x].who \in registered
           /\ x \notin behind => req[x].roles = roles[req[x].who]
    /\ req[x].pc = "saved" /\ req[x].roles # Deleted =>
           /\ req[x].who \in registered
           /\ req[x].who \notin clashed => req[x].role \in roles[req[x].who]

AcceptedInv ==
    /\ TypeOK
    /\ \A u \in Account : u \notin registered =>
           accepted[u] = {} /\ \A c \in cached[u] : c.gone
    /\ AcceptedRoleKept
    /\ \A x \in Slot : RequestKept(x)

\* No account goes away or loses a role without a clash; copies of an account
\* that is gone say so; a list that changes leaves its readers behind.
AccountsGrow ==
    /\ registered \subseteq registered' /\ clashed \subseteq clashed'
    /\ \A u \in registered \ clashed' : roles[u] \subseteq roles'[u]
    /\ \A u \in Account \ registered' : \A c \in cached'[u] : c \in cached[u] \/ c.gone
    /\ \A x \in Slot : x \notin behind' /\ req'[x] = req[x] /\ req[x].pc = "loaded"
                           /\ req[x].who \in registered =>
           x \notin behind /\ roles'[req[x].who] = roles[req[x].who]

LEMMA RequestStaysKept ==
    ASSUME AcceptedInv, AccountsGrow, NEW x \in Slot, req'[x] = req[x]
    PROVE  RequestKept(x)'
BY DEF AcceptedInv, RequestKept, AccountsGrow

\* While accounts only grow and nobody logs in, the requests are what counts.
LEMMA AcceptedStays ==
    ASSUME AcceptedInv, TypeOK', AccountsGrow, accepted' = accepted,
           \A x \in Slot : RequestKept(x)'
    PROVE  AcceptedInv'
<1>1. AcceptedRoleKept'
  BY DEF AcceptedInv, AcceptedRoleKept, AccountsGrow, TypeOK
<1>2. \A u \in Account : u \notin registered' =>
          accepted'[u] = {} /\ \A c \in cached'[u] : c.gone
  BY DEF AcceptedInv, AccountsGrow
<1>. QED BY <1>1, <1>2 DEF AcceptedInv

\* Steps on which no request gets to an account.
LEMMA AcceptedQuiet ==
    ASSUME AcceptedInv, TypeOK', AccountsGrow, accepted' = accepted,
           \A x \in Slot : req'[x] = req[x] \/ req'[x].pc \notin {"loaded", "saved"}
    PROVE  AcceptedInv'
<1>1. ASSUME NEW x \in Slot PROVE RequestKept(x)'
  <2>1. CASE req'[x] = req[x]
    BY <2>1, RequestStaysKept
  <2>2. CASE req'[x].pc \notin {"loaded", "saved"}
    BY <2>2 DEF RequestKept
  <2>. QED BY <2>1, <2>2
<1>. QED BY <1>1, AcceptedStays

LEMMA SameAccounts ==
    ASSUME UNCHANGED <<registered, roles, cached, behind, clashed>>
    PROVE  AccountsGrow
BY DEF AccountsGrow

\* What a request that moves on leaves in the other slots.
LEMMA GotoOthers ==
    ASSUME TypeOK, NEW r \in Slot, NEW q, Goto(r, q)
    PROVE  req'[r] = q /\ \A x \in Slot : x # r => req'[x] = req[x]
BY DEF TypeOK, Goto

LEMMA FinishQuiet ==
    ASSUME TypeOK, NEW r \in Slot, Finish(r)
    PROVE  \A x \in Slot : req'[x] = req[x] \/ req'[x].pc = "idle"
BY GotoOthers DEF Finish, Idle

\* New accounts: the address had none.
LEMMA NewAccountAccepted ==
    ASSUME AcceptedInv, TypeOK', NEW u \in Account, NEW rs, u \notin registered,
           registered' = registered \cup {u}, roles' = [roles EXCEPT ![u] = rs],
           UNCHANGED <<accepted, cached, behind, clashed>>
    PROVE  AccountsGrow
BY DEF AccountsGrow, AcceptedInv, TypeOK

LEMMA CreateUserAccepted ==
    ASSUME AcceptedInv, TypeOK', NEW r \in Slot, NEW who \in Account, NEW role,
           CreateUser(r, who, role)
    PROVE  AcceptedInv'
<1>1. TypeOK
  BY DEF AcceptedInv
<1>2. AccountsGrow
  BY NewAccountAccepted, SameAccounts DEF CreateUser
<1>3. \A x \in Slot : req'[x] = req[x] \/ req'[x].pc = "idle"
  BY <1>1, FinishQuiet DEF CreateUser
<1>. QED BY <1>2, <1>3, AcceptedQuiet DEF CreateUser

LEMMA NewViewerAccepted ==
    ASSUME AcceptedInv, TypeOK', NEW u \in Account, NewViewer(u)
    PROVE  AcceptedInv'
<1>1. AccountsGrow
  BY NewAccountAccepted DEF NewViewer
<1>. QED BY <1>1, AcceptedQuiet DEF NewViewer

\* An account is deleted, and with it what its acceptances have read.
LEMMA DeleteAccountAccepted ==
    ASSUME AcceptedInv, TypeOK', NEW r \in Slot, NEW who \in Account, DeleteAccount(r, who)
    PROVE  AcceptedInv'
<1>1. TypeOK
  BY DEF AcceptedInv
<1>2. registered' = registered \ {who} /\ clashed' = clashed
  BY DEF DeleteAccount
<1>3. /\ \A u \in Account : u # who => roles'[u] = roles[u] /\ accepted'[u] = accepted[u]
      /\ accepted'[who] = {}
  BY <1>1 DEF DeleteAccount, AcceptedInv, TypeOK
<1>4. behind' = behind /\ \A u \in Account : u # who => cached'[u] = cached[u]
  BY <1>1 DEF DeleteAccount, TypeOK
<1>5. \A c \in cached'[who] : c.gone
  <2>1. CASE who \in registered
    <3>1. cached'[who] = {[c EXCEPT !.gone = TRUE] : c \in Served(who)}
      BY <1>1, <2>1 DEF DeleteAccount, TypeOK
    <3>2. Served(who) \subseteq Copy
      BY <1>1, ServedType
    <3>3. \A c \in Copy : [c EXCEPT !.gone = TRUE].gone
      BY DEF Copy
    <3>. QED BY <3>1, <3>2, <3>3
  <2>2. CASE who \notin registered
    BY <2>2 DEF DeleteAccount, AcceptedInv
  <2>. QED BY <2>1, <2>2
<1>6. ASSUME NEW x \in Slot PROVE RequestKept(x)'
  <2>1. CASE x = r
    <3>1. req'[x].pc = "deleted"
      BY <2>1 DEF DeleteAccount
    <3>. QED BY <3>1 DEF RequestKept
  <2>2. CASE x # r /\ Holds(x, who)
    <3>1. req'[x] = [req[x] EXCEPT !.roles = Deleted]
      BY <2>2 DEF DeleteAccount
    <3>2. req[x] \in Accepting
      BY <1>1, <2>2, AcceptingType DEF Holds
    <3>3. req'[x].roles = Deleted
      BY <3>1, <3>2 DEF Accepting
    <3>. QED BY <3>3 DEF RequestKept
  <2>3. CASE x # r /\ ~Holds(x, who)
    <3>1. req'[x] = req[x]
      BY <2>3 DEF DeleteAccount
    <3>2. RequestKept(x)
      BY DEF AcceptedInv
    <3>3. ASSUME req[x].pc \in {"loaded", "saved"} PROVE req[x].who \in Account
      BY <1>1, <3>3, AcceptingType
    <3>4. req[x].pc = "loaded" /\ req[x].roles # Unregistered => req[x].who # who
      BY <2>3 DEF Holds
    <3>5. req[x].pc = "saved" => req[x].who # who
      BY <2>3 DEF Holds
    <3>. QED BY <1>2, <1>3, <1>4, <3>1, <3>2, <3>3, <3>4, <3>5 DEF RequestKept
  <2>. QED BY <2>1, <2>2, <2>3
<1>7. AcceptedRoleKept'
  BY <1>2, <1>3 DEF AcceptedInv, AcceptedRoleKept, TypeOK
<1>8. \A u \in Account : u \notin registered' =>
          accepted'[u] = {} /\ \A c \in cached'[u] : c.gone
  BY <1>2, <1>3, <1>4, <1>5 DEF AcceptedInv
<1>. QED BY <1>6, <1>7, <1>8 DEF AcceptedInv

\* A request that has read what is stored is not behind; one that was served
\* another list is, and one that was served an account that is gone finds out.
LEMMA LoadAccountAccepted ==
    ASSUME AcceptedInv, TypeOK', NEW r \in Slot, LoadAccount(r)
    PROVE  AcceptedInv'
<1>. DEFINE q == req[r]
<1>1. /\ TypeOK /\ q.pc = "invited" /\ q.who \in Account
      /\ UNCHANGED <<registered, roles, clashed, accepted>>
  BY LoadAccountType DEF AcceptedInv, LoadAccount
<1>2. ASSUME NEW list \in {Unregistered, Deleted} \cup SUBSET Role,
             Goto(r, [q EXCEPT !.pc = "loaded", !.roles = list]),
             list \notin {Unregistered, Deleted} =>
                 /\ q.who \in registered
                 /\ r \notin behind' => list = roles[q.who],
             \A x \in Slot : x # r => (x \in behind' <=> x \in behind),
             \A u \in Account \ registered : \A c \in cached'[u] : c \in cached[u] \/ c.gone
      PROVE  AcceptedInv'
  <2>1. req'[r] = [q EXCEPT !.pc = "loaded", !.roles = list]
        /\ \A x \in Slot : x # r => req'[x] = req[x]
    BY <1>1, <1>2, GotoOthers
  <2>2. req'[r].pc = "loaded" /\ req'[r].who = q.who /\ req'[r].roles = list
    BY <1>1, <2>1, AcceptingType DEF Accepting
  <2>3. AccountsGrow
    BY <1>1, <1>2, <2>2 DEF AccountsGrow
  <2>4. RequestKept(r)'
    BY <1>1, <1>2, <2>2 DEF RequestKept
  <2>5. \A x \in Slot : RequestKept(x)'
    BY <2>1, <2>3, <2>4, RequestStaysKept
  <2>. QED BY <1>1, <2>3, <2>5, AcceptedStays
<1>3. ASSUME NEW row \in Served(q.who),
             Goto(r, [q EXCEPT !.pc = "loaded", !.roles = IF row.gone THEN Deleted ELSE row.roles]),
             cached' = IF q.role \in row.roles THEN cached
                       ELSE [cached EXCEPT ![q.who] = @ \cup {[row EXCEPT !.roles = @ \cup {q.role}]}],
             behind' = IF row = Current(q.who) THEN behind \ {r} ELSE behind \cup {r}
      PROVE  AcceptedInv'
  <2>1. row \in Copy /\ row.roles \in SUBSET Role /\ q.role \in Role
    <3>1. Served(q.who) \subseteq Copy
      BY <1>1, ServedType
    <3>. QED BY <1>1, <3>1, AcceptingType DEF Copy
  <2>2. ~row.gone => q.who \in registered
    BY <1>1, ServedType DEF AcceptedInv
  <2>3. r \notin behind' => row.roles = roles[q.who]
    BY <1>1, <1>3, ServedType
  <2>4. \A u \in Account \ registered : \A c \in cached'[u] : c \in cached[u] \/ c.gone
    <3>. DEFINE edited == [row EXCEPT !.roles = @ \cup {q.role}]
    <3>1. edited.gone = row.gone
      BY <2>1, EditedType
    <3>. HIDE DEF edited
    <3>2. \A u \in Account : \A c \in cached'[u] : c \in cached[u] \/ (u = q.who /\ c = edited)
      BY <1>1, <1>3 DEF TypeOK, edited
    <3>3. row.gone \in BOOLEAN
      BY <2>1 DEF Copy
    <3>. QED BY <2>2, <3>1, <3>2, <3>3
  <2>5. \A x \in Slot : x # r => (x \in behind' <=> x \in behind)
    BY <1>3
  <2>6. CASE row.gone
    BY <1>2, <1>3, <2>4, <2>5, <2>6
  <2>7. CASE ~row.gone
    BY <1>2, <1>3, <2>1, <2>2, <2>3, <2>4, <2>5, <2>7
  <2>. QED BY <2>6, <2>7
<1>4. CASE Goto(r, [q EXCEPT !.pc = "loaded", !.roles = Unregistered]) /\ UNCHANGED <<cached, behind>>
  BY <1>2, <1>4
<1>. QED BY <1>3, <1>4 DEF LoadAccount

\* The two ways an acceptance writes the account.
LEMMA SavesAccepted ==
    ASSUME AcceptedInv, TypeOK', NEW r \in Slot, SaveAccount(r) \/ RegisterAccount(r)
    PROVE  AcceptedInv'
<1>1. TypeOK /\ accepted' = accepted
  BY DEF AcceptedInv, SaveAccount, RegisterAccount, history
<1>2. req[r].pc = "loaded" /\ Goto(r, [req[r] EXCEPT !.pc = "saved"])
  BY DEF SaveAccount, RegisterAccount
<1>. PICK u \in Account, role \in Role : u = req[r].who /\ role = req[r].role
  BY <1>1, <1>2, AcceptingType
<1>3. req[r] \in Accepting
  BY <1>1, <1>2, AcceptingType
<1>4. /\ req'[r].pc = "saved" /\ req'[r].who = u /\ req'[r].role = role
      /\ \A x \in Slot : x # r => req'[x] = req[x]
  <2>1. req'[r] = [req[r] EXCEPT !.pc = "saved"] /\ \A x \in Slot : x # r => req'[x] = req[x]
    BY <1>1, <1>2, GotoOthers
  <2>. QED BY <1>3, <2>1 DEF Accepting
<1>5. u \in registered' /\ role \in roles'[u] /\ AccountsGrow
  <2>1. CASE SaveAccount(r)
    <3>1. /\ roles' = [roles EXCEPT ![u] = req[r].roles \cup {role}]
          /\ clashed' = IF r \in behind THEN clashed \cup {u} ELSE clashed
          /\ registered' = registered
          /\ behind' = (behind \ {r}) \cup
                           {x \in Slot \ {r} : req[x].pc = "loaded" /\ req[x].who = u}
          /\ \A v \in Account : v # u => cached'[v] = cached[v]
      BY <1>1, <2>1 DEF SaveAccount, WriteRoles, TypeOK
    <3>2. u \in registered /\ (r \notin behind => req[r].roles = roles[u])
      BY <2>1 DEF SaveAccount, AcceptedInv, RequestKept
    <3>3. \A v \in Account : v # u => roles'[v] = roles[v]
      BY <1>1, <3>1 DEF TypeOK
    <3>4. roles'[u] = req[r].roles \cup {role}
      BY <1>1, <3>1 DEF TypeOK
    <3>5. \A v \in registered \ clashed' : roles[v] \subseteq roles'[v]
      BY <1>1, <3>1, <3>2, <3>3, <3>4 DEF TypeOK
    <3>6. \A x \in Slot : x \notin behind' /\ req'[x] = req[x] /\ req[x].pc = "loaded"
                               /\ req[x].who \in registered =>
              x \notin behind /\ roles'[req[x].who] = roles[req[x].who]
      BY <1>1, <1>4, <2>1, <3>1, <3>3 DEF TypeOK, SaveAccount
    <3>. QED BY <3>1, <3>2, <3>4, <3>5, <3>6 DEF AccountsGrow
  <2>2. CASE RegisterAccount(r)
    <3>1. /\ u \notin registered /\ registered' = registered \cup {u}
          /\ roles' = [roles EXCEPT ![u] = {role}] /\ UNCHANGED <<cached, behind, clashed>>
      BY <2>2 DEF RegisterAccount, history
    <3>2. AccountsGrow
      BY <1>1, <3>1, NewAccountAccepted
    <3>. QED BY <1>1, <3>1, <3>2 DEF TypeOK
  <2>. QED BY <2>1, <2>2
<1>6. RequestKept(r)'
  BY <1>4, <1>5 DEF RequestKept
<1>7. \A x \in Slot : RequestKept(x)'
  BY <1>4, <1>5, <1>6, RequestStaysKept
<1>. QED BY <1>1, <1>5, <1>7, AcceptedStays

\* An acceptance that has not noticed that the account is gone.
LEMMA MissAccountAccepted ==
    ASSUME AcceptedInv, TypeOK', NEW r \in Slot, MissAccount(r)
    PROVE  AcceptedInv'
<1>1. TypeOK /\ AccountsGrow /\ accepted' = accepted
  BY SameAccounts DEF AcceptedInv, MissAccount, history
<1>2. req[r] \in Accepting /\ req[r].roles = Deleted
  BY <1>1, AcceptingType DEF MissAccount
<1>3. req'[r] = [req[r] EXCEPT !.pc = "saved"] /\ \A x \in Slot : x # r => req'[x] = req[x]
  BY <1>1, GotoOthers DEF MissAccount
<1>4. req'[r].pc = "saved" /\ req'[r].roles = Deleted
  BY <1>2, <1>3 DEF Accepting
<1>5. \A x \in Slot : RequestKept(x)'
  BY <1>1, <1>3, <1>4, RequestStaysKept DEF RequestKept
<1>. QED BY <1>1, <1>5, AcceptedStays

\* The two ways an acceptance ends in a login.
LEMMA LogInAccepted ==
    ASSUME AcceptedInv, TypeOK', NEW r \in Slot, req[r].pc = "saved", Finish(r),
           UNCHANGED <<registered, roles, cached, behind, clashed>>,
           LogIn(req[r]) \/ accepted' = accepted
    PROVE  AcceptedInv'
<1>1. TypeOK /\ AccountsGrow /\ RequestKept(r)
  BY SameAccounts DEF AcceptedInv
<1>2. \A x \in Slot : req'[x] = req[x] \/ req'[x].pc = "idle"
  BY <1>1, FinishQuiet
<1>3. CASE accepted' = accepted
  BY <1>1, <1>2, <1>3, AcceptedQuiet
<1>4. CASE LogIn(req[r]) /\ req[r].roles = Deleted
  BY <1>1, <1>2, <1>4, AcceptedQuiet DEF LogIn
<1>5. CASE LogIn(req[r]) /\ req[r].roles # Deleted
  <2>. PICK u \in Account, role \in Role : u = req[r].who /\ role = req[r].role
    BY <1>1, AcceptingType
  <2>1. accepted' = [accepted EXCEPT ![u] = @ \cup {role}]
    BY <1>5 DEF LogIn
  <2>2. u \in registered /\ (u \notin clashed => role \in roles[u])
    BY <1>1, <1>5 DEF RequestKept
  <2>3. AcceptedRoleKept'
    BY <1>1, <2>1, <2>2 DEF AcceptedInv, AcceptedRoleKept, TypeOK
  <2>4. \A v \in Account : v \notin registered' =>
            accepted'[v] = {} /\ \A c \in cached'[v] : c.gone
    BY <1>1, <2>1, <2>2 DEF AcceptedInv, TypeOK
  <2>5. ASSUME NEW x \in Slot PROVE RequestKept(x)'
    <3>1. CASE req'[x] = req[x]
      BY <1>1, <3>1, RequestStaysKept
    <3>2. CASE req'[x].pc = "idle"
      BY <3>2 DEF RequestKept
    <3>. QED BY <1>2, <3>1, <3>2
  <2>. QED BY <2>3, <2>4, <2>5 DEF AcceptedInv
<1>. QED BY <1>3, <1>4, <1>5

LEMMA ProceedAccepted ==
    ASSUME AcceptedInv, TypeOK', NEW r \in Slot, Proceed(r)
    PROVE  AcceptedInv'
<1>0. TypeOK
  BY DEF AcceptedInv
<1>1. ASSUME Finish(r), UNCHANGED <<registered, roles, cached, behind, clashed, accepted>>
      PROVE  AcceptedInv'
  <2>1. \A x \in Slot : req'[x] = req[x] \/ req'[x].pc = "idle"
    BY <1>0, <1>1, FinishQuiet
  <2>. QED BY <1>1, <2>1, SameAccounts, AcceptedQuiet
<1>2. ASSUME NEW e \in Subject, NEW role \in InviteRole, InviteMember(r, e, role)
      PROVE  AcceptedInv'
  BY <1>1, <1>2 DEF InviteMember
<1>3. ASSUME NEW i \in Subject \cup Name, NEW role \in InviteRole, UpdateMemberRole(r, i, role)
      PROVE  AcceptedInv'
  BY <1>1, <1>3 DEF UpdateMemberRole
<1>4. ASSUME NEW i \in Subject \cup Name, RemoveMember(r, i)
      PROVE  AcceptedInv'
  BY <1>1, <1>4 DEF RemoveMember, history
<1>5. ASSUME NEW e \in Subject, DeleteAccount(r, e)
      PROVE  AcceptedInv'
  BY <1>5, InputType, DeleteAccountAccepted
<1>6. ASSUME NEW e \in Subject, NEW role \in InviteRole, CreateUser(r, e, role)
      PROVE  AcceptedInv'
  BY <1>6, InputType, CreateUserAccepted
<1>7. CASE RefuseGone(r) \/ DeleteWorkspace(r) \/ RemoveTeamRow(r)
  BY <1>1, <1>7 DEF RefuseGone, DeleteWorkspace, RemoveTeamRow, history
<1>8. CASE LoadAccount(r) \/ SaveAccount(r) \/ RegisterAccount(r) \/ MissAccount(r)
  BY <1>8, LoadAccountAccepted, SavesAccepted, MissAccountAccepted
<1>9. CASE AccountMoved(r)
  BY <1>1, <1>9 DEF AccountMoved, history
<1>10. CASE Activate(r) \/ ActivateTeam(r)
  BY <1>10, LogInAccepted DEF Activate, ActivateTeam
<1>. QED BY <1>2, <1>3, <1>4, <1>5, <1>6, <1>7, <1>8, <1>9, <1>10 DEF Proceed

LEMMA StepAccepted == AcceptedInv /\ TypeOK' /\ [Next]_vars => AcceptedInv'
<1>. SUFFICES ASSUME AcceptedInv, TypeOK', [Next]_vars PROVE AcceptedInv'
  OBVIOUS
<1>0. TypeOK
  BY DEF AcceptedInv
<1>1. ASSUME UNCHANGED <<registered, roles, cached, behind, clashed, accepted, req>>
      PROVE  AcceptedInv'
  BY <1>1, SameAccounts, AcceptedQuiet
<1>2. ASSUME NEW u \in Account, NEW n \in Name, CreateWorkspace(u, n) \/ SyncName(u, n)
      PROVE  AcceptedInv'
  BY <1>1, <1>2 DEF CreateWorkspace, SyncName, history
<1>3. ASSUME NEW r \in Slot, NEW q, Goto(r, q), q.pc \notin {"loaded", "saved"},
             UNCHANGED <<registered, roles, cached, behind, clashed, accepted>>
      PROVE  AcceptedInv'
  <2>1. \A x \in Slot : req'[x] = req[x] \/ req'[x].pc \notin {"loaded", "saved"}
    BY <1>0, <1>3, GotoOthers
  <2>. QED BY <1>3, <2>1, SameAccounts, AcceptedQuiet
<1>4. ASSUME NEW r \in Slot, NEW u \in Account, Administer(r, u)
      PROVE  AcceptedInv'
  <2>1. PICK w, op : Permit(r, u, op, w)
    BY <1>4 DEF Administer
  <2>2. UNCHANGED <<registered, roles, cached, behind, clashed, accepted>>
    BY <2>1 DEF Permit, history
  <2>3. Goto(r, [pc |-> "permitted", op |-> op, by |-> u, w |-> w])
    BY <2>1 DEF Permit
  <2>. QED BY <1>3, <2>2, <2>3
<1>5. ASSUME NEW r \in Slot, NEW w \in Scope, NEW e \in Account, ReadInvitation(r, w, e)
      PROVE  AcceptedInv'
  <2>1. UNCHANGED <<registered, roles, cached, behind, clashed, accepted>>
    BY <1>5 DEF ReadInvitation, history
  <2>2. Goto(r, [pc |-> "invited", w |-> w, who |-> e, role |-> member[w][e].role,
                 token |-> member[w][e].token, roles |-> {}])
    BY <1>5 DEF ReadInvitation
  <2>. QED BY <1>3, <2>1, <2>2
<1>6. ASSUME NEW r \in Slot, Proceed(r)
      PROVE  AcceptedInv'
  BY <1>6, ProceedAccepted
<1>7. ASSUME NEW w \in Workspace, NEW u \in Subject, NEW role \in InviteRole,
             AddMember(w, u, role)
      PROVE  AcceptedInv'
  BY <1>1, <1>7 DEF AddMember
<1>8. ASSUME NEW u \in Account, Register(u) \/ Provision(u)
      PROVE  AcceptedInv'
  BY <1>8, NewViewerAccepted DEF Register, Provision
<1>9. ASSUME NEW w \in Scope, NEW e \in Account, Expire(w, e)
      PROVE  AcceptedInv'
  BY <1>1, <1>9 DEF Expire, history
<1>10. CASE UNCHANGED vars
  BY <1>1, <1>10 DEF vars, history
<1>11. ASSUME NEW u \in Account, Forget(u)
       PROVE  AcceptedInv'
  <2>1. UNCHANGED <<registered, roles, behind, clashed, accepted, req>>
    BY <1>11 DEF Forget, history
  <2>2. \A v \in Account : cached'[v] \subseteq cached[v]
    BY <1>0, <1>11 DEF Forget, TypeOK
  <2>3. AccountsGrow
    BY <2>1, <2>2 DEF AccountsGrow
  <2>. QED BY <2>1, <2>3, AcceptedQuiet
<1>. QED BY <1>2, <1>4, <1>5, <1>6, <1>7, <1>8, <1>9, <1>10, <1>11 DEF Next

(***************************************************************************)
(* Any number of invitations accepted next to each other, of accounts      *)
(* deleted and created again, read through caches that still hold what was *)
(* replaced: a role that was accepted stays, unless an acceptance wrote a  *)
(* list that came from a cache or had been written over meanwhile.         *)
(***************************************************************************)
THEOREM AcceptedRolesKept == Spec => []AcceptedRoleKept
<1>1. Init => AcceptedInv
  <2>. SUFFICES ASSUME Init PROVE AcceptedInv
    OBVIOUS
  <2>1. AcceptedRoleKept /\ \A u \in Account : accepted[u] = {} /\ cached[u] = {}
    BY MembershipAssumption DEF Init, AcceptedRoleKept
  <2>. QED BY <2>1, InitType DEF Init, AcceptedInv, RequestKept, Idle
<1>2. AcceptedInv => AcceptedRoleKept
  BY DEF AcceptedInv
<1>. QED BY <1>1, <1>2, StepAccepted, MembershipTyped, PTL DEF Spec

------------------------------------------------------------------------------
(* Uses of an invitation *)

(***************************************************************************)
(* The inductive invariant behind InvitationUses.  A token is in one row   *)
(* at most, the row its readers remember; while it is there nobody has     *)
(* logged in with it; and once it is gone, only a request that has read it *)
(* still can, and only of the team table.                                  *)
(***************************************************************************)
TokenOf(row) == IF row = NoRow THEN 0 ELSE row.token
OnToken(q)   == q.pc \in {"invited", "loaded", "saved"}
Readers(t)   == {r \in Slot : OnToken(req[r]) /\ req[r].token = t}

TokensIssued ==
    /\ \A w \in Scope, e \in Account : TokenOf(member[w][e]) <= tokens
    /\ \A r \in Slot : OnToken(req[r]) => req[r].token <= tokens
    /\ \A t \in Token : t > tokens => logins[t] = 0

TokensPlaced ==
    /\ \A w \in Scope, e \in Account :
           TokenOf(member[w][e]) # 0 => (TokenOf(member[w][e]) \in forTeam <=> w = 0)
    /\ \A r \in Slot : OnToken(req[r]) => (req[r].token \in forTeam <=> req[r].w = 0)

TokensApart ==
    /\ \A w, x \in Scope, e, f \in Account :
           TokenOf(member[w][e]) # 0 /\ TokenOf(member[w][e]) = TokenOf(member[x][f]) =>
               w = x /\ e = f
    /\ \A w \in Scope, e \in Account, r \in Slot :
           OnToken(req[r]) /\ TokenOf(member[w][e]) = req[r].token =>
               w = req[r].w /\ e = req[r].who

TokensUnused ==
    \A w \in Scope, e \in Account :
        TokenOf(member[w][e]) # 0 => logins[TokenOf(member[w][e])] = 0

TokensBounded ==
    \A t \in Token : logins[t] <= IF t \in forTeam THEN Cardinality(Slot \ Readers(t)) ELSE 1

UsesInv ==
    /\ TypeOK
    /\ TokensIssued /\ TokensPlaced /\ TokensApart /\ TokensUnused /\ TokensBounded

LEMMA TokenOfRow ==
    ASSUME NEW row \in {NoRow} \cup Row
    PROVE  TokenOf(row) \in {0} \cup Token /\ TokenOf(row) \in Nat
BY RowExists DEF TokenOf, Row, Token

LEMMA TokenType ==
    ASSUME member \in Rows \/ TypeOK, NEW w \in Scope, NEW e \in Account
    PROVE  TokenOf(member[w][e]) \in {0} \cup Token /\ TokenOf(member[w][e]) \in Nat
BY TokenOfRow DEF TypeOK, Rows

\* Slots can be counted, and counted without the readers of a token.
LEMMA SlotsCount ==
    ASSUME NEW R
    PROVE  /\ IsFiniteSet(Slot \ R) /\ Cardinality(Slot \ R) \in Nat
           /\ Cardinality(Slot) \in Nat /\ Cardinality(Slot \ R) <= Cardinality(Slot)
<1>1. Slot \ R \in SUBSET Slot /\ IsFiniteSet(Slot)
  BY FiniteSlots
<1>2. IsFiniteSet(Slot \ R) /\ Cardinality(Slot \ R) <= Cardinality(Slot)
  BY <1>1, FS_Subset
<1>. QED BY <1>1, <1>2, FS_CardinalityType

LEMMA FewerReaders ==
    ASSUME NEW R, NEW S, S \subseteq R
    PROVE  Cardinality(Slot \ R) <= Cardinality(Slot \ S)
<1>1. Slot \ R \in SUBSET (Slot \ S) /\ IsFiniteSet(Slot \ S)
  BY SlotsCount
<1>. QED BY <1>1, FS_Subset

\* Tokens disappear from rows, and nothing is issued.
TokensStay ==
    /\ UNCHANGED <<tokens, forTeam>>
    /\ \A w \in Scope, e \in Account :
           TokenOf(member'[w][e]) \in {0, TokenOf(member[w][e])}

\* The readers of invitations are those there were.
ReadersStay ==
    \A r \in Slot : OnToken(req'[r]) =>
        /\ OnToken(req[r])
        /\ req'[r].token = req[r].token /\ req'[r].w = req[r].w /\ req'[r].who = req[r].who

(***************************************************************************)
(* What the rows, and the readers, keep when tokens only disappear.        *)
(***************************************************************************)
LEMMA RowsKeepTokens ==
    ASSUME UsesInv, TypeOK', TokensStay, ReadersStay,
           \A t \in Token : t > tokens => logins'[t] = 0
    PROVE  TokensIssued' /\ TokensPlaced' /\ TokensApart'
<1>1. \A w \in Scope, e \in Account :
          /\ TokenOf(member'[w][e]) # 0 => TokenOf(member'[w][e]) = TokenOf(member[w][e])
          /\ TokenOf(member'[w][e]) \in Nat
  <2>1. \A w \in Scope, e \in Account : member'[w][e] \in {NoRow} \cup Row
    BY DEF TypeOK
  <2>. QED BY <2>1, TokenOfRow DEF TokensStay
<1>2. \A r \in Slot : OnToken(req'[r]) => req'[r].token # 0
  BY AcceptingType DEF OnToken, ReadersStay, Token, UsesInv
<1>3. tokens \in Nat /\ UNCHANGED <<tokens, forTeam>>
  BY DEF UsesInv, TypeOK, TokensStay
<1>4. TokensIssued'
  <2>1. \A w \in Scope, e \in Account : TokenOf(member'[w][e]) <= tokens'
    BY <1>1, <1>3 DEF UsesInv, TokensIssued
  <2>2. \A r \in Slot : OnToken(req'[r]) => req'[r].token <= tokens'
    BY <1>3 DEF UsesInv, TokensIssued, ReadersStay
  <2>. QED BY <1>3, <2>1, <2>2 DEF TokensIssued
<1>5. TokensPlaced'
  BY <1>1, <1>3 DEF UsesInv, TokensPlaced, ReadersStay
<1>6. TokensApart'
  BY <1>1, <1>2 DEF UsesInv, TokensApart, ReadersStay
<1>. QED BY <1>4, <1>5, <1>6

LEMMA UsesStay ==
    ASSUME UsesInv, TypeOK', TokensStay, ReadersStay, logins' = logins
    PROVE  UsesInv'
<1>1. TokensIssued' /\ TokensPlaced' /\ TokensApart'
  BY RowsKeepTokens DEF UsesInv, TokensIssued
<1>2. TokensUnused'
  BY DEF UsesInv, TokensUnused, TokensStay
<1>3. TokensBounded'
  <2>. SUFFICES ASSUME NEW t \in Token
                PROVE  logins[t] <= IF t \in forTeam THEN Cardinality(Slot \ Readers(t)') ELSE 1
    BY DEF TokensBounded, TokensStay
  <2>1. logins[t] <= IF t \in forTeam THEN Cardinality(Slot \ Readers(t)) ELSE 1
    BY DEF UsesInv, TokensBounded
  <2>2. Readers(t)' \subseteq Readers(t)
    BY DEF Readers, ReadersStay
  <2>3. Cardinality(Slot \ Readers(t)) <= Cardinality(Slot \ Readers(t)')
    BY <2>2, FewerReaders
  <2>4. Cardinality(Slot \ Readers(t)) \in Nat /\ Cardinality(Slot \ Readers(t)') \in Nat
    BY SlotsCount
  <2>5. logins[t] \in Nat
    BY DEF UsesInv, TypeOK
  <2>. QED BY <2>1, <2>3, <2>4, <2>5
<1>. QED BY <1>1, <1>2, <1>3 DEF UsesInv

\* The kinds of change to the rows, and the tokens they leave.
LEMMA OneRowTokens ==
    ASSUME TypeOK, NEW w \in Scope, NEW e \in Account, NEW row \in Row, OneRow(w, e, row),
           row.token \in {0, TokenOf(member[w][e])}, UNCHANGED <<tokens, forTeam>>
    PROVE  TokensStay
<1>1. TokenOf(row) = row.token
  BY RowExists DEF TokenOf
<1>2. ASSUME NEW x \in Scope, NEW f \in Account
      PROVE  TokenOf(member'[x][f]) \in {0, TokenOf(member[x][f])}
  <2>1. CASE x = w /\ f = e
    BY <1>1, <2>1 DEF OneRow
  <2>2. CASE x # w \/ f # e
    BY <2>2 DEF OneRow
  <2>. QED BY <2>1, <2>2
<1>. QED BY <1>2 DEF TokensStay

LEMMA RemovedTokens ==
    ASSUME NEW w, Removed(w), UNCHANGED <<tokens, forTeam>>
    PROVE  TokensStay
BY DEF Removed, TokensStay, TokenOf

LEMMA RelabelledTokens ==
    ASSUME Relabelled, UNCHANGED <<tokens, forTeam>>
    PROVE  TokensStay
<1>1. ASSUME NEW x \in Scope, NEW f \in Account
      PROVE  TokenOf(member'[x][f]) = TokenOf(member[x][f])
  <2>1. CASE member[x][f] = NoRow /\ member'[x][f] = NoRow
    BY <2>1 DEF TokenOf
  <2>2. CASE /\ member[x][f] \in Row /\ member'[x][f] \in Row
             /\ member'[x][f].token = member[x][f].token
    BY <2>2, RowExists DEF TokenOf
  <2>. QED BY <2>1, <2>2 DEF Relabelled
<1>. QED BY <1>1 DEF TokensStay

LEMMA ActivatedTokens ==
    ASSUME TypeOK, NEW w \in Scope, NEW e \in Account, member' = member \/ Activated(w, e),
           UNCHANGED <<tokens, forTeam>>
    PROVE  TokensStay
<1>1. CASE member' = member
  BY <1>1 DEF TokensStay
<1>2. CASE Activated(w, e)
  <2>1. PICK row \in Row : OneRow(w, e, row) /\ row.token = 0
    BY <1>2 DEF Activated
  <2>. QED BY <2>1, OneRowTokens
<1>. QED BY <1>1, <1>2

LEMMA SameRowsTokens == ASSUME UNCHANGED <<member, tokens, forTeam>> PROVE TokensStay
BY DEF TokensStay

\* The kinds of change to the requests.
LEMMA GotoReaders ==
    ASSUME TypeOK, NEW r \in Slot, NEW q, Goto(r, q),
           OnToken(q) => /\ OnToken(req[r])
                         /\ q.token = req[r].token /\ q.w = req[r].w /\ q.who = req[r].who
    PROVE  ReadersStay
<1>1. req'[r] = q /\ \A x \in Slot : x # r => req'[x] = req[x]
  BY GotoOthers
<1>. QED BY <1>1 DEF ReadersStay

LEMMA FinishReaders ==
    ASSUME TypeOK, NEW r \in Slot, Finish(r)
    PROVE  ReadersStay
<1>1. ~OnToken(Idle)
  BY DEF OnToken, Idle
<1>. QED BY <1>1, GotoReaders DEF Finish

LEMMA SameReaders == ASSUME req' = req PROVE ReadersStay
BY DEF ReadersStay

(***************************************************************************)
(* An invitation: its token is in no row, with no reader, and unused.      *)
(***************************************************************************)
LEMMA InviteUses ==
    ASSUME UsesInv, NEW r \in Slot, NEW who \in Account, NEW role \in Role,
           InviteMember(r, who, role)
    PROVE  UsesInv'
<1>1. TypeOK /\ TypeOK' /\ tokens' = tokens + 1 /\ tokens' \in Token /\ req[r].w \in Scope
  BY InviteMemberType DEF UsesInv
<1>. PICK w \in Scope : w = req[r].w
  BY <1>1
<1>2. PICK row \in Row : OneRow(w, who, row) /\ row.token = tokens'
  BY <1>1, InviteMemberType
<1>3. /\ logins' = logins /\ Finish(r)
      /\ forTeam' = IF w = 0 THEN forTeam \cup {tokens'} ELSE forTeam
  BY DEF InviteMember, IssueToken
<1>4. tokens \in Nat /\ forTeam \subseteq 1..tokens
  BY <1>1 DEF TypeOK
<1>5. tokens' \notin forTeam /\ \A t \in 0..tokens : t \in forTeam' <=> t \in forTeam
  BY <1>1, <1>3, <1>4
<1>6. \A x \in Scope, e \in Account :
          /\ TokenOf(member[x][e]) \in 0..tokens
          /\ \/ x = w /\ e = who /\ TokenOf(member'[x][e]) = tokens'
             \/ ~(x = w /\ e = who) /\ TokenOf(member'[x][e]) = TokenOf(member[x][e])
  <2>. TAKE x \in Scope, e \in Account
  <2>1. TokenOf(member[x][e]) \in 0..tokens
    BY <1>1, <1>4, TokenType DEF UsesInv, TokensIssued
  <2>2. TokenOf(row) = tokens'
    BY <1>2, RowExists DEF TokenOf
  <2>. QED BY <1>2, <2>1, <2>2 DEF OneRow
<1>7. ReadersStay /\ \A x \in Slot : OnToken(req'[x]) => req'[x] = req[x] /\ req[x].token \in 1..tokens
  <2>1. ReadersStay
    BY <1>1, <1>3, FinishReaders
  <2>2. \A x \in Slot : req'[x] = req[x] \/ req'[x].pc = "idle"
    BY <1>1, <1>3, FinishQuiet
  <2>3. ASSUME NEW x \in Slot, OnToken(req'[x])
        PROVE  req'[x] = req[x] /\ req[x].token \in 1..tokens
    <3>1. req'[x] = req[x]
      BY <2>2, <2>3 DEF OnToken
    <3>2. req[x].token \in Token /\ req[x].token <= tokens
      BY <1>1, <2>3, <3>1, AcceptingType DEF OnToken, UsesInv, TokensIssued
    <3>. QED BY <1>4, <3>1, <3>2 DEF Token
  <2>. QED BY <2>1, <2>3
<1>8. TokensIssued'
  <2>1. \A x \in Scope, e \in Account : TokenOf(member'[x][e]) <= tokens'
    BY <1>1, <1>4, <1>6
  <2>2. \A x \in Slot : OnToken(req'[x]) => req'[x].token <= tokens'
    BY <1>1, <1>4, <1>7
  <2>3. \A t \in Token : t > tokens' => logins'[t] = 0
    BY <1>1, <1>3, <1>4 DEF UsesInv, TokensIssued, Token
  <2>. QED BY <2>1, <2>2, <2>3 DEF TokensIssued
<1>9. TokensPlaced'
  <2>1. ASSUME NEW x \in Scope, NEW e \in Account, TokenOf(member'[x][e]) # 0
        PROVE  TokenOf(member'[x][e]) \in forTeam' <=> x = 0
    <3>1. CASE x = w /\ e = who
      BY <1>3, <1>5, <1>6, <3>1
    <3>2. CASE ~(x = w /\ e = who)
      BY <1>5, <1>6, <2>1, <3>2 DEF UsesInv, TokensPlaced
    <3>. QED BY <3>1, <3>2
  <2>2. ASSUME NEW x \in Slot, OnToken(req'[x])
        PROVE  req'[x].token \in forTeam' <=> req'[x].w = 0
    <3>1. req'[x] = req[x] /\ req[x].token \in 0..tokens
      BY <1>4, <1>7, <2>2
    <3>. QED BY <1>5, <2>2, <3>1 DEF UsesInv, TokensPlaced
  <2>. QED BY <2>1, <2>2 DEF TokensPlaced
<1>10. TokensApart'
  <2>1. \A t \in 0..tokens : t # tokens'
    BY <1>1, <1>4
  <2>2. ASSUME NEW x \in Scope, NEW y \in Scope, NEW e \in Account, NEW f \in Account,
               TokenOf(member'[x][e]) # 0, TokenOf(member'[x][e]) = TokenOf(member'[y][f])
        PROVE  x = y /\ e = f
    <3>1. CASE (x = w /\ e = who) \/ (y = w /\ f = who)
      BY <1>6, <2>1, <2>2, <3>1
    <3>2. CASE ~(x = w /\ e = who) /\ ~(y = w /\ f = who)
      BY <1>6, <2>2, <3>2 DEF UsesInv, TokensApart
    <3>. QED BY <3>1, <3>2
  <2>3. ASSUME NEW x \in Scope, NEW e \in Account, NEW s \in Slot, OnToken(req'[s]),
               TokenOf(member'[x][e]) = req'[s].token
        PROVE  x = req'[s].w /\ e = req'[s].who
    <3>1. req'[s] = req[s] /\ req[s].token \in 0..tokens
      BY <1>4, <1>7, <2>3
    <3>2. TokenOf(member'[x][e]) = TokenOf(member[x][e])
      BY <1>6, <2>1, <2>3, <3>1
    <3>. QED BY <2>3, <3>1, <3>2 DEF UsesInv, TokensApart
  <2>. QED BY <2>2, <2>3 DEF TokensApart
<1>11. logins[tokens'] = 0
  BY <1>1, <1>4 DEF UsesInv, TokensIssued
<1>12. TokensUnused'
  BY <1>3, <1>6, <1>11 DEF UsesInv, TokensUnused
<1>13. TokensBounded'
  <2>. SUFFICES ASSUME NEW t \in Token
                PROVE  logins[t] <= IF t \in forTeam' THEN Cardinality(Slot \ Readers(t)') ELSE 1
    BY <1>3 DEF TokensBounded
  <2>1. logins[t] \in Nat /\ Cardinality(Slot \ Readers(t)') \in Nat
        /\ Cardinality(Slot \ Readers(t)) \in Nat
    BY <1>1, SlotsCount DEF TypeOK
  <2>2. CASE t = tokens'
    BY <1>11, <2>1, <2>2
  <2>3. CASE t # tokens'
    <3>1. t \in forTeam' <=> t \in forTeam
      BY <1>3, <2>3
    <3>2. Readers(t)' \subseteq Readers(t)
      BY <1>7 DEF Readers, ReadersStay
    <3>3. Cardinality(Slot \ Readers(t)) <= Cardinality(Slot \ Readers(t)')
      BY <3>2, FewerReaders
    <3>4. logins[t] <= IF t \in forTeam THEN Cardinality(Slot \ Readers(t)) ELSE 1
      BY DEF UsesInv, TokensBounded
    <3>. QED BY <2>1, <3>1, <3>3, <3>4
  <2>. QED BY <2>2, <2>3
<1>. QED BY <1>1, <1>8, <1>9, <1>10, <1>12, <1>13 DEF UsesInv

(***************************************************************************)
(* A new reader: the token is still in its row, so nobody has used it.     *)
(***************************************************************************)
LEMMA ReadUses ==
    ASSUME UsesInv, NEW r \in Slot, NEW w \in Scope, NEW e \in Account, ReadInvitation(r, w, e)
    PROVE  UsesInv'
<1>1. TypeOK /\ TypeOK' /\ member[w][e] \in Row
  BY ReadInvitationType DEF UsesInv
<1>2. UNCHANGED <<member, tokens, forTeam, logins>>
  BY DEF ReadInvitation, history
<1>. PICK t \in Token : t = member[w][e].token
  BY <1>1 DEF ReadInvitation, Stands, HasToken, Row
<1>3. TokenOf(member[w][e]) = t /\ t # 0
  BY <1>1, RowExists DEF TokenOf, Token
<1>4. /\ req'[r].token = t /\ req'[r].w = w /\ req'[r].who = e
      /\ \A x \in Slot : x # r => req'[x] = req[x]
  BY <1>1, GotoOthers DEF ReadInvitation
<1>5. TokensIssued'
  BY <1>2, <1>3, <1>4 DEF UsesInv, TokensIssued
<1>6. TokensPlaced'
  BY <1>2, <1>3, <1>4 DEF UsesInv, TokensPlaced
<1>7. TokensApart'
  BY <1>2, <1>3, <1>4 DEF UsesInv, TokensApart
<1>8. TokensUnused' /\ logins[t] = 0
  BY <1>2, <1>3 DEF UsesInv, TokensUnused
<1>9. TokensBounded'
  <2>. SUFFICES ASSUME NEW s \in Token
                PROVE  logins[s] <= IF s \in forTeam THEN Cardinality(Slot \ Readers(s)') ELSE 1
    BY <1>2 DEF TokensBounded
  <2>1. CASE s = t
    BY <1>8, <2>1, SlotsCount
  <2>2. CASE s # t
    <3>1. Readers(s)' \subseteq Readers(s)
      BY <1>4, <2>2 DEF Readers
    <3>2. Cardinality(Slot \ Readers(s)) <= Cardinality(Slot \ Readers(s)')
      BY <3>1, FewerReaders
    <3>3. /\ logins[s] \in Nat /\ Cardinality(Slot \ Readers(s)) \in Nat
          /\ Cardinality(Slot \ Readers(s)') \in Nat
      BY <1>1, SlotsCount DEF TypeOK
    <3>4. logins[s] <= IF s \in forTeam THEN Cardinality(Slot \ Readers(s)) ELSE 1
      BY DEF UsesInv, TokensBounded
    <3>. QED BY <3>2, <3>3, <3>4
  <2>. QED BY <2>1, <2>2
<1>. QED BY <1>1, <1>5, <1>6, <1>7, <1>8, <1>9 DEF UsesInv

(***************************************************************************)
(* A login with a token that is in no row afterwards: of the team table,   *)
(* or for the first time.                                                  *)
(***************************************************************************)
LEMMA LogInUses ==
    ASSUME UsesInv, TypeOK', TokensStay, NEW r \in Slot, req[r].pc = "saved", Finish(r),
           logins' = [logins EXCEPT ![req[r].token] = @ + 1],
           \A w \in Scope, e \in Account : TokenOf(member'[w][e]) # req[r].token,
           req[r].token \in forTeam \/ logins[req[r].token] = 0
    PROVE  UsesInv'
<1>1. TypeOK /\ OnToken(req[r])
  BY DEF UsesInv, OnToken
<1>. PICK t \in Token : t = req[r].token
  BY <1>1, AcceptingType
<1>2. logins'[t] = logins[t] + 1 /\ \A s \in Token : s # t => logins'[s] = logins[s]
  BY <1>1 DEF TypeOK
<1>3. tokens' = tokens /\ forTeam' = forTeam
  BY DEF TokensStay
<1>4. TokensIssued' /\ TokensPlaced' /\ TokensApart'
  <2>1. t <= tokens /\ t \in Nat /\ tokens \in Nat
    BY <1>1 DEF UsesInv, TokensIssued, TypeOK, Token
  <2>2. \A s \in Token : s > tokens => logins'[s] = 0
    BY <1>2, <2>1 DEF UsesInv, TokensIssued, Token
  <2>. QED BY <1>1, <2>2, FinishReaders, RowsKeepTokens
<1>5. TokensUnused'
  <2>1. ASSUME NEW w \in Scope, NEW e \in Account, TokenOf(member'[w][e]) # 0
        PROVE  logins'[TokenOf(member'[w][e])] = 0
    <3>1. TokenOf(member'[w][e]) = TokenOf(member[w][e]) /\ TokenOf(member'[w][e]) # t
      BY <2>1 DEF TokensStay
    <3>2. TokenOf(member[w][e]) \in Token
      BY <1>1, <2>1, <3>1, TokenType
    <3>. QED BY <1>2, <2>1, <3>1, <3>2 DEF UsesInv, TokensUnused
  <2>. QED BY <2>1 DEF TokensUnused
<1>6. Readers(t)' = Readers(t) \ {r} /\ \A s \in Token : s # t => Readers(s)' \subseteq Readers(s)
  <2>1. req'[r].pc = "idle" /\ \A x \in Slot : x # r => req'[x] = req[x]
    BY <1>1, GotoOthers DEF Finish, Idle
  <2>. QED BY <2>1 DEF Readers, OnToken
<1>7. TokensBounded'
  <2>. SUFFICES ASSUME NEW s \in Token
                PROVE  logins'[s] <= IF s \in forTeam THEN Cardinality(Slot \ Readers(s)') ELSE 1
    BY <1>3 DEF TokensBounded
  <2>1. /\ logins[s] \in Nat /\ Cardinality(Slot \ Readers(s)) \in Nat
        /\ Cardinality(Slot \ Readers(s)') \in Nat
    BY <1>1, SlotsCount DEF TypeOK
  <2>2. logins[s] <= IF s \in forTeam THEN Cardinality(Slot \ Readers(s)) ELSE 1
    BY DEF UsesInv, TokensBounded
  <2>3. CASE s # t
    <3>1. Cardinality(Slot \ Readers(s)) <= Cardinality(Slot \ Readers(s)')
      BY <1>6, <2>3, FewerReaders
    <3>. QED BY <1>2, <2>1, <2>2, <2>3, <3>1
  <2>4. CASE s = t /\ t \in forTeam
    <3>1. r \in Readers(t)
      BY <1>1 DEF Readers
    <3>2. Slot \ Readers(t)' = (Slot \ Readers(t)) \cup {r}
      BY <1>6, <3>1
    <3>3. Cardinality((Slot \ Readers(t)) \cup {r}) = Cardinality(Slot \ Readers(t)) + 1
      BY <3>1, SlotsCount, FS_AddElement
    <3>4. Cardinality(Slot \ Readers(t)') = Cardinality(Slot \ Readers(t)) + 1
      BY <3>2, <3>3
    <3>. QED BY <1>2, <2>1, <2>2, <2>4, <3>4
  <2>5. CASE s = t /\ t \notin forTeam
    BY <1>2, <2>5
  <2>. QED BY <2>3, <2>4, <2>5
<1>. QED BY <1>4, <1>5, <1>7 DEF UsesInv

\* The row of a workspace invitation loses the token that logs in ...
LEMMA ActivateUses ==
    ASSUME UsesInv, NEW r \in Slot, Activate(r)
    PROVE  UsesInv'
<1>. DEFINE q == req[r]
<1>1. /\ TypeOK /\ TypeOK' /\ q.w \in Scope /\ q.who \in Account
      /\ member' = member \/ Activated(q.w, q.who)
      /\ UNCHANGED <<member, logins>> \/ Activated(q.w, q.who)
  BY ActivateType DEF UsesInv
<1>2. q.pc = "saved" /\ Finish(r) /\ UNCHANGED <<tokens, forTeam>>
  BY DEF Activate
<1>3. TokensStay /\ ReadersStay
  BY <1>1, <1>2, ActivatedTokens, FinishReaders
<1>4. CASE UNCHANGED <<member, logins>>
  BY <1>1, <1>3, <1>4, UsesStay
<1>5. CASE Activated(q.w, q.who) /\ Stands(q.w, q.who, q.token) /\ LogIn(q)
  <2>. PICK w \in Scope, e \in Account, t \in Token : w = q.w /\ e = q.who /\ t = q.token
    BY <1>1, <1>2, AcceptingType
  <2>1. HasToken(w, e, t)
    BY <1>5 DEF Stands
  <2>2. member[w][e] \in Row /\ TokenOf(member[w][e]) = t /\ t # 0
    BY <1>1, <2>1, RowExists DEF HasToken, TokenOf, TypeOK
  <2>3. logins[t] = 0
    BY <2>2 DEF UsesInv, TokensUnused
  <2>4. TokenOf(member'[w][e]) = 0
    <3>1. PICK row \in Row : OneRow(w, e, row) /\ row.token = 0
      BY <1>5 DEF Activated
    <3>. QED BY <3>1, RowExists DEF OneRow, TokenOf
  <2>5. \A x \in Scope, f \in Account : TokenOf(member'[x][f]) # t
    BY <1>3, <2>2, <2>4 DEF TokensStay, UsesInv, TokensApart
  <2>6. logins' = [logins EXCEPT ![req[r].token] = @ + 1]
    BY <1>5 DEF LogIn
  <2>. QED BY <1>1, <1>2, <1>3, <2>3, <2>5, <2>6, LogInUses
<1>. QED BY <1>1, <1>4, <1>5 DEF Activate

\* ... and that of the team table has lost it, to this request or before.
LEMMA MarkedTokens ==
    ASSUME UsesInv, NEW r \in Slot, req[r].pc \in {"loaded", "saved"}, req[r].w = 0,
           member' = MarkedInTeam(req[r]), UNCHANGED <<tokens, forTeam>>
    PROVE  /\ TokensStay
           /\ \A x \in Scope, f \in Account : TokenOf(member'[x][f]) # req[r].token
<1>1. TypeOK /\ OnToken(req[r])
  BY DEF UsesInv, OnToken
<1>. PICK e \in Account, t \in Token : e = req[r].who /\ t = req[r].token
  BY <1>1, AcceptingType
<1>2. 0 \in Scope /\ t # 0
  BY ScopeType
<1>3. member' = member \/ Activated(0, e)
  BY <1>1, MarkedType
<1>4. TokensStay
  BY <1>1, <1>2, <1>3, ActivatedTokens
<1>5. \A x \in Scope, f \in Account : TokenOf(member[x][f]) = t => x = 0 /\ f = e
  BY <1>1 DEF UsesInv, TokensApart
<1>6. TokenOf(member'[0][e]) # t
  <2>1. CASE HasToken(0, e, t)
    <3>1. member[0][e] \in Row
      BY <1>1, <1>2, <2>1, RowExists DEF HasToken, TypeOK
    <3>2. member'[0][e] = [member[0][e] EXCEPT !.status = "active", !.token = 0]
      BY <1>1, <1>2, <2>1 DEF MarkedInTeam, TypeOK
    <3>3. member'[0][e] \in Row /\ member'[0][e].token = 0
      BY <3>1, <3>2, ActiveRow
    <3>. QED BY <1>2, <3>3, RowExists DEF TokenOf
  <2>2. CASE ~HasToken(0, e, t)
    BY <1>2, <2>2 DEF MarkedInTeam, HasToken, TokenOf
  <2>. QED BY <2>1, <2>2
<1>. QED BY <1>2, <1>4, <1>5, <1>6 DEF TokensStay

LEMMA TeamUses ==
    ASSUME UsesInv, NEW r \in Slot, ActivateTeam(r) \/ AccountMoved(r)
    PROVE  UsesInv'
<1>1. TypeOK /\ TypeOK' /\ Finish(r) /\ UNCHANGED <<tokens, forTeam>>
  BY ActivateTeamType, AccountMovedType DEF UsesInv, ActivateTeam, AccountMoved
<1>2. CASE ActivateTeam(r)
  <2>1. /\ req[r].pc = "saved" /\ req[r].w = 0 /\ member' = MarkedInTeam(req[r])
        /\ logins' = [logins EXCEPT ![req[r].token] = @ + 1]
    BY <1>2 DEF ActivateTeam, LogIn
  <2>2. /\ TokensStay
        /\ \A x \in Scope, f \in Account : TokenOf(member'[x][f]) # req[r].token
    BY <1>1, <2>1, MarkedTokens
  <2>3. req[r].token \in forTeam
    BY <2>1 DEF UsesInv, TokensPlaced, OnToken
  <2>. QED BY <1>1, <2>1, <2>2, <2>3, LogInUses
<1>3. CASE AccountMoved(r)
  <2>1. req[r].pc = "loaded" /\ logins' = logins
    BY <1>3 DEF AccountMoved, history
  <2>2. TokensStay
    <3>1. CASE member' = member
      BY <1>1, <3>1, SameRowsTokens
    <3>2. CASE member' = MarkedInTeam(req[r]) /\ req[r].w = 0
      BY <1>1, <2>1, <3>2, MarkedTokens
    <3>. QED BY <1>3, <3>1, <3>2 DEF AccountMoved
  <2>. QED BY <1>1, <2>1, <2>2, FinishReaders, UsesStay
<1>. QED BY <1>2, <1>3

\* The other steps: no reader comes or goes on, and tokens only disappear.
LEMMA DeleteAccountUses ==
    ASSUME UsesInv, NEW r \in Slot, NEW who \in Account, DeleteAccount(r, who)
    PROVE  UsesInv'
<1>1. TypeOK /\ TypeOK' /\ UNCHANGED <<member, tokens, forTeam, logins>>
  BY DeleteAccountType DEF UsesInv, DeleteAccount
<1>2. ReadersStay
  <2>. SUFFICES ASSUME NEW x \in Slot, OnToken(req'[x])
                PROVE  /\ OnToken(req[x]) /\ req'[x].token = req[x].token
                       /\ req'[x].w = req[x].w /\ req'[x].who = req[x].who
    BY DEF ReadersStay
  <2>1. x # r
    BY DEF DeleteAccount, OnToken
  <2>2. CASE Holds(x, who)
    <3>1. req'[x] = [req[x] EXCEPT !.roles = Deleted]
      BY <2>1, <2>2 DEF DeleteAccount
    <3>2. req[x] \in Accepting /\ OnToken(req[x])
      BY <1>1, <2>2, AcceptingType DEF Holds, OnToken
    <3>. QED BY <3>1, <3>2 DEF Accepting
  <2>3. CASE ~Holds(x, who)
    BY <2>1, <2>3 DEF DeleteAccount
  <2>. QED BY <2>2, <2>3
<1>. QED BY <1>1, <1>2, SameRowsTokens, UsesStay

LEMMA LoadUses ==
    ASSUME UsesInv, NEW r \in Slot,
           LoadAccount(r) \/ SaveAccount(r) \/ RegisterAccount(r) \/ MissAccount(r)
    PROVE  UsesInv'
<1>1. TypeOK /\ TypeOK' /\ UNCHANGED <<member, tokens, forTeam, logins>>
  BY LoadAccountType, SaveAccountType, RegisterAccountType, MissAccountType
     DEF UsesInv, LoadAccount, SaveAccount, RegisterAccount, MissAccount, history
<1>2. req[r] \in Accepting /\ OnToken(req[r])
  BY <1>1, AcceptingType DEF LoadAccount, SaveAccount, RegisterAccount, MissAccount, OnToken
<1>3. /\ [req[r] EXCEPT !.pc = "saved"].token = req[r].token
      /\ [req[r] EXCEPT !.pc = "saved"].w = req[r].w
      /\ [req[r] EXCEPT !.pc = "saved"].who = req[r].who
  BY <1>2 DEF Accepting
<1>4. CASE LoadAccount(r)
  <2>1. PICK list \in {Unregistered, Deleted} \cup SUBSET Role :
            Goto(r, [req[r] EXCEPT !.pc = "loaded", !.roles = list])
    BY <1>1, <1>4, LoadAccountType
  <2>2. /\ [req[r] EXCEPT !.pc = "loaded", !.roles = list].token = req[r].token
        /\ [req[r] EXCEPT !.pc = "loaded", !.roles = list].w = req[r].w
        /\ [req[r] EXCEPT !.pc = "loaded", !.roles = list].who = req[r].who
    BY <1>1, <1>4, LoadedType DEF LoadAccount
  <2>3. ReadersStay
    BY <1>1, <1>2, <2>1, <2>2, GotoReaders
  <2>. QED BY <1>1, <2>3, SameRowsTokens, UsesStay
<1>5. CASE SaveAccount(r) \/ RegisterAccount(r) \/ MissAccount(r)
  <2>1. Goto(r, [req[r] EXCEPT !.pc = "saved"])
    BY <1>5 DEF SaveAccount, RegisterAccount, MissAccount
  <2>2. ReadersStay
    BY <1>1, <1>2, <1>3, <2>1, GotoReaders
  <2>. QED BY <1>1, <2>2, SameRowsTokens, UsesStay
<1>. QED BY <1>4, <1>5

LEMMA UpdateRoleUses ==
    ASSUME UsesInv, NEW r \in Slot, NEW i \in Account \cup Name, NEW role \in Role,
           UpdateMemberRole(r, i, role)
    PROVE  UsesInv'
<1>1. /\ TypeOK /\ TypeOK' /\ Finish(r) /\ UNCHANGED <<tokens, forTeam, logins>>
  BY UpdateMemberRoleType DEF UsesInv, UpdateMemberRole
<1>2. \A w \in Scope, e \in Account : TokenOf(member'[w][e]) = TokenOf(member[w][e])
  <2>. TAKE w \in Scope, e \in Account
  <2>1. CASE member'[w][e] = member[w][e]
    BY <2>1
  <2>2. CASE member[w][e] \in Row /\ member'[w][e] = [member[w][e] EXCEPT !.role = role]
    <3>1. member'[w][e] \in Row /\ member'[w][e].token = member[w][e].token
      BY <2>2 DEF Row
    <3>. QED BY <2>2, <3>1, RowExists DEF TokenOf
  <2>. QED BY <1>1, <2>1, <2>2, UpdateMemberRoleType
<1>3. TokensStay
  BY <1>1, <1>2 DEF TokensStay
<1>. QED BY <1>1, <1>3, FinishReaders, UsesStay

LEMMA ProceedUses ==
    ASSUME UsesInv, NEW r \in Slot, Proceed(r)
    PROVE  UsesInv'
<1>0. TypeOK
  BY DEF UsesInv
<1>1. ASSUME NEW e \in Subject, NEW role \in InviteRole, InviteMember(r, e, role)
      PROVE  UsesInv'
  BY <1>1, InputType, InviteUses
<1>2. ASSUME NEW i \in Subject \cup Name, NEW role \in InviteRole, UpdateMemberRole(r, i, role)
      PROVE  UsesInv'
  BY <1>2, InputType, UpdateRoleUses
<1>3. ASSUME NEW w, Removed(w), Finish(r), TypeOK', UNCHANGED <<tokens, forTeam, logins>>
      PROVE  UsesInv'
  BY <1>0, <1>3, RemovedTokens, FinishReaders, UsesStay
<1>4. ASSUME NEW i \in Subject \cup Name, RemoveMember(r, i)
      PROVE  UsesInv'
  <2>1. TypeOK' /\ Removed(req[r].w)
    BY <1>0, <1>4, InputType, RemoveMemberType
  <2>2. Finish(r) /\ UNCHANGED <<tokens, forTeam, logins>>
    BY <1>4 DEF RemoveMember, history
  <2>. QED BY <1>3, <2>1, <2>2
<1>5. ASSUME NEW e \in Subject, DeleteAccount(r, e)
      PROVE  UsesInv'
  BY <1>5, InputType, DeleteAccountUses
<1>6. ASSUME NEW e \in Subject, NEW role \in InviteRole, CreateUser(r, e, role)
      PROVE  UsesInv'
  <2>1. TypeOK' /\ Finish(r) /\ UNCHANGED <<member, tokens, forTeam, logins>>
    BY <1>0, <1>6, InputType, CreateUserType DEF CreateUser
  <2>. QED BY <1>0, <2>1, SameRowsTokens, FinishReaders, UsesStay
<1>7. CASE RefuseGone(r)
  <2>1. TypeOK' /\ Finish(r) /\ UNCHANGED <<member, tokens, forTeam, logins>>
    BY <1>0, <1>7, RefuseGoneType DEF RefuseGone, history
  <2>. QED BY <1>0, <2>1, SameRowsTokens, FinishReaders, UsesStay
<1>8. CASE DeleteWorkspace(r)
  <2>1. TypeOK' /\ Removed(req[r].w)
    BY <1>0, <1>8, DeleteWorkspaceType
  <2>2. Finish(r) /\ UNCHANGED <<tokens, forTeam, logins>>
    BY <1>8 DEF DeleteWorkspace, history
  <2>. QED BY <1>3, <2>1, <2>2
<1>9. CASE RemoveTeamRow(r)
  <2>1. TypeOK' /\ Removed(0)
    BY <1>0, <1>9, RemoveTeamRowType
  <2>2. Finish(r) /\ UNCHANGED <<tokens, forTeam, logins>>
    BY <1>9 DEF RemoveTeamRow, history
  <2>. QED BY <1>3, <2>1, <2>2
<1>10. CASE LoadAccount(r) \/ SaveAccount(r) \/ RegisterAccount(r) \/ MissAccount(r)
  BY <1>10, LoadUses
<1>11. CASE AccountMoved(r) \/ ActivateTeam(r)
  BY <1>11, TeamUses
<1>12. CASE Activate(r)
  BY <1>12, ActivateUses
<1>. QED BY <1>1, <1>2, <1>4, <1>5, <1>6, <1>7, <1>8, <1>9, <1>10, <1>11, <1>12 DEF Proceed

LEMMA StepUses == UsesInv /\ [Next]_vars => UsesInv'
<1>. SUFFICES ASSUME UsesInv, [Next]_vars PROVE UsesInv'
  OBVIOUS
<1>0. TypeOK /\ TypeOK'
  BY StepType DEF UsesInv
<1>1. ASSUME TokensStay, UNCHANGED <<req, logins>> PROVE UsesInv'
  BY <1>0, <1>1, SameReaders, UsesStay
<1>2. ASSUME NEW u \in Account, NEW n \in Name, CreateWorkspace(u, n)
      PROVE  UsesInv'
  <2>1. PICK row \in Row : OneRow(made', u, row) /\ row.token = 0
    BY <1>0, <1>2, CreateWorkspaceType
  <2>2. made' \in Scope
    BY <1>0, <1>2, CreateWorkspaceType
  <2>3. UNCHANGED <<tokens, forTeam, req, logins>>
    BY <1>2 DEF CreateWorkspace
  <2>4. TokensStay
    BY <1>0, <2>1, <2>2, <2>3, OneRowTokens
  <2>. QED BY <1>1, <2>3, <2>4
<1>3. ASSUME NEW u \in Account, NEW n \in Name, SyncName(u, n)
      PROVE  UsesInv'
  <2>1. Relabelled /\ UNCHANGED <<tokens, forTeam, req, logins>>
    BY <1>0, <1>3, SyncNameType DEF SyncName, history
  <2>. QED BY <1>1, <2>1, RelabelledTokens
<1>4. ASSUME NEW r \in Slot, NEW u \in Account, Administer(r, u)
      PROVE  UsesInv'
  <2>1. PICK w, op : Permit(r, u, op, w)
    BY <1>4 DEF Administer
  <2>2. UNCHANGED <<member, tokens, forTeam, logins>>
    BY <2>1 DEF Permit, history
  <2>3. ReadersStay
    BY <1>0, <2>1, GotoReaders DEF Permit, OnToken
  <2>. QED BY <1>0, <2>2, <2>3, SameRowsTokens, UsesStay
<1>5. ASSUME NEW r \in Slot, NEW w \in Scope, NEW e \in Account, ReadInvitation(r, w, e)
      PROVE  UsesInv'
  BY <1>5, ReadUses
<1>6. ASSUME NEW r \in Slot, Proceed(r)
      PROVE  UsesInv'
  BY <1>6, ProceedUses
<1>7. ASSUME NEW w \in Workspace, NEW u \in Subject, NEW role \in InviteRole,
             AddMember(w, u, role)
      PROVE  UsesInv'
  <2>1. w \in Scope /\ u \in Account /\ role \in Role
    BY InputType
  <2>2. PICK row \in Row :
            /\ OneRow(w, u, row)
            /\ row.token = IF member[w][u] = NoRow THEN 0 ELSE member[w][u].token
    BY <1>0, <1>7, <2>1, AddMemberType
  <2>3. UNCHANGED <<tokens, forTeam, req, logins>>
    BY <1>7 DEF AddMember
  <2>4. TokensStay
    BY <1>0, <2>1, <2>2, <2>3, OneRowTokens DEF TokenOf
  <2>. QED BY <1>1, <2>3, <2>4
<1>8. ASSUME NEW u \in Account, Register(u) \/ Provision(u) \/ Forget(u)
      PROVE  UsesInv'
  <2>1. UNCHANGED <<member, tokens, forTeam, req, logins>>
    BY <1>8 DEF Register, Provision, NewViewer, Forget, history
  <2>. QED BY <1>1, <2>1, SameRowsTokens
<1>9. ASSUME NEW w \in Scope, NEW e \in Account, Expire(w, e)
      PROVE  UsesInv'
  <2>1. Relabelled /\ UNCHANGED <<tokens, forTeam, req, logins>>
    BY <1>0, <1>9, ExpireType DEF Expire, history
  <2>. QED BY <1>1, <2>1, RelabelledTokens
<1>10. CASE UNCHANGED vars
  <2>1. UNCHANGED <<member, tokens, forTeam, req, logins>>
    BY <1>10 DEF vars, history
  <2>. QED BY <1>1, <2>1, SameRowsTokens
<1>. QED BY <1>2, <1>3, <1>4, <1>5, <1>6, <1>7, <1>8, <1>9, <1>10 DEF Next

(***************************************************************************)
(* Any number of requests that accept invitations at once, of invitations  *)
(* issued again, removed and left in rows: a workspace invitation logs in  *)
(* one request, and one of the team table no more than there are slots.    *)
(***************************************************************************)
THEOREM InvitationUsesBounded == Spec => []InvitationUses
<1>1. Init => UsesInv
  <2>. SUFFICES ASSUME Init PROVE UsesInv
    OBVIOUS
  <2>1. TypeOK /\ tokens = 0 /\ \A t \in Token : logins[t] = 0
    BY InitType DEF Init
  <2>2. \A w \in Scope, e \in Account : TokenOf(member[w][e]) = 0
    BY DEF Init, TokenOf
  <2>3. \A r \in Slot : ~OnToken(req[r])
    BY DEF Init, Idle, OnToken
  <2>4. TokensIssued
    BY <2>1, <2>2, <2>3 DEF TokensIssued
  <2>5. TokensPlaced /\ TokensApart /\ TokensUnused
    BY <2>2, <2>3 DEF TokensPlaced, TokensApart, TokensUnused
  <2>6. TokensBounded
    <3>. SUFFICES ASSUME NEW t \in Token
                  PROVE  0 <= IF t \in forTeam THEN Cardinality(Slot \ Readers(t)) ELSE 1
      BY <2>1 DEF TokensBounded
    <3>. QED BY SlotsCount
  <2>. QED BY <2>1, <2>4, <2>5, <2>6 DEF UsesInv
<1>2. UsesInv => InvitationUses
  <2>. SUFFICES ASSUME UsesInv, NEW t \in Token
                PROVE  logins[t] <= IF t \in forTeam THEN Cardinality(Slot) ELSE 1
    BY DEF InvitationUses
  <2>1. logins[t] <= IF t \in forTeam THEN Cardinality(Slot \ Readers(t)) ELSE 1
    BY DEF UsesInv, TokensBounded
  <2>2. logins[t] \in Nat
    BY DEF UsesInv, TypeOK
  <2>. QED BY <2>1, <2>2, SlotsCount
<1>. QED BY <1>1, <1>2, StepUses, PTL DEF Spec
==============================================================================
