# Auth N&Z in TLA+

Models, model checks and proofs for Auth N&Z, an identity and access server in
Python (FastAPI, SQLAlchemy over PostgreSQL, Redis). The server runs as several
uvicorn **worker processes**; each worker has one asyncio event loop and its own
memory, all workers share one PostgreSQL database and one Redis. Three facts of
that architecture shape every module:

* handlers of one worker interleave only where they `await`. The Redis client
  is synchronous: a Redis call blocks the whole worker, so a section of code
  without an await runs alone in its worker, but handlers of *different*
  workers interleave between any two Redis calls;
* almost every service that uses Redis catches the exception of a failed call
  and goes on with a dictionary in the memory of its worker. State then exists
  in several places that disagree, and nothing brings it together when Redis
  answers again;
* a request is several transactions. What one of them has checked (a role, an
  invitation, a row read through a cache) another request may change before the
  next one uses it.

All paths below are relative to `src/`.

## 1. The system's components

"Hard" names what a test reaches badly; "correct" names what must hold. The last
column names the modules; "–" is not modelled (section 8).

| component | state | operations | hard | correct | modules |
|---|---|---|---|---|---|
| **refresh-token rotation** `api/v1/auth_router.py` (`refresh_tokens`), `token_service.py` | `revoked_token:<jti>`, `revoked_family:<id>` in Redis with a time to live; a block list and a family list in each worker | sign, verify, revoke a token, revoke a family, look up both lists; the refresh handler reads the lists, awaits the user row, consumes, signs | two requests with one token; replay detection against consumption; outage in the middle; time to live against token life; crash between consumption and signing | one live token per family; an exchanged token never exchanged again; a condemned family dead; the cascade reaches the sessions in the index | `TokenFamily`, `TokenRotation` |
| **access tokens** `token_service.py`, `api/dependencies.py`, `guards.py` | the same lists | `get_current_user`, `require_auth`, logout, minting by a workspace switch | expiry in whole seconds against a clock of fractions; outages | a revoked token is refused by every worker until it expires | `AccessTokens` |
| **session store** `session_store.py` | hash `session:<id>`, set `user_sessions:<user>`, both with a time to live; copies in memory | create (4 Redis calls), authenticate (extends), update, delete (2 calls), delete all of a user (read, then MULTI) | crash or outage between the calls; HSET on a deleted key; index and session expire apart; purge against create | logout and purge are final; every session has a time to live | `SessionStore` |
| **password login and lockout** `authenticator.py` | `failed_logins:<user>`, `lockout:<user>`; copies in memory | check, count (INCR, EXPIRE), lock, clear, unlock | workers check and count at the same time; a key without expiry; counters in several places | bounded guesses; a lock only after a burst | `LoginLockout` |
| **second factor** `authenticator.py`, `mfa_provider.py`, `api/v1/mfa_router.py` | `mfa_challenge:<id>` with a count of wrong answers, or a copy in memory; secret and backup codes inside the `metadata` of the user row | initiate, complete (TOTP or backup code); setup, verify-setup, disable | the count is read, raised and stored in separate calls; the whole list of codes is read through a cache and written back after an await | bounded wrong answers; a challenge ends with its life; a code is used once | `MfaLogin`, `Passkeys` |
| **user profile cache** `user_repository.py` (`UserProfileCache`), `api/v1/websocket_router.py` (listener) | L1 per worker, L2 in Redis, the pub/sub channel of invalidations | read through, fill, invalidate (DEL, PUBLISH), handle an event | fill against invalidate; lost events; crash between commit and invalidation | a replaced row is served for a bounded time, and not once the system has settled | `UserCache` |
| **user repository** `user_repository.py` | `users`, `password_reset_tokens` | CRUD, roles and metadata (read-modify-write), reset tokens | lost updates of whole-column writes | concurrent changes do not undo each other | `UserCache`, `Membership`, `Passkeys`, `PasswordReset` (partly) |
| **password reset** `api/v1/auth_router.py`, `user_repository.py` | reset tokens in the database | request, verify, consume, then purge sessions, revoke devices, unlock | concurrent consumption; crash between the steps; a purge that Redis refuses or that misses sessions; a login served a cached row, or that rehashes the old password | a link works once; what an old password opened ends | `PasswordReset` |
| **logout** `api/v1/auth_router.py` | the lists and the sessions | revoke the access token, delete one or all sessions | which of the credentials of a login survive | each half is final | `AccessTokens`, `SessionStore` |
| **trusted devices** `device_trust_service.py` | `trusted_devices` | remember, verify, revoke one/all | verification against revocation | a reset revokes what it should | `PasswordReset` |
| **passkeys** `webauthn_service.py`, `api/v1/webauthn_router.py` | challenges in Redis or memory, credentials with a signature counter in `metadata` | begin/finish registration and login, rename, remove | GET then DELETE of a challenge; metadata read-modify-write through the caches of several workers | a challenge is consumed once; the counter never falls; a removed key stays removed | `Passkeys`, `OneTime` |
| **OAuth login** `oauth_provider.py`, `api/v1/oauth_router.py` | `state` records | begin, callback, account resolution, link, unlink | two callbacks with one state; an outage between its two copies | a state is used once | `OneTime`, `Membership`, `Passkeys` (partly) |
| **workspaces** `workspace_repository.py`, `api/v1/workspace_router.py` | membership rows with a status, invitation tokens, global roles in the user row | create, invite (upsert), accept, change role, remove, delete | re-inviting an active member; accept against revoke, deletion, another acceptance; account rows from a cache; look-up by display name | nobody holds a role nobody granted; an invitation is taken up once; an accepted role stays | `Membership`, `MembershipLife` |
| **tasks and team** `task_repository.py`, `api/v1/task_router.py`, `api/v1/team_router.py` | tasks, the team table | CRUD, moves between workspaces, events; team invitations and removals | a role checked in one workspace, used after a move | tasks are changed by insiders, told to insiders | `Tasks`, `Membership` |
| **policy engine** `policy_engine.py`, `opa_client.py`, `api/v1/policy_router.py` | a decision cache in Redis and in memory, a circuit breaker | evaluate, reload, query OPA with fallback | late answers against an open circuit; two caches feeding each other; roles that change while a query is under way | decisions are fresh, and those of the local engine what the evaluator says; the circuit follows the failures | `PolicyDecisions` |
| **permission evaluation** `permission_evaluator.py`, `policy_engine.py`, `guards.py` | none | roles along a hierarchy, levels, rules on attributes | four readings of one hierarchy | equals a reference definition; the readings agree where both are given the same roles | `Permissions`, `Roles` |
| **rate limiter** `api/dependencies.py` | `rate_limit:<key>`; a dictionary in memory | check | INCR then EXPIRE; fixed windows; fallback | bounded requests per window | `RateLimit` |
| **WebSocket notifications** `api/v1/websocket_router.py` | connections per worker, pub/sub | connect, disconnect, broadcast, listen | send during disconnect; duplicate or lost fan-out | each connected client gets an event once | `Connections` (partly) |
| **deployment** `server.py` | workers, clock, Redis | outages, restarts | | | `Deployment` |
| e-mail, audit, metrics, hashing, HTTP wiring, schemas, migrations, CLI, example | none that a decision of the system reads | | | | – |

**Interactions.** A login checks the lockout, reads the user through the cache,
may start an MFA challenge, and ends with a session and a token family. A
refresh reads the block lists and the cached user and, on a replay, revokes the
family and purges the user's sessions. A password reset changes the row
(invalidating the cache), purges sessions, revokes devices and unlocks the
account. MFA, passkeys, OAuth links and roles are all read-modify-write of one user
row behind the cache. Accepting an invitation writes the roles of the account as
well as the membership. `has_role` reads both. The invalidation channel of the
cache shares its listener with the WebSocket fan-out.

## 2. Modules and their correspondence to the code

| module | models | kind |
|---|---|---|
| `TokenRotation` | what rotation promises: a family has at most one token that can be exchanged, and a family that lost it never comes back | abstract specification |
| `TokenFamily` | `refresh_tokens` over the lists of `TokenService` | detailed; implements `TokenRotation` |
| `SessionStore` | every operation of `session_store.py` as its sequence of Redis calls | detailed |
| `LoginLockout` | `_check_account_lockout`, `_record_failed_attempt`, `_clear_failed_attempts`, `unlock_account` inside a password login | detailed |
| `UserCache` | `UserProfileCache`, the repository's read and write paths around it, the invalidation listener | detailed |
| `MfaLogin` | `initiate_mfa_challenge`, `complete_mfa_challenge` over the cached row | detailed |
| `MembershipLife` | what membership promises: who is in founded the place, was enrolled or took up the offer that stood | abstract specification |
| `Membership` | workspaces, invitations, acceptances, the team table, accounts and global roles | detailed; implements `MembershipLife` |
| `Roles`, `Permissions` | the role hierarchy; both ways of computing a permission | operators |
| `Deployment` | workers, a clock, a Redis that fails and recovers | environment of the next eight |
| `PasswordReset` | reset links, the reset and the logins beside it, trusted devices | detailed |
| `AccessTokens` | authentication of a request, workspace switch, logout | detailed |
| `Tasks` | requests on task cards | detailed |
| `Passkeys` | edits of `users.metadata`: passkeys, second factor, OAuth data | detailed |
| `OneTime` | challenges of passkey ceremonies, states of OAuth logins | detailed |
| `PolicyDecisions` | decision caches, OPA and its circuit | detailed |
| `RateLimit` | `check_rate_limit` | detailed |
| `Connections` | `ConnectionManager` and the pub/sub listener | detailed |
| `Services` | the eight before it, side by side | composition |
| `TokenFamily_proofs`, `SessionStore_proofs`, `LoginLockout_proofs`, `UserCache_proofs`, `MfaLogin_proofs`, `Membership_proofs`, `PasswordReset_proofs` | theorems about the module of that name | proofs |
| `Services_proofs` | theorems about the parts of `Services`, and about `Services` itself | proofs |
| `MC...` | values of constants and symmetry for TLC | model checking |

Conventions used in all of them. A request in progress is a record in a slot
(`req`, `job`, `reset`, `visit`, ...) with a program counter `pc`; a slot is free
again when the request has been answered. One action is the code between two
points where somebody else can run: two awaits in the same worker, or two Redis
calls as seen from another worker, or two transactions. An early return is an
action, or a branch of one, that ends the request. `redisUp` says whether Redis
calls succeed. A call that raises may nevertheless have been carried out where that
matters (`OneTime`, `RateLimit`). A crash or restart empties the memory of a worker
and drops its requests; what was committed stays. `now` is a clock in ticks; times
to live are instants at which keys disappear. Variables marked *history* are read
by properties only.

Operators whose comment begins with `Mutant:` are deliberate mistakes of the kind a
change of the code could make; no specification uses them. Each stands before the
definition it is a variant of, and the property named for it in `PROJECT.json` fails
when the definition is replaced by it, which shows that the property speaks about
that piece of code.

**TokenFamily.** A refresh token is a number with a family and an expiry; the
server stores no tokens, only `redisJti`/`redisFamily` (instants until which a
key exists) and `memJti`/`memFamily` (the lists of each worker). The handler is
`Present` (decode), `CheckFamily`, `CheckToken`, then `Condemn` and the
purge for a replay, or `LoadUser` (the await), `Consume` and `Mint`. The purge is
`ReadIndex` (SMEMBERS) and `DeleteSessions` (one MULTI over what was read and the whole
index); what fell out of the index without being read, by its age or in such a MULTI, is
in `dropped`. `Login` enters its session in the index in one step: no token of
its family exists before the last of the four calls, which `SessionStore` has one by
one. Where the access token is minted, and the audit and metric calls, change nothing
the model keeps. The loaded user may be missing or inactive: `LoadUser` then ends the
request. `is_token_revoked` falls through to memory after a miss, while
`is_family_revoked` reads memory only when the call raises: `TokenRevoked` and
`FamilyRevoked` differ in the same way. With `HasRedis = FALSE` (development
without Redis) everything stays in memory.

**SessionStore.** `hash`, `until`, `index`, `indexUntil` are the keys and their times
to live (HSET and SADD create a key without one: `NoTtl`). The four calls of
`create_session` are `SetHash`, `SetExpire`, `AddToIndex`, `ExpireIndex`;
`FallBack` is the exception handler around all four, so a session may be in Redis
and in memory. `delete_all_user_sessions` is SMEMBERS (`StartPurge`) and one MULTI
(`PurgePipeline`). `update_session_data` checks and then HSETs one field, which
re-creates a deleted hash without `user_id`; `Alive` is therefore "the hash
names its user", what `authenticate_session` looks at. Copies in memory have no
time to live in the code and none here. `except_session_id` has no caller and is
left out; `authenticate_session` and `update_session_data` are public operations
the bundled routers do not call.

**LoginLockout.** Keys of different accounts are unrelated: one account. Between the
lookup of the user and the answer nothing is awaited, so a worker is in at most one
section. INCR (`CountInRedis`), EXPIRE (`ExpireCounter`, made for the first failure
only) and the lock (`SetLock`, in Redis and always in memory as well) are separate
steps. An exception anywhere falls back to the counter in memory. `fails` is the history
of wrong passwords: the tick of each.

**UserCache.** One row, whose content is a version number. `ReadThrough` looks at L1,
then L2 (copying a hit to L1 with a new life), then begins the awaited `Select`;
`Fill` stores the row in both levels. A change is `StartWrite`, `Commit`,
`Invalidate` (L1 and DEL), `Publish`; `Receive` is the listener of a worker,
which invalidates L1 and L2 again. A lost connection (`LoseSubscription`) loses
what was in flight and what is published until `Resubscribe`. The node id
in an envelope is the cache's own while the listener compares it with that of the
connection manager, so a worker handles its own events too, as in the model.
Effects on the memory of the blocked worker are merged with the Redis call beside
them. A deleted row is a new version that is never cached.

**MfaLogin.** One enrolled user. `stored`/`pending` hold the challenge; each wrong
answer stores the record again with a whole new life (`Save`), and only the
creation time inside the record ends it (`Fetch`, `Expire`). A backup code is
checked in the row read through the cache, removed from that very object, and
the whole list written back after an await (`JudgeCode`, `Commit`, `Invalidate`,
`Publish`, `CodeSucceeds`). The cache is that of `UserCache` without its times
to live: entries may be forgotten at any moment. `overlap` records what the promise of
single use does not survive: a handler that began beside another, or before a worker
had handled an invalidation, and an invalidation or its announcement that Redis did not
take, or lost.

**Membership.** A person is his address. `member[w]` holds the rows of `workspace_members`
of workspace `w`, and in scope 0 those of the older system-wide `team_members`, which has
the same columns; `roles` holds the global roles of the accounts. Every administrator's
request is two steps, because the routers check `has_role` in one transaction (`Permit`) and
act in another: `InviteMember` (the upsert of `invite_member`), `UpdateMemberRole`,
`RemoveMember`, `DeleteWorkspace`, `CreateUser`, and `DeleteAccount` with `RemoveTeamRow`
for `remove_team_member`. `RefuseGone` is the refusal when the workspace disappeared in
between. An acceptance is four: `ReadInvitation`, `LoadAccount`, `SaveAccount` or
`RegisterAccount`, and `Activate` or `ActivateTeam`. `LoadAccount` takes any row
`get_by_identifier` may serve (`Served`): the one stored, or one in `cached`, which holds
every row that was replaced or deleted and that no invalidation has reached (`Forget` is the
last to be handled). The handler appends the role to that very list, so the cache may serve
the role before it is written. `WriteRoles` writes the list whole; `behind` records the
acceptances whose list is not the stored one, `clashed` those of them that wrote. `has_role`
reads through the same caches. `AccountMoved` is the branch where the account was created or
deleted meanwhile, `MissAccount` the one that a cached row hides it; `Holds` marks
acceptances whose account was deleted. The workspace variant of `accept_invitation` asks for
a pending, unexpired row with the token and its handler raises otherwise (`Stands`); that of
the team table matches the token alone and its handler ignores the answer (`MarkedInTeam`,
`LogIn`). `Matching` is the look-up by address or display name. `AddMember` is called by an
embedding application, not by a bundled router. In `Life` a person is in with an active row,
and the offer that stands is the token of an invited row.

**PasswordReset.** A password is known by the link that set it. A login is `CheckPassword`
against the stored row or a replaced one that a cache still has (`cached`, until
`ForgetRow`), the awaited `Rehash` when the hash has an old cost, then a recognised device
(`PresentDevice`), a challenge (`AskSecondFactor`) or none, `OpenSession`, and
`TrustDevice`. Requesting a link is an UPDATE that closes the open ones (`ClearLinks`) and
an INSERT with the commit (`IssueLink`), so two at once do not see each other's. A reset is
two verifications (`VerifyLink`, `VerifyAgain`), the conditional UPDATE with the new
password (`Consume`), the purge, `RevokeAllDevices`, `UnlockAccount`; `AbortReset` is the
death of its worker in between. `Consume` waits for a row that `ClearLinks` has locked. The
purge is `ReadIndex` and `DeleteSessions`, and each may also be the call that raises: the
handler is not told and goes on, only the memory of its worker having been cleared. A
session is in the index or not (`OpenSession` in an outage, `IndexExpires`, a MULTI that
deletes the index); `seenBy` says which resets have read it.

**AccessTokens.** The claims hold whole seconds, the clock has fractions
(`Second` ticks); `RevokeToken` computes the time to live as the code does, from the
truncated clock, at least one second. `Revoked` asks Redis, if it answers, and the
memory of the worker. Requests pass `Enter`, `Authenticate` (the awaited user), and end in
`LogOut`, `SwitchWorkspace`, `RequireAuth` or `Respond`.

**Tasks.** `MayCreate`, `MayUpdate`, `MayDelete` read the task and check the role;
`CreateTask`, `UpdateTask`, `DeleteTask` write in a later transaction and broadcast.
`Resolve` is `_resolve_workspace_id`, which sends an unknown name to the oldest
workspace. Roles change and workspaces are deleted meanwhile (`ChangeRank`,
`CloseWorkspace`).

**Passkeys.** `meta` is the JSON column, `redisMeta` and `cachedMeta` its copies in Redis
and in the memory of each worker; every handler runs on a worker and reads through the cache
(`FindInMemory`, `FindInRedis`, `Query` with `SelectUser` and `FillAndEdit`, or
`ScanUsers` for a login without an identifier), edits it (`Edited`, one operator per
handler) and writes it whole (`WriteMeta`, `Answer`). The object in the memory of the
worker is edited in place, as in the code, so an edit shows there before it is
written, and stays when the UPDATE fails (`WriteFails`). An answered change empties the
memory of its worker and Redis; the others hear of it later or never (`HearOfChange`), and
their copies, and those in the hands of handlers, are `old` from then on. `overlapped`
records that an old copy was written.

**OneTime.** Saving, GET, DEL and the fallback to memory of one entry, for the two
services that do it in the same way; `kind` says which. A challenge in memory has a
time, an OAuth state in memory none.

**PolicyDecisions, Permissions.** One decision, known by the age of its facts, about
a user whose global roles change (`ChangeRoles`), or about the made-up subject of a
simulation, which has the same key in the cache. `DecideLocally` is the local engine,
`AskOpa`/`OpaAnswers`/`OpaFails` an OPA query with other requests in between, counted by the
circuit of the worker; when it fails the local engine decides on the payload made
before. What the local engine answers is `Permissions`: `ExpandAlong` is the queue of
`_expand_roles` as a recursive function; `HasPermission` is the evaluator's way, which adds the
role of the active workspace; `Allows` the engine's way with its rules on attributes,
which is told the global roles only, and the flag for superadmin that
`is_resource_accessible` computes after normalising aliases (`Flagged`). Two things
are idealised. The manager may be given a Redis, and is in its tests, so the module
has that level; the bundled server builds it without one (`api/dependencies.py:70`), where
the module has behaviours the server lacks. And a query is given up after `Patience`,
while the `timeout` of `opa_client.py:45` bounds each of its phases: `Patience` stands for
all of them together.

**RateLimit.** INCR (`CountHit`) and, for a new key, EXPIRE (`ExpireHit`); both may
raise after being carried out (`CountRaises`, `ExpireRaises`), and the worker may die in
between (`HitterDies`). The fallback keeps a fixed window per worker. `admitted` holds the
tick of every request let through; `severed` records an INCR that its EXPIRE did not
follow, and a request that Redis counted although the memory of its worker refused it.

**Connections.** A broadcast copies the sockets of the worker (`StartSending`), awaits
one send after another (`SendTo`), drops the dead and publishes (`Publish`); listeners
receive and relay (`Receive`, `RelayTo`).

**Services.** The eight modules from `PasswordReset` to `Connections` share no state but
`Deployment`. `Services` conjoins their initial states and lets one part, `moving`,
take its actions while the others rest in one of their initial states. Interleaving
two parts would reach no state of either that is not reached so, because neither
reads what the other writes; `Services_proofs` proves that a behaviour of `Services` is
one of each part.

## 3. Runs

Each run answers one question; `PROJECT.json` lists its properties.

| run | asks | instance | states |
|---|---|---|---|
| `rotation_sequential` | with one refresh at a time over a Redis that answers, is rotation what it promises, through crashes? `TypeOK`, `OneLiveToken`, `CondemnedFamilyDead`, and `RotationSpec`: the refinement | 2 workers, 2 families of one account, 4 tokens, life 2, 5 instants | 303 k |
| `rotation_concurrent` | what still holds when two refreshes overlap? `ReplaysCaught`, which is `ExchangedStaysListed`, `NoLateExchange` and `ExchangesBoundedByHandlers`, and under fairness `CascadeReachesSession`, with logins of the same account beside the purge | 2 workers, 2 handlers, 2 families, 3 tokens | 238 k |
| `rotation_outage` | how often is a token exchanged when Redis comes and goes? `ExchangesBoundedByOutages` | 2 workers, 5 tokens, 1 outage | 1.7 M |
| `sessions` | do logout, purge and expiry do what they say? `LogoutIsFinal`, `FreshSessionsPurged`, `SessionsExpire` | 2 workers, 2 sessions of one account, 1 fault | 3.8 M |
| `lockout` | how many guesses, and when is an account locked? `CounterStopsAtLock`, `LockNeedsBurst`, `WrongGuessesBounded`. And what is left of an old password after a reset? `ResetEndsOldLogins` | 2 workers, thresholds 2 and 4, 8 guesses, 1 outage, 1 crash; 2 links, a login beside a reset, 2 sessions, 1 replaced row in caches | 3.8 M |
| `cache` | how stale can a row be? `StalenessBounded`, `SettledIsFresh` | 2 workers, 2 handlers, 2 versions, 1 outage, 1 loss | 3.9 M |
| `mfa` | how many wrong answers, for how long, and is a backup code used once? `GuessesBounded`, `CompletedInTime`, `CodeUsedOnceApart` | 2 workers, 2 handlers, 2 challenges, 1 code, 1 outage, crashes; two scenarios | 1.3 M |
| `membership` | who comes by which authority, does he keep it, and how long does an invitation stand, when account rows come from caches? `AuthorityWasGranted`, `AcceptedRoleKept`, `InvitationUses`, and `LifeSpec`: the refinement | 2 persons, 1 workspace and the team table, 2 requests at a time, 2 or 3 of administrators, 2 invitations; two scenarios | 0.5 M |
| `services` | do the eight smaller parts keep their promises? (below) | section "Bounds" | 1.6 M |
| `double_refresh` | *violation*: `OneLiveToken` when two requests present one token | 2 workers, 2 handlers | |
| `purge_forgets` | *violation*: `AllSessionsPurged` for a session kept alive by use | 1 worker, 2 sessions | |
| `tenants` | *violation*: `TenantsIsolated` when an invitation as administrator is accepted | 2 workspaces | |

What `services` shows, by part (and `lockout` of resets beside logins):

* `ResetEndsOldLogins` (`lockout`): once a reset has revoked the devices, no session, no
  device and no password row of an earlier password is left, whatever other resets crash or
  overlap. Four exceptions are the code's: a login that had passed the password check
  before the purge read the index; one that is served a row which was in a cache at that
  moment; sessions that were not in the index, or that Redis failed to read or delete; and
  a rehash that writes the old password back.
* `LinkSafety`: a link sets the password once; no more links are open than requests
  for a link run at once.
* `ChangedByInsider`, `ToldWherePlaced`: a task is changed by somebody who had the
  rank in a workspace the task had been in, and told to connections of such a
  workspace, or of one that is no more.
* `AnsweredEditsKept`, `AlarmsExplained`: what was removed stays removed and counters
  do not fall, unless a write failed or a handler wrote metadata that another's answered
  change had left behind: in its own hands, because the two overlapped, or in the memory
  of a worker that had not heard of the change. The alarm of a cloned
  authenticator has a cause, but for authenticators that do not count.
* `OneTimeUse`: a challenge or state lets at most one request of each worker through,
  one more from memory, and none after its time except an OAuth state in memory.
* `PolicyKept`: a decision served is younger than one query and one time to live
  (`ServedInTime`); the circuit is open exactly after `Failures` failures in a row
  (`CircuitByFailures`).
* `EngineFollowsEvaluator`: what the local engine decided for the user and any
  worker now serves is what the evaluator said of the same global roles less than a query
  and a time to live ago. That is where the two readings of the hierarchy meet the caches; what
  the readings have in common, and what not, is `GrantsAgree` (section 5).
* `RateKept`: at most two windows less one request pass in any window's time, per
  place that counts, and one limit more per memory that was lost; a request is refused
  early only when `severed`.
* `HeardOnce`: no socket hears an event twice, and every socket open when it arose and
  still open heard it, unless Redis or a listener was away.
* `RevokedStaysOut`: a token logged out in Redis is refused to its last instant.

**Bounds, and why they are enough.** Two workers and two handlers give every pairwise race
within and across workers. A race of three needs three handlers in the same window; the
properties bound counts by the number of workers, and the races that break the stated
promises need two. Times to live are 1 to 3 ticks: what matters is the order of expiries,
and each run has enough instants for the shortest life to end, for the key to be set again,
and for the longest life it depends on to end (`LoginLockout` keeps Window < Short < Long as
in 300 < 900 < 3600 s). Counters have bounds at or above one more than the property allows,
so a violation is within reach: 5 tokens against 3 exchanges, 8 guesses against a bound of
7, 6 wrong answers against 5, 4 hits against 3, 3 queries against a circuit of 2. One outage
is enough to put state in both places and to return; one fault of a worker or of Redis is
taken per behaviour in `sessions`. In `membership` one workspace and the team table are both
scopes the code distinguishes; a second workspace matters for isolation and is in `tenants`.
Three requests of administrators suffice to invite, re-invite (or remove, or change the
role) while an acceptance is under way; two invitations are those two, and two different
roles accepted one after the other through a stale cache are what loses one. The run has two
scenarios, by a state constraint: two requests of administrators that give the roles of an
administrator or a viewer, or three that give nobody any but the first. One of the two
persons has an account at first, the other gets one in every way there is. One display name
is somebody's address. `lockout` is two modules of one account's password that write nothing
the other reads, each followed with the other at rest (`MCLoginLockout`). Its resets come
one after another beside one login, which is what the exceptions of the property and its
mutants need, with two sessions at once until the second link; resets beside each other run
in `services`, without logins, and all together only in the proof. In `services` the
constants are: clock 3, one outage, 2 links, 2 resets at a time, 1 task in 2 workspaces with
1 change of role, 1 passkey with 3 signatures and 3 edits by 2 handlers on 2 workers, one
entry of life 1, decisions of life 2 with 3 queries about a viewer or a `"super-admin"`, or
2 about a user who is one after the other, a rate of 2 in 2 ticks with 4 hits and 1 death of
a worker, 2 sockets with one event of each kind and 1 lost subscription, 2 access tokens of
2 seconds of 2 ticks. A resting part has one of its initial states only, so that the others
are not counted for each of them. `mfa` explores two scenarios by a state constraint: one
challenge over time, wrong answers and an outage; or two challenges and a backup code in the
first instant, with no wrong answer, and with an outage as long as it has not made an
invalidation fail. A state outside both is checked, but not continued. Deadlock is not
checked: once the bounds are reached, or every challenge and family is used up, a behaviour
really has nothing left to do.

**Exceptions inside the properties** are exact records of where the promise stops, not
conveniences: `troubled` in `SessionStore` (a Redis call about the session raised) and
`dropped` (a purge or a half-done logout took it off the index without deleting it),
`dropped` in `TokenFamily` (the same, and an index past its life), `troubled` in `UserCache`
(a stored row was replaced meanwhile, a change was committed and never announced, a
subscription was lost), `overlap` in `MfaLogin`, `Healthy` in `LoginLockout`, `aliased` and
`clashed` in `Membership`, `late`, `missed` and `revived` in `PasswordReset`, `overlapped`
and `counterless` in `Passkeys`, `severed` in `RateLimit`, `lost` in `Connections`. Each was
added after TLC showed the behaviour without it; section 6 tells these behaviours.

## 4. Fairness

Only `FairSpec` of `TokenFamily` assumes any: weak fairness of `Handler(r)` for every slot.
Once a request is being handled the event loop runs it to its end: the synchronous sections
cannot be pre-empted for ever, and the awaited database call returns or raises. Nothing is
assumed about clients (`Login`, `Present`), the clock, crashes or Redis;
`rotation_concurrent` has no crash and no outage, as either may end the cascade for good: a
crash between `Condemn` and `DeleteSessions`, or an outage, in which
`delete_all_user_sessions` swallows the error and nothing retries. Fairness does not bring
back what is off the index either, so `CascadeReachesSession` excepts the sessions in
`dropped`. The other modules make no promise of progress: nothing in the code retries, so
what a crash or an outage interrupts stays interrupted, and every handler that is not
interrupted simply ends.

## 5. Proofs

43 theorems are checked by TLAPS, for every value of the constants that satisfies the
modules' named assumptions. Most of these are types, bounds that are naturals, lifetimes
that are positive and subset relations between constants. The others: sets that are counted
are finite (`FiniteWorkers` in `TokenFamily`, `LoginLockout`, `MfaLogin` and `Deployment`;
`FiniteRequests` in `TokenFamily`; the slots of `UserCache`, `Membership` and of the
requests for a link in `PasswordReset`); the lockout has 1 < `Threshold` < `LongThreshold`
and `Window` < `Short` < `Long`; in `Passkeys` an authenticator can sign at least once and
no passkey is called `"mfa"`, the name the model gives to the entry of the second factor.

Every invariant a passing run checks is a theorem. Hardly one is inductive as it stands.
What follows says for each module what had to be added, that is, why the code keeps its
promise.

**`TokenFamily_proofs`**, for every number of workers, handler slots, accounts, families
and tokens:

* `TypeCorrect`: `Spec => []TypeOK`, outages and crashes included.
* `ReplaysAreCaught`: if Redis is configured, then until it first fails (`Calm`)
  `ReplaysCaught` holds, for any number of concurrent handlers and any crashes. `ReplayInv`
  adds that every key of the token list outlives its token (`ListsCover`), that a handler
  which has consumed a token has listed it, that between decoding and the lookup no time
  passes, so that the token presented is still unexpired, and that a handler that
  came late never gets past the lookup (`HandlerCovered`). `HoldersLeft` counts: the
  exchanges of a token and the handlers that have checked it and not exchanged it yet are
  together no more than there are handlers, because once it is listed nobody joins them.
* `RotationIsSafe`, `CondemnedStaysDead`: with Redis configured and at most one slot
  (`Sequential`), `[](Calm => OneLiveToken /\ CondemnedFamilyDead)`. `SequentialInv` adds that
  at most one token per family is unlisted (`UnlistedUnique`), that the key of a condemned
  family outlives every token of the family (`CondemnedCovered`, because a key set now
  lives as long as a token signed now), and that while a handler holds an accepted
  token no other token of its family is unlisted, and none once it has consumed
  it (`HandlerAlone`). That is what makes `Mint` safe.
* `RotationUntilOutage`: under the same conditions every step that ends in a state without an
  outage so far is a step of `TokenRotation` or a stutter. `RotationImplemented`: so, where
  Redis never fails (`Healthy`), `Spec => RotationSpec`. The
  refinement mapping takes as the token of a family the one a handler holds, else
  the one some worker would accept, else none (`Leaf`). `Login` is `Found`, `Mint`
  is `Rotate`, expiry, condemnation, a refused user and a crash after consumption
  are `Lose`, everything else stutters.
* `OutagesAreBounded`: with one slot and no crash, for any outages,
  `[]ExchangesBoundedByOutages`. `OutageInv` is a budget: the exchanges of a token are
  covered by the memories that list it, the key in Redis, and the outages that
  ended or began while a handler held the token between its check and its write
  (`Budget`).

`Sequential` is needed: `double_refresh` is the counterexample without it. `Calm` is
needed as well: a list kept in the memory of one worker does not stop the
others, and `OutagesAreBounded` says what is left. It in turn needs memories that are
not emptied.

**`SessionStore_proofs`**, for every number of workers, sessions and users, with faults
and crashes:

* `SessionTypes`: `[]TypeOK`, by `TypeInv`.
* `LogoutFinal`: `[]LogoutIsFinal`. A hash that names its user is created by the first
  call of `create_session` only, and a session being created has not been returned and
  is created by one worker (`CreatesApart`); every other operation is about returned
  sessions (`JobsKnown`). So a concurrent `update_session_data` may re-create the key
  of a deleted session, but without its user (`LoggedOut`).
* `SessionsExpireAlways`: `[]SessionsExpire`. From the second call on the session has a
  time to live (`CreatedExpires`), and no step takes one away.
* `PurgeEndsFresh`: `[]FreshSessionsPurged`. `IndexedInv` says that a session
  created within one life stands in an index that lives as long (`RecentIndexed`), that
  one being created is in the index after the third call, unless a purge has deleted
  it (`CreatedIndexed`), and that a purge under way has found every session it will
  answer for (`PurgeFinds`).

**`LoginLockout_proofs`**, for every number of workers, thresholds, outages and deaths:

* `LockoutTypes`: `[]TypeOK`; no counter passes the number of wrong passwords.
* `CounterStops`, `LocksNeedBursts`: while nothing failed, `QuietInv`. The counter's window
  starts at a tick that its expiry tells (`Born`), and all it counts was tried since
  (`CountIsBurst`). Each count past the threshold is ascribed to a worker of its own, one
  that is about to lock or whose next look at the lock will stop it (`OvershootDone`);
  for that the lock has to outlive the counter (`LockCovers`, `LockIsFresh`), which is
  why Window < Short is assumed, as in the code.
* `GuessesPerWindow`: `[]WrongGuessesBounded`. For every tick of the present
  window `GuessInv` bounds the wrong passwords since then by a sum (`Tried`): those of an
  earlier counter, those of the present one, those each memory has counted and the one
  that locked there, and a threshold for each death.

**`UserCache_proofs`**, for every number of workers, requests and versions:

* `CacheTypes`: `[]TypeOK`. That an inbox holds no more events than there are changes needs
  `EventsCounted`, which counts the announcements still to come as well.
* `StalenessIsBounded`: `[]StalenessBounded`, whatever is lost. A handler lives at most one
  tick (`HandlerAge`), so Redis stores a replaced row no later than that, and a memory
  copies it at the latest as it leaves Redis: `Ages` bounds both expiries by the tick of the
  replacement.
* `SettledCacheIsFresh`: `[]SettledIsFresh`. While nothing went wrong, a replaced row is in
  Redis only between the commit of the change and the invalidation, and in a memory only while
  the change is announced or its event is in the inbox (`Announced`).

**`MfaLogin_proofs`**, for every number of workers, handlers, codes and challenges:

* `ChallengeTypes`: `[]TypeOK`. The count of a stored challenge stays below the limit in Redis,
  in memories and in handlers.
* `ChallengesEnd`: `[]CompletedInTime`. `TimesInv` follows a handler: it lives at most one
  tick, and what it judged was within its life when it was fetched.
* `CodesUsedOnce`: `[]CodeUsedOnceApart`. `SingleInv` says where a consumed code can
  still be: nowhere, except in a cached row that is about to be dropped (`Gone`), and that
  the code a handler has accepted disappears from row, Redis and memories step by step
  (`Disappears`).
* `GuessesAreBounded`: `[]GuessesBounded`. A handler writes one more than the count it read,
  whatever was written meanwhile, so a wrong answer may take the stored count back. `CountInv`
  therefore looks at each level a count can have, and at the workers that are ahead of it
  (`Ahead`): the stored count has passed the level and none of their handlers is about to
  write a count read there or below. Each level has a share of the bound that grows with the
  number of workers ahead of it (`Share`), and the wrong answers are at most the sum of the
  shares (`Total`). A write that takes the count back gives up the shares of the levels
  above and gains its own worker at the level it had read, and by Pascal's rule that share
  pays for all it gives up and for the answer (`TotalPays`). It
  needs that a worker runs one handler between two awaits (`OneEach`), that nobody
  answers a challenge that was not sent (`Sent`), and that before the first outage no
  memory holds a count (`Steady`). The full sum is the binomial coefficient less one. Sums and
  factorials are recursive functions; the lemmas `ByInduction` and `Recursion` supply
  induction over `Nat` for a set in place of an operator, by its least element, and the
  existence of these functions.

**`Membership_proofs`**, for every number of persons, workspaces, requests and invitations:

* `MembershipTyped`: `[]TypeOK`.
* `AuthorityGranted`: `[]AuthorityWasGranted`. A role can travel from an
  invitation into a request, from there into the roles of the account, and from a
  row into `has_role`; `AuthorityInv` says of each carrier that
  what it carries was granted to that person: `RowsGranted` (rows of persons not
  `aliased`), `AccountsGranted` (global roles, stored and cached), `RequestsGranted` (the
  invitation's role and the roles read before, in an acceptance under way). Grants only grow
  (`GrantsGrow`), so what one request carries stays granted while others run.
* `AcceptedRolesKept`: `[]AcceptedRoleKept`. `AcceptedInv` says that an acceptance which has
  read an account and is not `behind` holds the roles that are stored now, because every
  write puts all others that have read that account `behind` (`WriteRoles`). So a write
  that is not a clash only adds, and what was accepted stays, whatever the caches serve.
* `InvitationUsesBounded`: `[]InvitationUses`. `UsesInv` says that a token stands in one row at
  most, the one its readers remember, that nobody has logged in with it while it
  stands there, and that once it is gone only a request that has read it still can, which
  the workspaces refuse and the team table does not.
* `LifeImplemented`: `Spec => LifeSpec`. Most actions replace one row (`OneRow`), take rows
  of one scope away (`Removed`), or leave status and token of all rows
  (`Relabelled`), and each kind is a step of `MembershipLife` or a stutter whatever
  request makes it. Only the types are needed as an invariant.

**`PasswordReset_proofs`**, for every number of links, logins, requests and resets:

* `LinksAreSafe`: `[]LinkSafety`. That a link sets the password once rests on
  `OpenUnused`: an open link has not set it yet, and the UPDATE is conditional. That at most
  `Cardinality(ForgotSlot)` links are open has no inductive count; `OneLinkEach` ascribes
  every open link to the slot that issued it, injectively, and says that a slot
  which is about to issue again will close its own.
* `OldLoginsEnd`: `[]ResetEndsOldLogins`. `EndInv` says what each reset has achieved at each
  of its steps (`EndsOnTheWay`): after the UPDATE no password it ends is stored; once the
  index has been read, no login is under way with one and no cache has its row, unless it
  is in `late`, and its sessions are those the reset has read, unless it is in `late` or
  `missed`; after the MULTI there are none; after the revocation no device either
  (`EndsDone`). A password that a link has still to set was never in use (`OnlyHad`), so a
  later reset disturbs no earlier one. Most steps carry a session from the state before,
  perhaps off the index or unread (`Carried`), which none of this tells apart.

**`Services_proofs`**. Each part is proved by itself, then put into the whole: whatever the
other parts do to the clock and to Redis is one of the actions of `Deployment`, which every
part allows, so a behaviour of `Services` is one of each part (`ResetPart`, `TasksPart`,
`OneTimePart`, `ConnectionsPart`, `AccessPart`, `PasskeysPart`; for the policy engine and
the rate limiter, which let no time pass while they wait, `PolicyHere` and `RateHere` add
that nothing waits when another part moves).

* `LogoutLasts`: `AccessSpec => []RevokedStaysOut`. The key of a token logged out in Redis
  lives at least to the token's expiry (`BlockedToTheEnd`), because the expiry is a whole
  second and the clock is rounded down before the difference is taken (`SecondsReach`). A
  later logout of the same token, in an outage or not, does not shorten it.
* `ServerKeeps`: `Spec => [](LinkSafety /\ ResetEndsOldLogins /\ RevokedStaysOut)`, each with
  the exceptions it states.
* `TasksAreGuarded`, `NewsStaysInside`: `[]ChangedByInsider`, `[]ToldWherePlaced`. Ranks and
  places of the past only accumulate (`RanksRecorded`, `TasksPlacedThere`); a request under
  way knows a workspace the task was in, and its caller had the rank it needs there or in
  his account (`RequestsEntitled`), which no later move or demotion takes back.
* `EntriesUsedOnce`: `[]OneTimeUse`. `OneTimeInv` says where an entry can be (`EntryPlaced`),
  until when (`EntryTimed`), and that the requests let through and those that still can be
  are together no more than allowed (`Allowed`).
* `EventsHeardOnce`: `[]HeardOnce`. A socket belongs to one worker (`OneHome`), a stage of an
  event's broadcast is reached once (`Staged`), who has heard it had been passed by a stage
  (`HeardOnly`), and who is due to hear it has heard it or is still to be reached (`DueHear`).
* `EditsKept`, `AlarmsHaveCauses`: `[]AnsweredEditsKept`, `[]AlarmsExplained`. `NumbersInv`
  says where the counters of a key can be, in the row, in Redis, in the memory of any worker
  and in the hands of a handler: a signature that is accepted lies above
  everything stored, unless an older one was accepted after it. `AnswersInv` says that as long
  as no old copy was written, every copy that is not `old` (`LiveCopies`) agrees with what was
  answered; an edit in the memory of a worker is that of a handler about to write it
  (`EditsShow`).
* `DecisionsKept`: `[]PolicyKept`. Every decision stored or on its way expires by its age
  (`DecisionsLast`); the circuit's counter is the length of the run of failures, answers
  that came late included (`QueriesCounted`).
* `LocalDecisionsFollow`: `[]EngineFollowsEvaluator`. `Follows` says that every decision of the
  local engine that is stored, and every one that a query under way may still lead to, was
  the evaluator's verdict at the tick of its facts (`Claims`); the tick is recent
  because decisions last no longer (`DecisionsLast`), and the verdicts were equal then
  because of the next theorem.
* `QueueFindsLeast`, `GrantsAlways`: in every hierarchy of finitely many names, cyclic or
  not, `ExpandAlong` is the least set that contains the roles and is closed under the
  hierarchy. Its definition is a recursive function on sets of names that ends because each
  round adds a name or is the last. From that comes `GrantsAgree`: the closure in the
  hierarchies of three roles, the expansion of the built-in hierarchy, the agreement of
  evaluator and engine when both are told the same global roles and the resource has no tie
  to the subject, that a workspace role, of which the evaluator alone is told, only adds to
  that, and that a further role takes nothing away.
* `RateIsLimited`: `[]RateKept`. `RateInv` bounds what was let through since any
  tick of the present window by a sum over the places that count: Redis, each memory, and a
  limit for each memory lost (`Admits`); the window of a counter begins at a tick that
  its expiry tells (`Opened`), and what Redis has counted was let through, unless `severed`
  (`CountedLetThrough`). The proof attempt found that this needs the second case of
  `severed`: after two outages Redis may have counted a request that the memory of its
  worker refused, and refuse the next one early.
* `ServicesTyped`: `Spec => []TypeOK`, the types of all eight parts.

**Only model-checked.** `CascadeReachesSession`: liveness under fairness, which is out of the
prover's reach. What the three runs that expect a violation show is a counterexample, not
a theorem. A theorem with a condition says nothing beyond it: of rotation after an
outage only `OutagesAreBounded` is proved, and that without crashes.

## 6. Where the code and its documents differ

Three disagreements have a run that shows them (`PROJECT.json`, "findings"):
concurrent refreshes of one token leave two live tokens (`double_refresh`); a purge
misses sessions whose index expired (`purge_forgets`); the role of a workspace
invitation is written into the account, where `has_role` reads it for every workspace
(`tenants`). The models have the following ones too. They were met
while a property was being found, and what remains true is what the runs check.

Tokens and sessions:

* `token_service.py:333, 341`. A family revoked during an outage is revoked in the
  memory of one worker, and `is_family_revoked` does not read that memory once Redis
  answers: even the worker that revoked the family accepts it again. `CondemnedFamilyDead`
  is stated while Redis answers.
* Access tokens carry no family: those of a condemned family live to their expiry. The
  token minted by a workspace switch survives a logout with the token it replaced.
  Refresh tokens survive a logout and a password reset.
* `session_store.py:262`. A replay or a reset during an outage does not end sessions
  kept in Redis: the error is swallowed and nothing is retried. The reset goes on
  (`auth_router.py:574-576`) and answers that it is done.
* `session_store.py:248, 259`. A purge reads the index and later deletes it as it is then:
  a session created in between is valid and no later purge finds it, neither the cascade
  of a replay nor a reset. Nor does any find a session whose index has aged out.
* `session_store.py:144, 150`. A worker that dies between HSET and EXPIRE of
  `create_session` leaves a key without a time to live, of a session nobody was given. A call
  that raises after earlier ones succeeded leaves the session in Redis and in memory, and
  ending one does not end the other; the properties of the store except it (`troubled`).
* `session_store.py:231`. A worker that dies between SREM and DELETE of a logout
  leaves a valid session no purge finds.
* `session_store.py:233`. A logout during an outage removes only the copy in memory;
  without one, a copy in memory stays.

Login and reset:

* `authenticator.py:145`. A worker that dies between INCR and EXPIRE leaves a counter
  that never expires, so failures far apart lock the account. The window is fixed,
  not the "sliding window" of line 138: `2 * Threshold - 3` failures within a window
  need not lock. The counter expires while the account is locked, so the longer
  lock (line 157) is reached only by many workers at once.
* `authenticator.py:186`. `unlock_account` clears the lock in Redis and in the memory of
  the worker it runs in; the worker that set the lock keeps its own copy.
* `authenticator.py:519, 575`. Two handlers that overlap log in with one backup code
  (`mfa_provider.py:131` speaks of "single-use semantics"); another worker accepts a
  consumed code while it has not handled the invalidation, which after an outage may be
  as long as its entry lives; of two codes consumed at the
  same time the later write of the whole list brings the other back.
* `authenticator.py:202`. A challenge copied to the memory of one worker during an
  outage survives its deletion by another, so with two workers and an outage the wrong
  answers are bounded only by the life of the challenge; `GuessesBounded`
  is therefore stated for behaviours without an outage.
* `user_repository.py:399`. A row selected before a change and stored after its
  invalidation is served for a whole life (`README.md:46` says "Instant cluster-wide
  cache invalidation").
* `authenticator.py:238`. A login checks the password of a row from the cache, so a worker
  that has not handled the invalidation accepts the old password after a reset. A login
  that rehashes it then (or passed the check before the reset) writes the old
  password back over that of the reset. A login that had passed the check before the
  purge opens its session after it, and may trust its device after the devices were
  revoked.
* A counter of an authenticator that does not count is raised by one at every login, so
  once such an authenticator has been used, its next signature is taken for a clone.
* A failed UPDATE of the metadata leaves its edit in the entry in memory.
* Two handlers that overlap write the metadata over each other; and a handler on a worker that
  has not heard of an answered change reads the old metadata from its memory and writes it
  back: a removed passkey or a disabled second factor returns, a signature counter falls,
  without any two handlers overlapping.
* An OAuth state in memory never expires, and the callback does not compare the
  provider in its path with that of the state.

Workspaces and tasks:

* `workspace_repository.py:763`. A member is looked up by address or display name: a display
  name that is somebody's address gives him the role of that row, and a role change or
  removal meant for one may reach another. The refusal to remove oneself compares
  identifiers and addresses only.
* Re-inviting an active member turns the membership back into an invitation.
* The handler of a team invitation logs in whatever its UPDATE answers: every request
  that had read the invitation ends with tokens.
* `workspace_router.py:448`, `team_router.py:166`. An acceptance takes the roles of the
  account from a cached row and writes the list whole, so an accepted role is lost to
  another acceptance that overlaps, or that comes later on a worker which has not handled
  the invalidation. The role is appended to the list in the cache itself, where
  `has_role` sees it before it is written, and although it may never be.
* `workspace_router.py:352` and the other administrators' handlers: the role is checked in one
  transaction and used in a later one. Who loses it in between still gets what he asked
  for; so does a request on a task that is moved between its check and its write
  (`task_router.py:278`), and the event goes to the workspace read before (`:328`).
* `update_task` moves a task into any workspace the request names, unchecked.
  Without a workspace `get_tasks` lists tasks of workspaces one is only invited to, and
  the WebSocket endpoint admits pending invitees, as it does not look at the status.
* The creation of a task is told to the workspace that was named, even if it is none and
  the task went elsewhere. The open WebSocket of a removed member goes on receiving.

Decisions and limits:

* `permission_evaluator.py:159-163, 275`. `has_permission` adds the role in the active
  workspace to the global ones, `is_resource_accessible` sends the global ones only: the
  editor of a workspace is granted `tasks:create` by the one and denied it by the other.
  `GrantsAgree` says that they agree on the same global roles, and that the workspace role
  only adds.
* `policy_router.py:121`. The simulation compares roles as they are spelled, so a
  `"super-admin"` is simulated without the flag that a real request of his has. Its decision is
  cached under the key of the real request, which is then served it: the model has the made-up
  subject for that.
* `dependencies.py:70`. The evaluator is built without a Redis client, so the bundled server
  caches decisions in the memory of each worker only.
* `opa_client.py:45`. The timeout bounds each phase of a query; several together last longer,
  and a decision is then that much older.
* `reload_policies` reaches one worker; a change of roles invalidates no cached decision;
  the key of a cached decision ignores the attributes of the resource. The OPA circuit
  has no half-open state: it closes only by a reload, or by an answer to a query made
  before it opened.
* The rules on attributes of `rules.json` are loaded and not used: `evaluate_abac`
  grants an owner or a cleared person every action (there: reading documents) and a
  task's creator every task action (there: deletion). `has_role` of the engine is true
  of two unknown roles (0 >= 0), and a custom hierarchy under an alias of superadmin
  is never consulted.
* The rate limiter has fixed windows, not the "sliding-window" its documentation names:
  up to `2 * max - 1` requests pass in one window's time. A death between INCR and EXPIRE
  (`dependencies.py:227`) leaves a counter that never expires, and blocks the key for good
  once it is full. An INCR or EXPIRE that was carried out and raised
  is counted again in the memory of its worker; when that memory refuses the
  request, Redis has counted one that was not let through, and refuses early.

## 7. Plan

Done: the modules above and the theorems of section 5. What is left, most important first:

1. `OutagesAreBounded` with crashes, which empty a memory: one more exchange for each is
   expected, and the model would have to count them.
2. `Logout` as a composition of `TokenFamily`, `AccessTokens` and `SessionStore`, should the
   code come to relate their states (it does not: the halves share no state).

## 8. Not modelled, and why

* E-mail, audit log, metrics: append-only output that no decision reads.
* Password hashing, JWT signatures, TOTP arithmetic, WebAuthn cryptography, the exchange
  with an OAuth provider: pure computations or somebody else's; the models take
  their verdict as an input.
* Search, listing, statistics and the pages of devices, sessions and audit records: they
  change nothing. The stored notifications are a list that is read and marked.
* `add_role` and `remove_role` of `user_repository.py`: no handler calls them.
* HTTP wiring, schemas, settings, error formats, health probes, migrations, command
  line, package facade, example application: configuration, re-exports or one-shot
  scripts.
* PostgreSQL, Redis, the event loop and the clock are environment: modelled as far
  as `src/` relies on them (a statement with its commit is atomic; a Redis command,
  and a MULTI block, is atomic; a key disappears at its time; pub/sub delivers at
  most once to whoever is connected).
* In `Membership` and `PasswordReset` a replaced row is in the caches until it is forgotten,
  however long that takes (`UserCache` says how long), and which worker has it is left
  out. The sessions that `remove_team_member` ends are in `SessionStore`.
