# Vib ID account portal: specifications, model checking and proofs

This directory holds TLA+ specifications of the Vib ID account portal
(`src/app`), the TLC configurations that check them on small instances, and
TLAPS proofs of the results that matter most for every value of the constants.

- `*.tla` without prefix: one module per component, translated from the source.
- `MC*.tla` and `*.cfg`: the instances that TLC checks.
- `*Proofs.tla`: theorems and their proofs.
- `PROJECT.json`: the components, the runs, the mutants that show each property
  can fail, the map from every definition to the lines it models, the findings,
  the hazards and the theorems.

Parse with `tlasany M.tla`, check with `tlc -workers 2 -config X.cfg MCxxx`, prove
with `tlapm M.tla`.

## 1. The system

The portal is a FastAPI application in front of PostgreSQL and Keycloak. It keeps
its own server-side sessions, lets a user see and end them, edits profile data
and account security at Keycloak, and records which VibTools services a user has
signed in to. Any number of portal instances share one database; nothing but
caches lives in a process.

Every request runs in one database transaction: `get_db`
(`app/dependencies.py:26`) yields a session, and commits it after the route has
returned and its answer has left, or rolls it back on any exception (an
`HTTPException` included). The operator's commands (`app/cli/main.py`) do the same
around their callback. PostgreSQL runs at its default, READ COMMITTED. Between two
statements of a request, any statement of any other request may run.

| component | state | operations | interacts with |
|---|---|---|---|
| Portal sessions (`auth/sessions.py`, `auth/routes.py`, `sessions/routes.py`) | `portal_sessions` rows; cookies in browsers | create with a concurrent limit, resolve with touch and expiry, revoke one, all others, all, by logout token; retention delete | rate limiter's lock, OIDC login, Keycloak logout, audit |
| Rate limiter (`middleware/rate_limit.py`, `database/locks.py`) | `rate_limit_buckets` rows, advisory transaction locks | enforce, cleanup | every mutating route, in the route's own transaction |
| OIDC login, logout tokens (`auth/oidc.py`, `auth/backchannel_logout.py`) | `oidc_transactions`, `logout_token_replays` | begin, complete, accept a logout token once; retention delete | Keycloak's token endpoint, sessions |
| Token validation (`auth/token_validation.py`) | cached provider metadata and signing keys: per process | metadata, validate a token, refresh the keys | Keycloak's discovery and JWKS endpoints |
| Service registry (`services_registry/*`) | `service_registry`, `user_service_connections` | register, deactivate, list, touch a connection (creating default services on demand) | service backends, operator |
| Keycloak client (`auth/keycloak_management.py`) | cached management token, failure count, circuit deadline: per process | account status, session logout, account updates, with a circuit breaker | Keycloak's admin API |
| Accounts (`accounts/*`) | `user_profiles`, `user_contacts`, `user_social_links`, `user_profile_photos` | first login's records, update the profile, upload and remove the photo, add and remove contacts and links | database constraints, the limiter's locks |
| Preferences (`preferences/*`) | `user_preferences` | save the page, change the theme, export | accounts, Keycloak client |
| Account security (`account_security/*`, sign-out everywhere) | none of its own | e-mail, password, TOTP, consent and session operations | Keycloak client, sessions, audit |
| Account experience (`account_experience/*`) | none of its own | dashboard summaries | all the above, read-only |
| Activity and audit (`activity/*`, `security/audit.py`) | `security_activity` rows | append, list | every route |
| CSRF, encryption, identifiers (`security/*`) | keys in settings | sign, verify, encrypt, hash | every route |
| Middleware (`body_limit`, `request_id`, `security_headers`) | none | wrap one request | every request |
| Start-up, health, web pages | none | wiring, probes, templates | |

The hard behaviours are those of transactions that overlap: a value is read, and
used after another transaction has changed it; an `UPDATE` waits for a row and
finds a later version; a lock is taken too late or released too early; a request
fails after it has changed something outside the database; retention deletes what
a request has just read. A component is correct when

- sessions: what was closed stays closed, nobody is admitted on a closed or
  uncommitted session, the limit holds, the idle deadline follows the recorded
  use, every request ends;
- rate limiter: each window counts the committed requests exactly, never above
  the limit, and first writes do not collide;
- OIDC and logout tokens: a transaction completes at most one login, a logout
  token is honoured at most once while it is valid;
- token validation: the cached keys never go back, a good token is not rejected for a
  stale cache, a withdrawn key is accepted for a bounded time only;
- service registry: one row per service and per connection, connection times never
  go backwards;
- Keycloak client: the circuit opens after the configured number of failures and
  closes again, one token request at a time, every operation ends;
- accounts and preferences: no acknowledged edit of the profile is lost, contacts stay
  within their limit with at most one primary per type, profile and photo name the same
  image;
- account security: an audit row that reports success is about something that has
  happened, a verification mail goes to the address that was asked for, who reads a
  disabled account does not enable it, signing out at Keycloak reaches the portal's
  sessions.

## 2. Modules and how they correspond to the code

### PortalSessions

The core: `SessionService` and every request that uses it. A request is a slot
`r` with a program counter `pc[r]` whose stages are the statements of its route;
`at[r]` is its last `datetime.now()`, `auth[r]` the ORM row that `resolve` loaded,
`dirty[r]` its uncommitted row versions (a row with one is locked), `todo[r]` the
rows its current `UPDATE` or flush has still to write, `lock[r]` its advisory lock.

| model | code |
|---|---|
| `rows` | committed `portal_sessions`; identifier, cookie value and hash are one |
| `Browse`, `BrowseRevoke`, `BrowseCallback`, `NotifyLogout`, `StartCleanup` | the arrival of a request with a cookie, of a logout token, or of the retention command |
| `Resolve`, `Expire`, `Touch` | `SessionService.resolve`: SELECT, expiry mark, use after 60 seconds; the ORM writes only the columns whose value differs from the one loaded |
| `AcquireLock` | `rate_limiter.enforce` as far as sessions are concerned: an advisory lock per route and address (callback) or subject |
| `ExchangeCode`, `RejectCallback` | `complete_login` with Keycloak's answer, and the callback's handled failures, which commit |
| `SelectOne`, `FlushRow` | `revoke`, and the flush of `_enforce_concurrent_limit` |
| `InsertSession`, `EnforceLimit` | `create` |
| `StartBulk`, `SweepRow`, `FinishBulk` | the `UPDATE`/`DELETE` over many rows: snapshot, wait for each row, look again at its latest version |
| `Respond`, `Commit`, `Refuse`, `LoseRow`, `Fail`, `AbortVictim` | the end of `get_db`: the answer precedes the commit; every failure rolls back; PostgreSQL breaks deadlocks |

Abstracted: tokens, user agents, device labels, audit rows, revocation reasons (no
property tells them apart). `ended` and `loggedOut` hold the SSO sessions that a logout
token with a `sid` has reported; after one that names the subject alone the user may log
in again, with whatever `sid` Keycloak gives out. The rate limiter's count is RateLimit's business; here
only its lock matters, and its refusal is one of the failures. Random identifiers
are never drawn twice.

### RateLimit and FixedWindow

`RateLimit` is `DatabaseRateLimiter` inside the transactions that call it:
`Arrive` reads the clock (before the lock, as the code does), `AcquireLock` waits
for the advisory lock, `ReadBucket` is `SELECT ... FOR UPDATE` with the three-way
decision, `Flush` the write, `Commit`, `Refuse` and `Fail` the ends of the
transaction. `StartCleanup`, `EraseRow`, `CommitCleanup`, `FailCleanup` are the
retention command's `DELETE`. `admitted` is a history variable.

`FixedWindow` is the abstract limiter: per key a window that opens, serves at most
`Limit` requests one by one, and may be forgotten when it is over. `RateLimit`
implements it (`FixedWindows`), with the committed row as the window.

### LoginTransactions

`oidc_transactions` and the two routes that use it. `BeginLogin` draws a state and
`Answer` hands it to the browser before `Commit` stores it, as `get_db` orders it.
`Callback` arrives with any state and code a browser may hold; `SelectTransaction`
is the `SELECT ... FOR UPDATE` of `complete_login` with its two conditions (unused,
not expired) and the assignment of `consumed_at`; `Exchange` and `ExchangeRejected`
are Keycloak's answer; `Fail` is every exception `auth_callback` does not handle, and
rolls the consumption back although Keycloak may have redeemed the code. `SignIn`,
`codes` and `spent` are Keycloak's side: a code is bound to a state by its PKCE
challenge and redeemed once. The retention command deletes row by row. `MaxTries`
bounds the exchanges of one state.

Because the consumption and the exchange share a transaction, a callback that fails
after its exchange leaves the state open to a second one. docs/ARCHITECTURE.md:27
("consumes the transaction once") holds for committed callbacks, which is what
`ConsumedOnce` states: one committed consumption, and one login at most.

### LogoutTokens

`process_logout_token`. A delivery looks the identifier up without a lock
(`LookUp`), revokes the sessions (`Revoke`, which waits for the rows), answers, and
inserts the replay row in the flush of the commit (`Insert`, `LoseRace`), because the
session factory has `autoflush=False`. Tokens name a subject, and `OpenSession`
stands for the logins of PortalSessions. `since` remembers which tokens had been
honoured when a session was opened, `ender` which token ended it, `forgotten` the
rows that retention has deleted. `Fresh` is the expiry check of the validator with
its leeway; `Over` the condition of the `DELETE`, which has none. `MaxTries` bounds
the committed deliveries of a token.

### ServiceRegistry

`touch_connection`, `upsert_service` and the operator's `register` and `deactivate`.
A touch takes the limiter's lock on the client, the advisory lock on the
connection, looks for an active service (`FindActive`), creates a default one when
there is none (`Upsert`, `FlushService`), and compares and writes the connection
(`Connect`, `FlushConnection`). `edit[r]` holds the columns the ORM has found changed
against the row it has loaded; `Undisputed` and `Duplicate` are the waiting and the
failure at the two unique keys (service key, domain); `Collide` is the
`IntegrityError`. `latest` is a history variable. The limiter is taken to be on
(`RATE_LIMIT_ENABLED`, the default); names, URLs and ordering of a service are
abstracted to its domain and its active flag. `ConnectionInv` is the inductive invariant of the
connections, `ServicesTyped` that of the service rows: no write lacks a column, or the row, that
it needs.

### KeycloakClient

`KeycloakManagementClient` of one process. Coroutines interleave only where they
await, so an action is what runs between two awaits: `Call` (the circuit, the cached
token, and the request or the lock), `Take` (the lock and the second look), the
answers to the token request (`FetchSucceeds`, `FetchRejected`, `FetchEscapes`,
`FetchGarbled`) and those to the management request (`AnswerSucceeds`, after which
the next request of the operation leaves in the same turn, `Unauthorized`,
`AnswerFails`, `AnswerInvalid`). `usable` and `cooling` are what is left of
`_token_expires_at - 15` and of `_circuit_open_until`; `failures` stops at
`Threshold`, beyond which the code no longer tells numbers apart. `Steps` gives the
requests of an operation: three for `account_status`, two for those that list and
then change, one for the others. `Turn` and `Forget` are Keycloak's side: it fails
and recovers, and a restart makes issued tokens worthless. What the requests change
at Keycloak is CentralAccount's business; the metadata's own cache, which is
ProviderKeys', is part of the token request's await. Waiters of the lock are served in any
order, of which `asyncio.Lock`'s is one.

`AnswerFails` is any status that the code does not know, in good times too: a 404 or a 409
about one user's data counts as a failure like a 503.

`FetchEscapes`: the token request stands outside the `try` of `_request`, so a Keycloak
that cannot be reached raises an exception the routes do not handle and leaves the
circuit closed.

### ProviderKeys

`OIDCValidator` of one process, and the provider's key rotation. As in KeycloakClient a
step runs to the next await. `StartValidation` is `validate_id_token`,
`validate_logout_token` or `validate_service_token` with a token of some published key;
`StartMetadata` every caller of `metadata()` alone. `ReadKeys` is the look at the cache
without the lock, `EnterMeta` and `EnterKeys` the lock and the second look,
`ReceiveMeta` and `ReceiveKeys` what follows the answers, `Decode` the second look-up
of an unknown key, `Fail` every exception of a refresh, all of which leave the lock by
`async with`. The provider publishes a span of numbered keys (`Publish`, `Withdraw`);
`Answer` fixes what an answer will say some time before it arrives. A token is
reduced to its key and one flag for signature and claims, the discovery document to
its expiry. `Tick` gives every request `Timeout` as a whole; httpx's limit
(`OIDC_HTTP_TIMEOUT_SECONDS`) is for each operation on the connection, so an answer that
trickles in may take longer, and `WithdrawnEnds` is about requests that do not.

### Accounts

The rows about one user: profile, preferences, photo, link, contacts, under every route
of `accounts/routes.py` and `preferences/routes.py` that changes one, and the records of
the first login. A request takes its route's lock where the code has one
(`AcquireLock`: the limiter's lock, or `account-bootstrap` for a login), reads (`Read`,
`SelectProfile` with `FOR UPDATE`, `CountContacts`, `FindPrimary`), flushes in the order
of the class names (`Flush`, `DemotePrimary`, `InsertContact`) or deletes (`Delete`), and
commits. `loaded[r]` is what its ORM session has read, `dirty[r]` its uncommitted row
versions, `Blockers` the transactions it waits for; `Collide`, `LoseRow`, `NotFound`,
`RefuseContact` and `AbortVictim` are the ways a statement can fail. A column holds
the name of the request that wrote it, because what the properties ask is whose value
survives. `form` is what the profile page was made from: the browser sends its version
back. Rows of several links or types differ in their key only, so one link is
enough. Image bytes and their checks are abstracted: the photo is stored in its row.

### CentralAccount

The routes that change the account at Keycloak (`account_security/routes.py`,
`sign_out_everywhere`, and the export of `preferences/routes.py`, which asks for the
sessions). A request holds its session row when `resolve` has touched it (`Start`),
takes the limiter's lock (`Enter`), makes its calls one by one (`Receive` chooses the
next), records what came of them and commits. `Process`, `Reject` and `ProcessLate` are
Keycloak's side: it is no part of the transaction, what it has done stays done, and
a call that has timed out at the portal (`TimeOut`, `GiveUpLogout`), or whose request was
cancelled or has crashed (`Fail`), may still be carried out later. `notice` is the
back-channel logout that Keycloak sends before it answers the logout that ends the SSO
session; `RevokeNotified` is the portal's `UPDATE` for it, which waits for the session
rows that requests hold. `Disable` and `FollowLink` are the administrator and the
user; nobody adds an authenticator or a consent. `effects`, `lost`, `early` and `audit` are history variables, of which `audit` is a
table of the portal as well. The circuit and the token of the client are KeycloakClient's
business: here a call is answered, rejected or given up.

## 3. Runs, bounds and fairness

| run | instance | shows |
|---|---|---|
| `sessions` | 2 sessions, 1 address, 2 requests, limit 1, one operation of each kind | the concurrent limit holds for logins and rotations from one address; the idle deadline never outruns the recorded use; closed sessions stay closed under logins, logouts, bulk revocations, back-channel logout and retention; nobody is admitted on a closed one or on an uncommitted login; the inductive invariant |
| `session_progress` | a login and a sign-out everywhere, fairness | every request ends, deadlock detector included |
| `two_addresses` | 2 addresses, limit 1 | **violation**: overlapping logins from two addresses exceed the limit (by one for each further address at most: `SpreadHolds`) |
| `logout_race` | login and back-channel logout | **violation**: a login in progress escapes the back-channel logout |
| `rate_limit` | 2 keys, 3 requests, limit 2 | counts are exact, first writes do not collide, the limiter implements FixedWindow; the inductive invariant |
| `login_transactions` | 1 state, 2 codes, 3 requests, retention | a state completes one login at most; the inductive invariant |
| `logout_tokens` | 2 tokens, 2 sessions, 2 deliveries, retention | until its `exp` a token is honoured once and ends no later session; the inductive invariant |
| `connections` | 1 default service, 2 clients, 3 transactions, 3 times | the latest time wins, no time goes back, first rows of connections do not collide; the inductive invariant |
| `keycloak_client` | 2 callers, the code's threshold of 3, fairness | one token fetch at a time and only when needed, at most one late request of each caller after the circuit has opened, every operation ends, service returns when Keycloak does and refuses nothing; the inductive invariant |
| `provider_keys` | 2 callers, 1 rotation, caches of 2 ticks, answers within 1, fairness | the cache never goes back, good tokens are accepted, withdrawn keys end, every call ends; the inductive invariant |
| `accounts` | 3 requests of any route, 1 contact type, limit 2, with or without an account before them | no edit of the profile is lost, photo and profile agree, the contact limit holds, the theme menu changes the theme only; the inductive invariant |
| `central_account` | 2 requests of any route, 1 portal session, 1 authenticator, fairness | audit rows are true, mails reach the right address, a request that reads a disabled account never enables it, requests end, signing out spreads; the inductive invariant |

Bounds. `MaxTime` bounds the clock; one or two ticks separate "before" from "after"
every deadline since `IdleTimeout`, `AbsoluteTimeout`, `TouchAfter`, `Retention`,
`Window`, `Lifetime`, `Life`, `Timeout` and `Skew` are zero to three; KeycloakClient counts its
timers down and needs no bound. `MaxTries` is two, which is
what a second honour or exchange needs. `Session`, `State` and `Token` bound the
identifiers a behaviour can draw: a login starts only while one is left. Two
requests show every race of two transactions; three are used where a third one
matters (the limiter's queue, callbacks of one state, touches of a connection
while its service is being created). `Operations` selects the routes of an instance, because all of them
at three sessions are out of TLC's reach. `sessions` has one of each kind: it
leaves out the page view (part of every protected route), the error page (part of the
callback) and the other bulk revocations, which differ in their `WHERE` clause only.
`accounts` has every route; its third request is what meets two others between its read and its
write. `central_account` leaves out the password mail, which differs from the 2FA mail in
its name only, and has one authenticator, which its removal lists and deletes; `AuditIsTrue`
is about any number of them. The proofs of section 4 cover every operation and any clock. Requests,
sessions, keys, states, codes and tokens are interchangeable, so the safety runs use
symmetry; the liveness runs (`session_progress`, `keycloak_client`, `provider_keys`,
`central_account`) do not.

Every property has a mutant in PROJECT.json: a plausible mistake in one definition
(a lock not taken, a stale row written back, a deadline compared the wrong way) under
which TLC finds it violated.

Fairness. `FairSpec` asks strong fairness of each request's `Run`: uvicorn's event
loop runs every coroutine that is ready, and PostgreSQL serves a lock's queue in
order, so a request that is offered a lock infinitely often gets it. Arrivals,
failures and the clock are not fair. In KeycloakClient every await ends (HTTP requests
by `OIDC_HTTP_TIMEOUT_SECONDS`, the lock in the order of its waiters, hence strong
fairness of `Work`) and the clock goes on; calls and Keycloak's failures are not fair,
and `ServiceReturns` supposes that from some time on Keycloak is well for good and refuses
no request of its own: its refusals count as failures too. In
ProviderKeys each caller's `Run` is weakly fair: the lock is free again whenever a request
has ended, and calls are finitely many; the HTTP client's time limit is the guard of
`Tick` and the fair `Fail`. In CentralAccount each request's `Run` (which contains the
client's time limit) and `RevokeNotified` are weakly fair, and nothing is assumed of
Keycloak. No run disables deadlock checking: where requests run once, `Rest` is the quiet
end, and a state in which nobody can go on but somebody has not ended is still a
deadlock.

What reading and the runs found besides, and no run states:

- `DEFAULT_SERVICES` gives `ygit` and `ygit-net` one domain in a unique column, so
  whichever is touched second fails (`Collide`).
- Retention deletes a logout token's row one second after its `exp`, while the
  validator still accepts the token for the clock skew: in that interval a second
  delivery would be honoured (`HonouredOnceWhileValid` says "until its `exp`" for that
  reason).
- A touch of a default service that the operator has deactivated makes it active again
  (`services_registry/repository.py:87`), where docs/OPERATIONS.md:14 says "Registry
  changes are CLI-only.".
- The token request stands outside the `try` of `_request`
  (`keycloak_management.py:100`): while the token endpoint cannot be reached the status
  pages answer 500 and the circuit stays closed (`FetchEscapes`).
- When the photo's removal overlaps the first upload, the profile may name a photo that is
  not stored, or a photo be stored that no profile names. `PhotoAgrees` says what holds:
  when there are both, they agree.
- The profile page that reports a concurrent edit shows the row's fields beside the
  user's display name (`SelectProfile`).
- Any status but 200, 201 and 204 counts as a failure of Keycloak
  (`keycloak_management.py:246`): three answers in a row that one user's data deserve, such as
  the refusals of a verification mail to an account that cannot have one, open the circuit
  for every user of the process for 30 seconds, unless another call has succeeded between.
- An e-mail change that has read the account before it is disabled writes back what it has
  read, and enables it; one that had read it disabled disables it again (`DisabledStays`
  excepts `early` requests, which had read it when it was last disabled).

## 4. What is proved

For all values of the constants that satisfy the named assumptions:

- `TypeCorrect` (PortalSessionsProofs): `Spec => [](TypeOK /\ StagesOK)`. The
  stage conditions say, for example, that no protected route works before
  it has an authenticated row.
- `SessionInvariant` (the same): `Spec => []SessionInv`, and from it
  `ClosedForever`: `Spec => []ClosedStayClosed`. The property alone is not
  inductive. Three things make it so: a row has one writer (`SingleWriter`); an
  uncommitted version never revives a revoked row, because a touch writes onto the
  latest version and not onto the one it loaded (`Descent`); and a row a statement
  has chosen is either still on its list, and then still selected unless it has
  been closed by another, or no longer live in the request's own eyes (`ChosenOK`).
  Identifiers that have been minted but not committed belong to one login
  (`MintedOK`).
- `AdmissionsSound` (the same): `Spec => AdmissionSound`, from the same invariant.
- `IdleHolds` (the same): `Spec => []IdleJustified`. The delicate case is the ORM's: a touch
  leaves the deadline's column out of its `UPDATE` when it equals the one it has loaded,
  although the row may have got another in between. `DeadlinesOK` says why this does no
  harm: a touch is made only some time after the use it has loaded, so an equal deadline
  is the absolute one, and a row that has once been bounded by that stays so (`Follows`).
  Nothing is assumed about the idle time and the absolute one, which the settings allow in
  any order.
- `LimitInvariant`, `SpreadHolds`, `LimitHolds` (the same): `Spec => []LimitInv`, and from it
  `[]SpreadLimit`, a subject never has more unrevoked sessions than `MaxConcurrent` and one
  for each address but the first, and, when all logins come from one address (`Address = {a}`),
  `[]ConcurrentLimit`. Without the hypothesis `ConcurrentLimit` is false (`two_addresses`);
  `SpreadLimit` says how far the excess can go. The argument counts. A login
  holds its address's advisory lock from before its exchange until its transaction ends
  (`LoginLocked`), so the logins in progress of one subject have addresses of their own
  (`LoginsApart`, an injection). `RoomLeft` says of every set of logins that have enforced the
  limit: the sessions that would be left if all of them closed what they have
  chosen, and the ones that they have minted, are within the bound. It must speak of every
  set because any of them may roll back. One that enforces keeps `MaxConcurrent - 1`
  (`RoomEnforce`); the session that a commit adds takes the place of its login in the
  count (`RoomCommit`); everybody else's writes only take sessions away (`Descent`).
- `LimiterInvariant`, `CountsHold`, `FirstWrites`, `ImplementsFixedWindow`
  (RateLimitProofs): `Spec => []LimiterInv`, from it `AdmissionsCounted` and
  `FirstWriteAlone`, and `Spec => FixedWindows`. The invariant says that the lock of a
  key has one holder, that what the holder has read is still the committed row
  (retention can only have taken a row that is over), and that what it writes
  counts one more. Every `Commit` then is a step of FixedWindow, and everything else
  a stutter or a window forgotten.
- `LoginInvariant`, `ConsumedAtMostOnce` (LoginTransactionsProofs):
  `Spec => []ConsumedOnce`. A locked row has one holder and is not deleted, so a
  consumption in progress is the first (`DraftsOK`), and a state once consumed is
  marked or gone for good (`UsedIsClosed`): identifiers are never drawn twice.
- `TokenInvariant`, `HonouredOnce`, `LaterSessions` (LogoutTokensProofs). The look-up
  decides nothing. The unique key does: each honoured delivery has left a row of its
  own (`KeysUnique`), which is there or was deleted after the token's `exp`
  (`RowsOK`), so the count of honours is the count of rows (`HonoursRecorded`).
- `RegistryInvariant`, `LatestShown`, `TimesGrow` (ServiceRegistryProofs):
  `Spec => []LatestRecorded` and `Spec => ConnectionTimes`. One touch of a connection
  is past the advisory lock (`LockExclusive`), so what it is about to write still
  follows from the committed row when it commits (`DraftIsCurrent`). For the service rows
  the invariant says that an insert has every column and that any other write has a row
  to change, which holds because no row is ever deleted.
- `ClientInvariant`, `LeaksBounded`, `FetchAlone` (CacheProofs, over KeycloakClient):
  `ClientSpec => []LeakBounded` and `ClientSpec => SingleFetch`. A caller that waits for the lock
  passed the circuit when it was closed and has sent nothing since it opened
  (`CircuitOK`); whoever sends while it is open ends its operation or closes it.
- `KeysInvariant`, `KeysNeverGoBack`, `FreshKeysAccepted`, `WithdrawnKeysEnd`
  (CacheProofs, over ProviderKeys): `Spec => []KeysInv`, `Spec => KeysForward`, `Spec => FreshAccepted`
  and `Spec => WithdrawnEnds`. The lock is the fetching coroutine's (`LockHeld`), so one
  answer is under way and the cache is not ahead of it (`SpansOK`); an answer that names a
  withdrawn key left before the withdrawal (`AgesOK`), which bounds the cache's expiry.

- `AccountsInvariant`, `ContactsLimited`, `NoEditLost`, `ThemeAlone`, `PhotoMatches`
  (AccountsProofs): `Spec => []AccountsInv`, and from it `[]ContactLimit`, `EditsKept`,
  `ThemeOnly` and `[]PhotoAgrees`. A row has one writer, so what a request has written is based on
  the committed row until it commits, and its commit changes nothing that others have
  written or read as theirs (`CommitOthers`). Only the route that inserts a row ever meets
  its absence (`MissingOK`), and that route's lock lets one request at a time do so; the
  same lock keeps the count of contacts and the free place of a primary one true
  until the insert (`ContactOK`, `PlaceOK`). `EditOK` says what an uncommitted profile may
  differ in from the committed one. The photo needs no route lock: an upload has written both
  the profile and the photo when it commits, and a removal leaves one of them empty
  (`PhotoOK`, in the proof module).

- `CentralInvariant`, `MailsMatch`, `AuditIsTrue`, `VerifiedWasMailed`, `DisabledKept`
  (CentralAccountProofs): `Spec => []CentralInv`, and from it `[]MailMatches`,
  `[]AuditTruthful`, `[]VerifiedMailed` and `DisabledStays`. The limiter's lock lets one
  request of each kind make calls at a time (`LockAlone`), so from an e-mail change's PUT to
  its mail the address is its own, unless a call is still under way that its request has
  given up (`LateOK`: there is none while nobody has given up). What a request claims
  when it ends follows from the calls its route has made, one after the other, and
  Keycloak carries nothing out that was not called (`CallOK`, `StageOK`). What is left of
  the authenticators is on the list of the request that removes them, or is what its call is
  about (`RemovalOK`). Nothing ever
  sets `emailVerified` but the link of a mail that was sent (`PutOK`). For `DisabledStays` the
  obvious reading, "had read it before the administrator disabled the account", turned out
  not to be preserved: with three e-mail changes a late PUT enables the account, another late
  PUT, which read it while it was disabled, disables it again, and a third request that had
  read it in between enables it once more. The property and `EnabledOK` therefore speak of
  the last time the account was disabled, by whomever; `CallOK` and `LateOK` say that who
  holds a copy of the account, or has sent one, has read it.

The assumptions are those named in the modules: timeouts and times are natural
numbers, limits and windows are positive (the contact limit may be 0), there are finitely many session
identifiers, addresses and requests, `None` is not a value of any other kind, the default services are
services, the operations of an instance are routes.

Only model-checked: the liveness of `RequestsEnd`, `OperationsEnd`, `ServiceReturns`,
`CallsEnd` and `SignOutSpreads`. Liveness under fairness is outside the prover. Every
invariant and every action property of a passing run is a theorem.

## 5. Not modelled

- Activity and audit: rows that are appended in the caller's transaction and only listed;
  where their truth matters (CentralAccount) they are modelled.
- Account experience, the dashboard, the applications page, health and web pages: they
  only read. The photo is served from the row that Accounts models.
- CSRF tokens, encryption, identifiers: pure cryptography without state. A refused
  token is one of the failures of a request.
- The middleware for bodies, request identifiers and headers: stateless wrappers.
- Configuration, start-up, logging, migrations, engine and pool: run once, or
  SQLAlchemy's. The size of the pool is not modelled: a request that waits for
  Keycloak keeps its connection, and an exhausted pool is a failure of the others.
- Image checks and the rendering of the export: functions of one request's input.
- `OIDCClient.refresh`: nothing in `src/app` calls it.
