# RG_Auth in TLA+

Specifications of the authentication service in `src/app` (FastAPI, async
SQLAlchemy on Postgres, Redis) and of the script in `src/migrations`: models of
its stateful components, TLC runs that check them on small instances, and TLAPS
proofs for every value of the constants. All file names without a directory are
files of `src/app`.

## 1. The system

One uvicorn process serves every request in its own asyncio task with its own
database session; a second process, or a second replica, shares nothing with
it but Postgres and Redis. A session checks a connection out at its first
statement and returns it when the transaction ends, and by default the pool
has *one* connection (`AUTH_DB_POOL_SIZE` 1, `AUTH_DB_MAX_OVERFLOW` 0), so that
transactions run one after the other. With a larger pool or more replicas they
interleave statement by statement: the isolation is READ COMMITTED, no SELECT
locks a row, no UPDATE repeats the condition that was checked, and the ORM
writes back the values it computed from the row it had loaded
(`expire_on_commit=False`, changed columns only). Most of the hard behaviour
of this service is in that sentence.

| Component (files) | State | Operations | Interacts through | What is hard | What makes it correct |
|---|---|---|---|---|---|
| Pool (`db.py`) | connections held | first statement, end of transaction, timeout | every handler | a leak stops a pool of one; a handler between two transactions can time out | bounded; always returned |
| Refresh tokens (`routers.py` login/refresh/logout, `deps.py`, `sessions.py`, `sessions_routes.py`) | `refresh_tokens` rows, the user's status | login, sign-on, refresh, logout, revoke one, revoke all others | the user row, the cookie | the rotation is two commits; reads used after other commits; restarts between them | one usable token per login; each redeemed once; revoke-all leaves none |
| Access tokens (`security.py`, `deps.py`) | `users.token_version`; tokens in clients' hands | issue, verify, invalidate (password, MFA, block) | every handler that increments | read-modify-write of the version; tokens made from a row read earlier | an invalidated token stays rejected |
| MFA (`mfa*.py`) | four `mfa_*` columns | setup, verify, disable, regenerate, use a backup code; code for a password change | the user row | one list of codes written whole; four columns written in different combinations | enabled only after proof; a code works once; new codes replace old |
| Passwords (`password_routes.py`, `owner_auth.py`) | `password_hash`, `password_reset_tokens`, mail | change, forgot, owner's reset, reset, set | the version, MFA, the user's status | check then use of the token; two sources of links; mail after the commit | newest link only; once; not for a blocked user |
| Owner (`owner_auth.py`) | users, settings, owner tokens | login, block, unblock, set password, reset, delete, settings | user rows | claims older than the row; deletion without cascade | blocked means out |
| Role (`routers.py`, `migrate_owner_roles.py`) | membership role, nonces in Redis | signed role update; the script | billing service, Redis | redelivery, replay, reordering, nonce checked then set; a script that asks billing between its read and its write | an update is applied once; nobody becomes owner unasked |
| Rate limits (`rate_limit.py`) | timestamps per key, in memory or in Redis | allow or refuse | Redis | count and add in two pipelines; fallback | never more than the limit in a window |
| Registration (`routers.py`, `identity.py`, `economic_integration.py`) | user, organisation, membership, billing state | register, dev user, SSO first login | billing, hash sphere, mail | external calls in an open transaction; three commits; failures ignored | all or nothing where promised; one user per e-mail |
| E-mail verification (`email_*.py`) | one token column, dates | send, resend, verify | registration, mail | resend against a verification under way; cooldown | a mailed link works until it expires |
| SSO and service connections (`oauth*.py`, `routers.py`, `routers_services.py`) | states in Redis or memory | start, five callbacks | providers, the user's keys | get then delete; a second read on one route; fallback per process | a state is consumed once |
| User keys (`byok_routes.py`, `routers_services.py`) | keys per provider, one primary | add, delete, set primary, connect a service | the callbacks above | rank decided from a list read before; sibling rows written one by one; lookups that fail on two rows | one key comes first; one connection per service |
| API keys of an organisation (`api_keys_routes.py`) | rows with a prefix and hash | create, revoke, verify | gateway, billing | verification is two transactions | revoked means refused |
| Workspaces and their tokens (`workspaces_routes.py`, `workspace_tokens_routes.py`) | rows with ids given from outside | create, delete, upsert, mint | the builder service | one id from two builds at once | a workspace keeps its owner |
| SSH host (`ssh_hosts_routes.py`) | one row per user | register, delete, confirm fingerprint | terminal sandbox | changed columns only; late confirmations | one row; a fingerprint confirmed for it and for no other |
| Agents (`agent_settings_routes.py`, `routers.py`) | agents, templates, restrictions, keys | create, copy, delete; restrict; key create, rename, switch, delete | — | restrictions merged into what was read; names looked up before | one key of a name |
| Trusted devices (`sessions.py`, `sessions_routes.py`) | `trusted_devices` | trust, extend, revoke one or all | MFA | extension against revocation | revoked stays revoked |
| Audit, notifications, GeoIP | `audit_logs` | append | every handler | separate commit in places | — |

PROJECT.json lists each with its status, and the hazards at their lines.

## 2. Modules

| Module | Models | State and code |
|---|---|---|
| `DbPool` | `db.py` | `conn`: the requests inside a transaction. `Checkout` is a transaction's first statement, `Return` its end, `OneShot` a transaction that a model runs in one step |
| `RefreshRotation` | refresh tokens of one user | `row` (state of each row), `active`, `hasId`; per request `pc`, `cookie`, `loaded` (rows its ORM session will mark); history `parent`, `family` |
| `SessionFamily` | what rotation promises | `phase` and `current` token of each login: unborn, live, rotating, ended |
| `AccessGrants` | what `/auth/verify` promises, and the handlers that invalidate | `valid` tokens, `active`, `mfa`, `epoch`; an invalidation is one step, and takes effect with the change it belongs to; a blocked account gets an accepted token by `SignOn` only |
| `SecondFactor` | what the MFA endpoints promise | `state` (off, offered, fresh, on), the `secret`, the `codes` that work, the draws made: one step per request |
| `ResetLink` | what forgot and reset promise | tokens `made`, `usable`, `delivered`; `active`, `uses`: one step per request |
| `Address` | what registration, first sign-on, verification and deletion promise | `phase` of the account with each id (free, open, closed), `member`, `verified`, the links |
| `TokenVersion` | `users.token_version`: login, refresh and the OAuth callback, and the handlers that invalidate | `ver`, `jwts` still in someone's hands, `logins` with a refresh token, `snap` (the user row each session loaded); history `epoch` counts committed invalidations |
| `Mfa` | MFA of one user | `user` (the four columns), `snap` (the loaded row), `input` (the code sent), `gen` (numbering of secrets and batches); history `batch`, `proved`, `used`, `refused` |
| `RateLimit` | both backends of the limiter, for one key | `backend` of each process, `mem` (its own requests), `zset` and `ttl` (Redis), `counted` (between the two pipelines), `stamp`, `now`; history `verdict`, `limiter` |
| `Account` | the account behind one address: registration, first sign-on, verification, deletion | `life` of each row (a flushed row is *inserted* until its commit), `member`, `verified`, `vtok`, `age` of the last mail; external `billing`, `mailed`; history `madeFor` |
| `PasswordReset` | reset links of one user | `row` and `hash` of each token, `loaded`, `mailed`; history `latest`, `uses`, `refused` |
| `Handlers` | what the handlers below have in common (`get_db`) | `pc` and `arg` (what a request was given and has read). `Start`, `Answer`, `AtOnce`, `Restart` |
| `OAuthState` | the state parameter of sign-on and of service connections | `backend` of each process, `redis`, `mem`, `kind` (what a state was made for), `young`; history `accepted`. The five callbacks are three routes: with a provider in the path, without one, and the services' own |
| `UserKeys` | `user_api_keys` of one user | `provider` and `primary` of the rows; history `used`, `byHand` |
| `SignOn` | composition of the two: a callback that has consumed its state goes on to the keys | the union, and `Crash` of one process |
| `TrustedDevices`, `OrgApiKeys`, `Workspaces`, `SshHosts`, `Agents`, `MemberRole` | rows that a user or an organisation owns, and the role with its webhook and script | one variable per table; the network redelivers signed updates as long as they are fresh |
| `OwnedRows` | composition of the six on one pool | the union, `RequestFails`, `RowsCrash` |
| `MC…` | — | symmetry for TLC, the processes of `SignOn.cfg`, the constraint of `OwnedRows.cfg`; the instances are in the `.cfg` files |
| `…Proofs` | — | the theorems of section 5; `DbPoolProofs` holds the facts all of them share, `HandlersProofs` covers `OwnedRows` and `SignOn` |

An action of a component is one transaction's reads or its commit, because those are
the points between which other requests run. What a handler does between them
is inside one of the two. A handler of several transactions (`/auth/refresh`, a
login that creates the missing identity, the OAuth callback, a revocation and its
audit record, the verification of an organisation's key) has
states in between in which it holds no connection. Every handler can fail at
any statement: the transaction is rolled back and the connection returned.
Where an ORM session writes a row, `Write` (Mfa) and the assignments from
`snap`, `loaded` and `arg` (the others) write what was computed from the
*loaded* row. An UPDATE by primary key of a row that is gone raises
(`StaleDataError`), a DELETE of one is only warned about; a unique constraint
raises at the flush. Each module's actions say which of these its code meets.

The Redis client of the OAuth store is synchronous: a callback's calls are not
interleaved with requests of its own process (`Busy`), only with other
processes. The nonce of the role update is looked up by an asynchronous client,
before the request's first statement: every call is a step there.

History variables are read by properties only. A definition marked *Mutant* is
no part of the specification: it is the definition after it with a plausible
mistake, and the property named in PROJECT.json is violated when it takes that
definition's place.

Components are modelled for one user (agents, keys, devices, the role) or one
table (workspaces, keys of an organisation): no handler of them reads or writes
another user's rows, and requests of other users only take connections, which
more requests of this user do as well.

## 3. Runs

| Run (cfg) | Instance | Shows |
|---|---|---|
| `rotation` (RefreshRotation) | pool 1, 2 requests, 3 tokens | one usable token per login, redeemed once, revoke-all complete; `SessionFamily` implemented; connections always come back |
| `token_version` (TokenVersion) | pool 1, 2 requests, bounded invalidations and held tokens | `/auth/verify` accepts current tokens only; `AccessGrants` implemented: an invalidation takes effect at once, and a blocked account gets no token that is accepted but by a sign-on |
| `mfa` (Mfa) | pool 1, 2 requests, 3 generations of 2 codes | enabled after proof, codes of the last batch, each once; `SecondFactor` implemented |
| `reset` (PasswordReset) | pool 1, 2 requests, 4 tokens | newest link only, once; `ResetLink` implemented |
| `rate_limit` (RateLimit) | 2 processes, 5 requests, limit 2, window 2, clock to 3 | the memory limiter keeps its limit, the shared one exceeds it by at most one request per other process; refusals are justified |
| `account` (Account) | pool 2, 3 requests, 2 rows, 3 links | one user per address, verified by a delivered link of its own and for good; `Address` implemented |
| `sign_on` (SignOn) | pool 1, 2 processes, 3 requests (2 of one process), 1 state, 3 keys, 2 providers, one of them a service | a process goes on with a state once at most and a used state is gone everywhere; one key comes first, a rank is only handed over, a service has one connection |
| `owned_rows` (OwnedRows) | pool 2, 2 requests, one to three rows of each kind | a fingerprint is confirmed for the row it was asked for, one key of a name, a revoked device is not resurrected by an extension, a workspace keeps its owner, nobody becomes owner unasked |
| `refresh_outlives_password`, `mfa_password_code`, `owner_link`, `webhook_replay` | those of the run on the same module | violations, see 4 |

**Bounds.** Two requests are enough for every race here: each concerns one
request's read, another's commit and the first one's commit; more requests add
only repetitions. Three tokens allow a login and two rotations, or one rotation
beside a second login.
`MaxEpoch` and `MaxJwt` bound the number of invalidations requested and of
access tokens held: the properties compare one token with one epoch, and
reviving a version takes two invalidations. `MaxGen` bounds setups and
regenerations: 3 leave an old batch, the last one and one that a stale list
could bring back; two codes per batch are enough for a used and an unused one.
The limiter's clock runs to `MaxTime` = 3, which is when the first window has
gone and its Redis key expires; five requests fill a window, exceed it from
both processes and are refused. Two rows with one address are an account and
its successor after a deletion; three requests let a registration, a sign-on
and a resend or verification overlap.

`sign_on` has one state because states do not touch each other, and two
requests of one process beside one of another because that is the difference
the blocking client makes. The two processes share the run's one connection,
as two real ones would not; what it says of the keys is meant of the single
default process, and section 4 says what breaks beyond it. Three keys are a primary one, its sibling and one
made anew; two providers, a service and a plain one, are the two kinds.
`owned_rows` composes parts that read nothing of one another, so that its
constraint `OnePart` loses no behaviour of a part: it cuts only the mixtures of
several parts' rows. Devices and host rows are used once and come in threes, so
that one can be deleted and made anew twice. `applied` counts to 2, which is
what "more than once" needs. The proofs depend on none of these, and those of
`owned_rows` not on `OnePart`.

**Deadlock** is checked in every run: no reachable state of these models is
without a successor.

**Fairness.** Only `rotation` states it (`FairSpec`), for `ConnectionsReturn`:
a request inside a transaction waits for nothing but the database, which
answers each statement or fails it (`WF` on the request's next step or its
failure). Nothing is assumed of
requests that wait for a connection or for a client.

## 4. What the models show of the code

Four runs end in a violation. Each is a disagreement between the code and a
sentence of its own documentation, quoted in PROJECT.json; the first three need
no more than the default pool.

- A password change "invalidates all existing sessions" but leaves refresh
  tokens valid, so the next refresh of an old login yields a current access
  token (`password_routes.py:66`).
- An MFA code for a password change is checked against the encrypted secret and
  always fails (`mfa_enforcement.py:106`).
- The owner's reset links are stored under another hash than they are looked up
  by (`owner_auth.py:436`).
- The refusal of a known nonce is raised inside the `try` that logs and goes
  on: a role update delivered twice is applied twice (`routers.py:2167`).

The models contain more that a reader should know of, without a run of its own:

- A blocked user who signs on with Google or another provider is let in: the
  callback looks the user up by e-mail, asks neither `is_active` nor `status`,
  and hands out an access token of the current version, which `/auth/verify`
  accepts (`routers.py:1786` and `1959`, against the docstring "Block a user from
  accessing the platform" at `owner_auth.py:529`). `AccessGrants` says
  so: `SignOn` is the one step that gives a token to an account that is not
  active. The refresh token handed out with it is refused while the block lasts.
- A refresh survives a revoke-all that falls between its two commits: the
  session in mid-rotation is on no list (`sessions_routes.py:90`).
- The service's own endpoints never look at `token_version` (`deps.py:237`,
  against `src/README.md:395`); owner access is a claim of the token and
  outlives the flag it was made from.
- A user is committed although billing has no economic state for it, when the
  call failed or, after a first single sign-on, was never made
  (`economic_integration.py:9`).
- The compatibility callback connects a service whatever `validate_oauth_state`
  says of the state (`routers.py:1597`), and exchanges every service's code
  with Google (`routers.py:1613`). A callback of another process that has read
  the same state before it was deleted goes on as well: `AcceptedOncePerProcess`
  says once *per process*, no more.
- A process that could not reach Redis at its first state keeps states in its
  memory until it restarts, and never drops those that nobody comes back for.
- Two changes of one agent's restrictions that read the same list both store
  their own merge, so that one request's change is lost
  (`agent_settings_routes.py:700`). The model contains it, with two connections;
  no property forbids it, because the code promises nothing.
- Deleting the primary key of a provider leaves it without one, and while it
  has others the next key added is not primary either; `integration_status` fails for good once a
  user has added two keys for a provider by hand (`routers_services.py:490`).
- A fingerprint is confirmed for the row, whatever target it names by then
  (`ssh_hosts_routes.py:144`).
- `migrate_owner_roles` overwrites a role that the webhook wrote while the
  script was asking billing.
- Trusted devices survive the disabling of MFA, keys of an agent the agent, and
  tokens of a workspace the workspace.
- Read, not modelled: the nonce is kept for 300 seconds where a timestamp
  in the future stays acceptable for up to 600 (the
  model has the clocks in step, and a nonce lives as long as its update); the deletion of an anchor
  changes a JSON value in place, which the ORM does not notice
  (`agent_settings_routes.py:336`); the rollback scripts read attributes that
  their rows do not have.

With two connections or two replicas more goes wrong, which is why many
theorems assume `PoolSize = 1`. With `PoolSize = 2` in the `.cfg` files TLC
violates `RedeemedOnce` and `OneUnrevokedPerFamily` (two refreshes read the same
unrevoked row), `VerifiedIsCurrent` (two invalidations count once), `NoRevival`
(an invalidation that read its row early writes an old version again),
`EnabledIsProved` (a setup replaces the secret after MFA was enabled),
`CodesOfLastBatch` and `UsedIsGone` (a stale list of backup codes is written
back), `OnlyLatestOpen` (two links open at once), `SetsPasswordOnce` (one link
used twice), `OnePrimary` (two first keys), `OneConnection` (two callbacks of a
service), `PrimaryHandedOver` (the key that was to become primary is deleted
meanwhile, and its sibling demoted for it), and the refinements of
`SessionFamily`, `AccessGrants`, `SecondFactor` and `ResetLink`.
`IssuedForRevoked`, `EnabledIffDated`, the two properties of OAuth states, all
of `Account`, its refinement of `Address` included, and all of `OwnedRows` hold
for every pool, and their theorems say so.

How much goes wrong has a bound in four of these cases, and it is the pool:
whoever read the row before the first commit holds a connection, and whoever
reads it after is turned away. A refresh token is redeemed at most `PoolSize`
times (`RedeemedWithinPool`), a reset link sets the password at most `PoolSize`
times (`SetsPasswordWithinPool`), at most `PoolSize` links are open at once
(`OpenWithinPool`), a service has at most `PoolSize` connections
(`ConnectionsWithinPool`). These are theorems for every pool. No run of its own
checks them, since with one connection they say what the runs check already;
TLC agrees with `PoolSize = 2` (for `ConnectionsWithinPool` with two keys).
There is no such bound on the unrevoked tokens of a login: every
token of a family that has split can split again.

## 5. Proofs

tlapm checks every theorem, for any set of requests (finite, `PoolAssumption`)
and any tokens and bounds. Every invariant and every action property of the
passing runs is a theorem, the five refinements among them.

| Proof module | For every pool | With one connection |
|---|---|---|
| each (`SignOnTypesAlways`, `RowsTypesAlways` in `HandlersProofs`) | `TypeCorrect`: the types, and `conn = {r : pc[r] is inside a transaction}` | |
| `RefreshRotationProofs` | `PoolNeverOverdrawn`, `ExchangeOnly`, `RedeemedWithinPoolAlways` | `OneTokenPerLogin`, `NoDoubleRedemption`, `RevokeAllIsComplete`, `ImplementsFamilies` |
| `TokenVersionProofs` | | `VerifyRejectsOld`, `RejectionIsFinal`, `ImplementsGrants` |
| `MfaProofs` | `EnabledMeansDated` | `EnabledAfterProof`, `OldCodesInvalid`, `CodeWorksOnce`, `ImplementsFactor` |
| `PasswordResetProofs` | `LinkWorksWithinPool`, `FewLinksOpen` | `NewestLinkOnly`, `LinkWorksOnce`, `BlockedNotReset`, `ImplementsLink` |
| `AccountProofs` | `OneAccount`, `MembershipComplete`, `VerifiedMeansMailed`, `VerificationIsFinal`, `ImplementsPromise` | |
| `RateLimitProofs` | `MemoryKeepsLimit`, `RedisNearLimit`, `RefusalsJustified` (any processes, limit and window) | |
| `HandlersProofs` | `ConfirmationsKeepToTheirRow`, `OneKeyPerNameAlways`, `RevokedStaysRevoked`, `OwnerNeverChanges`, `OwnerOnlyIfAskedAlways`, `StatesAcceptedOnce`, `AcceptedStatesAreGone`, `FewConnections` | `SerialOnePrimary`, `SerialOneConnection`, `SerialPrimaryHandedOver` |

Theorems without a run of their own: the four bounds by the pool (section 4);
`PoolNeverOverdrawn`, which TLC sees in the guard of `Checkout`; and
`RejectionIsFinal`, `EnabledMeansDated`, `MembershipComplete` and
`BlockedNotReset`, in whose place the runs check the refinements, which say
more. `EnabledMeansDated` holds for every pool because loaded rows satisfy it
too and the two columns are always written together.

**The argument for a pool of one** is the same everywhere. `SerialPool`: a
checkout that succeeds finds no transaction open (the cardinality of `conn` is
0). Hence `SingleTransaction` is preserved by all a step does to the pool
(`SerialStepOfPool`). The properties are not inductive by themselves, since
nothing in them says what a half-done request has read; the invariants add
that what was read inside the open transaction is still so: `snap.ver = ver`,
`SameMfa(snap, user)`, `loaded = Unused`, the row to be revoked is unrevoked,
the keys read are the keys of the provider (`ReadsCurrent`).
For requests *between* two transactions only stable facts are kept: the
cookie's token is revoked, a family with a refresh in its gap has no usable
token, a loaded version is not newer than the column.

**The refinement of `SessionFamily`.** The mapping reads three things off a
state: the logins (`Logins`), the unrevoked tokens of each (`Members`) and the
logins with a refresh between its commits (`Rotating`). `FamilyInv` adds that a
token has a family from the moment its row exists, and that a family is named by
its own first token; with `RotationExclusive` a login has a token or a rotation,
never both (`Disjoint`). Then `LoginCommit` or `SsoIssue` begins a session (`Beginning`), the
first commit of a refresh retires its token (`Retiring`), the second reissues
(`Reissuing`), and every other step leaves logins as they are or ends some
(`Ending`, `Others`).

**The other refinements** say that handlers which read, compute and write do what
single steps would. A read is a stutter and a commit the step, so that what has
to be proved is that the value written is the one the step would compute from
the row as it is *now*.
- `AccessGrants`: a token is seen when `/auth/verify` accepts it. A login that
  read its row before an invalidation hands out a token that is not, which is a
  stutter (`Issuing`). `GrantInv`: inside a transaction the loaded columns are
  the current ones, and the account is active while a token is being made from
  a row of the current epoch, unless a sign-on makes it.
- `SecondFactor`: `NullAssumption` keeps SQL's NULL apart from secrets and lists
  of codes. With `SnapIsCurrent` the row that is written is the row that was
  loaded, changed as the abstract step changes it, and only in the columns that
  changed: an ORM that wrote the whole row back could undo the passing of the five
  minutes, which none of the invariants notices and the refinement does.
- `ResetLink`: a link is usable while its row is open, or has expired in the hands
  of a request that found it open (`InHand`): the code checks the hour once.
  `LinkInv`: a link that a request has found is a delivered one and not the
  owner's, and a request that is making one found the account active.
- `Address` needs no serial pool. A flushed row is nothing until its commit, and
  an insertion that is rolled back uses its id up. `AccountInv` carries that a
  mail on its way is of a link that was made.

That these abstract specifications are worth implementing is proved too, from
them alone: `GrantsAreCurrent` (what implements `AccessGrants` accepts current
tokens only), `FactorRevivesNoCode` (a code that was used or replaced does not
come back), `LinkPromisesOnce`, `PromiseSuffices` (all four properties of
`Account`) and `FamiliesReviveNoToken` (a login never gets back a token it has
lost). They hold for every pool, and for any code that implements those
specifications.

**The bounds by the pool** are counted with what is still to come:
`ExchangeInv` adds to the successors of a token the refreshes that will issue
another, `PoolInv` to the uses of a link the requests that found it open,
`ConnectionInv` to the connections of a service the callbacks that found none.
Each of those requests held a connection when it read, and the first commit
turns the rest away; what one step adds on one side it takes from the other.
For refreshes this takes `IssuedForRevoked` and the count of requests in the gap
between the two commits, which hold no connection any more. `OpenInv` is
different, because a new link closes those that its request has *read*. Of any
set of open links, the one committed first was missed by the requests that made
the others: they had read before it was there, or they would have closed it. The
rows do not keep that order, and the invariant does not name it: in *every* set
of open links there is *some* link that so few requests under way have missed
that they and the links of the set fit into the pool.

**Account** needs no serial pool: the unique index does the work. `AccountInv`
says that at most one row is *inserted or live*, that the token a row stores was
made for that row, and that a verification under way holds a delivered token of
the row it is going to mark.

**RateLimit.** `Recorded`: what a backend let through and is still inside the
window is in its list, and the key in Redis outlives every entry it holds.
`ThroughLimit`: the requests Redis let through in a window, together with those
in flight between the two pipelines, are fewer than `Limit + |Proc|`; a request
enters the flight only when fewer than `Limit` are recorded, and each process
has one in flight.

**OwnedRows.** `PartSteps`: a step is a step of one part and brings no request
into another part's transaction (`Confined`); so each part's invariant needs
only its own actions. `ScriptInv`: what the script is about to write
is never "owner". A confirmation of a fingerprint updates by the id of the row it
read, so that it cannot reach the row of a host registered meanwhile
(`ConfirmationsKeepToTheirRow`). One key of a name, the owner of a workspace and the trust of
a device rest on constraints and on UPDATEs that insert nothing, so that no
serial pool is needed.

**SignOn.** `KeptOnce`: a state is in one place only, in Redis or in the memory
of one process, and in none once a process has gone on with it; a callback
between its calls to the store is alone in its process. A second callback of
the same process therefore finds nothing, while one of another process that
read before the deletion still can. The three properties of the keys are those
of a pool of one: the rows a request read are still the provider's.

**Model-checked only:** liveness (`ConnectionsReturn`). **Neither:** cryptography
(hashes, signatures, TOTP arithmetic are taken as injective), HTTP, mail
delivery beyond "arrives or not", wording, logging.

## 6. Not modelled

- `roles.py`: pure predicates over a hierarchy; the endpoints read the role
  itself. `/auth/verify` also normalises the role and ends a trial that is over;
  if that commit fails the answer is 401.
- Account lockout: the functions in `routers.py:519-555` are called by nothing,
  although `src/README.md` (39, 391) names the feature.
- SAML: the settings have no `SAML_ENABLED`, nothing registers a configuration,
  so its callback (`routers.py:2279`) issues no token.
- The access token of a registration (`routers.py:343`), and of a sign-on that
  creates its user, in `TokenVersion`: it is made from a row that the same request
  has just inserted and is a first login's; the module starts from a row that
  is there. Their refresh tokens likewise in `RefreshRotation`.
- `dev_create_user` (502) is refused outside development. For an address
  that has a user it is another sign-on: it reads the row without asking whether
  the account is blocked, commits, and issues both tokens (of `TokenVersion`'s
  actions, `SsoRead`, `SsoCommit`, `IssueTokens`). It also sets the password,
  without incrementing the version.
- Owner login and owner settings: one reads, the other is replaced as sent.
- The columns of an agent that are replaced as sent, its memory settings and
  anchors; the routes for templates and shared agents that another route,
  registered before, shadows.
- Key derivation, Hash Sphere and the blockchain, whose
  results are ignored.
- Requests to providers, e-mail, GeoIP, metrics, the economic patch, schemas,
  startup, Alembic revisions: input and output, wiring, or called by nothing.

## 7. Plan

The components with state of their own are modelled, and what the runs check is
proved. What is left would cross the components: `PasswordReset` with
`TokenVersion` and `RefreshRotation` (what a reset ends), `Mfa` with
`TrustedDevices` and `TokenVersion`, `/auth/verify` with the role it reports,
and a larger pool with row locks, should the code take them.

## 8. Running

    tlc -config RefreshRotation.cfg RefreshRotation.tla
    tlc -config SignOn.cfg MCSignOn.tla
    tlc -config OwnedRows.cfg MCOwnedRows.tla
    tlapm RefreshRotationProofs.tla

`RefreshRotation` is checked as it is, without symmetry, because of its
liveness property; every other run takes the MC module of its component
(PROJECT.json names both).
