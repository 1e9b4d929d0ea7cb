# TLA+ verification of web-data-platform

Models, model-checking runs and machine-checked proofs about the API of the
platform (`src/apps/api/app`). Paths below are relative to that directory
unless they start with `src/`.

Four modules model the code, from the Redis commands up to the requests of
clients:

* `SessionStore` – the Redis session store, command by command, and
  `SessionSpec`, what it promises; `SessionRefinement` maps the one to the other;
* `AuthFlow` – login, refresh, logout and authenticated writes, from the cookie
  jar of a client through the handlers and back, over what `SessionSpec` promises;
* `Resources` – who may write what, and what the tables hold afterwards:
  registration, organizations, projects, scrapers, targets, under changing
  memberships and DNS; `Catalog` is what they promise, and `ResourcesRefinement`
  the mapping;
* `Lifecycle` – what PATCH and DELETE do to the row of a project or a scraper.

Each of the four has an `MC` module and configurations for TLC, and a `_proofs`
module for TLAPS; `SessionSpec`, `Catalog` and the two refinements have proofs of
their own.

Contents: [the system](#the-system) · [SessionStore](#sessionstore) ·
[AuthFlow](#authflow) · [Resources](#resources) · [Lifecycle](#lifecycle) ·
[runs](#runs) · [findings](#findings) · [proofs](#proofs) ·
[not modelled](#not-modelled) · [plan](#plan)

## The system

FastAPI handlers, `async`, in any number of processes. A handler holds one
SQLAlchemy session (one PostgreSQL transaction at READ COMMITTED, the default)
and one Redis client. Nothing is shared between handlers but PostgreSQL and
Redis; every `await` is a point where another handler may run.

| Component | State | Operations | Interacts with |
|---|---|---|---|
| Session store, `core/sessions.py` | Redis: `session:token:<hash>` records with a TTL, `session:family:<id>` sets with a TTL | create, rotate, revoke family, two lookups | called by the auth endpoints and `get_current_user` |
| Authentication, `modules/auth`, `services/auth_service.py` | `users`; the cookies of a browser | register, login, logout, refresh, me | session store, audit log |
| Authorization, `api/deps.py`, `core/rbac.py`, `core/csrf.py` | none; reads `users`, `organization_members`, the resource | the dependency chain of every request | session store, PostgreSQL |
| Organizations, `modules/organizations` | `organizations`, `organization_members` | create, list, get, PATCH | unique slug, audit log |
| Projects, `modules/projects` | `projects` (status, plain columns) | create, list, get, PATCH, DELETE (soft) | transition table, audit log |
| Scrapers, `modules/scrapers` | `scrapers` (status, configuration, version) | create, list, get, PATCH, DELETE (soft) | transition table, audit log, configuration schemas |
| Targets, `modules/targets`, `core/url_safety.py` | `targets` | create, list, get, PATCH, DELETE (hard) | DNS, audit log |
| Audit log, `services/audit_service.py` | `audit_logs`, append only | record, in the caller's transaction | all writers |
| Database session, `core/database.py` | a connection and its transaction | open, commit, close | all handlers |
| Worker, scheduler | none | placeholders | none |

What is hard in each, and what makes it correct:

* **Session store.** No operation is atomic: a login is four Redis commands, a
  rotation six, a revocation three or four, with an `await` at each. Two
  rotations of one token, a rotation during a revocation, a TTL that ends or a
  process that dies between two commands are all possible. Correct means: a
  token is exchanged at most once in sequence, a revoked session has no usable
  token, revocation can find every token, access tokens stay short-lived, and
  one session never reaches another.
* **Projects and scrapers.** Each PATCH is read, check, write with awaits in
  between and no condition on the write. Correct means: the transition graph is
  followed, nothing is overwritten that was not asked for, the audit log tells
  the status, the version counts configurations, and row locks are given back.
* **Authentication.** The session and the audit row of a login live in two
  stores; cookies have paths; an exception replaces the response that cleared
  the cookies; a refresh may be retried. Correct means: logout ends the
  session, a session that failed to be delivered harms nobody.
* **Authorization.** User, membership, role and resource are read at different
  times and none is read again at the commit. Correct means: a write happens
  only with a role that was held when the request was authorized, and only in
  the tenant of that membership.
* **Organizations, registration, creation.** Check then insert; only the unique
  constraint decides. Correct means: one row per name, and an organization
  always has its owner.
* **Targets.** A hard delete races an update; a URL is judged by what its host
  resolves to at one moment. Correct means: only judged URLs are stored.

`PROJECT.json` lists the hazards one by one with the line where each bites.

## SessionStore

`SessionStore.tla` is `core/sessions.py`; **one action is one Redis command**
with the local code up to the next `await`. Redis executes a command
atomically, so any interleaving of the code is an interleaving of these actions.

| Code | Actions |
|---|---|
| `create_session` (89-93) | `CreateSession`, then the four of `_issue_pair` |
| `_issue_pair` (95-143) | `IssueAccess` (SET), `IssueRefresh` (SET), `Track` (SADD), `ExpireFamily` (EXPIRE, return) |
| `rotate_refresh_token` (166-196) | `RotateInvalid` (ValueError), `RotateLookup` then `MarkUsed` then `_issue_pair`; or `RotateReused` then `revoke_family` |
| `revoke_family` (198-203) | `RevokeMembers` (SMEMBERS), `RevokeTokens` (DEL keys, skipped for an empty set), `RevokeFamily` (DEL set) |
| `revoke_session_by_refresh_token` (205-212) | `RevokeUnknown`, `RevokeLookup` then `revoke_family` |
| process death, Redis error at any command | `Fail` |
| key expiry | `Tick` |

State: `record`/`ttl` are the token keys, `family`/`familyTTL` the family sets;
`pc`, `token`, `seen`, `subject`, `pair`, `members` are the locals of a request
that live across an `await`. The record `seen` by the GET is what `MarkUsed`
writes back: the model keeps the stale copy. `SET` re-creates a key that a
revocation deleted; `SADD` on an absent key makes a set without a TTL
(`NoExpiry`) until the `EXPIRE`; `EXPIRE` on an absent key does nothing.

The remaining variables are history, written and (with the exceptions named
next) never read by the code's guards: `owner`, `minted`, `delivered`, `spent`,
`torn`, `dead`. Fresh `uuid4` and `secrets.token_urlsafe` values are
`owner[f] = None` and `p \notin minted`; a caller presents only tokens it was
given (`delivered`), because a made-up one is an absent key and takes the same
branch as an expired one. The two lookups (145-164) change nothing and appear
as `Usable`: the key is there and, for a refresh token, it is not `used` (the
record of an access token never is: only refresh tokens are rotated).

**`torn`.** A revocation takes a snapshot of the family set. If a rotation of
the same family is in flight at that moment, or starts before the revocation
has finished, its new pair may survive. The code has this window, so
the promises about revocation cannot be unconditional: `torn` is the set of
families in which it was open (a revocation overlapped an issuance, or the set
expired between a SADD and its EXPIRE). The properties say exactly what the
code guarantees for all other families, and the run `session_reuse` shows that
the exception is needed and not a weakening.

Properties:

* `RevocationFindsEveryToken` – each usable token that was handed out is in the
  family set, and the set outlives it. This is what makes a logout possible at
  all; it is broken by a lost SADD, by a set that expires first, by a token
  written before it is tracked.
* `RevokedFamilyStaysDead` – after a completed revocation no token of the
  family works and no request is about to make one.
* `SpentTokenNeverRotates` – across expiry, failure, revocation and write-back
  of stale records, no rotation starts from a token some rotation has marked.
  (Two rotations that both read the token before either marked it both succeed;
  `SessionSpec` permits that and says how.)
* `UnusableForGood` – a token that was handed out and has become unusable, in
  whatever way, never works again; the SET that marks a token writes back a record
  read before, possibly to a key that is gone by then.
* `AccessTokensStayShort` – no sequence of calls gives an access token more
  than `ACCESS_TTL_SECONDS`.
* `RecordsBelongToOwner`, `OnlyOwnFamilyIsRevoked` – sessions do not mix.
* `SpentTokensExpire` – a used refresh token is kept for reuse detection but
  not for ever (liveness).
* `ImplementsSession` – refinement of `SessionSpec`.

`SessionSpec.tla` is the promise without Redis: sessions are opened, usable
refresh tokens are redeemed for pairs, `Revoke` ends all tokens of a session in
one step, a closed session stays closed. A session tears only while a grant of it
is due. `SessionRefinement` maps the store to it: a token is usable when it was
delivered and its record is live and unused; a grant is due from the GET (or the
fresh `uuid4`) and happens at the `EXPIRE` that returns the pair; `Revoke` happens
at the `DEL` of the token keys, and `Close` at the `DEL` of the set; every other
command is a stutter or a `Lapse`. `SpentTokenNeverRotates` speaks of the calls of
the store and `UnusableForGood` of its callers; the second does not follow from
the first, as an access token or an expired one is never marked.

## AuthFlow

`AuthFlow.tla` is `modules/auth/router.py` with `authenticate_user`,
`get_current_user` and `require_csrf`, seen from a client: **one action is one
`await` of a handler**, or one move of the client or of the network. A call of the
session store is several awaits; it is split as far as requests can tell apart
(below).

| Code | Actions |
|---|---|
| a client sends a request | `Send`; for a write of a browser `Compose` (the page reads the CSRF cookie), later `Leave` (the cookies are attached) |
| `authenticate_user` (`auth_service.py` 46-58) | `AuthenticateUser`, `InvalidCredentials` |
| login: `create_session` (113), audit row and commit (118-119) | `CreateSession`, `Record` |
| logout: `revoke_session_by_refresh_token` (132-134), audit row and commit | `RevokeSession`, `ListFamily`, `RevokeFamily`, or `NothingToRevoke`; then `Record` |
| refresh: `rotate_refresh_token` (153-163) | `Redeem` (GET), `Mark` (SET), `Rotate` (`_issue_pair`); or `Reuse`, `ListFamily`, `RefuseReuse`; or `InvalidRefresh` |
| `get_current_user` (`deps.py` 58-83) | `GetUserId` (Redis, 75), `GetCurrentUser` (the account, 79), `Unauthorized` at either |
| `require_csrf` (`deps.py` 86-103) | `RequireCsrf`, `CsrfFails` |
| the rest of a write, to its commit | `Accept` |
| `_set_session_cookies`, `_clear_session_cookies` | `SetSessionCookies`, `ClearSessionCookies`, when the answer arrives (`Receive`) |
| a lost process, store, commit or answer | `Fail` |
| TTLs, a browser restart, `UPDATE users SET status` | `Expire`, `Restart`, `Suspend` |

The order of the dependencies is the code's: on POST `require_csrf` belongs to
the route and runs before `get_current_user`; on PATCH and DELETE it is the last
parameter and runs after it. `Browsers` attach the refresh cookie to
`/auth/refresh` only, and lose the cookies without `max_age` when they restart;
`Scripts` send everything they hold and carry a Bearer, so `require_csrf` lets
them pass. A request carries what its handler reads of the cookies it was sent with
(`Attached`): login reads none, refresh the refresh cookie. `Writers` are the clients
that send writes. The three tokens of a pair are named by the pair, a family by the
pair of its login.

A rotation is the GET that finds its token unused, the SET that marks it, and the
commands of `_issue_pair`. Two refreshes may both find a token unused and both get
a pair, and a revocation may come in between: the SET that marks the token does not
look whether the key is still there, and keeps the record it read. A revocation is
the GET of the token it was given, the SMEMBERS of the family set and the DELs of
what it `found` and of the set. `listed` has the pairs that are in their family
set. `SessionStore` goes further: there every command is a step, and a set can expire
between its SADD and its EXPIRE; here it outlives the tokens in it.

Seven variables are history, and no guard reads them: `ended` (families that were
revoked), `torn` (families of which a rotation overlapped the listing and deletion
of a revocation, in either order; two refreshes that race, a late mark or an expiry
are not enough), `overtaken` (requests whose account was suspended after it was
read), `muddled` (families with two refreshes at once or one that broke off),
`out` (clients that saw a logout succeed and have not logged in since), `late` (their
requests that were under way by then) and `back` (clients that are out and were
given cookies again by the answer to a refresh that was late).

Properties:

* `HeldSessionsAreRecorded` – login writes Redis first and commits after; a
  session whose commit failed exists, and no client ever holds a cookie of it.
* `RevokedSessionsAreRefused` – after a logout or a detected reuse
  `get_current_user` finds the user of no token of the session, whatever rotations
  it has been through and whatever was under way; the exception is a session of
  which a rotation and a revocation overlapped, as finding 2 shows it.
* `ReuseOnlyIfMuddled` – a client that sends only what it holds is taken for a
  thief only after two refreshes at once or one that broke off. Expiry, lost
  answers to other requests, restarts, logouts and new logins never do it.
* `OnlyRefreshUndoesLogout` – after a logout that arrived and before the next
  login, a write of the client is accepted in two cases only: it was under way by
  then, or a refresh was. The answer to that refresh sets the cookies again, and as
  the logout of a browser revokes nothing (finding 5) they work: the user who
  logged out is signed in. Nothing else that a logout leaves behind leads back in.
* `SuspendedOnlyRefreshes` – a suspended account gets no write, login or logout
  done but by a request that had read the account before. `/auth/refresh` reads no
  account at all, and goes on handing pairs to a suspended one; the property says
  that those are of sessions the account had, and that nothing else issues any.
* `CsrfFailsOnlyIfOvertaken` – the cookies of a client stay those of one pair, so
  an honest write fails its CSRF check only when the cookies changed after the
  page read them, or the session ended.

## Resources

`Resources.tla` is every other endpoint that writes: **one action per endpoint**
begins a request, and the steps of the handler follow.

| Code | Actions |
|---|---|
| POST register, organizations, projects, scrapers, targets | `Register`, `CreateOrganization`, `CreateProject`, `CreateScraper`, `CreateTarget` |
| PATCH | `UpdateOrganization`, `UpdateProject`, `UpdateScraper`, `UpdateTarget` |
| DELETE | `ArchiveProject`, `ArchiveScraper` (soft), `DeleteTarget` (hard) |
| `require_membership`, `require_project`, `require_scraper`, `require_target` (`deps.py` 106-120, 150-166, 185-206, 225-242) | `Load`, or `Deny` (404) |
| `require_role` and the `require_*_role` (123-147, 169-182, 209-222, 245-260), `role_satisfies` | `Authorize`, or `Deny` (403) |
| the SELECT for the name or email; `validate_target_url` | `Check`, or `Reject` (409, 422) |
| `db.flush()` of the row and of the audit row | `Flush`, or `Broken` (500: an unmapped `IntegrityError` or `StaleDataError`) |
| `db.commit()` | `Commit` |
| an exception, a lost connection or process | `Fail` |
| an administrator's SQL on memberships; DNS | `Grant`, `Rebind` |

A row is its parent and the column a constraint or a check is about: the email,
the slug, the URL. The steps read the tables as they are at that step; what the
code keeps from one step to the next is in `seen`, and only that: the
organization, the role where the code keeps it (below an organization the
membership that was loaded is used for the role; below a project, scraper or
target it is dropped and queried again), and the URL of the loaded target, which
decides whether an UPDATE is sent (`Dirty`). The row and the membership that
`Load` reads are SELECTs that the model takes together: no row ever changes its
parent, so a membership that changes between them might as well have changed
before both. (A membership granted after the deletion of a target the request
has already loaded is the one order this leaves out.)

`Flush` waits as PostgreSQL does: an INSERT for an open INSERT of the same unique
key, an UPDATE or DELETE for an open writer of the row. Then a constraint that is
violated, or an UPDATE that matches no row (SQLAlchemy raises
`StaleDataError`), ends the request; a DELETE that matches none only warns, and
is recorded a second time. The constraints are those of the two migrations.

What PATCH and DELETE do to the status and configuration of a project or scraper
is in `Lifecycle`; here they are followed for their authorization, their audit
row and their lock. The configuration a scraper is given is a value there.

DNS is `Rebind`: a host takes any of `Answers`, the answers its name servers may
give (the empty one is a lookup that fails).

History: `overtaken` (requests whose caller's role in the organization they read
it for changed after it was read),
`trusted` (hostnames that have resolved to public addresses only, at some time).

Properties:

* `NamesUnique` – of two requests that both found a name free, one gets it.
* `AuditMatchesRows` – creations and target deletions are in the log exactly when
  they happened, whatever raced, failed or was rolled back.
* `UpdatesAreApplied` – an update that lost against the deletion of its target
  fails; it is not recorded as done.
* `StoredUrlsWereSafe` – no path stores a URL whose host had not been found public,
  at some time.
* `UnauthorizedOnlyIfStale` – two reads of the membership and a walk up the tree
  never add up to the role of another organization; the only way a write is
  committed without its role is that this very role changed after it was read.
* `ImplementsCatalog` – refinement of `Catalog`.

`Catalog.tla` is the promise without overlapping requests, locks and DNS: rows are
inserted, rewritten and erased one at a time, each write together with its audit
row, only where its parent (of the kind above it) and its row are there, its name
free, and its URL one that had been found safe by then (`safe` only grows: when, is
not said); and only by a caller who was permitted to, by the role in the
organization of the resource, at one earlier moment of the same request. In
`ResourcesRefinement` the permission is there from the moment the role was read
(`Admitted`): where the organization itself is loaded that is `Load`, below it
`Authorize`. The
checks before the write and the flush are stutters, and `Commit` is the write: what
was checked several awaits before must still be true then, which is what the
unique constraints, the row locks and `StaleDataError` are for.

## Lifecycle

`Lifecycle.tla` is PATCH and DELETE of projects and of scrapers; a CONSTANT set
of each. A request is a transaction:

| Code | Action |
|---|---|
| `require_project` / `require_scraper` read the row into the session | `Patch`, `Archive` (through `Load`) |
| `apply_status_transition` raises: 409, session closed | `Conflict` |
| assignments, `apply_configuration_update`, `db.flush()` | `Flush` |
| `record_audit_event` | `RecordAuditEvent` |
| `db.commit()` | `Commit` |
| exception, lost connection, lost process | `Fail` |
| POST | `Create` (one step: the id is not known to others before the commit) |

`copy` is the row as loaded, `update` the columns of the UPDATE. SQLAlchemy
writes the attributes whose value changed (`Dirty`), so the model computes
them from `copy` and not from the row. `writer` is the row lock: `Flush` waits
until no other open transaction has updated the row, and `Commit`, `Conflict`
and `Fail` release it (`core/database.py:26-31` closes the session).
`name` stands for every column that is assigned as it comes.

`audit` is the audit action naming a status (activated, paused, archived...) that
was committed last for a resource. The order of the commits is the model's: the
rows of `audit_logs` carry a random id and the time their transaction *began*
(`models/base.py:24-26`), so a reader who sorts them by `created_at` may see two
overlapping requests the other way round.

Properties: `AuditTellsStatus` (the action committed last and the row agree after every commit),
`OnlyRequestedColumnsChange` (a rename that loaded the row before an archive
does not undo it), `IllegalOnlyIfStale` (the only way out of the transition
graph is a status that was changed after the request loaded it),
`VersionGrowsUnlessStale` (no commit lowers the version or changes the
configuration without raising it, but one of a request that had loaded another
version), `RequestsEnd` (no request waits for a row lock for ever).

## Runs

| Run | Instance | Checks | Shows |
|---|---|---|---|
| `session_store` | 1 user, 1 family, 3 pairs, 2 requests, TTLs 1 and 2 | types, `RevocationFindsEveryToken`, `RevokedFamilyStaysDead`, `AccessTokensStayShort`, `SpentTokenNeverRotates`, `UnusableForGood`, `ImplementsSession` | all interleavings of two calls on one session, with expiry and failure anywhere |
| `session_isolation` | 2 users, 2 families, 3 pairs, 1 request | `RecordsBelongToOwner`, `OnlyOwnFamilyIsRevoked` | sessions of one user, and of two, stay apart |
| `session_liveness` | 1 family, 2 pairs, 2 requests, `FairSpec` | `SpentTokensExpire` | a marked token goes away |
| `auth_flow` | 1 user, 2 pairs, 1 browser, 1 script that does not write, 2 requests | types, `HeldSessionsAreRecorded`, `RevokedSessionsAreRefused`, `ReuseOnlyIfMuddled`, `OnlyRefreshUndoesLogout`, `SuspendedOnlyRefreshes`, `CsrfFailsOnlyIfOvertaken` | two clients by turns, two requests in flight, every order of steps and answers, with expiry, failure, restart and suspension |
| `auth_logout` | 1 user, 2 pairs, 1 browser, 1 request | `LogoutRevokesFamily`, violated | finding 5 |
| `resources` | 1 user, 2 organizations, 1 project, 1 scraper, 1 target, 2 slugs, 1 host, 1 public and 1 private address, 2 requests | types, `NamesUnique`, `AuditMatchesRows`, `StoredUrlsWereSafe`, `UnauthorizedOnlyIfStale`, `UpdatesAreApplied`, `ImplementsCatalog` | all interleavings of two transactions over a whole tree, while roles and DNS change |
| `session_mark_ttl` | as `session_store` | `MarkingKeepsTTL`, violated | finding 1 |
| `session_reuse` | as `session_store` | `ReuseRevokesEntireFamily`, violated | finding 2 |
| `lifecycle` | 1 scraper, 2 names, 2 configurations, 2 requests, versions up to 2 | types, `AuditTellsStatus`, `OnlyRequestedColumnsChange`, `IllegalOnlyIfStale`, `VersionGrowsUnlessStale` | all interleavings of two transactions |
| `lifecycle_liveness` | 1 project, 2 requests, `FairSpec` | `RequestsEnd` | lock waits end |
| `lifecycle_archived` | 1 project, 2 requests | `ArchivedIsTerminal`, violated | finding 3 |
| `lifecycle_version` | 1 scraper, 2 requests | `ConfigurationChangeBumpsVersion`, violated | finding 4 |

The bounds, and why the interesting cases happen within them:

* `Reqs` is the number of calls in flight at once, not of calls: a slot is used
  again, so histories are of any length. Two suffice for every race listed
  under hazards (each is between two calls); the proofs cover any number.
* Three pairs are a login and two rotations: two rotations of the same token,
  or a rotation of a rotated token. When all are minted, `IssueAccess` is
  disabled and the request can only fail; revocation, expiry and reuse go on.
* `AccessTTL = 1`, `RefreshTTL = 2`: an access token expires before its refresh
  token, a refresh token can be marked with part of its TTL gone, and a set can
  expire between SADD and EXPIRE. 15 minutes and 30 days differ in nothing else
  the code depends on.
* One family is enough where families do not meet; `session_isolation` has two
  and one request, because a request touches one family. That requests for
  different families do not meet is the theorem `FamiliesStayApart`, for any number
  of both.
* `MaxVersion` stops configuration updates at that version (a bound on the
  counter, in the guard of `Patch`). The version is an unbounded Python int.
* Two names and two configurations: the stored value and another one.
* `lifecycle` runs on a scraper, which has every column and every branch a
  project has but the status PAUSED in place of DISABLED; the project's table is
  exercised by `lifecycle_liveness` and `lifecycle_archived`.
* `auth_flow`: two pairs are a login and a refresh of it, or a login of the
  browser and one of the script. When both are issued `CreateSession` and
  `Rotate` are disabled; `Redeem`, `Mark`, `Reuse`, logout and expiry go on. Two requests of one
  client are two tabs; all races listed are between two requests. More pairs only
  make longer chains of refreshes; the proofs cover them. The script is there for
  what a browser does not do, a logout that revokes and races refreshes; its writes
  (`Writers`) have a part of the steps of the browser's and would double the run.
  `OneClientAtATime` is a bound on states (a CONSTRAINT of the cfg): one client has
  cookies or requests, the other has neither until that one has none left, as after
  a logout or a restart. Clients share no family (`Apart`, proved), so the orders
  this leaves out are of requests that do not meet; the theorems have no such bound.
* `resources`: an id is a `uuid4` and is never given twice, so a run creates each
  resource at most once. Two organizations with two slugs make two creations race
  for one slug or succeed apart, and make a role in the wrong organization
  possible. The race of two registrations, projects or scrapers for one name has
  the same actions as that of two organizations; `NamesStayUnique` is proved for
  any number of each. `Grants` is MANAGER: the owner can be lowered to a role that
  is enough for one half of the endpoints and not for the other, or lose the
  membership. That is one boundary of `role_satisfies`, ADMIN and MANAGER; the
  theorem `WritesAuthorized` covers every role. One hostname has three answers: none (an error), the public address,
  and both, which is refused as the private address alone would be.
* Symmetry is used in safety runs only.

Fairness. `session_liveness` assumes only that time passes (weak fairness of
`Tick`): requests may stop for ever. `lifecycle_liveness` assumes that a request
that can take its next step does (the event loop runs ready tasks; a lost
process is `Fail`), and strong fairness of `Flush`: it is disabled while another
transaction holds the row, again and again, and PostgreSQL queues the waiters of
a row lock, so it cannot be passed over for ever. The other runs check safety
and assume no fairness. No fairness is put on `Start`,
`Patch`, `Archive` or `Fail`.

The runs check deadlock: there is always a request to start, a request that can
fail, or time that passes.

## Findings

1. **Marking a refresh token renews its TTL** (`core/sessions.py:184-189`). The
   comment says the key keeps its TTL; the SET gives it the full 30 days. Run
   `session_mark_ttl`. Harmless for safety (`SpentTokenNeverRotates` holds), but
   the store keeps dead tokens longer than documented.
2. **A rotation in flight survives the revocation of its family**
   (`core/sessions.py:198-203`, docstring at 61-63). Run `session_reuse`: a
   token is replayed while the rotation that spent it is issuing its pair;
   `SessionReuseDetected` is raised and the pair is usable.
3. **ARCHIVED is not terminal under concurrency** (`modules/projects/router.py:122`;
   `src/apps/api/tests/integration/test_project_scraper_security.py:153`). Run
   `lifecycle_archived`. `IllegalOnlyIfStale` shows that the stale read is the
   only cause.
4. **Two configuration updates can share a version**
   (`services/scraper_service.py:69-72`). Run `lifecycle_version`.
5. **The logout of a browser revokes nothing** (`modules/auth/router.py:132`). The
   refresh cookie is set for the path `/api/v1/auth/refresh` (46-54), so a browser
   does not send it to `/api/v1/auth/logout`, and the handler revokes only what
   that cookie names. `src/PHASE_1_REPORT.md:197` says that logout "revokes the
   current session family". Run `auth_logout`. The cookies are cleared, but both
   tokens stay usable until they expire, and a refresh that is answered after the
   logout signs the browser in again (`OnlyRefreshUndoesLogout`).

## Proofs

TLAPS checks these for every value of the constants: any number of users,
families, pairs, clients, requests, organizations, projects, scrapers, targets,
names and addresses, and all TTLs with `AccessTTL <= RefreshTTL`. Every safety
property of a passing run is among them, the two refinements included.

`SessionStore_proofs.tla`

| Theorem | Statement |
|---|---|
| `Invariance` | `Spec => []IInv` |
| `TypeCorrect` | `Spec => []TypeOK` |
| `RevocationIsComplete` | `Spec => []RevocationFindsEveryToken` |
| `RevocationIsFinal` | `Spec => []RevokedFamilyStaysDead` |
| `AccessIsShort` | `Spec => []AccessTokensStayShort` |
| `OwnerIsConstant` | `Spec => []RecordsBelongToOwner` |
| `SpentIsSpent` | `Spec => SpentTokenNeverRotates` |
| `FamiliesStayApart` | `Spec => OnlyOwnFamilyIsRevoked` |

The invariants are not inductive: whether a revocation will find a token depends
on what requests in flight are about to write. `IInv` adds what each request
knows at each `await`:

* `InFlight` – it works for a family of its user; a request about to mark a
  token holds an unused refresh record of that family;
* `Minted` – records exist only for minted pairs, spent tokens are marked;
* `OwnPair` – the pair being issued belongs to one request and no caller has it;
* `TrackedPair` – between SADD and EXPIRE the pair is in the family set;
* `Snapshot` – a revocation past SMEMBERS in a family that is not torn
  overlaps no issuance, and its snapshot has every usable token of the family;
* `DeadIsOwned` – a dead family is not a fresh id.

The argument: `Track` puts the pair in the set and `ExpireFamily` gives the set
the TTL of a whole refresh token before the pair is delivered, so
`RevocationFindsEveryToken` holds when a token becomes usable by a caller; `Tick`
keeps `ttl <= familyTTL`. A write-back of a stale record creates a *used* record,
so it makes nothing usable. `Snapshot` turns "finds every token" into "deleted
every token" at the second command of the revocation, and `RevokeFamily` makes
that permanent. Type correctness itself needs `IInv` (the locals a command reads
are there because of the request's history), which is `TypeStep`; each action
then has a lemma with one step per conjunct.

`FamiliesStayApart` has an invariant of its own, `ListedMatch`: a pair that a
family set or the snapshot of a revocation lists is minted, its live record names
that family, nobody is still writing its records, and a pending write-back of it
writes that family. `IInv` does not say this, since it speaks of what a set must
contain and not of what it must not.

`SessionRefinement_proofs.tla`

| Theorem | Statement |
|---|---|
| `Reachable` | `Spec => []SInv` |
| `StoreImplementsSession` | `Spec => ImplementsSession` |
| `UnusableStays` | `Spec => UnusableForGood` |
| `StoreKeepsPromises` | `Spec => [](Promises!ClosedIsOver /\ Promises!GrantedInOneSession)` |

`SInv` is `IInv`, `ListedMatch` and `Carried` (a request carries a token only while
it rotates it, and after the SET that marks it the token is spent). One lemma per
kind of step says what callers see of it: `OpenStep`, `RedeemStep`, `GrantStep`,
`LapseStep` and the three that use it, `RevokeStep`, `CloseStep`, `FailIsAbandon`, and
the `...Unseen` ones for stutters. The two that need the invariant are `GrantStep`,
where the token that was exchanged must be unusable by the time of the `EXPIRE`
although others may have written its record since (it is spent, and records of
spent tokens are marked), and `RevokeStep`, where the `DEL` must hit every usable
token of a session that is not torn (`Snapshot`) and of no other (`ListedMatch`).
`UnusableStays` follows from the same lemmas: only a grant makes a token usable,
and the pair it grants was not delivered before. `Promises` instantiates
`SessionSpec_proofs` with the refinement mapping, so that `StoreKeepsPromises` reads
its theorems in terms of Redis.

`SessionSpec_proofs.tla`

| Theorem | Statement |
|---|---|
| `ClosedIsFinal` | `Spec => []ClosedIsOver` |
| `OneSessionPerToken` | `Spec => []GrantedInOneSession` |
| `LapsedForGood` | a granted token that is not usable is not usable after any step |

They show that the actions of `SessionSpec` add up to what its header promises.

`Lifecycle_proofs.tla`

| Theorem | Statement |
|---|---|
| `Invariance` | `Spec => []LInv` |
| `TypeCorrect` | `Spec => []TypeOK` |
| `AuditIsFaithful` | `Spec => []AuditTellsStatus` |
| `ColumnsAreIndependent` | `Spec => OnlyRequestedColumnsChange` |
| `TransitionsAreLegal` | `Spec => IllegalOnlyIfStale` |
| `VersionsGrow` | `Spec => VersionGrowsUnlessStale` |
| `SerialRequestsKeepTheRules` | with one request at a time, `Spec => ArchivedIsTerminal /\ ConfigurationChangeBumpsVersion` |

`LInv` says what a request carries: it has a resource that exists and a copy
that is a row (`Loaded`); its UPDATE has only columns the payload names, and the
status the payload names, never DRAFT, allowed from the status of the copy and
with an audit action of its own, and with a configuration the version after that
of the copy (`UpdateFollowsPayload`); its audit row is the action of the payload
(`EntryFollowsPayload`). So each commit moves status and audit together, whatever
the row has become since it was loaded. `SerialRequestsKeepTheRules` adds that the
copy of a request that is alone is the row (`Current`): findings 3 and 4 need two
requests, and neither handler breaks its rule by itself.

`AuthFlow_proofs.tla`

| Theorem | Statement |
|---|---|
| `Invariance` | `Spec => [](AInv /\ HInv /\ Sets)` |
| `TypeCorrect` | `Spec => []TypeOK` |
| `HeldRecorded` | `Spec => []HeldSessionsAreRecorded` |
| `RevokedStayOut` | `Spec => RevokedSessionsAreRefused` |
| `ReuseNeedsMuddle` | `Spec => ReuseOnlyIfMuddled` |
| `OnlyLateRefresh` | `Spec => OnlyRefreshUndoesLogout` |
| `SuspendedStays` | `Spec => SuspendedOnlyRefreshes` |
| `CsrfCoherent` | `Spec => CsrfFailsOnlyIfOvertaken` |

`AInv` follows a pair from the moment it is issued. `Issued` and `Stages`: the
pairs anyone knows are issued, and a request at each `await` carries what that
stage needs. `Recorded`: what jars, requests and answers hold is of recorded
families, except the answer of a login before its commit, which nobody else
knows (`Undelivered`). `Apart`: two clients never hold pairs of one family;
without it one client could muddle the other. `Overlap` and `Replaced` carry
the reuse argument: in a family that is not muddled, one refresh is in flight at
most, and a used token is in a jar only while the answer that replaces it is on
its way. `HInv` adds `AccountRead` (past the reading of the account it is active or
the request overtaken, but for a refresh, which reads none), `Coherent` (the cookies
of a client are of one pair) and `SignedOut` (a client that is out, and not back
through a late refresh, holds nothing, and no request of it that is not late carries
an access token). `RevokedStayOut` needs `Sets`, which says of a family that is not
torn what the store knows of it: its set lists every token that works or is being
rotated; a revocation that has listed the set overlaps no rotation and has found all
of them; and when it is done none is left and no rotation could write another. The
steps that could break this are `Redeem` after a listing and `ListFamily` during a
rotation, and those are the two that tear. `SuspendedStays` takes a new pair back to
the request that was given it: a login that had read the account, or a rotation,
which continues the family and the owner of the pair it redeems.

`Resources_proofs.tla`

| Theorem | Statement |
|---|---|
| `Invariance` | `Spec => []RInv` |
| `TypeCorrect` | `Spec => []TypeOK` |
| `NamesStayUnique` | `Spec => []NamesUnique` |
| `AuditTellsRows` | `Spec => []AuditMatchesRows` |
| `UrlsPassed` | `Spec => []StoredUrlsWereSafe` |
| `WritesAuthorized` | `Spec => UnauthorizedOnlyIfStale` |
| `UpdatesTakeEffect` | `Spec => UpdatesAreApplied` |

`RInv` says what a transaction knows at each `await`. `JobsFit` and `Tree`: ids,
parents and keys are of the right kind, and the parent of a resource that was ever
created was created before, so `TenantOf` is an organization. `FreshIds`: no two
requests create one id. `DeletedTargets`: only targets are deleted. `Locked`: a
request past `Flush` still has what it flushed for (no row with its name, a row
for its UPDATE), because a conflicting `Flush` waits; this is what carries a
check across the commit of another transaction. `UrlsChecked`: past `Check` the
URL is public or its host trusted. `Authorized`: past `Authorize` the caller has
the role in the organization of the resource, or is overtaken. The twelve
endpoints are one case in most lemmas (`Endpoints` reduces them to a request that
begins), and `NextCases` splits the rest.

`ResourcesRefinement_proofs.tla`

| Theorem | Statement |
|---|---|
| `EndpointsImplementCatalog` | `Spec => ImplementsCatalog` |
| `ResourcesStay` | no resource moves to another organization, no deleted target returns |

Under `RInv`, `Load` and `Authorize` map to `Permit` or a stutter (the role was read
from the tables as they are at that step, of the organization that `Tree` says is
the one of the resource), `Commit` to `End` with an `Insert`, `Rewrite` or `Erase`
(`Locked` says the name is still free and the row still there, `UrlsChecked` that
the URL had been found safe, `Tree` and `DeletedTargets` that the parent still exists), or to an
`End` without a write where the row does not change, `Deny`, `Reject`, `Broken` and
`Fail` to an `End` without a write or a stutter, `Grant` to `Promote`, `Rebind` to
`Trust` or a stutter. What a commit may have become stale about is in the model of
`Catalog` for anyone to see: the permission, and nothing else.

`Catalog_proofs.tla`

| Theorem | Statement |
|---|---|
| `CatalogInvariance` | `Spec => []CInv` |
| `DeletedStaysDeleted` | `Spec => GoneForGood` |
| `TenantIsConstant` | `Spec => TenantForGood` |

`CInv`: the log tells which rows are there (`LogTells`), every row hangs on a row of
the kind above (`Tree`), two rows that a unique constraint is about differ in name or
parent (`NamesApart`). A write is an insert of what was never there, a new URL or the
erasure of a target, on which nothing hangs; so the way from a resource up to its
organization never changes (`TenantForGood`), and a role that was checked in it was
checked in the right one. `ResourcesStay` carries both action properties over to the
endpoints: `Promises` is the instance of `Catalog_proofs` under the mapping of
`ResourcesRefinement`, and `SameConstants` shows that the constants of `Resources`
are as its theorems assume (`CatalogAssumption`).

Assumptions, all named in the modules that declare the constants and evaluated by
TLC in the runs: `TTLAssumption`, `MaxVersionAssumption`, `KindsAssumption` (ids of
different kinds differ), `ClientsAssumption` (a client follows cookie paths or
does not), `PairsAssumption` (a cleared answer is no pair), `UrlsAssumption`, `AnswersAssumption`,
`GrantsAssumption`, and `NoneAssumption` (the absent value is none of the
others).

Model-checked only: the liveness properties `SpentTokensExpire` and
`RequestsEnd`, which are outside what TLAPS can do (temporal reasoning with
fairness and ENABLED).

## Not modelled

* Hashing, token generation, password hashing: library calls, taken as
  injective or fresh.
* `ip_address` and `user_agent` of a session: carried, never read.
* Worker and scheduler: `src/apps/worker` has a ping task and
  `src/apps/scheduler` a `main` that raises `NotImplementedError`.
* Configuration, logging, telemetry, health probes: no state.
* The running of migrations; the schema they leave is in `Resources`.
* Scraper configuration schemas: bounds on fields, without state. `models/scraper.py`
  (7-9) says that the engine of the scraper determines the schema; the code picks it
  by the engine the configuration names and never compares the two
  (`modules/scrapers/router.py:76`), and reads no configuration yet. Configurations
  are opaque values here, so the models cannot tell.
* What archiving a project means for its scrapers: no code looks at it, and
  nothing in the repository says what it should mean. `CreateScraper` in an
  archived project is possible in the model as it is in the code.
* Parsing of URLs and the ranges of `is_safe_ip`: the standard library's; an
  address is public or private. No code fetches a URL yet.
* Roles outside the table: the column is free text, `role_satisfies` gives an
  unknown role the rank 0, below VIEWER, and no code writes one.
* Read-only endpoints: they change no state.
* Redis persistence and failover: the code has nothing that handles it.

## Plan

Done: `SessionStore` with `SessionSpec`, `AuthFlow`, `Resources`, `Lifecycle`, their
runs, proofs of all their safety properties and of both refinements, and proofs
about `SessionSpec` and `Catalog` themselves. Left, in this order:

1. Endpoints for memberships and invitations, when the code has them: `Grant`
   becomes a request, and an organization must keep an owner.
2. The worker, when it reads configurations and fetches URLs: the engine of a
   configuration, archived parents, and the address a host has at the fetch.
