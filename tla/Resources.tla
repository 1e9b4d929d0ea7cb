------------------------------ MODULE Resources ------------------------------
(***************************************************************************)
(* Who may write what, and what the tables hold afterwards: registration,  *)
(* and the creation, update and deletion of organizations, projects,       *)
(* scrapers and targets, from the dependencies of apps/api/app/api/deps.py *)
(* to the commit.                                                          *)
(*                                                                         *)
(* The resources form a tree: a target belongs to a scraper, a scraper to  *)
(* a project, a project to an organization.  A request walks from the      *)
(* resource up to the organization, reads the caller's membership there,   *)
(* reads it again for the role, checks that a name is free or that a URL   *)
(* is safe, flushes its statements and commits.  Every step is an await    *)
(* (or two without a write between them) and one request is one            *)
(* transaction at READ COMMITTED.  PostgreSQL lets an INSERT wait for      *)
(* another open INSERT of the same unique key, an UPDATE or DELETE for     *)
(* another writer of the row.                                              *)
(*                                                                         *)
(* Callers are authenticated (AuthFlow).  PATCH and DELETE of projects and *)
(* scrapers are followed as far as their authorization, lock and audit     *)
(* row; Lifecycle has what they do to the row.  Memberships are changed by *)
(* an administrator's SQL, DNS by its owners.                              *)
(***************************************************************************)
EXTENDS Integers

CONSTANTS
    Users, Organizations, Projects, Scrapers, Targets,  \* ids, never used twice
    Emails,             \* of users
    Slugs,              \* of organizations
    Names,              \* slugs of projects and scrapers
    Hosts,              \* hostnames
    PublicAddresses,    \* is_safe_ip is true
    PrivateAddresses,   \* and false
    Answers,            \* the sets of addresses a resolver answers with
    Grants,             \* the roles an administrator gives
    Reqs,               \* request slots
    None                \* an absent value

\* Section E: OWNER > ADMIN > MANAGER > OPERATOR > ANALYST > VIEWER.
RoleRank ==
    [VIEWER |-> 1, ANALYST |-> 2, OPERATOR |-> 3, MANAGER |-> 4, ADMIN |-> 5, OWNER |-> 6]

Roles == DOMAIN RoleRank

\* Mutant: the rank below is enough.
RoleSatisfiesOneLess(actual, required) == RoleRank[actual] + 1 >= RoleRank[required]

RoleSatisfies(actual, required) == RoleRank[actual] >= RoleRank[required]

Ids   == Users \cup Organizations \cup Projects \cup Scrapers \cup Targets
Named == {Users, Organizations, Projects, Scrapers}
Addresses == PublicAddresses \cup PrivateAddresses

\* A URL is named by its host, a hostname or an address.
Urls == Hosts \cup Addresses

ASSUME KindsAssumption ==
    /\ Users \cap (Organizations \cup Projects \cup Scrapers \cup Targets) = {}
    /\ Organizations \cap (Projects \cup Scrapers \cup Targets) = {}
    /\ Projects \cap (Scrapers \cup Targets) = {}
    /\ Scrapers \cap Targets = {}
ASSUME UrlsAssumption == Hosts \cap Addresses = {} /\ PublicAddresses \cap PrivateAddresses = {}
ASSUME AnswersAssumption == Answers \subseteq SUBSET Addresses
ASSUME GrantsAssumption == Grants \subseteq Roles

Keys == Emails \cup Slugs \cup Names \cup Urls

Row == [parent : Ids \cup {None}, key : Keys]

Ops == {"create", "update", "delete"}

\* key: the name or URL of a creation, the new URL of an update, if any.
Job == [op : Ops, id : Ids, user : Users \cup {None}, parent : Ids \cup {None},
        key : Keys \cup {None}]

\* What the dependencies have loaded: the organization, the role if it is
\* kept, and the URL of a target.
Seen == [org : Organizations, role : Roles \cup {None}, key : Keys]

ASSUME NoneAssumption ==
    None \notin Ids \cup Keys \cup Roles \cup Reqs \cup Row \cup Job \cup Seen

VARIABLES
    row,        \* the committed rows, None where there is none
    role,       \* the role of a user in an organization, None without membership
    log,        \* CREATED and TARGET_DELETED, as far as the audit log has them
    dns,        \* the addresses a hostname resolves to
    trusted,    \* hostnames that have resolved to public addresses only
    pc,         \* where a request is
    job,        \* what it was asked to do
    seen,       \* what it has loaded
    overtaken   \* requests for which the role they read has changed since

tables == <<row, role, log>>
names  == <<dns, trusted>>
vars   == <<tables, names, pc, job, seen, overtaken>>

TypeOK ==
    /\ row \in [Ids -> Row \cup {None}]
    /\ role \in [Users -> [Organizations -> Roles \cup {None}]]
    /\ log \in [Ids -> SUBSET Ops]
    /\ dns \in [Hosts -> Answers]
    /\ trusted \subseteq Hosts
    /\ pc \in [Reqs -> {"idle", "begun", "loaded", "authorized", "checked", "flushed"}]
    /\ job \in [Reqs -> Job \cup {None}]
    /\ seen \in [Reqs -> Seen \cup {None}]
    /\ overtaken \subseteq Reqs

-----------------------------------------------------------------------------
(* validate_target_url.                                                    *)

\* An address is taken literally, a hostname is resolved.
Candidates(url) == IF url \in Hosts THEN dns[url] ELSE {url}

\* Mutant: one public address is enough.
ValidTargetUrlAny(url) == Candidates(url) \cap PublicAddresses # {}

ValidTargetUrl(url) ==
    /\ Candidates(url) # {}
    /\ \A ip \in Candidates(url) : ip \in PublicAddresses

Init ==
    /\ row = [x \in Ids |-> None]
    /\ role = [u \in Users |-> [o \in Organizations |-> None]]
    /\ log = [x \in Ids |-> {}]
    /\ dns \in [Hosts -> Answers]
    /\ trusted = {h \in Hosts : dns[h] # {} /\ dns[h] \subseteq PublicAddresses}
    /\ pc = [r \in Reqs |-> "idle"]
    /\ job = [r \in Reqs |-> None]
    /\ seen = [r \in Reqs |-> None]
    /\ overtaken = {}

-----------------------------------------------------------------------------
(* The requests that change something.                                     *)

\* The resource the dependencies of a request load; None for a registration
\* and for a new organization.
Gate(j) == IF j.op = "create" THEN j.parent ELSE j.id

Begin(r, j) ==
    /\ pc[r] = "idle"
    /\ j.user # None => row[j.user] # None
    /\ pc' = [pc EXCEPT ![r] = IF Gate(j) = None THEN "authorized" ELSE "begun"]
    /\ job' = [job EXCEPT ![r] = j]
    /\ UNCHANGED <<tables, names, seen, overtaken>>

\* A POST.  The id is a fresh uuid4.
Create(r, u, x, p, k) ==
    /\ p # None => log[p] # {}
    /\ log[x] = {}
    /\ \A s \in Reqs : job[s] # None => job[s].id # x
    /\ Begin(r, [op |-> "create", id |-> x, user |-> u, parent |-> p, key |-> k])

\* A PATCH of a URL, or of other columns.
Update(r, u, x, k) ==
    /\ log[x] # {}
    /\ Begin(r, [op |-> "update", id |-> x, user |-> u, parent |-> None, key |-> k])

Delete(r, u, x) ==
    /\ log[x] # {}
    /\ Begin(r, [op |-> "delete", id |-> x, user |-> u, parent |-> None, key |-> None])

\* One action per endpoint: which resource its dependencies load, the role
\* they ask for (RequiredRole) and what it writes (After).  The steps of the
\* handler follow: Load, Authorize, Check, Flush and Commit, or a way out.

\* POST /auth/register has no caller.
Register(r) ==
    \E x \in Users, k \in Emails : Create(r, None, x, None, k)

\* POST /organizations; any user.
CreateOrganization(r, u) ==
    \E x \in Organizations, k \in Slugs : Create(r, u, x, None, k)

\* PATCH /organizations/{id}: require_role(ADMIN); the name.
UpdateOrganization(r, u) == \E x \in Organizations : Update(r, u, x, None)

\* POST /organizations/{id}/projects: require_membership, then MANAGER.
CreateProject(r, u) ==
    \E x \in Projects, p \in Organizations, k \in Names : Create(r, u, x, p, k)

\* PATCH /projects/{id}: require_project_role(MANAGER)
UpdateProject(r, u) == \E x \in Projects : Update(r, u, x, None)

\* DELETE /projects/{id}: require_project_role(ADMIN); soft.
ArchiveProject(r, u) == \E x \in Projects : Delete(r, u, x)

\* POST /projects/{id}/scrapers: require_project_role(MANAGER)
CreateScraper(r, u) ==
    \E x \in Scrapers, p \in Projects, k \in Names : Create(r, u, x, p, k)

\* PATCH /scrapers/{id}: require_scraper_role(MANAGER)
UpdateScraper(r, u) == \E x \in Scrapers : Update(r, u, x, None)

\* DELETE /scrapers/{id}: require_scraper_role(ADMIN); soft.
ArchiveScraper(r, u) == \E x \in Scrapers : Delete(r, u, x)

\* POST /scrapers/{id}/targets: require_scraper_role(MANAGER)
CreateTarget(r, u) ==
    \E x \in Targets, p \in Scrapers, k \in Urls : Create(r, u, x, p, k)

\* PATCH /targets/{id}: require_target_role(MANAGER); the URL if there is one.
UpdateTarget(r, u) ==
    \E x \in Targets, k \in Urls \cup {None} : Update(r, u, x, k)

\* DELETE /targets/{id}: require_target_role(MANAGER); hard.
DeleteTarget(r, u) == \E x \in Targets : Delete(r, u, x)

\* The session is closed; what it has not committed is rolled back.
Close(r) ==
    /\ pc' = [pc EXCEPT ![r] = "idle"]
    /\ job' = [job EXCEPT ![r] = None]
    /\ seen' = [seen EXCEPT ![r] = None]
    /\ overtaken' = overtaken \ {r}

Step(r, stage) == pc' = [pc EXCEPT ![r] = stage]

-----------------------------------------------------------------------------
(* The dependencies.                                                       *)

Up(x) == row[x].parent

\* The organization at the end of the ownership chain.
TenantOf(x) ==
    CASE x \in Organizations -> x
      [] x \in Projects      -> Up(x)
      [] x \in Scrapers      -> Up(Up(x))
      [] OTHER               -> Up(Up(Up(x)))

\* require_membership, require_project, require_scraper, require_target: the
\* row is there and the caller is a member.
Visible(j) == row[Gate(j)] # None /\ role[j.user][TenantOf(Gate(j))] # None

\* Below an organization the membership that was read is used for the role;
\* below the others it is dropped and read again.
Load(r) ==
    LET g == Gate(job[r]) IN
    /\ pc[r] = "begun"
    /\ Visible(job[r])
    /\ seen' = [seen EXCEPT ![r] =
          [org  |-> TenantOf(g),
           role |-> IF g \in Organizations THEN role[job[r].user][g] ELSE None,
           key  |-> row[g].key]]
    /\ Step(r, "loaded")
    /\ UNCHANGED <<tables, names, job, overtaken>>

RequiredRole(j) ==
    IF \/ j.op = "delete" /\ j.id \notin Targets
       \/ j.op = "update" /\ j.id \in Organizations
    THEN "ADMIN" ELSE "MANAGER"

\* The role the check compares.
RoleRead(r) ==
    IF Gate(job[r]) \in Organizations THEN seen[r].role ELSE role[job[r].user][seen[r].org]

\* Mutant: any membership will do.
PermittedMember(r) == RoleRead(r) # None

\* require_role, require_project_role, require_scraper_role, require_target_role
Permitted(r) == RoleRead(r) # None /\ RoleSatisfies(RoleRead(r), RequiredRole(job[r]))

Authorize(r) ==
    /\ pc[r] = "loaded"
    /\ Permitted(r)
    /\ Step(r, "authorized")
    /\ UNCHANGED <<tables, names, job, seen, overtaken>>

\* 404 for what the caller cannot see, 403 for a role that is too low.
Deny(r) ==
    /\ \/ pc[r] = "begun" /\ ~Visible(job[r])
       \/ pc[r] = "loaded" /\ ~Permitted(r)
    /\ Close(r)
    /\ UNCHANGED <<tables, names>>

-----------------------------------------------------------------------------
(* The services.                                                           *)

\* The rows a unique constraint keeps apart: same table, parent and name.
Clash(x, a, y, b) ==
    /\ \E K \in Named : x \in K /\ y \in K
    /\ a.parent = b.parent
    /\ a.key = b.key

Taken(j) == \E y \in Ids : row[y] # None /\ Clash(j.id, j, y, row[y])

\* The SELECT for the name, or the judgement of the URL.
Acceptable(j) ==
    IF j.id \in Targets THEN j.key # None => ValidTargetUrl(j.key)
    ELSE j.op = "create" => ~Taken(j)

Check(r) ==
    /\ pc[r] = "authorized"
    /\ Acceptable(job[r])
    /\ Step(r, "checked")
    /\ UNCHANGED <<tables, names, job, seen, overtaken>>

\* 409 SlugAlreadyTaken, EmailAlreadyRegistered; 422 UnsafeURLError
Reject(r) ==
    /\ pc[r] = "authorized"
    /\ ~Acceptable(job[r])
    /\ Close(r)
    /\ UNCHANGED <<tables, names>>

\* An update that leaves the URL as it was loaded sends no UPDATE.
Dirty(r) == job[r].op = "update" /\ (job[r].key = None \/ job[r].key # seen[r].key)

\* The statement waits for what another open transaction has written.
Waits(r) ==
    \E s \in Reqs \ {r} :
        /\ pc[s] = "flushed"
        /\ IF job[r].op = "create"
           THEN job[s].op = "create" /\ Clash(job[r].id, job[r], job[s].id, job[s])
           ELSE job[r].id = job[s].id /\ (Dirty(r) \/ job[r].op = "delete")
                                      /\ (Dirty(s) \/ job[s].op = "delete")

\* Mutant: the migration has no unique constraints.
ViolatesNothing(r) == FALSE

\* Mutant: an UPDATE that matches no row passes.
ViolatesUnique(r) == job[r].op = "create" /\ Taken(job[r])

\* A unique constraint (IntegrityError), or an UPDATE that matches no row
\* (StaleDataError).  A DELETE that matches none only warns.
Violates(r) ==
    \/ job[r].op = "create" /\ Taken(job[r])
    \/ Dirty(r) /\ row[job[r].id] = None

\* The statements of the request, with its audit row.
Flush(r) ==
    /\ pc[r] = "checked"
    /\ ~Waits(r)
    /\ ~Violates(r)
    /\ Step(r, "flushed")
    /\ UNCHANGED <<tables, names, job, seen, overtaken>>

\* 500: neither error is mapped.
Broken(r) ==
    /\ pc[r] = "checked"
    /\ ~Waits(r)
    /\ Violates(r)
    /\ Close(r)
    /\ UNCHANGED <<tables, names>>

\* Mutant: a URL the payload leaves out is stored as null.
WrittenKeyless(j, old) == [parent |-> old.parent, key |-> j.key]

\* The row after an update.
Written(j, old) == IF j.key = None THEN old ELSE [old EXCEPT !.key = j.key]

\* Mutant: a delete leaves the row.
AfterSoft(r) ==
    LET j == job[r]
    IN  CASE j.op = "create" -> [parent |-> j.parent, key |-> j.key]
          [] OTHER           -> row[j.id]

After(r) ==
    LET j == job[r]
    IN  CASE j.op = "create"                      -> [parent |-> j.parent, key |-> j.key]
          [] j.op = "delete" /\ j.id \in Targets  -> None
          [] Dirty(r) /\ row[j.id] # None         -> Written(j, row[j.id])
          [] OTHER                                -> row[j.id]

\* The operation is about the existence of the row.
Existential(j) ==
    \/ j.op = "create"
    \/ j.op = "delete" /\ j.id \in Targets

\* An organization is committed with its owner.
Commit(r) ==
    LET j == job[r] IN
    /\ pc[r] = "flushed"
    /\ row' = [row EXCEPT ![j.id] = After(r)]
    /\ role' = IF j.op = "create" /\ j.id \in Organizations
               THEN [role EXCEPT ![j.user][j.id] = "OWNER"] ELSE role
    /\ log' = [log EXCEPT ![j.id] = @ \cup (IF Existential(j) THEN {j.op} ELSE {})]
    /\ Close(r)
    /\ UNCHANGED names

\* The process or the connection is lost, or a query raises.
Fail(r) ==
    /\ pc[r] # "idle"
    /\ Close(r)
    /\ UNCHANGED <<tables, names>>

-----------------------------------------------------------------------------
(* The environment.                                                        *)

\* The role a request goes by has been read.
RoleIsRead(r) ==
    \/ pc[r] \in {"authorized", "checked", "flushed"}
    \/ pc[r] = "loaded" /\ Gate(job[r]) \in Organizations

\* It is the role of user u in organization o.
ReadOf(r, u, o) == job[r].user = u /\ seen[r] # None /\ seen[r].org = o

\* An administrator grants a role, changes it or ends the membership.
Grant(u, o, g) ==
    /\ row[u] # None
    /\ row[o] # None
    /\ role[u][o] # g
    /\ role' = [role EXCEPT ![u][o] = g]
    /\ overtaken' = overtaken \cup {r \in Reqs : RoleIsRead(r) /\ ReadOf(r, u, o)}
    /\ UNCHANGED <<row, log, names, pc, job, seen>>

Rebind(h, A) ==
    /\ dns[h] # A
    /\ dns' = [dns EXCEPT ![h] = A]
    /\ trusted' = IF A # {} /\ A \subseteq PublicAddresses THEN trusted \cup {h} ELSE trusted
    /\ UNCHANGED <<tables, pc, job, seen, overtaken>>

Next ==
    \/ \E r \in Reqs : Register(r)
    \/ \E r \in Reqs, u \in Users : CreateOrganization(r, u)
    \/ \E r \in Reqs, u \in Users : UpdateOrganization(r, u)
    \/ \E r \in Reqs, u \in Users : CreateProject(r, u)
    \/ \E r \in Reqs, u \in Users : UpdateProject(r, u)
    \/ \E r \in Reqs, u \in Users : ArchiveProject(r, u)
    \/ \E r \in Reqs, u \in Users : CreateScraper(r, u)
    \/ \E r \in Reqs, u \in Users : UpdateScraper(r, u)
    \/ \E r \in Reqs, u \in Users : ArchiveScraper(r, u)
    \/ \E r \in Reqs, u \in Users : CreateTarget(r, u)
    \/ \E r \in Reqs, u \in Users : UpdateTarget(r, u)
    \/ \E r \in Reqs, u \in Users : DeleteTarget(r, u)
    \/ \E r \in Reqs : Load(r)
    \/ \E r \in Reqs : Authorize(r)
    \/ \E r \in Reqs : Deny(r)
    \/ \E r \in Reqs : Check(r)
    \/ \E r \in Reqs : Reject(r)
    \/ \E r \in Reqs : Flush(r)
    \/ \E r \in Reqs : Broken(r)
    \/ \E r \in Reqs : Commit(r)
    \/ \E r \in Reqs : Fail(r)
    \/ \E u \in Users, o \in Organizations, g \in Grants \cup {None} : Grant(u, o, g)
    \/ \E h \in Hosts, A \in Answers : Rebind(h, A)

Spec == Init /\ [][Next]_vars

-----------------------------------------------------------------------------
(* Properties.                                                             *)

\* No two users share an email, no two organizations a slug, no two projects
\* of an organization and no two scrapers of a project either: the SELECT
\* before the INSERT is stale by then, the constraint is not.
NamesUnique ==
    \A x, y \in Ids :
        x # y /\ row[x] # None /\ row[y] # None => ~Clash(x, row[x], y, row[y])

\* The roles an endpoint that asks for ADMIN or MANAGER is open to.
EntitledTo(required) ==
    IF required = "ADMIN" THEN {"ADMIN", "OWNER"} ELSE {"MANAGER", "ADMIN", "OWNER"}

\* A write is committed only in an organization where the caller has the role
\* the endpoint asks for, unless the role changed after the request read it:
\* two reads of the membership and a walk up the tree never add up to the role
\* of another organization or of an earlier request (deps.py:150-260).
UnauthorizedOnlyIfStale ==
    [][\A r \in Reqs : Commit(r) =>
          LET j == job[r]
              g == Gate(j) IN
          g # None /\ row[g] # None =>
              \/ r \in overtaken
              \/ role[j.user][TenantOf(g)] \in EntitledTo(RequiredRole(j))]_vars

\* The audit log tells which rows exist: a creation is recorded exactly when
\* its row was committed, a target is gone exactly when a deletion is recorded,
\* whatever races or fails in between (routers: flush, audit, commit).
AuditMatchesRows ==
    \A x \in Ids :
        /\ row[x] # None <=> "create" \in log[x] /\ "delete" \notin log[x]
        /\ log[x] # {} => "create" \in log[x]

\* An update that changes something is recorded only for a row that is there
\* to be changed: one that lost the race against the deletion fails
\* (targets/router.py:112-121).
UpdatesAreApplied ==
    [][\A r \in Reqs : Commit(r) /\ Dirty(r) =>
          /\ row[job[r].id] # None
          /\ job[r].key # None => row'[job[r].id].key = job[r].key]_vars

\* A stored URL is a public address or a hostname that has resolved to public
\* addresses and no other at some time: no path stores a URL that never passed
\* (target_service.py, "MUST go through validate_target_url").  That the host
\* may resolve differently later is left to the fetch.
StoredUrlsWereSafe ==
    \A t \in Targets : row[t] # None => row[t].key \in trusted \cup PublicAddresses
=============================================================================
