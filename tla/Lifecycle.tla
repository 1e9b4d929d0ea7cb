------------------------------ MODULE Lifecycle ------------------------------
(***************************************************************************)
(* Projects and scrapers after their creation: PATCH and DELETE            *)
(* (apps/api/app/modules/projects/router.py, .../scrapers/router.py) over  *)
(* PostgreSQL at READ COMMITTED.                                           *)
(*                                                                         *)
(* A request loads the row into its SQLAlchemy session while it authorizes *)
(* (require_project, require_scraper), awaits several times, changes the   *)
(* object in memory, flushes an UPDATE of the attributes that changed,     *)
(* flushes an audit row and commits.  The UPDATE carries the values        *)
(* computed from what was loaded and no condition on what the row holds by *)
(* then; it waits for the row lock of another open transaction.  Nothing   *)
(* of a transaction is visible before its COMMIT.                          *)
(*                                                                         *)
(* `name` stands for the columns that are assigned as they come: name,     *)
(* description, credential_reference.  Who may call is not this module's   *)
(* concern: every request here passed its role check.                      *)
(***************************************************************************)
EXTENDS Integers

CONSTANTS
    Projects,       \* project ids
    Scrapers,       \* scraper ids
    Names,          \* values of the plain columns
    Configs,        \* scraper configurations
    Reqs,           \* request slots
    MaxVersion,     \* bound: no configuration update starts from this version
    None            \* an absent value

ASSUME KindsAssumption == Projects \cap Scrapers = {}
ASSUME MaxVersionAssumption == MaxVersion \in Nat

Resources == Projects \cup Scrapers

Status == {"DRAFT", "ACTIVE", "PAUSED", "DISABLED", "ARCHIVED"}

\* PROJECT_STATUS_TRANSITIONS
ProjectTransitions ==
    [s \in Status |->
        CASE s = "DRAFT"  -> {"ACTIVE", "ARCHIVED"}
          [] s = "ACTIVE" -> {"PAUSED", "ARCHIVED"}
          [] s = "PAUSED" -> {"ACTIVE", "ARCHIVED"}
          [] OTHER        -> {}]

\* SCRAPER_STATUS_TRANSITIONS
ScraperTransitions ==
    [s \in Status |->
        CASE s = "DRAFT"    -> {"ACTIVE", "ARCHIVED"}
          [] s = "ACTIVE"   -> {"DISABLED", "ARCHIVED"}
          [] s = "DISABLED" -> {"ACTIVE", "ARCHIVED"}
          [] OTHER          -> {}]

Allowed(x, s) ==
    IF x \in Projects THEN ProjectTransitions[s] ELSE ScraperTransitions[s]

\* The values the status field of the request schema accepts.
StatusOf(x) ==
    IF x \in Projects THEN Status \ {"DISABLED"} ELSE Status \ {"PAUSED"}

\* audit_event_for_transition
AuditEvent(x, s) ==
    IF x \in Projects
    THEN CASE s = "ACTIVE"   -> "PROJECT_ACTIVATED"
           [] s = "PAUSED"   -> "PROJECT_PAUSED"
           [] s = "ARCHIVED" -> "PROJECT_ARCHIVED"
           [] OTHER          -> "PROJECT_UPDATED"
    ELSE CASE s = "ACTIVE"   -> "SCRAPER_ENABLED"
           [] s = "DISABLED" -> "SCRAPER_DISABLED"
           [] s = "ARCHIVED" -> "SCRAPER_ARCHIVED"
           [] OTHER          -> "SCRAPER_UPDATED"

StatusEvents ==
    {"PROJECT_ACTIVATED", "PROJECT_PAUSED", "PROJECT_ARCHIVED",
     "SCRAPER_ENABLED", "SCRAPER_DISABLED", "SCRAPER_ARCHIVED"}

\* A row, and what a request or an UPDATE sets of it: None is a column (or a
\* field of the payload) that is not set.  A project has no configuration: its
\* config is None and its version stays 1.
Row    == [status : Status, name : Names, config : Configs \cup {None}, version : Nat]
Change == [status : Status \cup {None}, name : Names \cup {None},
           config : Configs \cup {None}, version : Nat \cup {None}]

ASSUME NoneAssumption ==
    None \notin Status \cup Names \cup Configs \cup Reqs \cup Nat \cup Resources \cup Row

NoChange == [status |-> None, name |-> None, config |-> None, version |-> None]

VARIABLES
    row,        \* the committed rows, None before the resource is created
    writer,     \* the open transaction that has updated the row, or None
    audit,      \* the audit action naming a status of a resource that was committed last
    pc,         \* where a request is
    target,     \* the resource it is about
    payload,    \* what it asks for
    copy,       \* the row as its session loaded it
    update,     \* the columns its UPDATE has written
    entry       \* the action of the audit row it has flushed

tables == <<row, writer, audit>>
locals == <<pc, target, payload, copy, update, entry>>
vars   == <<tables, locals>>

TypeOK ==
    /\ row \in [Resources -> Row \cup {None}]
    /\ writer \in [Resources -> Reqs \cup {None}]
    /\ audit \in [Resources -> StatusEvents \cup {None}]
    /\ pc \in [Reqs -> {"idle", "loaded", "flushed", "audited"}]
    /\ target \in [Reqs -> Resources \cup {None}]
    /\ payload \in [Reqs -> Change]
    /\ copy \in [Reqs -> Row \cup {None}]
    /\ update \in [Reqs -> Change]
    /\ entry \in [Reqs -> StatusEvents \cup
          {"PROJECT_UPDATED", "SCRAPER_UPDATED", "SCRAPER_CONFIGURATION_CHANGED", None}]

Init ==
    /\ row = [x \in Resources |-> None]
    /\ writer = [x \in Resources |-> None]
    /\ audit = [x \in Resources |-> None]
    /\ pc = [r \in Reqs |-> "idle"]
    /\ target = [r \in Reqs |-> None]
    /\ payload = [r \in Reqs |-> NoChange]
    /\ copy = [r \in Reqs |-> None]
    /\ update = [r \in Reqs |-> NoChange]
    /\ entry = [r \in Reqs |-> None]

-----------------------------------------------------------------------------
\* INSERT and COMMIT.  Nobody knows the id before: a creation waits for no row
\* and is seen as a whole.
Create(x, n, c) ==
    /\ row[x] = None
    /\ c \in Configs <=> x \in Scrapers
    /\ row' = [row EXCEPT ![x] =
                 [status |-> "DRAFT", name |-> n, config |-> c, version |-> 1]]
    /\ UNCHANGED <<writer, audit, locals>>

-----------------------------------------------------------------------------
(* The body of a request.                                                  *)

\* Mutant: the version is left as it was.
BumpedNot(v) == v

\* apply_configuration_update
Bumped(v) == v + 1

\* The object in memory once the payload has been assigned to it.
Assigned(c, p) ==
    [status  |-> IF p.status = None THEN c.status ELSE p.status,
     name    |-> IF p.name = None THEN c.name ELSE p.name,
     config  |-> IF p.config = None THEN c.config ELSE p.config,
     version |-> IF p.config = None THEN c.version ELSE Bumped(c.version)]

\* Mutant: the UPDATE writes every column.
DirtyAll(c, n) == n

\* The columns of the UPDATE: the attributes whose value differs from the
\* loaded one.
Dirty(c, n) ==
    [status  |-> IF n.status = c.status THEN None ELSE n.status,
     name    |-> IF n.name = c.name THEN None ELSE n.name,
     config  |-> IF n.config = c.config THEN None ELSE n.config,
     version |-> IF n.version = c.version THEN None ELSE n.version]

\* Mutant: the row becomes the columns of the UPDATE.
UpdatedReplaced(c, u) == u

\* The row an UPDATE leaves.
Updated(c, u) ==
    [status  |-> IF u.status = None THEN c.status ELSE u.status,
     name    |-> IF u.name = None THEN c.name ELSE u.name,
     config  |-> IF u.config = None THEN c.config ELSE u.config,
     version |-> IF u.version = None THEN c.version ELSE u.version]

\* Mutant: the status is assigned like a plain column.
LegalAlways(x, c, p) == TRUE

\* apply_status_transition raises otherwise.
Legal(x, c, p) == p.status = None \/ p.status \in Allowed(x, c.status)

\* Mutant: a configuration names the event before a status does.
AuditActionConfig(x, p) ==
    IF p.config # None THEN "SCRAPER_CONFIGURATION_CHANGED"
    ELSE IF p.status # None THEN AuditEvent(x, p.status)
    ELSE IF x \in Projects THEN "PROJECT_UPDATED" ELSE "SCRAPER_UPDATED"

\* A status names the event; else a configuration; else the resource.
AuditAction(x, p) ==
    IF p.status # None THEN AuditEvent(x, p.status)
    ELSE IF p.config # None THEN "SCRAPER_CONFIGURATION_CHANGED"
    ELSE IF x \in Projects THEN "PROJECT_UPDATED" ELSE "SCRAPER_UPDATED"

-----------------------------------------------------------------------------
Load(r, x, p) ==
    /\ pc[r] = "idle"
    /\ row[x] # None
    /\ pc' = [pc EXCEPT ![r] = "loaded"]
    /\ target' = [target EXCEPT ![r] = x]
    /\ payload' = [payload EXCEPT ![r] = p]
    /\ copy' = [copy EXCEPT ![r] = row[x]]
    /\ UNCHANGED <<tables, update, entry>>

\* PATCH
Patch(r, x, p) ==
    /\ p.status \in StatusOf(x) \cup {None}
    /\ p.version = None
    /\ p.config # None => x \in Scrapers /\ row[x] # None /\ row[x].version < MaxVersion
    /\ Load(r, x, p)

\* DELETE is a soft delete.
Archive(r, x) == Load(r, x, [NoChange EXCEPT !.status = "ARCHIVED"])

\* The session is closed and what it has not committed is rolled back.
Close(r) ==
    /\ pc' = [pc EXCEPT ![r] = "idle"]
    /\ target' = [target EXCEPT ![r] = None]
    /\ payload' = [payload EXCEPT ![r] = NoChange]
    /\ copy' = [copy EXCEPT ![r] = None]
    /\ update' = [update EXCEPT ![r] = NoChange]
    /\ entry' = [entry EXCEPT ![r] = None]

\* Mutant: the session stays open.
UnlockedNever(r) == writer

\* Its row locks with it.
Unlocked(r) == [x \in Resources |-> IF writer[x] = r THEN None ELSE writer[x]]

\* 409: the transition is not legal for the loaded status.
Conflict(r) ==
    /\ pc[r] = "loaded"
    /\ ~Legal(target[r], copy[r], payload[r])
    /\ Close(r)
    /\ UNCHANGED tables

\* Assignments and flush.  Without a changed attribute no UPDATE is sent.
Flush(r) ==
    /\ pc[r] = "loaded"
    /\ Legal(target[r], copy[r], payload[r])
    /\ LET u == Dirty(copy[r], Assigned(copy[r], payload[r]))
       IN  /\ update' = [update EXCEPT ![r] = u]
           /\ IF u = NoChange
              THEN UNCHANGED writer
              ELSE /\ writer[target[r]] = None
                   /\ writer' = [writer EXCEPT ![target[r]] = r]
    /\ pc' = [pc EXCEPT ![r] = "flushed"]
    /\ UNCHANGED <<row, audit, target, payload, copy, entry>>

RecordAuditEvent(r) ==
    /\ pc[r] = "flushed"
    /\ entry' = [entry EXCEPT ![r] = AuditAction(target[r], payload[r])]
    /\ pc' = [pc EXCEPT ![r] = "audited"]
    /\ UNCHANGED <<tables, target, payload, copy, update>>

\* audit follows the order of the commits.  The stored rows have the start time
\* of their transactions (models/base.py:24-26), which is another order.
Commit(r) ==
    /\ pc[r] = "audited"
    /\ row' = [row EXCEPT ![target[r]] = Updated(@, update[r])]
    /\ audit' = [audit EXCEPT ![target[r]] =
                   IF entry[r] \in StatusEvents THEN entry[r] ELSE @]
    /\ writer' = Unlocked(r)
    /\ Close(r)

\* The process or the connection is lost, or a query raises.
Fail(r) ==
    /\ pc[r] # "idle"
    /\ writer' = Unlocked(r)
    /\ Close(r)
    /\ UNCHANGED <<row, audit>>

Next ==
    \/ \E x \in Resources, n \in Names, c \in Configs \cup {None} : Create(x, n, c)
    \/ \E r \in Reqs, x \in Resources :
          \E s \in Status \cup {None}, n \in Names \cup {None}, c \in Configs \cup {None} :
             Patch(r, x, [status |-> s, name |-> n, config |-> c, version |-> None])
    \/ \E r \in Reqs, x \in Resources : Archive(r, x)
    \/ \E r \in Reqs : Conflict(r)
    \/ \E r \in Reqs : Flush(r)
    \/ \E r \in Reqs : RecordAuditEvent(r)
    \/ \E r \in Reqs : Commit(r)
    \/ \E r \in Reqs : Fail(r)

Spec == Init /\ [][Next]_vars

\* A request runs on, and PostgreSQL hands a row lock to its waiters in turn.
FairSpec ==
    /\ Spec
    /\ \A r \in Reqs : WF_vars(Conflict(r) \/ RecordAuditEvent(r) \/ Commit(r))
    /\ \A r \in Reqs : SF_vars(Flush(r))

-----------------------------------------------------------------------------
(* Properties.                                                             *)

\* Of the audit rows that name a status, the one committed last names the status
\* the row has: UPDATE, audit row and lock release are one transaction, so no
\* interleaving or failure separates them (routers: flush, audit, commit).
AuditTellsStatus ==
    \A x \in Resources :
        IF row[x] = None \/ row[x].status = "DRAFT"
        THEN audit[x] = None
        ELSE audit[x] = AuditEvent(x, row[x].status)

\* A commit changes no column its request did not ask to change, even when the
\* row changed after it was loaded: renaming a project never undoes a
\* concurrent archive, and a new configuration never re-enables a scraper.
OnlyRequestedColumnsChange ==
    [][\A r \in Reqs : Commit(r) =>
          LET x == target[r] IN
          /\ payload[r].status = None => row'[x].status = row[x].status
          /\ payload[r].name = None => row'[x].name = row[x].name
          /\ payload[r].config = None =>
                /\ row'[x].config = row[x].config
                /\ row'[x].version = row[x].version]_vars

\* A step leaves the graph of transitions only when the request loaded a
\* status that was changed under it: a request that starts after an archive
\* commits never undoes it.
IllegalOnlyIfStale ==
    [][\A x \in Resources :
          row[x] # None /\ row'[x].status # row[x].status
              => \/ row'[x].status \in Allowed(x, row[x].status)
                 \/ \E r \in Reqs : Commit(r) /\ target[r] = x
                                     /\ copy[r].status # row[x].status]_vars

\* A commit whose request loaded the version the row still has raises it when
\* it changes the configuration, and none lowers it: a version is repeated or
\* goes back only by a request that loaded another one
\* (apply_configuration_update).
VersionGrowsUnlessStale ==
    [][\A x \in Scrapers :
          row[x] # None
              => \/ /\ row'[x].version >= row[x].version
                    /\ row'[x].config # row[x].config => row'[x].version > row[x].version
                 \/ \E r \in Reqs : Commit(r) /\ target[r] = x
                                     /\ copy[r].version # row[x].version]_vars

\* Every request ends, those waiting for a row lock too.
RequestsEnd == \A r \in Reqs : pc[r] # "idle" ~> pc[r] = "idle"

-----------------------------------------------------------------------------
(* What the repository says and concurrent requests refute.                *)

\* tests/integration/test_project_scraper_security.py:153, "archived is
\* terminal", and the transition tables.
ArchivedIsTerminal ==
    [][\A x \in Resources :
          row[x] # None /\ row[x].status = "ARCHIVED" => row'[x].status = "ARCHIVED"]_vars

\* services/scraper_service.py:69-70: "Any configuration change bumps
\* `version`".  A commit that changes the configuration raises the version.
ConfigurationChangeBumpsVersion ==
    [][\A x \in Scrapers :
          row[x] # None /\ row'[x].config # row[x].config
              => row'[x].version > row[x].version]_vars
=============================================================================
