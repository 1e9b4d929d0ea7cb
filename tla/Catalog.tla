------------------------------- MODULE Catalog -------------------------------
(***************************************************************************)
(* What the endpoints promise about the tables, without requests that      *)
(* overlap, locks or DNS: every write happens at one moment.               *)
(*                                                                         *)
(*   - it finds its parent and its row there and its name free at that     *)
(*     moment, its URL was found safe by then, at some time, and its audit *)
(*     row comes with it;                                                  *)
(*   - the caller was permitted to make it at one earlier moment of the    *)
(*     same request, by the role in the organization of the resource;      *)
(*   - nothing else changes a row, and a deleted target never returns.     *)
(*                                                                         *)
(* The permission may be stale when the write happens: a role that is      *)
(* taken away in between does not stop it.                                 *)
(***************************************************************************)
CONSTANTS
    Users, Organizations, Projects, Scrapers, Targets,
    Keys,       \* emails, slugs, names and URLs
    Urls,       \* the URLs among them
    Roles,
    Callers,    \* requests that may be open at once
    None        \* an absent value

Ids   == Users \cup Organizations \cup Projects \cup Scrapers \cup Targets
Named == {Users, Organizations, Projects, Scrapers}

Writes ==
    [op : {"create", "update", "delete"}, id : Ids, user : Users \cup {None},
     parent : Ids \cup {None}, key : Keys \cup {None}]

VARIABLES
    row,        \* the rows, None where there is none
    role,       \* the role of a user in an organization, or None
    log,        \* the audit log: creations, and deletions of targets
    safe,       \* the URLs that have been found safe
    permit      \* the write a caller may make, or None

vars == <<row, role, log, safe, permit>>

Init ==
    /\ row = [x \in Ids |-> None]
    /\ role = [u \in Users |-> [o \in Organizations |-> None]]
    /\ log = [x \in Ids |-> {}]
    /\ safe \subseteq Urls
    /\ permit = [c \in Callers |-> None]

\* The resource a permission is asked of.
Gate(w) == IF w.op = "create" THEN w.parent ELSE w.id

\* What a resource is created in.
ParentsOf(x) ==
    CASE x \in Projects -> Organizations
      [] x \in Scrapers -> Projects
      [] x \in Targets  -> Scrapers
      [] OTHER          -> {None}

Organization(x) ==
    CASE x \in Organizations -> x
      [] x \in Projects      -> row[x].parent
      [] x \in Scrapers      -> row[row[x].parent].parent
      [] OTHER               -> row[row[row[x].parent].parent].parent

\* Deleting a project or scraper and changing an organization is for
\* administrators, everything else for managers.
Entitling(w) ==
    IF \/ w.op = "delete" /\ w.id \notin Targets
       \/ w.op = "update" /\ w.id \in Organizations
    THEN {"ADMIN", "OWNER"} ELSE {"MANAGER", "ADMIN", "OWNER"}

Clash(x, a, y, b) ==
    /\ \E K \in Named : x \in K /\ y \in K
    /\ a.parent = b.parent
    /\ a.key = b.key

\* Registrations and new organizations need no permission, and a target that
\* is gone none either.
Permit(c) ==
    LET w == permit'[c]
        g == Gate(w) IN
    /\ permit[c] = None
    /\ w # None
    /\ w \in Writes
    /\ g # None /\ row[g] # None => role[w.user][Organization(g)] \in Entitling(w)
    /\ permit' = [permit EXCEPT ![c] = w]
    /\ UNCHANGED <<row, role, log, safe>>

Insert(w) ==
    /\ w.op = "create"
    /\ log[w.id] = {}
    /\ w.key # None
    /\ w.parent \in ParentsOf(w.id)
    /\ w.parent # None => row[w.parent] # None
    /\ \A y \in Ids : row[y] # None => ~Clash(w.id, w, y, row[y])
    /\ w.id \in Targets => w.key \in safe
    /\ row' = [row EXCEPT ![w.id] = [parent |-> w.parent, key |-> w.key]]
    /\ role' = IF w.id \in Organizations
               THEN [role EXCEPT ![w.user][w.id] = "OWNER"] ELSE role
    /\ log' = [log EXCEPT ![w.id] = {"create"}]
    /\ UNCHANGED safe

\* A new URL of a target.
Rewrite(w) ==
    /\ w.op = "update"
    /\ w.id \in Targets
    /\ row[w.id] # None
    /\ w.key \in safe
    /\ row' = [row EXCEPT ![w.id].key = w.key]
    /\ UNCHANGED <<role, log, safe>>

\* Of a target, which another deletion may have erased before.
Erase(w) ==
    /\ w.op = "delete"
    /\ w.id \in Targets
    /\ log[w.id] # {}
    /\ row' = [row EXCEPT ![w.id] = None]
    /\ log' = [log EXCEPT ![w.id] = @ \cup {"delete"}]
    /\ UNCHANGED <<role, safe>>

\* The request of c ends with its write, or without any: it is refused, fails
\* or changes no row.
End(c) ==
    /\ permit[c] # None
    /\ permit' = [permit EXCEPT ![c] = None]
    /\ \/ Insert(permit[c])
       \/ Rewrite(permit[c])
       \/ Erase(permit[c])
       \/ UNCHANGED <<row, role, log, safe>>

\* An administrator changes a membership.
Promote(u, o) ==
    /\ role'[u][o] # role[u][o]
    /\ role'[u][o] \in Roles \cup {None}
    /\ row[u] # None
    /\ row[o] # None
    /\ role' = [role EXCEPT ![u][o] = role'[u][o]]
    /\ UNCHANGED <<row, log, safe, permit>>

\* URLs are found safe, and may turn unsafe unseen.
Trust ==
    /\ safe' # safe
    /\ safe \subseteq safe' /\ safe' \subseteq Urls
    /\ UNCHANGED <<row, role, log, permit>>

Next ==
    \/ \E c \in Callers : Permit(c) \/ End(c)
    \/ \E u \in Users, o \in Organizations : Promote(u, o)
    \/ Trust

Spec == Init /\ [][Next]_vars
=============================================================================
