--------------------------- MODULE Resources_proofs ---------------------------
(***************************************************************************)
(* Proofs about Resources for any sets of ids, names, hosts and requests.  *)
(*                                                                         *)
(* A row keeps its parent and only a target disappears, so the             *)
(* organization a request has walked to stays the right one for as long as *)
(* its resource exists.  Of the open transactions that have flushed, no    *)
(* two write the same row and no two insert the same name, so what each    *)
(* has found when it flushed still holds when it commits.                  *)
(***************************************************************************)
EXTENDS Resources, TLAPS

\* The foreign key of a row.
ParentsOf(x) ==
    CASE x \in Projects -> Organizations
      [] x \in Scrapers -> Projects
      [] x \in Targets  -> Scrapers
      [] OTHER          -> {None}

\* The email, the slug, or the URL.
KeysOf(x) ==
    CASE x \in Users         -> Emails
      [] x \in Organizations -> Slugs
      [] x \in Targets       -> Urls
      [] OTHER               -> Names

Open(r) == pc[r] # "idle"

\* What a request can be asked to do, as far as the audit log allows.
Legal(j) ==
    /\ j.user = None <=> j.id \in Users
    /\ j.op = "create" =>
          /\ j.parent \in ParentsOf(j.id)
          /\ j.key \in KeysOf(j.id)
          /\ log[j.id] = {}
          /\ (j.parent # None => log[j.parent] # {})
    /\ j.op # "create" =>
          /\ log[j.id] # {}
          /\ j.id \notin Users
          /\ (j.key # None => j.id \in Targets)
    /\ j.op = "delete" => j.id \in Projects \cup Scrapers \cup Targets

JobsFit ==
    \A r \in Reqs :
        /\ pc[r] = "idle" <=> job[r] = None
        /\ Open(r) => Legal(job[r])
        /\ Open(r) /\ Gate(job[r]) # None /\ pc[r] # "begun" => seen[r] \in Seen
        /\ pc[r] \in {"begun", "loaded"} => Gate(job[r]) # None

\* The id of a creation is its own.
FreshIds ==
    \A r, s \in Reqs :
        r # s /\ Open(r) /\ Open(s) /\ job[r].op = "create" => job[s].id # job[r].id

\* Every row hangs on a row.
Tree ==
    \A x \in Ids : row[x] # None =>
        /\ row[x].parent \in ParentsOf(x)
        /\ row[x].parent # None => row[row[x].parent] # None

DeletedTargets == \A x \in Ids : "delete" \in log[x] => x \in Targets

Flushed(r) == pc[r] = "flushed"
Writes(r)  == Dirty(r) \/ job[r].op = "delete"

\* What flushed statements have found still holds: the names are free, the
\* rows are there and nobody else writes them.
Locked ==
    \A r \in Reqs : Flushed(r) =>
        /\ job[r].op = "create" => ~Taken(job[r])
        /\ Dirty(r) => row[job[r].id] # None
        /\ \A s \in Reqs \ {r} : Flushed(s) =>
              /\ ~(/\ job[r].op = "create"
                   /\ job[s].op = "create"
                   /\ Clash(job[r].id, job[r], job[s].id, job[s]))
              /\ ~(Writes(r) /\ Writes(s) /\ job[r].id = job[s].id)

Trusted(url) == url \in trusted \cup PublicAddresses

\* What resolves to public addresses is trusted, and so is what was checked.
UrlsChecked ==
    /\ \A h \in Hosts : dns[h] # {} /\ dns[h] \subseteq PublicAddresses => h \in trusted
    /\ \A r \in Reqs : /\ pc[r] \in {"checked", "flushed"}
                       /\ job[r].id \in Targets
                       /\ job[r].key # None
                       => Trusted(job[r].key)

Entitled(j) == role[j.user][TenantOf(Gate(j))] \in EntitledTo(RequiredRole(j))

\* What a request has read of the caller is of the organization of its
\* resource, and still so unless it was overtaken.
Authorized ==
    \A r \in Reqs : LET j == job[r]
                        g == Gate(j) IN
        Open(r) /\ g # None =>
            /\ log[g] # {}
            /\ row[g] # None =>
                 /\ (pc[r] # "begun" => seen[r].org = TenantOf(g))
                 /\ (pc[r] = "loaded" /\ g \in Organizations =>
                       r \in overtaken \/ seen[r].role = role[j.user][g])
                 /\ (pc[r] \in {"authorized", "checked", "flushed"} =>
                       r \in overtaken \/ Entitled(j))

RInv ==
    /\ TypeOK
    /\ JobsFit
    /\ FreshIds
    /\ Tree
    /\ AuditMatchesRows
    /\ DeletedTargets
    /\ Locked
    /\ NamesUnique
    /\ UrlsChecked
    /\ StoredUrlsWereSafe
    /\ Authorized
-----------------------------------------------------------------------------
(* The tree, the roles and the names.                                      *)

LEMMA NoneApart ==
    /\ None \notin Ids /\ None \notin Keys /\ None \notin Roles
    /\ None \notin Row /\ None \notin Job /\ None \notin Seen
    /\ None \notin Users /\ None \notin Organizations /\ None \notin Projects
    /\ None \notin Scrapers /\ None \notin Targets /\ None \notin Urls
BY NoneAssumption DEF Ids, Keys

\* Parents are of the kind above, and the keys of targets are URLs.
LEMMA Kinds ==
    ASSUME NEW x \in Ids
    PROVE  /\ x \in Users \/ x \in Organizations => ParentsOf(x) = {None}
           /\ x \in Projects => ParentsOf(x) = Organizations
           /\ x \in Scrapers => ParentsOf(x) = Projects
           /\ x \in Targets => ParentsOf(x) = Scrapers
           /\ x \in Targets => KeysOf(x) = Urls
           /\ ParentsOf(x) \subseteq Ids \cup {None}
           /\ KeysOf(x) \subseteq Keys
BY KindsAssumption DEF Ids, ParentsOf, KeysOf, Keys

\* An endpoint that begins.
Creation(r) ==
    \E u \in Users \cup {None}, x \in Ids :
        /\ u = None <=> x \in Users
        /\ \E p \in ParentsOf(x), k \in KeysOf(x) : Create(r, u, x, p, k)

Change(r) ==
    \E u \in Users, x \in Ids \ Users, k \in Urls \cup {None} :
        /\ k # None => x \in Targets
        /\ Update(r, u, x, k)

Removal(r) == \E u \in Users, x \in Projects \cup Scrapers \cup Targets : Delete(r, u, x)

Begins(r) ==
    \/ Register(r)
    \/ \E u \in Users :
          \/ CreateOrganization(r, u)
          \/ UpdateOrganization(r, u)
          \/ CreateProject(r, u)
          \/ UpdateProject(r, u)
          \/ ArchiveProject(r, u)
          \/ CreateScraper(r, u)
          \/ UpdateScraper(r, u)
          \/ ArchiveScraper(r, u)
          \/ CreateTarget(r, u)
          \/ UpdateTarget(r, u)
          \/ DeleteTarget(r, u)

LEMMA Endpoints ==
    ASSUME NEW r \in Reqs, Begins(r)
    PROVE  Creation(r) \/ Change(r) \/ Removal(r)
<1> USE NoneApart, KindsAssumption DEF Ids
<1>1. ASSUME Register(r) PROVE Creation(r)
      BY <1>1 DEF Register, Creation, ParentsOf, KeysOf
<1>2. ASSUME NEW u \in Users, CreateOrganization(r, u) PROVE Creation(r)
      BY <1>2 DEF CreateOrganization, Creation, ParentsOf, KeysOf
<1>3. ASSUME NEW u \in Users, CreateProject(r, u) PROVE Creation(r)
      BY <1>3 DEF CreateProject, Creation, ParentsOf, KeysOf
<1>4. ASSUME NEW u \in Users, CreateScraper(r, u) PROVE Creation(r)
      BY <1>4 DEF CreateScraper, Creation, ParentsOf, KeysOf
<1>5. ASSUME NEW u \in Users, CreateTarget(r, u) PROVE Creation(r)
      BY <1>5 DEF CreateTarget, Creation, ParentsOf, KeysOf
<1>6. ASSUME NEW u \in Users,
             UpdateOrganization(r, u) \/ UpdateProject(r, u) \/ UpdateScraper(r, u)
      PROVE  Change(r)
      BY <1>6 DEF UpdateOrganization, UpdateProject, UpdateScraper, Change
<1>7. ASSUME NEW u \in Users, UpdateTarget(r, u) PROVE Change(r)
      BY <1>7 DEF UpdateTarget, Change
<1>8. ASSUME NEW u \in Users,
             ArchiveProject(r, u) \/ ArchiveScraper(r, u) \/ DeleteTarget(r, u)
      PROVE  Removal(r)
      BY <1>8 DEF ArchiveProject, ArchiveScraper, DeleteTarget, Removal
<1>q. QED BY <1>1, <1>2, <1>3, <1>4, <1>5, <1>6, <1>7, <1>8 DEF Begins

LEMMA NextCases ==
    ASSUME Next
    PROVE  \/ \E r \in Reqs : Begins(r)
           \/ \E r \in Reqs : Load(r) \/ Authorize(r) \/ Check(r) \/ Flush(r)
           \/ \E r \in Reqs : Deny(r) \/ Reject(r) \/ Broken(r) \/ Fail(r)
           \/ \E r \in Reqs : Commit(r)
           \/ \E u \in Users, o \in Organizations, g \in Grants \cup {None} : Grant(u, o, g)
           \/ \E h \in Hosts, A \in Answers : Rebind(h, A)
BY DEF Next, Begins

\* Only what has a name clashes.
LEMMA ClashFacts ==
    ASSUME NEW x, NEW y, NEW a, NEW b, Clash(x, a, y, b)
    PROVE  /\ Clash(y, b, x, a)
           /\ x \notin Targets /\ y \notin Targets
           /\ a.parent = b.parent /\ a.key = b.key
BY KindsAssumption DEF Clash, Named

\* What the numbers of RoleRank come to.
LEMMA EnoughRank ==
    ASSUME NEW j, NEW actual \in Roles, RoleSatisfies(actual, RequiredRole(j))
    PROVE  actual \in EntitledTo(RequiredRole(j))
<1>1. actual \in {"VIEWER", "ANALYST", "OPERATOR", "MANAGER", "ADMIN", "OWNER"}
      BY DEF Roles, RoleRank
<1>2. RequiredRole(j) \in {"ADMIN", "MANAGER"}
      BY DEF RequiredRole
<1>3. /\ RoleRank["VIEWER"] = 1 /\ RoleRank["ANALYST"] = 2 /\ RoleRank["OPERATOR"] = 3
      /\ RoleRank["MANAGER"] = 4 /\ RoleRank["ADMIN"] = 5 /\ RoleRank["OWNER"] = 6
      BY DEF RoleRank
<1>q. QED BY <1>1, <1>2, <1>3 DEF RoleSatisfies, EntitledTo

\* Rows keep their parent and all but targets stay.
RowsStay ==
    \A x \in Ids : row[x] # None =>
        /\ row'[x] # None => row'[x].parent = row[x].parent
        /\ x \notin Targets => row'[x] # None

LEMMA TenantFound ==
    ASSUME RInv, NEW g \in Ids \ Users, row[g] # None
    PROVE  TenantOf(g) \in Organizations /\ row[TenantOf(g)] # None
<1> USE NoneApart, KindsAssumption DEF RInv, Tree, TypeOK
<1>1. CASE g \in Organizations
      BY <1>1 DEF TenantOf
<1>2. \A x \in Projects : row[x] # None => Up(x) \in Organizations /\ row[Up(x)] # None
      BY Kinds DEF Up, Ids
<1>3. \A x \in Scrapers : row[x] # None => Up(x) \in Projects /\ row[Up(x)] # None
      BY Kinds DEF Up, Ids
<1>4. \A x \in Targets : row[x] # None => Up(x) \in Scrapers /\ row[Up(x)] # None
      BY Kinds DEF Up, Ids
<1>5. CASE g \in Projects
      BY <1>5, <1>2 DEF TenantOf
<1>6. CASE g \in Scrapers
      BY <1>6, <1>2, <1>3 DEF TenantOf
<1>7. CASE g \in Targets
      BY <1>7, <1>2, <1>3, <1>4 DEF TenantOf
<1>q. QED BY <1>1, <1>5, <1>6, <1>7 DEF Ids

\* So the walk up leads to the same organization at any later time.
LEMMA TenantStays ==
    ASSUME RInv, RowsStay, NEW g \in Ids \ Users, row[g] # None, row'[g] # None
    PROVE  TenantOf(g)' = TenantOf(g)
<1> USE NoneApart, KindsAssumption DEF RInv, Tree, TypeOK, RowsStay
<1>1. CASE g \in Organizations
      BY <1>1 DEF TenantOf
<1>2. \A x \in Projects : row[x] # None => Up(x)' = Up(x)
      BY Kinds DEF Up, Ids
<1>3. \A x \in Scrapers : row[x] # None =>
          Up(x)' = Up(x) /\ Up(x) \in Projects /\ row[Up(x)] # None
      BY Kinds DEF Up, Ids
<1>4. \A x \in Targets : row[x] # None /\ row'[x] # None =>
          Up(x)' = Up(x) /\ Up(x) \in Scrapers /\ row[Up(x)] # None
      BY Kinds DEF Up, Ids
<1>5. CASE g \in Projects
      BY <1>5, <1>2 DEF TenantOf
<1>6. CASE g \in Scrapers
      BY <1>6, <1>2, <1>3 DEF TenantOf
<1>7. CASE g \in Targets
      BY <1>7, <1>2, <1>3, <1>4 DEF TenantOf
<1>q. QED BY <1>1, <1>5, <1>6, <1>7 DEF Ids

\* The resource a request loads, and whose caller it is.
LEMMA GateFacts ==
    ASSUME RInv, NEW r \in Reqs, Open(r), Gate(job[r]) # None
    PROVE  Gate(job[r]) \in Ids \ Users /\ job[r].user \in Users /\ job[r] \in Job
<1> USE NoneApart, KindsAssumption DEF RInv, TypeOK, JobsFit, Legal
<1>1. job[r] \in Job
      BY DEF Open
<1>2. CASE job[r].op = "create"
      BY <1>1, <1>2, Kinds DEF Gate, Job, Ids
<1>3. CASE job[r].op # "create"
      BY <1>1, <1>3 DEF Gate, Job
<1>q. QED BY <1>1, <1>2, <1>3
\* What it has loaded.
LEMMA LoadedSeen ==
    ASSUME RInv, NEW r \in Reqs, Load(r)
    PROVE  [org  |-> TenantOf(Gate(job[r])),
            role |-> IF Gate(job[r]) \in Organizations THEN role[job[r].user][Gate(job[r])] ELSE None,
            key  |-> row[Gate(job[r])].key] \in Seen
<1> USE DEF RInv, TypeOK
<1>1. Gate(job[r]) \in Ids \ Users /\ job[r].user \in Users
      BY GateFacts DEF Load, JobsFit, Open
<1>2. TenantOf(Gate(job[r])) \in Organizations /\ row[Gate(job[r])] \in Row
      BY <1>1, TenantFound DEF Load, Visible
<1>q. QED BY <1>1, <1>2 DEF Seen, Row

-----------------------------------------------------------------------------
(* Types.                                                                  *)

LEMMA TypeStep ==
    ASSUME RInv, Next
    PROVE  TypeOK'
<1> USE NoneApart DEF RInv, TypeOK, tables, names
<1>1. ASSUME NEW r \in Reqs, NEW u \in Users \cup {None}, NEW x \in Ids,
             NEW p \in ParentsOf(x), NEW k \in KeysOf(x), Create(r, u, x, p, k)
      PROVE  TypeOK'
  <2>1. [op |-> "create", id |-> x, user |-> u, parent |-> p, key |-> k] \in Job
        BY Kinds DEF Job, Ops
  <2>q. QED BY <1>1, <2>1 DEF Create, Begin
<1>2. ASSUME NEW r \in Reqs, NEW u \in Users, NEW x \in Ids, NEW k \in Urls \cup {None},
             Update(r, u, x, k)
      PROVE  TypeOK'
  <2>1. [op |-> "update", id |-> x, user |-> u, parent |-> None, key |-> k] \in Job
        BY DEF Job, Ops, Keys
  <2>q. QED BY <1>2, <2>1 DEF Update, Begin
<1>3. ASSUME NEW r \in Reqs, NEW u \in Users, NEW x \in Ids, Delete(r, u, x)
      PROVE  TypeOK'
  <2>1. [op |-> "delete", id |-> x, user |-> u, parent |-> None, key |-> None] \in Job
        BY DEF Job, Ops
  <2>q. QED BY <1>3, <2>1 DEF Delete, Begin
<1>4. ASSUME NEW r \in Reqs, Load(r)
      PROVE  TypeOK'
  <2>1. [org  |-> TenantOf(Gate(job[r])),
         role |-> IF Gate(job[r]) \in Organizations THEN role[job[r].user][Gate(job[r])] ELSE None,
         key  |-> row[Gate(job[r])].key] \in Seen
        BY <1>4, LoadedSeen
  <2>q. QED BY <1>4, <2>1 DEF Load, Step
<1>5. ASSUME NEW r \in Reqs, Authorize(r) \/ Check(r) \/ Flush(r)
      PROVE  TypeOK'
      BY <1>5 DEF Authorize, Check, Flush, Step
<1>6. ASSUME NEW r \in Reqs, Deny(r) \/ Reject(r) \/ Broken(r) \/ Fail(r)
      PROVE  TypeOK'
      BY <1>6 DEF Deny, Reject, Broken, Fail, Close
<1>7. ASSUME NEW r \in Reqs, Commit(r)
      PROVE  TypeOK'
  <2>1. job[r] \in Job /\ job[r] # None
        BY <1>7 DEF Commit, JobsFit, Open
  <2>2. job[r].op = "create" =>
           [parent |-> job[r].parent, key |-> job[r].key] \in Row
        BY <1>7, <2>1, Kinds DEF Commit, JobsFit, Legal, Open, Row, Job
  <2>3. row[job[r].id] # None => Written(job[r], row[job[r].id]) \in Row
        BY <2>1 DEF Written, Row, Job
  <2>4. After(r) \in Row \cup {None}
        BY <2>1, <2>2, <2>3 DEF After, Job
  <2>5. row' \in [Ids -> Row \cup {None}]
        BY <1>7, <2>1, <2>4 DEF Commit, Job
  <2>6. role' \in [Users -> [Organizations -> Roles \cup {None}]]
    <3>1. "OWNER" \in Roles
          BY DEF Roles, RoleRank
    <3>2. job[r].op = "create" /\ job[r].id \in Organizations => job[r].user \in Users
          BY <1>7, <2>1, KindsAssumption DEF Commit, JobsFit, Legal, Open, Job
    <3>q. QED BY <1>7, <3>1, <3>2 DEF Commit
  <2>7. log' \in [Ids -> SUBSET Ops]
        BY <1>7, <2>1 DEF Commit, Job
  <2>q. QED BY <1>7, <2>5, <2>6, <2>7 DEF Commit, Close
<1>8. ASSUME NEW u \in Users, NEW o \in Organizations, NEW g \in Grants \cup {None}, Grant(u, o, g)
      PROVE  TypeOK'
      BY <1>8, GrantsAssumption DEF Grant
<1>9. ASSUME NEW h \in Hosts, NEW A \in Answers, Rebind(h, A)
      PROVE  TypeOK'
      BY <1>9 DEF Rebind
<1>10. ASSUME NEW r \in Reqs, Begins(r)
       PROVE  TypeOK'
  <2>1. CASE Creation(r)
        BY <2>1, <1>1 DEF Creation
  <2>2. CASE Change(r)
        BY <2>2, <1>2 DEF Change
  <2>3. CASE Removal(r)
        BY <2>3, <1>3 DEF Removal, Ids
  <2>q. QED BY <1>10, <2>1, <2>2, <2>3, Endpoints
<1>q. QED BY <1>4, <1>5, <1>6, <1>7, <1>8, <1>9, <1>10, NextCases

-----------------------------------------------------------------------------
(* Steps that leave the tables alone.                                      *)

LEMMA TablesKept ==
    ASSUME RInv, UNCHANGED <<tables, names>>
    PROVE  /\ (Tree /\ AuditMatchesRows /\ DeletedTargets /\ NamesUnique /\ StoredUrlsWereSafe)'
           /\ \A x \in Ids : TenantOf(x)' = TenantOf(x)
           /\ \A j : Entitled(j)' = Entitled(j) /\ Taken(j)' = Taken(j)
<1>1. row' = row /\ role' = role /\ log' = log /\ trusted' = trusted
      BY DEF tables, names
<1>2. (Tree /\ AuditMatchesRows /\ DeletedTargets /\ NamesUnique /\ StoredUrlsWereSafe)'
      BY <1>1 DEF RInv, Tree, AuditMatchesRows, DeletedTargets, NamesUnique, StoredUrlsWereSafe
<1>3. \A x : TenantOf(x)' = TenantOf(x)
      BY <1>1 DEF TenantOf, Up
<1>4. \A j : Entitled(j)' = Entitled(j) /\ Taken(j)' = Taken(j)
      BY <1>1, <1>3 DEF Entitled, Taken
<1>q. QED BY <1>2, <1>3, <1>4

LEMMA BeginFacts ==
    ASSUME RInv, NEW r \in Reqs, Begins(r)
    PROVE  \E j \in Job :
              /\ Begin(r, j)
              /\ Legal(j)
              /\ j.op = "create" => \A s \in Reqs : job[s] # None => job[s].id # j.id
<1> USE NoneApart
<1>1. ASSUME NEW u \in Users \cup {None}, NEW x \in Ids, u = None <=> x \in Users,
             NEW p \in ParentsOf(x), NEW k \in KeysOf(x), Create(r, u, x, p, k)
      PROVE  \E j \in Job :
                /\ Begin(r, j)
                /\ Legal(j)
                /\ j.op = "create" => \A s \in Reqs : job[s] # None => job[s].id # j.id
  <2> DEFINE j == [op |-> "create", id |-> x, user |-> u, parent |-> p, key |-> k]
  <2>1. j \in Job
        BY Kinds DEF Job, Ops
  <2>2. Begin(r, j) /\ Legal(j) /\ \A s \in Reqs : job[s] # None => job[s].id # j.id
        BY <1>1 DEF Create, Legal
  <2>q. QED BY <2>1, <2>2
<1>2. ASSUME NEW u \in Users, NEW x \in Ids \ Users, NEW k \in Urls \cup {None},
             k # None => x \in Targets, Update(r, u, x, k)
      PROVE  \E j \in Job : Begin(r, j) /\ Legal(j) /\ j.op # "create"
  <2> DEFINE j == [op |-> "update", id |-> x, user |-> u, parent |-> None, key |-> k]
  <2>1. j \in Job
        BY DEF Job, Ops, Keys
  <2>2. Begin(r, j) /\ Legal(j) /\ j.op # "create"
        BY <1>2 DEF Update, Legal
  <2>q. QED BY <2>1, <2>2
<1>3. ASSUME NEW u \in Users, NEW x \in Projects \cup Scrapers \cup Targets, Delete(r, u, x)
      PROVE  \E j \in Job : Begin(r, j) /\ Legal(j) /\ j.op # "create"
  <2> DEFINE j == [op |-> "delete", id |-> x, user |-> u, parent |-> None, key |-> None]
  <2>1. j \in Job
        BY DEF Job, Ops, Ids
  <2>2. Begin(r, j) /\ Legal(j) /\ j.op # "create"
        BY <1>3, KindsAssumption DEF Delete, Legal
  <2>q. QED BY <2>1, <2>2
<1>4. CASE Creation(r)
      BY <1>4, <1>1 DEF Creation
<1>5. CASE Change(r)
      BY <1>5, <1>2 DEF Change
<1>6. CASE Removal(r)
      BY <1>6, <1>3 DEF Removal
<1>q. QED BY <1>4, <1>5, <1>6, Endpoints

LEMMA BeginStep ==
    ASSUME RInv, TypeOK', NEW r \in Reqs, NEW j \in Job, Begin(r, j), Legal(j),
           j.op = "create" => \A s \in Reqs : job[s] # None => job[s].id # j.id
    PROVE  RInv'
<1> USE NoneApart DEF RInv, TypeOK
<1>1. /\ pc[r] = "idle" /\ job[r] = None
      /\ pc' = [pc EXCEPT ![r] = IF Gate(j) = None THEN "authorized" ELSE "begun"]
      /\ job' = [job EXCEPT ![r] = j]
      /\ UNCHANGED <<row, role, log, dns, trusted, seen, overtaken>>
      /\ UNCHANGED <<tables, names>>
      BY DEF Begin, tables, names, JobsFit
<1>2. \A s \in Reqs \ {r} : pc'[s] = pc[s] /\ job'[s] = job[s]
      BY <1>1
<1>3. (Tree /\ AuditMatchesRows /\ DeletedTargets /\ NamesUnique /\ StoredUrlsWereSafe)'
      BY <1>1, TablesKept
<1>4. JobsFit'
  <2>1. \A i : Legal(i)' <=> Legal(i)
        BY <1>1 DEF Legal
  <2>2. \A i : Gate(i)' = Gate(i)
        BY DEF Gate
  <2>q. QED BY <1>1, <1>2, <2>1, <2>2 DEF JobsFit, Open
<1>5. FreshIds'
  <2>1. ASSUME NEW s \in Reqs \ {r}, Open(s), job[s].op = "create"
        PROVE  job[s].id # j.id
        BY <2>1 DEF JobsFit, Legal, Open
  <2>q. QED BY <1>1, <2>1 DEF FreshIds, JobsFit, Open
<1>6. Locked'
  <2>1. \A s \in Reqs : Flushed(s)' => s # r /\ Flushed(s)
        BY <1>1 DEF Flushed
  <2>2. \A s \in Reqs \ {r} : (Dirty(s)' <=> Dirty(s)) /\ (Writes(s)' <=> Writes(s))
        BY <1>1 DEF Dirty, Writes
  <2>q. QED BY <1>1, <1>2, <2>1, <2>2, TablesKept DEF Locked
<1>7. UrlsChecked'
      BY <1>1 DEF UrlsChecked, Trusted
<1>8. Authorized'
  <2>1. Gate(j) # None => log[Gate(j)] # {}
        BY DEF Legal, Gate
  <2>q. QED BY <1>1, <1>2, <2>1, TablesKept, GateFacts DEF Authorized, Open
<1>q. QED BY <1>3, <1>4, <1>5, <1>6, <1>7, <1>8

LEMMA CloseStep ==
    ASSUME RInv, TypeOK', NEW r \in Reqs, Close(r), UNCHANGED <<tables, names>>
    PROVE  RInv'
<1> USE NoneApart DEF RInv, TypeOK
<1>1. /\ pc' = [pc EXCEPT ![r] = "idle"]
      /\ job' = [job EXCEPT ![r] = None]
      /\ seen' = [seen EXCEPT ![r] = None]
      /\ overtaken' = overtaken \ {r}
      /\ UNCHANGED <<row, role, log, dns, trusted>>
      BY DEF Close, tables, names
<1>2. \A s \in Reqs \ {r} : pc'[s] = pc[s] /\ job'[s] = job[s] /\ seen'[s] = seen[s]
      BY <1>1
<1>3. (Tree /\ AuditMatchesRows /\ DeletedTargets /\ NamesUnique /\ StoredUrlsWereSafe)'
      BY TablesKept
<1>4. JobsFit'
  <2>1. \A i : Legal(i)' <=> Legal(i)
        BY <1>1 DEF Legal
  <2>q. QED BY <1>1, <1>2, <2>1 DEF JobsFit, Open
<1>5. FreshIds'
      BY <1>1 DEF FreshIds, Open
<1>6. Locked'
  <2>1. \A s \in Reqs : Flushed(s)' => s # r /\ Flushed(s)
        BY <1>1 DEF Flushed
  <2>2. \A s \in Reqs \ {r} : (Dirty(s)' <=> Dirty(s)) /\ (Writes(s)' <=> Writes(s))
        BY <1>1 DEF Dirty, Writes
  <2>q. QED BY <1>1, <1>2, <2>1, <2>2, TablesKept DEF Locked
<1>7. UrlsChecked'
      BY <1>1 DEF UrlsChecked, Trusted
<1>8. Authorized'
      BY <1>1, <1>2, TablesKept, GateFacts DEF Authorized, Open
<1>q. QED BY <1>3, <1>4, <1>5, <1>6, <1>7, <1>8

\* The next stage of a request.
LEMMA ForwardStep ==
    ASSUME RInv, TypeOK', NEW r \in Reqs, Load(r) \/ Authorize(r) \/ Check(r) \/ Flush(r)
    PROVE  RInv'
<1> USE NoneApart DEF RInv, TypeOK
<1>1. /\ UNCHANGED <<row, role, log, dns, trusted, job, overtaken>>
      /\ UNCHANGED <<tables, names>>
      /\ \A s \in Reqs \ {r} : pc'[s] = pc[s] /\ seen'[s] = seen[s]
      /\ pc[r] # "idle" /\ pc'[r] # "idle"
      BY DEF Load, Authorize, Check, Flush, Step, tables, names
<1>2. (Tree /\ AuditMatchesRows /\ DeletedTargets /\ NamesUnique /\ StoredUrlsWereSafe)'
      BY <1>1, TablesKept
<1>3. JobsFit'
  <2>1. Gate(job[r]) # None /\ pc'[r] # "begun" => seen'[r] \in Seen
    <3>1. CASE Load(r)
          BY <3>1, LoadedSeen DEF Load
    <3>2. CASE Authorize(r) \/ Check(r) \/ Flush(r)
          BY <3>2 DEF JobsFit, Open, Authorize, Check, Flush
    <3>q. QED BY <3>1, <3>2
  <2>2. pc'[r] \in {"begun", "loaded"} => Gate(job[r]) # None
        BY DEF JobsFit, Load, Authorize, Check, Flush, Step
  <2>q. QED BY <1>1, <2>1, <2>2 DEF JobsFit, Legal, Open
<1>4. FreshIds'
      BY <1>1 DEF FreshIds, Open
<1>5. \A s \in Reqs : Flushed(s) => (Dirty(s)' <=> Dirty(s)) /\ (Writes(s)' <=> Writes(s)) /\ s # r
      BY <1>1 DEF Dirty, Writes, Flushed, Load, Authorize, Check, Flush
<1>6. Locked'
  <2>1. CASE Flush(r)
    <3>1. pc' = [pc EXCEPT ![r] = "flushed"] /\ seen' = seen /\ ~Waits(r) /\ ~Violates(r)
          BY <2>1 DEF Flush, Step
    <3>2. Flushed(r)' /\ \A s \in Reqs \ {r} : Flushed(s)' <=> Flushed(s)
          BY <3>1 DEF Flushed
    <3>3. (job[r].op = "create" => ~Taken(job[r])) /\ (Dirty(r) => row[job[r].id] # None)
          BY <3>1 DEF Violates
    <3>4. ASSUME NEW s \in Reqs \ {r}, Flushed(s)
          PROVE  /\ ~(/\ job[r].op = "create"
                      /\ job[s].op = "create"
                      /\ Clash(job[r].id, job[r], job[s].id, job[s]))
                 /\ ~(/\ job[r].op = "create"
                      /\ job[s].op = "create"
                      /\ Clash(job[s].id, job[s], job[r].id, job[r]))
                 /\ ~(Writes(r) /\ Writes(s) /\ job[r].id = job[s].id)
          BY <3>1, <3>4, ClashFacts DEF Waits, Flushed, Writes, Dirty
    <3>5. \A s \in Reqs : (Dirty(s)' <=> Dirty(s)) /\ (Writes(s)' <=> Writes(s))
          BY <1>1, <3>1 DEF Dirty, Writes
    <3>q. QED BY <1>1, <3>2, <3>3, <3>4, <3>5, TablesKept DEF Locked
  <2>2. CASE Load(r) \/ Authorize(r) \/ Check(r)
    <3>1. \A s \in Reqs : Flushed(s)' <=> Flushed(s)
          BY <2>2 DEF Flushed, Load, Authorize, Check, Step
    <3>q. QED BY <1>1, <1>5, <3>1, TablesKept DEF Locked
  <2>q. QED BY <2>1, <2>2
<1>7. UrlsChecked'
  <2>1. CASE Check(r)
    <3>1. job[r].id \in Targets /\ job[r].key # None => Trusted(job[r].key)
          BY <2>1 DEF Check, Acceptable, ValidTargetUrl, Candidates, UrlsChecked, Trusted
    <3>q. QED BY <1>1, <2>1, <3>1 DEF UrlsChecked, Trusted, Check, Step
  <2>2. CASE Load(r) \/ Authorize(r) \/ Flush(r)
        BY <1>1, <2>2 DEF UrlsChecked, Trusted, Load, Authorize, Flush, Step
  <2>q. QED BY <2>1, <2>2
<1>8. Authorized'
  <2> DEFINE j == job[r]
             g == Gate(job[r])
  <2>1. ASSUME g # None
        PROVE  g \in Ids \ Users /\ j.user \in Users /\ j \in Job
        BY <2>1, <1>1, GateFacts DEF Open
  <2>2. CASE Load(r)
    <3>1. /\ g # None /\ row[g] # None /\ pc' = [pc EXCEPT ![r] = "loaded"]
          /\ seen'[r] = [org  |-> TenantOf(g),
                         role |-> IF g \in Organizations THEN role[j.user][g] ELSE None,
                         key  |-> row[g].key]
          BY <2>2 DEF Load, Visible, Step, JobsFit
    <3>q. QED BY <1>1, <2>1, <3>1, TablesKept, GateFacts DEF Authorized, Open
  <2>3. CASE Authorize(r)
    <3>1. /\ g # None /\ pc[r] = "loaded" /\ pc' = [pc EXCEPT ![r] = "authorized"] /\ seen' = seen
          BY <2>3 DEF Authorize, Step, JobsFit
    <3>2. /\ RoleRead(r) \in Roles
          /\ RoleRead(r) \in EntitledTo(RequiredRole(j))
      <4>1. seen[r] \in Seen
            BY <1>1, <3>1 DEF JobsFit, Open
      <4>2. RoleRead(r) \in Roles
            BY <2>1, <2>3, <3>1, <4>1 DEF Authorize, Permitted, RoleRead, Seen
      <4>q. QED BY <2>3, <4>2, EnoughRank DEF Authorize, Permitted
    <3>3. row[g] # None => r \in overtaken \/ Entitled(j)
      <4>1. row[g] # None =>
               /\ seen[r].org = TenantOf(g)
               /\ g \in Organizations => r \in overtaken \/ seen[r].role = role[j.user][g]
            BY <1>1, <3>1 DEF Authorized, Open
      <4>2. g \in Organizations => TenantOf(g) = g
            BY KindsAssumption DEF TenantOf
      <4>q. QED BY <3>2, <4>1, <4>2 DEF RoleRead, Entitled
    <3>q. QED BY <1>1, <2>1, <3>1, <3>3, TablesKept, GateFacts DEF Authorized, Open
  <2>4. CASE Check(r) \/ Flush(r)
    <3>1. pc[r] \in {"authorized", "checked"} /\ pc'[r] \in {"checked", "flushed"} /\ seen' = seen
          BY <2>4 DEF Check, Flush, Step
    <3>q. QED BY <1>1, <3>1, TablesKept, GateFacts DEF Authorized, Open
  <2>q. QED BY <2>2, <2>3, <2>4
<1>q. QED BY <1>2, <1>3, <1>4, <1>6, <1>7, <1>8
-----------------------------------------------------------------------------
(* The commit.                                                             *)

\* What it does to the row.
LEMMA AfterFacts ==
    ASSUME RInv, NEW r \in Reqs, Flushed(r)
    PROVE  LET j == job[r] IN
           /\ j \in Job /\ Legal(j)
           /\ j.op = "create" =>
                 /\ row[j.id] = None
                 /\ After(r) \in Row /\ After(r).parent = j.parent /\ After(r).key = j.key
           /\ j.op # "create" /\ row[j.id] = None => After(r) = None
           /\ j.op # "create" /\ j.id \notin Targets => After(r) = row[j.id]
           /\ j.op = "delete" /\ j.id \in Targets => After(r) = None
           /\ j.op = "update" /\ ~Dirty(r) => After(r) = row[j.id]
           /\ j.op = "update" /\ row[j.id] # None =>
                 /\ After(r) \in Row
                 /\ After(r).parent = row[j.id].parent
                 /\ After(r).key = row[j.id].key \/ (j.key # None /\ After(r).key = j.key)
<1> USE NoneApart DEF RInv, TypeOK
<1> DEFINE j == job[r]
<1>1. j \in Job /\ Legal(j) /\ j.op \in Ops
      BY DEF Flushed, JobsFit, Open, Job
<1>2. CASE j.op = "create"
  <2>1. [parent |-> j.parent, key |-> j.key] \in Row
        BY <1>1, <1>2, Kinds DEF Legal, Row, Job
  <2>q. QED BY <1>1, <1>2, <2>1 DEF After, AuditMatchesRows, Legal, Job
<1>3. CASE j.op = "delete"
      BY <1>1, <1>3 DEF After, Dirty
<1>4. CASE j.op = "update"
  <2>1. row[j.id] # None => Written(j, row[j.id]) \in Row
        BY <1>1 DEF Written, Row, Job
  <2>2. row[j.id] # None =>
           /\ Written(j, row[j.id]).parent = row[j.id].parent
           /\ j.key = None => Written(j, row[j.id]) = row[j.id]
           /\ j.key # None => Written(j, row[j.id]).key = j.key
        BY <1>1 DEF Written, Row, Job
  <2>3. After(r) = IF Dirty(r) /\ row[j.id] # None THEN Written(j, row[j.id]) ELSE row[j.id]
        BY <1>4 DEF After
  <2>4. row[j.id] \in Row \cup {None}
        BY <1>1 DEF Job
  <2>q. QED BY <1>1, <1>4, <2>1, <2>2, <2>3, <2>4 DEF Legal
<1>q. QED BY <1>1, <1>2, <1>3, <1>4 DEF Ops

LEMMA CommitStep ==
    ASSUME RInv, TypeOK', NEW r \in Reqs, Commit(r)
    PROVE  RInv'
<1> DEFINE j == job[r]
<1> USE NoneApart DEF RInv, TypeOK
<1>1. Flushed(r) /\ Open(r) /\ j \in Job /\ j.id \in Ids /\ Legal(j)
      BY AfterFacts DEF Commit, Flushed, Open, Job
<1>2. /\ row' = [row EXCEPT ![j.id] = After(r)]
      /\ role' = IF j.op = "create" /\ j.id \in Organizations
                 THEN [role EXCEPT ![j.user][j.id] = "OWNER"] ELSE role
      /\ log' = [log EXCEPT ![j.id] = @ \cup (IF Existential(j) THEN {j.op} ELSE {})]
      /\ pc' = [pc EXCEPT ![r] = "idle"]
      /\ job' = [job EXCEPT ![r] = None]
      /\ seen' = [seen EXCEPT ![r] = None]
      /\ overtaken' = overtaken \ {r}
      /\ dns' = dns /\ trusted' = trusted
      BY DEF Commit, Close, names
<1>3. \A x \in Ids \ {j.id} : row'[x] = row[x] /\ log'[x] = log[x]
      BY <1>2
<1>4. row'[j.id] = After(r) /\ log'[j.id] = log[j.id] \cup (IF Existential(j) THEN {j.op} ELSE {})
      BY <1>1, <1>2
<1>5. \A s \in Reqs \ {r} : pc'[s] = pc[s] /\ job'[s] = job[s] /\ seen'[s] = seen[s]
      BY <1>2
<1>6. \A s \in Reqs : (Open(s)' <=> Open(s) /\ s # r) /\ (Flushed(s)' <=> Flushed(s) /\ s # r)
      BY <1>2 DEF Open, Flushed
<1>7. RowsStay
  <2>1. row[j.id] # None =>
           /\ row'[j.id] # None => row'[j.id].parent = row[j.id].parent
           /\ j.id \notin Targets => row'[j.id] # None
        BY <1>1, <1>4, AfterFacts DEF Job, Ops
  <2>q. QED BY <1>3, <2>1 DEF RowsStay
<1>8. AuditMatchesRows'
  <2>1. /\ row'[j.id] # None <=> "create" \in log'[j.id] /\ "delete" \notin log'[j.id]
        /\ log'[j.id] # {} => "create" \in log'[j.id]
    <3>1. CASE j.op = "create"
          BY <3>1, <1>1, <1>4, AfterFacts DEF Existential, Legal
    <3>2. CASE j.op = "delete" /\ j.id \in Targets
          BY <3>2, <1>1, <1>4, AfterFacts DEF Existential, Legal, AuditMatchesRows
    <3>3. CASE ~Existential(j)
          BY <3>3, <1>1, <1>4, AfterFacts DEF Existential, AuditMatchesRows, Job, Ops
    <3>q. QED BY <3>1, <3>2, <3>3 DEF Existential
  <2>q. QED BY <1>3, <2>1 DEF AuditMatchesRows
<1>9. DeletedTargets'
      BY <1>1, <1>3, <1>4 DEF DeletedTargets, Existential, Job
<1>10. Tree'
  <2>1. ASSUME NEW x \in Ids, row'[x] # None
        PROVE  row'[x].parent \in ParentsOf(x)
    <3>1. CASE x = j.id /\ j.op = "create"
          BY <3>1, <1>1, <1>4, AfterFacts DEF Legal
    <3>2. CASE row[x] # None
          BY <3>2, <2>1, <1>7 DEF RowsStay, Tree
    <3>q. QED BY <2>1, <3>1, <3>2, <1>1, <1>3, <1>4, AfterFacts
  <2>2. ASSUME NEW x \in Ids, row'[x] # None, row'[x].parent # None
        PROVE  row[row'[x].parent] # None
    <3>1. CASE x = j.id /\ j.op = "create"
      <4>1. row'[x].parent = j.parent /\ j.parent \in Ids \ Targets /\ log[j.parent] # {}
            BY <3>1, <2>2, <1>1, <1>4, AfterFacts, Kinds, KindsAssumption DEF Legal, Ids
      <4>q. QED BY <4>1 DEF AuditMatchesRows, DeletedTargets
    <3>2. CASE row[x] # None
          BY <3>2, <2>2, <1>7 DEF RowsStay, Tree
    <3>q. QED BY <2>2, <3>1, <3>2, <1>1, <1>3, <1>4, AfterFacts
  <2>3. ASSUME NEW x \in Ids, NEW p \in ParentsOf(x) \ {None}
        PROVE  p \in Ids \ Targets
        BY <2>3, Kinds, KindsAssumption DEF Ids
  <2>q. QED BY <2>1, <2>2, <2>3, <1>7 DEF Tree, RowsStay
<1>11. NamesUnique'
  <2>1. CASE j.op = "create"
    <3>1. ASSUME NEW y \in Ids \ {j.id}, row[y] # None, Clash(j.id, After(r), y, row[y])
          PROVE  FALSE
          BY <3>1, <2>1, <1>1, AfterFacts DEF Locked, Taken, Clash
    <3>q. QED BY <2>1, <3>1, <1>1, <1>3, <1>4, ClashFacts DEF NamesUnique
  <2>2. CASE j.op # "create"
    <3>1. \A x \in Ids \ Targets : row'[x] = row[x]
          BY <2>2, <1>1, <1>3, <1>4, AfterFacts
    <3>q. QED BY <3>1, ClashFacts DEF NamesUnique
  <2>q. QED BY <2>1, <2>2
<1>12. ASSUME NEW s \in Reqs \ {r}, Open(s)
       PROVE  /\ job[s] \in Job /\ Legal(job[s])
              /\ j.op = "create" => job[s].id # j.id
              /\ job[s].op = "create" => job[s].id # j.id
       BY <1>12, <1>1 DEF JobsFit, FreshIds, Open
<1>13. Locked'
  <2>1. ASSUME NEW s \in Reqs \ {r}, Flushed(s), job[s].op = "create"
        PROVE  ~Taken(job[s])'
    <3>1. ASSUME NEW y \in Ids, row'[y] # None, Clash(job[s].id, job[s], y, row'[y])
          PROVE  FALSE
      <4>1. CASE y # j.id
            BY <4>1, <3>1, <2>1, <1>3 DEF Locked, Taken
      <4>2. CASE y = j.id /\ j.op = "create"
            BY <4>2, <3>1, <2>1, <1>1, <1>4, AfterFacts DEF Locked, Clash
      <4>3. CASE y = j.id /\ j.op # "create"
        <5>1. y \notin Targets
              BY <3>1, ClashFacts
        <5>2. row'[y] = row[y]
              BY <4>3, <5>1, <1>1, <1>4, AfterFacts
        <5>q. QED BY <5>2, <3>1, <2>1 DEF Locked, Taken
      <4>q. QED BY <4>1, <4>2, <4>3
    <3>2. job'[s] = job[s]
          BY <1>5
    <3>q. QED BY <3>1, <3>2 DEF Taken
  <2>2. \A s \in Reqs \ {r} : (Dirty(s)' <=> Dirty(s)) /\ (Writes(s)' <=> Writes(s))
        BY <1>5 DEF Dirty, Writes
  <2>3. ASSUME NEW s \in Reqs \ {r}, Flushed(s), Dirty(s)
        PROVE  row'[job[s].id] # None
    <3>1. row[job[s].id] # None /\ job[s].id \in Ids /\ Writes(s) /\ Open(s)
          BY <2>3, <1>12 DEF Locked, Writes, Flushed, Open, Job
    <3>2. CASE job[s].id # j.id
          BY <3>1, <3>2, <1>3
    <3>3. CASE job[s].id = j.id
      <4>1. ~Writes(r)
            BY <3>1, <3>3, <2>3, <1>1 DEF Locked
      <4>2. j.op = "update" /\ ~Dirty(r)
            BY <3>1, <3>3, <4>1, <1>1, <1>12 DEF Writes, Job, Ops
      <4>q. QED BY <3>1, <3>3, <4>2, <1>1, <1>4, AfterFacts
    <3>q. QED BY <3>2, <3>3
  <2>q. QED BY <2>1, <2>2, <2>3, <1>5, <1>6 DEF Locked
<1>14. UrlsChecked'
       BY <1>2 DEF UrlsChecked, Trusted
<1>15. StoredUrlsWereSafe'
  <2>1. ASSUME j.id \in Targets, row'[j.id] # None
        PROVE  row'[j.id].key \in trusted \cup PublicAddresses
    <3>1. j.key # None => j.key \in trusted \cup PublicAddresses
          BY <2>1, <1>1 DEF UrlsChecked, Trusted, Flushed
    <3>2. CASE j.op = "create"
          BY <3>1, <3>2, <2>1, <1>1, <1>4, AfterFacts, Kinds DEF Legal
    <3>3. CASE j.op = "update"
          BY <3>1, <3>3, <2>1, <1>1, <1>4, AfterFacts DEF StoredUrlsWereSafe
    <3>4. CASE j.op = "delete"
          BY <3>4, <2>1, <1>1, <1>4, AfterFacts
    <3>q. QED BY <3>2, <3>3, <3>4, <1>1 DEF Job, Ops
  <2>2. \A t \in Targets : t \in Ids
        BY DEF Ids
  <2>q. QED BY <2>1, <2>2, <1>2, <1>3 DEF StoredUrlsWereSafe
<1>16. \A x \in Ids : log[x] # {} => log'[x] # {}
       BY <1>2
<1>17. JobsFit'
  <2>1. ASSUME NEW s \in Reqs \ {r}, Open(s)
        PROVE  Legal(job[s])'
    <3>1. job[s].op = "create" => log'[job[s].id] = {}
          BY <2>1, <1>3, <1>12 DEF Legal, Job
    <3>q. QED BY <2>1, <3>1, <1>5, <1>12, <1>16, Kinds DEF Legal, Job
  <2>q. QED BY <2>1, <1>2, <1>5, <1>6 DEF JobsFit
<1>18. FreshIds'
       BY <1>5, <1>6 DEF FreshIds
<1>19. Authorized'
  <2> SUFFICES ASSUME NEW s \in Reqs \ {r}, Open(s), Gate(job[s]) # None
               PROVE  LET i == job[s]
                          g == Gate(i) IN
                      /\ log'[g] # {}
                      /\ row'[g] # None =>
                           /\ (pc[s] # "begun" => seen[s].org = TenantOf(g)')
                           /\ (pc[s] = "loaded" /\ g \in Organizations =>
                                 s \in overtaken \/ seen[s].role = role'[i.user][g])
                           /\ (pc[s] \in {"authorized", "checked", "flushed"} =>
                                 s \in overtaken \/ Entitled(i)')
      BY <1>2, <1>5, <1>6 DEF Authorized
  <2> DEFINE i == job[s]
             g == Gate(job[s])
  <2>1. g \in Ids \ Users /\ i.user \in Users /\ log[g] # {}
        BY GateFacts DEF Authorized
  <2>2. j.op = "create" => g # j.id
        BY <2>1, <1>1 DEF Legal
  <2>3. row'[g] # None => row[g] # None
        BY <2>1, <2>2, <1>1, <1>3, <1>4, AfterFacts
  <2>4. ASSUME row'[g] # None
        PROVE  /\ TenantOf(g)' = TenantOf(g)
               /\ role'[i.user][TenantOf(g)] = role[i.user][TenantOf(g)]
               /\ g \in Organizations => role'[i.user][g] = role[i.user][g]
    <3>1. \A o \in Organizations : row[o] # None => role'[i.user][o] = role[i.user][o]
      <4>1. ASSUME NEW o \in Organizations, row[o] # None
            PROVE  role'[i.user][o] = role[i.user][o]
        <5>1. j.op = "create" => o # j.id
              BY <4>1, <1>1, AfterFacts
        <5>2. j.op = "create" /\ j.id \in Organizations => j.user \in Users
              BY <1>1, KindsAssumption DEF Legal, Job
        <5>q. QED BY <5>1, <5>2, <2>1, <1>2
      <4>q. QED BY <4>1
    <3>2. TenantOf(g)' = TenantOf(g)
      <4>1. ASSUME NEW x \in Ids \ Users, x = g
            PROVE  TenantOf(x)' = TenantOf(x)
            BY <4>1, <2>3, <2>4, <1>7, TenantStays
      <4>q. QED BY <4>1, <2>1, <1>5 DEF TenantOf, Up
    <3>3. TenantOf(g) \in Organizations /\ row[TenantOf(g)] # None
          BY <2>1, <2>3, <2>4, TenantFound
    <3>q. QED BY <2>3, <2>4, <3>1, <3>2, <3>3
  <2>5. row'[g] # None => Entitled(i)' = Entitled(i)
        BY <2>4, <1>5 DEF Entitled
  <2>q. QED BY <2>1, <2>3, <2>4, <2>5, <1>16 DEF Authorized
<1>q. QED BY <1>8, <1>9, <1>10, <1>11, <1>13, <1>14, <1>15, <1>17, <1>18, <1>19
-----------------------------------------------------------------------------
(* The environment.                                                        *)

LEMMA GrantStep ==
    ASSUME RInv, TypeOK', NEW u \in Users, NEW o \in Organizations, NEW v \in Grants \cup {None},
           Grant(u, o, v)
    PROVE  RInv'
<1> USE NoneApart DEF RInv, TypeOK
<1>1. /\ role' = [role EXCEPT ![u][o] = v]
      /\ overtaken' = overtaken \cup {r \in Reqs : RoleIsRead(r) /\ ReadOf(r, u, o)}
      /\ UNCHANGED <<row, log, dns, trusted, pc, job, seen>>
      BY DEF Grant, names
<1>2. (Tree /\ AuditMatchesRows /\ DeletedTargets /\ NamesUnique /\ StoredUrlsWereSafe)'
      BY <1>1 DEF Tree, AuditMatchesRows, DeletedTargets, NamesUnique, StoredUrlsWereSafe
<1>3. (JobsFit /\ FreshIds /\ UrlsChecked)'
      BY <1>1 DEF JobsFit, FreshIds, UrlsChecked, Legal, Open, Trusted
<1>4. Locked'
      BY <1>1 DEF Locked, Flushed, Taken, Dirty, Writes
<1>5. Authorized'
  <2>1. \A x \in Ids : TenantOf(x)' = TenantOf(x)
        BY <1>1 DEF TenantOf, Up
  <2>2. \A w \in Users, p \in Organizations :
           w # u \/ p # o => role'[w][p] = role[w][p]
        BY <1>1
  <2>3. ASSUME NEW r \in Reqs, Open(r), Gate(job[r]) # None, row[Gate(job[r])] # None
        PROVE  LET i == job[r]
                   g == Gate(i) IN
               /\ TenantOf(g)' = TenantOf(g)
               /\ RoleIsRead(r) => \/ r \in overtaken'
                                   \/ /\ Entitled(i)' = Entitled(i)
                                      /\ g \in Organizations => role'[i.user][g] = role[i.user][g]
    <3> DEFINE i == job[r]
               g == Gate(job[r])
    <3>1. g \in Ids \ Users /\ i.user \in Users /\ TenantOf(g) \in Organizations
          BY <2>3, GateFacts, TenantFound
    <3>2. g \in Organizations => TenantOf(g) = g
          BY KindsAssumption DEF TenantOf
    <3>3. CASE i.user # u \/ TenantOf(g) # o
      <4>1. role'[i.user][TenantOf(g)] = role[i.user][TenantOf(g)]
            BY <3>1, <3>3, <2>2
      <4>2. TenantOf(g)' = TenantOf(g)
            BY <1>1 DEF TenantOf, Up, Gate
      <4>q. QED BY <1>1, <3>2, <4>1, <4>2 DEF Entitled
    <3>4. CASE i.user = u /\ TenantOf(g) = o
      <4>1. RoleIsRead(r) => seen[r] # None /\ seen[r].org = o
            BY <2>3, <3>4 DEF RoleIsRead, Authorized, JobsFit, Open
      <4>q. QED BY <1>1, <2>1, <3>1, <3>4, <4>1 DEF ReadOf
    <3>q. QED BY <3>3, <3>4
  <2>q. QED BY <2>3, <1>1, GateFacts DEF Authorized, RoleIsRead, Open
<1>q. QED BY <1>2, <1>3, <1>4, <1>5

LEMMA RebindStep ==
    ASSUME RInv, TypeOK', NEW h \in Hosts, NEW A \in Answers, Rebind(h, A)
    PROVE  RInv'
<1> USE NoneApart DEF RInv, TypeOK
<1>1. /\ dns' = [dns EXCEPT ![h] = A]
      /\ trusted' = IF A # {} /\ A \subseteq PublicAddresses THEN trusted \cup {h} ELSE trusted
      /\ UNCHANGED <<row, role, log, pc, job, seen, overtaken>>
      BY DEF Rebind, tables
<1>2. (Tree /\ AuditMatchesRows /\ DeletedTargets /\ NamesUnique)'
      BY <1>1 DEF Tree, AuditMatchesRows, DeletedTargets, NamesUnique
<1>3. (JobsFit /\ FreshIds)'
      BY <1>1 DEF JobsFit, FreshIds, Legal, Open
<1>4. Locked'
      BY <1>1 DEF Locked, Flushed, Taken, Dirty, Writes
<1>5. (UrlsChecked /\ StoredUrlsWereSafe)'
      BY <1>1 DEF UrlsChecked, StoredUrlsWereSafe, Trusted
<1>6. Authorized'
  <2>1. \A x \in Ids : TenantOf(x)' = TenantOf(x)
        BY <1>1 DEF TenantOf, Up
  <2>2. \A r \in Reqs : Open(r) /\ Gate(job[r]) # None =>
           Gate(job[r]) \in Ids /\ Entitled(job[r])' = Entitled(job[r])
        BY <2>1, <1>1, GateFacts DEF Entitled
  <2>q. QED BY <2>1, <2>2, <1>1 DEF Authorized, Open
<1>q. QED BY <1>2, <1>3, <1>4, <1>5, <1>6

-----------------------------------------------------------------------------
(* The theorems.                                                           *)

LEMMA Initially ==
    ASSUME Init
    PROVE  RInv
<1> USE NoneApart DEF Init
<1>1. TypeOK
      BY DEF TypeOK, Ops, Row, Job, Seen
<1>2. JobsFit /\ FreshIds /\ Locked /\ Authorized
      BY DEF JobsFit, FreshIds, Locked, Authorized, Open, Flushed
<1>3. Tree /\ AuditMatchesRows /\ DeletedTargets /\ NamesUnique
      BY DEF Tree, AuditMatchesRows, DeletedTargets, NamesUnique
<1>4. UrlsChecked /\ StoredUrlsWereSafe
      BY DEF UrlsChecked, StoredUrlsWereSafe, Trusted, Ids
<1>q. QED BY <1>1, <1>2, <1>3, <1>4 DEF RInv

LEMMA Inductive ==
    ASSUME RInv, [Next]_vars
    PROVE  RInv'
<1>1. CASE UNCHANGED vars
  <2>1. UNCHANGED <<row, role, log, dns, trusted, pc, job, seen, overtaken>>
        BY <1>1 DEF vars, tables, names
  <2>2. UNCHANGED <<tables, names>>
        BY <1>1 DEF vars
  <2>3. TypeOK'
        BY <2>1 DEF RInv, TypeOK
  <2>4. (JobsFit /\ FreshIds /\ UrlsChecked)'
        BY <2>1 DEF RInv, JobsFit, FreshIds, UrlsChecked, Legal, Open, Trusted
  <2>5. Locked'
        BY <2>1 DEF RInv, Locked, Flushed, Taken, Dirty, Writes
  <2>6. Authorized'
        BY <2>1, <2>2, TablesKept, GateFacts DEF RInv, Authorized, Open
  <2>q. QED BY <2>2, <2>3, <2>4, <2>5, <2>6, TablesKept DEF RInv
<1>2. CASE Next
  <2>1. TypeOK'
        BY <1>2, TypeStep
  <2>2. ASSUME NEW r \in Reqs, Begins(r)
        PROVE  RInv'
        BY <2>1, <2>2, BeginFacts, BeginStep
  <2>3. ASSUME NEW r \in Reqs, Load(r) \/ Authorize(r) \/ Check(r) \/ Flush(r)
        PROVE  RInv'
        BY <2>1, <2>3, ForwardStep
  <2>4. ASSUME NEW r \in Reqs, Deny(r) \/ Reject(r) \/ Broken(r) \/ Fail(r)
        PROVE  RInv'
        BY <2>1, <2>4, CloseStep DEF Deny, Reject, Broken, Fail
  <2>5. ASSUME NEW r \in Reqs, Commit(r)
        PROVE  RInv'
        BY <2>1, <2>5, CommitStep
  <2>6. ASSUME NEW u \in Users, NEW o \in Organizations, NEW g \in Grants \cup {None}, Grant(u, o, g)
        PROVE  RInv'
        BY <2>1, <2>6, GrantStep
  <2>7. ASSUME NEW h \in Hosts, NEW A \in Answers, Rebind(h, A)
        PROVE  RInv'
        BY <2>1, <2>7, RebindStep
  <2>q. QED BY <1>2, <2>2, <2>3, <2>4, <2>5, <2>6, <2>7, NextCases
<1>q. QED BY <1>1, <1>2

\* The inductive invariant.
THEOREM Invariance == Spec => []RInv
BY Initially, Inductive, PTL DEF Spec

\* Every variable keeps its type.
THEOREM TypeCorrect == Spec => []TypeOK
<1>1. RInv => TypeOK
      BY DEF RInv
<1>q. QED BY <1>1, Invariance, PTL

\* No two committed rows of a table and parent share a name, however many
\* requests have seen it free.
THEOREM NamesStayUnique == Spec => []NamesUnique
<1>1. RInv => NamesUnique
      BY DEF RInv
<1>q. QED BY <1>1, Invariance, PTL

\* The audit log and the rows agree after every commit and failure.
THEOREM AuditTellsRows == Spec => []AuditMatchesRows
<1>1. RInv => AuditMatchesRows
      BY DEF RInv
<1>q. QED BY <1>1, Invariance, PTL

\* No URL is stored that did not pass the check at some time.
THEOREM UrlsPassed == Spec => []StoredUrlsWereSafe
<1>1. RInv => StoredUrlsWereSafe
      BY DEF RInv
<1>q. QED BY <1>1, Invariance, PTL

\* A write is committed in an organization where the caller has the role asked
\* for, unless that changed after the request read it.
THEOREM WritesAuthorized == Spec => UnauthorizedOnlyIfStale
<1>1. ASSUME RInv, NEW r \in Reqs, Commit(r), Gate(job[r]) # None, row[Gate(job[r])] # None
      PROVE  \/ r \in overtaken
             \/ role[job[r].user][TenantOf(Gate(job[r]))] \in EntitledTo(RequiredRole(job[r]))
      BY <1>1 DEF RInv, Authorized, Entitled, Commit, Open
<1>2. RInv => \A r \in Reqs : Commit(r) =>
         LET j == job[r]
             g == Gate(j) IN
         g # None /\ row[g] # None =>
             \/ r \in overtaken
             \/ role[j.user][TenantOf(g)] \in EntitledTo(RequiredRole(j))
      BY <1>1
<1>q. QED BY <1>2, Invariance, PTL DEF UnauthorizedOnlyIfStale

\* An update that is recorded found its row and changed it.
THEOREM UpdatesTakeEffect == Spec => UpdatesAreApplied
<1>1. ASSUME RInv, NEW r \in Reqs, Commit(r), Dirty(r)
      PROVE  /\ row[job[r].id] # None
             /\ job[r].key # None => row'[job[r].id].key = job[r].key
  <2>1. Flushed(r) /\ job[r].op = "update" /\ row[job[r].id] # None
        BY <1>1 DEF RInv, Locked, Commit, Flushed, Dirty
  <2>2. job[r] \in Job /\ row[job[r].id] \in Row
        BY <2>1, AfterFacts, <1>1 DEF RInv, TypeOK, Job
  <2>3. After(r) = Written(job[r], row[job[r].id])
        BY <1>1, <2>1 DEF After
  <2>4. row'[job[r].id] = After(r)
        BY <1>1, <2>2 DEF Commit, RInv, TypeOK, Job
  <2>q. QED BY <2>1, <2>2, <2>3, <2>4 DEF Written, Row
<1>2. RInv => \A r \in Reqs : Commit(r) /\ Dirty(r) =>
         /\ row[job[r].id] # None
         /\ job[r].key # None => row'[job[r].id].key = job[r].key
      BY <1>1
<1>q. QED BY <1>2, Invariance, PTL DEF UpdatesAreApplied
=============================================================================
