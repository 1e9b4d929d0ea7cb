---------------------- MODULE ResourcesRefinement_proofs ----------------------
(***************************************************************************)
(* The endpoints implement Catalog, for any sets of ids, names, hosts and  *)
(* requests.                                                               *)
(*                                                                         *)
(* A request is seen twice: when the role its caller needs has been read,  *)
(* and when it commits or gives up.  What it has found out by its commit   *)
(* still holds then: that is what RInv says of flushed requests.           *)
(***************************************************************************)
EXTENDS ResourcesRefinement, Resources_proofs

safe   == trusted \cup PublicAddresses
permit == [r \in Reqs |-> IF Admitted(r) THEN job[r] ELSE None]

\* Catalog says the same of the resources.
LEMMA SameOperators ==
    /\ Abstract!Ids = Ids
    /\ Abstract!Writes = Job
    /\ \A j \in Job : Abstract!Gate(j) = Gate(j)
    /\ \A j : Abstract!Entitling(j) = EntitledTo(RequiredRole(j))
    /\ \A x : Abstract!ParentsOf(x) = ParentsOf(x)
    /\ \A x : Abstract!Organization(x) = TenantOf(x)
    /\ \A x, a, y, b : Abstract!Clash(x, a, y, b) <=> Clash(x, a, y, b)
BY DEF Abstract!Ids, Ids, Abstract!Writes, Job, Ops, Abstract!Gate, Gate, Abstract!Entitling,
   EntitledTo, RequiredRole, Abstract!ParentsOf, ParentsOf, Abstract!Organization, TenantOf, Up, Abstract!Clash, Clash,
   Abstract!Named, Named

\* The variables of Catalog, under the names used here.
seenVars == <<row, role, log, safe, permit>>

LEMMA Unnoticed ==
    ASSUME UNCHANGED seenVars
    PROVE  UNCHANGED Abstract!vars
BY DEF seenVars, Abstract!vars, safe, permit

-----------------------------------------------------------------------------
(* Permissions.                                                            *)

\* A step of r changes the permission of r alone.
LEMMA PermitOf ==
    ASSUME TypeOK, NEW r \in Reqs,
           \A s \in Reqs \ {r} : pc'[s] = pc[s] /\ job'[s] = job[s] /\ seen'[s] = seen[s]
    PROVE  /\ permit[r] = IF Admitted(r) THEN job[r] ELSE None
           /\ permit' = [permit EXCEPT ![r] = IF Admitted(r)' THEN job'[r] ELSE None]
<1>1. \A s \in Reqs \ {r} : Admitted(s)' <=> Admitted(s)
      BY DEF Admitted, Permitted, RoleRead, Gate
<1>q. QED BY <1>1 DEF permit

\* A request that closes has no permission any more.
LEMMA PermitEnds ==
    ASSUME RInv, NEW r \in Reqs, Close(r)
    PROVE  /\ Admitted(r) => permit[r] = job[r] /\ job[r] # None
           /\ permit' = [permit EXCEPT ![r] = None]
           /\ ~Admitted(r) => permit' = permit
<1> USE DEF RInv, TypeOK
<1>1. \A s \in Reqs \ {r} : pc'[s] = pc[s] /\ job'[s] = job[s] /\ seen'[s] = seen[s]
      BY DEF Close
<1>2. ~Admitted(r)' /\ job'[r] = None
      BY DEF Close, Admitted
<1>3. permit[r] = (IF Admitted(r) THEN job[r] ELSE None) /\ permit' = [permit EXCEPT ![r] = None]
      BY <1>1, <1>2, PermitOf
<1>4. Admitted(r) => job[r] # None
      BY DEF Admitted, JobsFit
<1>5. permit \in [Reqs -> Job \cup {None}]
      BY DEF permit
<1>q. QED BY <1>3, <1>4, <1>5

\* Being admitted is what Permit asks for.
LEMMA PermitStep ==
    ASSUME RInv, NEW r \in Reqs, NEW j \in Job,
           UNCHANGED <<row, role, log, safe>>,
           permit[r] = None,
           permit' = [permit EXCEPT ![r] = j],
           Gate(j) # None /\ row[Gate(j)] # None
               => role[j.user][TenantOf(Gate(j))] \in EntitledTo(RequiredRole(j))
    PROVE  Abstract!Permit(r)
<1>1. permit'[r] = j /\ j # None
      BY NoneApart DEF permit
<1>2. j \in Abstract!Writes /\ Abstract!Gate(j) = Gate(j)
      /\ Abstract!Entitling(j) = EntitledTo(RequiredRole(j))
      /\ Abstract!Organization(Gate(j)) = TenantOf(Gate(j))
      BY SameOperators
<1>q. QED BY <1>1, <1>2 DEF Abstract!Permit, permit, safe

-----------------------------------------------------------------------------
(* One lemma per kind of step.                                             *)

\* A registration and a new organization need no permission.
LEMMA BeginMaps ==
    ASSUME RInv, NEW r \in Reqs, NEW j \in Job, Begin(r, j)
    PROVE  Abstract!Permit(r) \/ UNCHANGED seenVars
<1> USE NoneApart DEF RInv, TypeOK
<1>1. /\ pc[r] = "idle" /\ job' = [job EXCEPT ![r] = j]
      /\ pc' = [pc EXCEPT ![r] = IF Gate(j) = None THEN "authorized" ELSE "begun"]
      /\ UNCHANGED <<row, role, log, safe, seen>>
      BY DEF Begin, tables, names, safe
<1>2. ~Admitted(r) /\ (Admitted(r)' <=> Gate(j) = None) /\ job'[r] = j
      BY <1>1 DEF Admitted
<1>3. permit[r] = None /\ permit' = [permit EXCEPT ![r] = IF Gate(j) = None THEN j ELSE None]
      BY <1>1, <1>2, PermitOf
<1>4. CASE Gate(j) = None
      BY <1>1, <1>3, <1>4, PermitStep
<1>5. CASE Gate(j) # None
  <2>1. permit' = permit
        BY <1>3, <1>5 DEF permit
  <2>q. QED BY <1>1, <2>1 DEF seenVars
<1>q. QED BY <1>4, <1>5

\* Loading an organization reads the role that counts.
LEMMA LoadMaps ==
    ASSUME RInv, NEW r \in Reqs, Load(r)
    PROVE  Abstract!Permit(r) \/ UNCHANGED seenVars
<1> DEFINE j == job[r]
           g == Gate(job[r])
<1> USE NoneApart DEF RInv, TypeOK
<1>1. /\ pc[r] = "begun" /\ row[g] # None
      /\ g \in Ids \ Users /\ j.user \in Users /\ j \in Job
      BY GateFacts DEF Load, Visible, JobsFit, Open
<1>2. /\ pc' = [pc EXCEPT ![r] = "loaded"]
      /\ UNCHANGED <<row, role, log, safe, job>>
      /\ seen'[r].role = IF g \in Organizations THEN role[j.user][g] ELSE None
      /\ \A s \in Reqs \ {r} : seen'[s] = seen[s]
      BY DEF Load, Step, tables, names, safe
<1>3. ~Admitted(r)
      BY <1>1 DEF Admitted
<1>4. permit[r] = None /\ permit' = [permit EXCEPT ![r] = IF Admitted(r)' THEN j ELSE None]
      BY <1>2, <1>3, PermitOf
<1>5. CASE Admitted(r)'
  <2>1. g \in Organizations /\ Permitted(r)'
        BY <1>2, <1>5 DEF Admitted, Gate
  <2>2. RoleRead(r)' = role[j.user][g]
        BY <1>2, <2>1 DEF RoleRead, Gate
  <2>3. role[j.user][g] \in Roles /\ RoleSatisfies(role[j.user][g], RequiredRole(j))
        BY <1>1, <1>2, <2>1, <2>2 DEF Permitted, RequiredRole, RoleSatisfies
  <2>4. role[j.user][TenantOf(g)] \in EntitledTo(RequiredRole(j))
        BY <2>1, <2>3, EnoughRank, KindsAssumption DEF TenantOf
  <2>q. QED BY <1>1, <1>2, <1>4, <1>5, <2>4, PermitStep
<1>6. CASE ~Admitted(r)'
  <2>1. permit' = permit
        BY <1>4, <1>6 DEF permit
  <2>q. QED BY <1>2, <2>1 DEF seenVars
<1>q. QED BY <1>5, <1>6

\* The role check of a resource below an organization reads the role itself.
LEMMA AuthorizeMaps ==
    ASSUME RInv, NEW r \in Reqs, Authorize(r)
    PROVE  Abstract!Permit(r) \/ UNCHANGED seenVars
<1> DEFINE j == job[r]
           g == Gate(job[r])
<1> USE NoneApart DEF RInv, TypeOK
<1>1. /\ pc[r] = "loaded" /\ pc' = [pc EXCEPT ![r] = "authorized"] /\ Permitted(r)
      /\ UNCHANGED <<row, role, log, safe, job, seen>>
      BY DEF Authorize, Step, tables, names, safe
<1>2. g # None /\ g \in Ids \ Users /\ j.user \in Users /\ j \in Job /\ seen[r] \in Seen
      BY <1>1, GateFacts DEF JobsFit, Open
<1>3. Admitted(r)' /\ (Admitted(r) <=> g \in Organizations)
      BY <1>1 DEF Admitted
<1>4. /\ permit[r] = IF g \in Organizations THEN j ELSE None
      /\ permit' = [permit EXCEPT ![r] = j]
      BY <1>1, <1>3, PermitOf
<1>5. CASE g \in Organizations
  <2>1. permit' = permit
        BY <1>4, <1>5 DEF permit
  <2>q. QED BY <1>1, <2>1 DEF seenVars
<1>6. CASE g \notin Organizations
  <2>1. RoleRead(r) = role[j.user][seen[r].org] /\ RoleRead(r) \in Roles
        BY <1>1, <1>2, <1>6 DEF RoleRead, Permitted, Seen
  <2>2. RoleRead(r) \in EntitledTo(RequiredRole(j))
        BY <1>1, <2>1, EnoughRank DEF Permitted
  <2>3. row[g] # None => seen[r].org = TenantOf(g)
        BY <1>1, <1>2 DEF Authorized, Open
  <2>q. QED BY <1>1, <1>2, <1>4, <1>6, <2>1, <2>2, <2>3, PermitStep
<1>q. QED BY <1>5, <1>6

\* The check and the flush are unseen.
LEMMA ForwardMaps ==
    ASSUME RInv, NEW r \in Reqs, Check(r) \/ Flush(r)
    PROVE  UNCHANGED seenVars
<1> USE DEF RInv, TypeOK
<1>1. /\ UNCHANGED <<row, role, log, safe, job, seen>>
      /\ Admitted(r) /\ Admitted(r)'
      /\ \A s \in Reqs \ {r} : pc'[s] = pc[s]
      BY DEF Check, Flush, Step, tables, names, safe, Admitted
<1>2. permit' = permit
      BY <1>1, PermitOf DEF permit
<1>q. QED BY <1>1, <1>2 DEF seenVars

\* A request that ends without a commit leaves the tables alone.
LEMMA CloseMaps ==
    ASSUME RInv, NEW r \in Reqs, Close(r), UNCHANGED <<tables, names>>
    PROVE  Abstract!End(r) \/ UNCHANGED seenVars
<1>1. UNCHANGED <<row, role, log, safe>>
      BY DEF tables, names, safe
<1>2. CASE Admitted(r)
  <2>1. permit[r] # None /\ permit' = [permit EXCEPT ![r] = None]
        BY <1>2, PermitEnds
  <2>q. QED BY <1>1, <2>1 DEF Abstract!End, permit, safe
<1>3. CASE ~Admitted(r)
      BY <1>1, <1>3, PermitEnds DEF seenVars
<1>q. QED BY <1>2, <1>3

\* The commit is the write, if it changes a row.
LEMMA CommitMaps ==
    ASSUME RInv, NEW r \in Reqs, Commit(r)
    PROVE  Abstract!End(r)
<1> DEFINE j == job[r]
<1> USE NoneApart DEF RInv, TypeOK
<1>1. /\ Flushed(r) /\ Admitted(r) /\ j \in Job /\ j.id \in Ids /\ Legal(j)
      /\ Close(r) /\ safe' = safe
      BY AfterFacts DEF Commit, Flushed, Admitted, Job, names, safe
<1>2. /\ row' = [row EXCEPT ![j.id] = After(r)]
      /\ role' = IF j.op = "create" /\ j.id \in Organizations
                 THEN [role EXCEPT ![j.user][j.id] = "OWNER"] ELSE role
      /\ log' = [log EXCEPT ![j.id] = @ \cup (IF Existential(j) THEN {j.op} ELSE {})]
      BY DEF Commit
<1>3. permit[r] = j /\ j # None /\ permit' = [permit EXCEPT ![r] = None]
      BY <1>1, PermitEnds
<1>4. j.id \in Targets /\ j.key # None => j.key \in safe
      BY <1>1 DEF UrlsChecked, Trusted, Flushed, safe
<1>5. CASE j.op = "create"
  <2>1. log[j.id] = {} /\ log' = [log EXCEPT ![j.id] = {"create"}]
        BY <1>1, <1>2, <1>5 DEF Legal, Existential
  <2>2. row' = [row EXCEPT ![j.id] = [parent |-> j.parent, key |-> j.key]]
    <3>1. /\ After(r) \in Row
          /\ After(r).parent = j.parent /\ After(r).key = j.key
          BY <1>1, <1>5, AfterFacts
    <3>2. After(r) = [parent |-> j.parent, key |-> j.key]
          BY <3>1 DEF Row
    <3>q. QED BY <1>2, <3>2
  <2>3. role' = IF j.id \in Organizations THEN [role EXCEPT ![j.user][j.id] = "OWNER"] ELSE role
        BY <1>2, <1>5
  <2>4. j.parent # None => row[j.parent] # None
    <3>1. j.parent # None => j.parent \in Ids \ Targets /\ log[j.parent] # {}
          BY <1>1, <1>5, Kinds, KindsAssumption DEF Legal, Ids
    <3>q. QED BY <3>1 DEF AuditMatchesRows, DeletedTargets
  <2>5. \A y \in Abstract!Ids : row[y] # None => ~Abstract!Clash(j.id, j, y, row[y])
        BY <1>1, <1>5, SameOperators DEF Locked, Taken
  <2>6. j.id \in Targets => j.key \in safe
        BY <1>1, <1>4, <1>5, Kinds DEF Legal
  <2>7. j.parent \in Abstract!ParentsOf(j.id) /\ j.key # None
    <3>1. j.parent \in ParentsOf(j.id) /\ j.key \in KeysOf(j.id)
          BY <1>1, <1>5 DEF Legal
    <3>q. QED BY <1>1, <3>1, SameOperators, Kinds
  <2>8. Abstract!Insert(j)
    <3> HIDE DEF RInv, TypeOK, j
    <3>q. QED BY <1>1, <1>5, <2>1, <2>2, <2>3, <2>4, <2>5, <2>6, <2>7 DEF Abstract!Insert, safe
  <2>q. QED BY <1>3, <2>8 DEF Abstract!End, permit
<1>6. CASE j.op = "delete" /\ j.id \in Targets
  <2>1. log[j.id] # {} /\ log' = [log EXCEPT ![j.id] = @ \cup {"delete"}]
        BY <1>1, <1>2, <1>6 DEF Legal, Existential
  <2>2. row' = [row EXCEPT ![j.id] = None] /\ role' = role
    <3>1. After(r) = None
          BY <1>1, <1>6, AfterFacts
    <3>2. j.op # "create"
          BY <1>6
    <3>q. QED BY <1>2, <3>1, <3>2
  <2>3. Abstract!Erase(j)
        BY <1>1, <1>6, <2>1, <2>2 DEF Abstract!Erase, safe
  <2>q. QED BY <1>3, <2>3 DEF Abstract!End, permit
<1>7. CASE Dirty(r) /\ j.key # None
  <2>1. j.op = "update" /\ j.id \in Targets /\ row[j.id] # None /\ j.key \in safe
        BY <1>1, <1>4, <1>7 DEF Dirty, Legal, Locked
  <2>2. After(r) = [row[j.id] EXCEPT !.key = j.key]
        BY <1>7, <2>1 DEF After, Written
  <2>3. row' = [row EXCEPT ![j.id].key = j.key] /\ role' = role /\ log' = log
        BY <1>1, <1>2, <2>1, <2>2 DEF Existential
  <2>4. Abstract!Rewrite(j)
        BY <1>1, <2>1, <2>3 DEF Abstract!Rewrite, safe
  <2>q. QED BY <1>3, <2>4 DEF Abstract!End, permit
<1>8. CASE /\ j.op # "create"
           /\ ~(j.op = "delete" /\ j.id \in Targets)
           /\ ~(Dirty(r) /\ j.key # None)
  <2>1. After(r) = row[j.id]
        BY <1>1, <1>8 DEF After, Written, Job, Ops
  <2>2. row' = row /\ role' = role /\ log' = log
        BY <1>1, <1>2, <1>8, <2>1 DEF Existential
  <2>q. QED BY <1>1, <1>3, <2>2 DEF Abstract!End, permit, safe
<1>q. QED BY <1>5, <1>6, <1>7, <1>8

\* An administrator's grant.
LEMMA GrantMaps ==
    ASSUME RInv, NEW u \in Users, NEW o \in Organizations, NEW g \in Grants \cup {None},
           Grant(u, o, g)
    PROVE  Abstract!Promote(u, o)
<1> USE NoneApart DEF RInv, TypeOK
<1>1. /\ row[u] # None /\ row[o] # None /\ role[u][o] # g
      /\ role' = [role EXCEPT ![u][o] = g] /\ role'[u][o] = g
      /\ g \in Roles \cup {None}
      /\ UNCHANGED <<row, log, safe, pc, job, seen>>
      BY GrantsAssumption DEF Grant, names, safe
<1>2. permit' = permit
  <2>1. \A r \in Reqs : Admitted(r)' <=> Admitted(r)
        BY <1>1 DEF Admitted, Permitted, RoleRead, Gate
  <2>q. QED BY <1>1, <2>1 DEF permit
<1>q. QED BY <1>1, <1>2 DEF Abstract!Promote, permit, safe

\* A new answer of the resolver.
LEMMA RebindMaps ==
    ASSUME RInv, NEW h \in Hosts, NEW A \in Answers, Rebind(h, A)
    PROVE  Abstract!Trust \/ UNCHANGED seenVars
<1> USE DEF RInv, TypeOK
<1>1. UNCHANGED <<row, role, log, pc, job, seen>> /\ trusted' \in {trusted, trusted \cup {h}}
      BY DEF Rebind, tables
<1>2. permit' = permit
  <2>1. \A r \in Reqs : Admitted(r)' <=> Admitted(r)
        BY <1>1 DEF Admitted, Permitted, RoleRead, Gate
  <2>q. QED BY <1>1, <2>1 DEF permit
<1>3. safe \subseteq safe' /\ safe' \subseteq Urls
      BY <1>1 DEF safe, Urls, Addresses
<1>q. QED BY <1>1, <1>2, <1>3 DEF Abstract!Trust, seenVars, permit, safe

-----------------------------------------------------------------------------
LEMMA InitMaps == Init => Abstract!Init
<1> SUFFICES ASSUME Init PROVE Abstract!Init
    OBVIOUS
<1>1. permit = [r \in Reqs |-> None]
      BY DEF Init, permit, Admitted
<1>2. safe \subseteq Urls
      BY DEF Init, safe, Urls, Addresses
<1>q. QED BY <1>1, <1>2, SameOperators DEF Init, Abstract!Init, permit, safe

LEMMA StepMaps == RInv /\ [Next]_vars => [Abstract!Next]_(Abstract!vars)
<1> SUFFICES ASSUME RInv, [Next]_vars, ~UNCHANGED seenVars PROVE Abstract!Next
    BY Unnoticed
<1>1. ASSUME NEW r \in Reqs, Begins(r)
      PROVE  Abstract!Next
      BY <1>1, BeginFacts, BeginMaps DEF Abstract!Next
<1>2. ASSUME NEW r \in Reqs, Load(r) \/ Authorize(r) \/ Check(r) \/ Flush(r)
      PROVE  Abstract!Next
      BY <1>2, LoadMaps, AuthorizeMaps, ForwardMaps DEF Abstract!Next
<1>3. ASSUME NEW r \in Reqs, Deny(r) \/ Reject(r) \/ Broken(r) \/ Fail(r)
      PROVE  Abstract!Next
      BY <1>3, CloseMaps DEF Deny, Reject, Broken, Fail, Abstract!Next
<1>4. ASSUME NEW r \in Reqs, Commit(r)
      PROVE  Abstract!Next
      BY <1>4, CommitMaps DEF Abstract!Next
<1>5. ASSUME NEW u \in Users, NEW o \in Organizations, NEW g \in Grants \cup {None}, Grant(u, o, g)
      PROVE  Abstract!Next
      BY <1>5, GrantMaps DEF Abstract!Next
<1>6. ASSUME NEW h \in Hosts, NEW A \in Answers, Rebind(h, A)
      PROVE  Abstract!Next
      BY <1>6, RebindMaps DEF Abstract!Next
<1>7. CASE UNCHANGED vars
  <2>1. \A r \in Reqs : Admitted(r)' <=> Admitted(r)
        BY <1>7 DEF vars, tables, Admitted, Permitted, RoleRead, Gate
  <2>q. QED BY <1>7, <2>1 DEF vars, tables, names, seenVars, permit, safe
<1>q. QED BY <1>1, <1>2, <1>3, <1>4, <1>5, <1>6, <1>7, NextCases

\* Whatever requests overlap, wait and fail, the tables change by whole writes,
\* one at a time, each permitted by a role its caller had during the request
\* and made while its name was free, its parent there and its URL safe.
THEOREM EndpointsImplementCatalog == Spec => ImplementsCatalog
<1>1. Init => Abstract!Init
      BY InitMaps
<1>2. RInv /\ [Next]_vars => [Abstract!Next]_(Abstract!vars)
      BY StepMaps
<1>q. QED BY <1>1, <1>2, Invariance, PTL DEF Spec, Abstract!Spec, ImplementsCatalog
-----------------------------------------------------------------------------
(* What Catalog_proofs shows of the catalog holds of the tables.           *)

Promises == INSTANCE Catalog_proofs WITH
    Callers <- Reqs,
    safe    <- trusted \cup PublicAddresses,
    permit  <- [r \in Reqs |-> IF Admitted(r) THEN job[r] ELSE None]

\* It is the catalog that the endpoints implement.
LEMMA SameCatalog ==
    /\ Promises!Init <=> Abstract!Init
    /\ [Promises!Next]_(Promises!vars) <=> [Abstract!Next]_(Abstract!vars)
<1>1. Promises!Ids = Abstract!Ids
      BY DEF Promises!Ids, Abstract!Ids
<1>2. Promises!Init <=> Abstract!Init
      BY <1>1 DEF Promises!Init, Abstract!Init
<1>3. UNCHANGED Promises!vars <=> UNCHANGED Abstract!vars
      BY DEF Promises!vars, Abstract!vars
<1>4. \A c \in Reqs : Promises!Permit(c) <=> Abstract!Permit(c)
      BY <1>1 DEF Promises!Permit, Abstract!Permit, Promises!Writes, Abstract!Writes,
         Promises!Gate, Abstract!Gate, Promises!Organization, Abstract!Organization,
         Promises!Entitling, Abstract!Entitling
<1>5. \A c \in Reqs : Promises!End(c) <=> Abstract!End(c)
  <2>1. \A w : Promises!Insert(w) <=> Abstract!Insert(w)
        BY <1>1 DEF Promises!Insert, Abstract!Insert, Promises!Clash, Abstract!Clash,
           Promises!Named, Abstract!Named, Promises!ParentsOf, Abstract!ParentsOf
  <2>2. \A w : Promises!Rewrite(w) <=> Abstract!Rewrite(w)
        BY DEF Promises!Rewrite, Abstract!Rewrite
  <2>3. \A w : Promises!Erase(w) <=> Abstract!Erase(w)
        BY DEF Promises!Erase, Abstract!Erase
  <2>q. QED BY <2>1, <2>2, <2>3 DEF Promises!End, Abstract!End
<1>6. \A u, o : Promises!Promote(u, o) <=> Abstract!Promote(u, o)
      BY DEF Promises!Promote, Abstract!Promote
<1>7. Promises!Trust <=> Abstract!Trust
      BY DEF Promises!Trust, Abstract!Trust
<1>8. Promises!Next <=> Abstract!Next
      BY <1>4, <1>5, <1>6, <1>7 DEF Promises!Next, Abstract!Next
<1>q. QED BY <1>2, <1>3, <1>8

\* The constants of Resources are as Catalog_proofs assumes.
LEMMA SameConstants == Promises!CatalogAssumption
<1>1. Promises!Ids = Ids /\ Promises!CatalogRow = Row /\ Promises!Writes = Job
      BY DEF Promises!Ids, Ids, Promises!CatalogRow, Row, Promises!Writes, Job, Ops
<1>2. None \notin Ids \cup Urls \cup Row \cup Job /\ Urls \subseteq Keys
      BY NoneApart DEF Keys
<1>q. QED BY <1>1, <1>2, KindsAssumption DEF Promises!CatalogAssumption

\* No resource ever moves to another organization, and a target that was
\* deleted never returns, whatever requests overlap, wait and fail.
THEOREM ResourcesStay == Spec => Promises!TenantForGood /\ Promises!GoneForGood
<1>1. Spec => Promises!Spec
      BY SameCatalog, EndpointsImplementCatalog, PTL
      DEF Promises!Spec, Abstract!Spec, ImplementsCatalog
<1>2. Promises!Spec => Promises!TenantForGood
      BY SameConstants, Promises!TenantIsConstant
<1>3. Promises!Spec => Promises!GoneForGood
      BY SameConstants, Promises!DeletedStaysDeleted
<1>q. QED BY <1>1, <1>2, <1>3, PTL
=============================================================================
