-------------------------- MODULE Lifecycle_proofs --------------------------
(***************************************************************************)
(* Proofs about Lifecycle for every set of resources, columns and requests *)
(* and every bound.                                                        *)
(*                                                                         *)
(* What an open transaction will commit is fixed when it flushes: its      *)
(* UPDATE writes the columns the payload names and no other, a status only *)
(* together with the audit action that names it, and a configuration only  *)
(* with the version after the loaded one.  Both properties     *)
(* follow from that, whatever the row has become meanwhile.                *)
(***************************************************************************)
EXTENDS Lifecycle, TLAPS

\* A request in flight has a resource that exists, a row it loaded and a
\* payload for that resource.
Loaded ==
    \A r \in Reqs : pc[r] # "idle" =>
        /\ target[r] \in Resources
        /\ row[target[r]] # None
        /\ copy[r] \in Row
        /\ payload[r].version = None

\* The UPDATE of a request writes only columns its payload names, and the
\* status it was asked for if any: one the loaded status allows.
UpdateFollowsPayload ==
    \A r \in Reqs : pc[r] \in {"flushed", "audited"} =>
        /\ update[r].status = payload[r].status
        /\ payload[r].status # None =>
              /\ payload[r].status \in Allowed(target[r], copy[r].status)
              /\ payload[r].status # "DRAFT"
              /\ AuditEvent(target[r], payload[r].status) \in StatusEvents
        /\ payload[r].name = None => update[r].name = None
        /\ payload[r].config = None => update[r].config = None /\ update[r].version = None
        /\ payload[r].config # None => update[r].version = copy[r].version + 1

\* Its audit row names that status.
EntryFollowsPayload ==
    \A r \in Reqs : pc[r] = "audited" => entry[r] = AuditAction(target[r], payload[r])

LInv ==
    /\ TypeOK
    /\ Loaded
    /\ UpdateFollowsPayload
    /\ EntryFollowsPayload
    /\ AuditTellsStatus

-----------------------------------------------------------------------------
(* The operators of a request body.                                        *)

\* No transition stays where it is or leads back to DRAFT, and each one it
\* leads to has an audit action of its own.
LEMMA TransitionFacts ==
    ASSUME NEW x \in Resources, NEW s \in Status, NEW n \in Allowed(x, s)
    PROVE  n \in Status /\ n # s /\ n # "DRAFT" /\ AuditEvent(x, n) \in StatusEvents
BY KindsAssumption DEF Allowed, ProjectTransitions, ScraperTransitions, Status, Resources,
   AuditEvent, StatusEvents

\* The object in memory is a row.
LEMMA AssignedRow ==
    ASSUME NEW c \in Row, NEW p \in Change
    PROVE  Assigned(c, p) \in Row
BY DEF Assigned, Bumped, Row, Change

\* The UPDATE of a legal payload writes the status asked for, and no column
\* the payload leaves out.
LEMMA DirtyFollowsPayload ==
    ASSUME NEW x \in Resources, NEW c \in Row, NEW p \in Change, Legal(x, c, p),
           NEW u, u = Dirty(c, Assigned(c, p))
    PROVE  /\ u \in Change
           /\ u.status = p.status
           /\ p.status # None => p.status # "DRAFT" /\ AuditEvent(x, p.status) \in StatusEvents
           /\ p.name = None => u.name = None
           /\ p.config = None => u.config = None /\ u.version = None
           /\ p.config # None => u.version = c.version + 1
<1>1. u \in Change
      BY AssignedRow DEF Dirty, Row, Change
<1>2. p.status # None => p.status \in Allowed(x, c.status)
      BY DEF Legal
<1>3. c.status \in Status
      BY DEF Row
<1>4. p.status # None =>
          p.status # c.status /\ p.status # "DRAFT" /\ AuditEvent(x, p.status) \in StatusEvents
      BY <1>2, <1>3, TransitionFacts
<1>5. u.status = p.status
      BY <1>4 DEF Dirty, Assigned
<1>6. (p.name = None => u.name = None) /\ (p.config = None => u.config = None /\ u.version = None)
      BY DEF Dirty, Assigned
<1>7. p.config # None => u.version = c.version + 1
  <2>1. c.version \in Nat
        BY DEF Row
  <2>q. QED BY <2>1 DEF Dirty, Assigned, Bumped
<1>q. QED BY <1>1, <1>4, <1>5, <1>6, <1>7

\* A row stays a row under an UPDATE.
LEMMA UpdatedRow ==
    ASSUME NEW c \in Row, NEW u \in Change
    PROVE  Updated(c, u) \in Row
BY DEF Updated, Row, Change

\* An audit action that names no status is not a status event.
LEMMA PlainAction ==
    ASSUME NEW x, NEW p, p.status = None
    PROVE  AuditAction(x, p) \notin StatusEvents
BY DEF AuditAction, StatusEvents

LEMMA NoneApart == None \notin Row /\ None \notin Resources /\ NoChange \in Change
BY NoneAssumption DEF NoChange, Change

-----------------------------------------------------------------------------
(* One lemma per action: it keeps LInv and changes only requested columns. *)

LEMMA LoadStep ==
    ASSUME LInv, NEW r \in Reqs, NEW x \in Resources, NEW p \in Change, p.version = None,
           Load(r, x, p)
    PROVE  LInv'
<1>1. TypeOK'
      BY DEF LInv, TypeOK, Load, tables
<1>2. Loaded'
      BY DEF LInv, TypeOK, Loaded, Load, tables
<1>3. UpdateFollowsPayload'
      BY DEF LInv, TypeOK, UpdateFollowsPayload, Load
<1>4. EntryFollowsPayload'
      BY DEF LInv, TypeOK, EntryFollowsPayload, Load
<1>5. AuditTellsStatus'
      BY DEF LInv, AuditTellsStatus, Load, tables
<1>q. QED BY <1>1, <1>2, <1>3, <1>4, <1>5 DEF LInv

LEMMA CreateStep ==
    ASSUME LInv, NEW x \in Resources, NEW n \in Names, NEW c \in Configs \cup {None},
           Create(x, n, c)
    PROVE  LInv'
<1> DEFINE new == [status |-> "DRAFT", name |-> n, config |-> c, version |-> 1]
<1>1. new \in Row
      BY DEF Row, Status
<1>2. TypeOK'
      BY <1>1 DEF LInv, TypeOK, Create, locals
<1>3. Loaded'
      BY <1>1, NoneApart DEF LInv, TypeOK, Loaded, Create, locals
<1>4. UpdateFollowsPayload' /\ EntryFollowsPayload'
      BY DEF LInv, UpdateFollowsPayload, EntryFollowsPayload, Create, locals
<1>5. AuditTellsStatus'
      BY NoneApart, <1>1 DEF LInv, TypeOK, AuditTellsStatus, Create
<1>q. QED BY <1>2, <1>3, <1>4, <1>5 DEF LInv

\* A request that closes leaves the facts about the others alone.
LEMMA CloseStep ==
    ASSUME LInv, NEW r \in Reqs, Close(r),
           \A x \in Resources : row[x] # None => row'[x] # None
    PROVE  Loaded' /\ UpdateFollowsPayload' /\ EntryFollowsPayload'
<1>1. Loaded'
      BY DEF LInv, TypeOK, Loaded, Close
<1>2. UpdateFollowsPayload' /\ EntryFollowsPayload'
      BY DEF LInv, TypeOK, UpdateFollowsPayload, EntryFollowsPayload, Close
<1>q. QED BY <1>1, <1>2

\* Closing releases row locks and nothing else.
LEMMA UnlockedType ==
    ASSUME TypeOK, NEW r \in Reqs
    PROVE  Unlocked(r) \in [Resources -> Reqs \cup {None}]
BY DEF TypeOK, Unlocked

\* A request that ends without a commit.
LEMMA RollbackStep ==
    ASSUME LInv, NEW r \in Reqs, Conflict(r) \/ Fail(r)
    PROVE  LInv'
<1>1. Close(r) /\ UNCHANGED <<row, audit>> /\ writer' \in [Resources -> Reqs \cup {None}]
      BY UnlockedType DEF LInv, TypeOK, Conflict, Fail, tables
<1>2. TypeOK'
      BY <1>1, NoneApart DEF LInv, TypeOK, Close
<1>3. AuditTellsStatus'
      BY <1>1 DEF LInv, AuditTellsStatus
<1>q. QED BY <1>1, <1>2, <1>3, CloseStep DEF LInv

LEMMA FlushStep ==
    ASSUME LInv, NEW r \in Reqs, Flush(r)
    PROVE  LInv'
<1> DEFINE u == Dirty(copy[r], Assigned(copy[r], payload[r]))
<1>1. /\ target[r] \in Resources
      /\ copy[r] \in Row
      /\ payload[r] \in Change
      /\ Legal(target[r], copy[r], payload[r])
      BY DEF LInv, TypeOK, Loaded, Flush
<1>2. /\ u \in Change
      /\ u.status = payload[r].status
      /\ payload[r].status # None =>
            payload[r].status # "DRAFT" /\ AuditEvent(target[r], payload[r].status) \in StatusEvents
      /\ payload[r].name = None => u.name = None
      /\ payload[r].config = None => u.config = None /\ u.version = None
      /\ payload[r].config # None => u.version = copy[r].version + 1
      BY <1>1, DirtyFollowsPayload
<1>10. payload[r].status # None => payload[r].status \in Allowed(target[r], copy[r].status)
      BY <1>1 DEF Legal
<1>3. update' = [update EXCEPT ![r] = u] /\ pc' = [pc EXCEPT ![r] = "flushed"]
      BY DEF Flush
<1>4. UNCHANGED <<row, audit, target, payload, copy, entry>>
      BY DEF Flush
<1>5. writer' \in [Resources -> Reqs \cup {None}]
      BY DEF LInv, TypeOK, Flush
<1>6. TypeOK'
      BY <1>2, <1>3, <1>4, <1>5 DEF LInv, TypeOK
<1>7. Loaded'
      BY <1>3, <1>4, Zenon DEF LInv, TypeOK, Loaded, Flush
<1>8. UpdateFollowsPayload'
      BY <1>2, <1>3, <1>4, <1>10 DEF LInv, TypeOK, UpdateFollowsPayload
<1>9. EntryFollowsPayload' /\ AuditTellsStatus'
      BY <1>3, <1>4 DEF LInv, TypeOK, EntryFollowsPayload, AuditTellsStatus
<1>q. QED BY <1>6, <1>7, <1>8, <1>9 DEF LInv

LEMMA RecordAuditStep ==
    ASSUME LInv, NEW r \in Reqs, RecordAuditEvent(r)
    PROVE  LInv'
<1>1. target[r] \in Resources /\ payload[r] \in Change
      BY DEF LInv, TypeOK, Loaded, RecordAuditEvent
<1>2. payload[r].status # None => AuditEvent(target[r], payload[r].status) \in StatusEvents
      BY DEF LInv, UpdateFollowsPayload, RecordAuditEvent
<1>3. AuditAction(target[r], payload[r]) \in StatusEvents \cup
          {"PROJECT_UPDATED", "SCRAPER_UPDATED", "SCRAPER_CONFIGURATION_CHANGED"}
      BY <1>2 DEF AuditAction
<1>4. TypeOK'
      BY <1>3 DEF LInv, TypeOK, RecordAuditEvent, tables
<1>5. Loaded'
      BY DEF LInv, TypeOK, Loaded, RecordAuditEvent, tables
<1>6. UpdateFollowsPayload'
      BY DEF LInv, TypeOK, UpdateFollowsPayload, RecordAuditEvent
<1>7. EntryFollowsPayload'
      BY DEF LInv, TypeOK, EntryFollowsPayload, RecordAuditEvent
<1>8. AuditTellsStatus'
      BY DEF LInv, AuditTellsStatus, RecordAuditEvent, tables
<1>q. QED BY <1>4, <1>5, <1>6, <1>7, <1>8 DEF LInv

LEMMA CommitStep ==
    ASSUME LInv, NEW r \in Reqs, Commit(r)
    PROVE  LInv'
<1> DEFINE x == target[r]
<1>1. /\ x \in Resources
      /\ row[x] \in Row
      /\ update[r] \in Change
      BY DEF LInv, TypeOK, Loaded, Commit
<1>2. Updated(row[x], update[r]) \in Row
      BY <1>1, UpdatedRow
<1>3. row' = [row EXCEPT ![x] = Updated(row[x], update[r])]
      BY DEF Commit
<1>4. audit' = [audit EXCEPT ![x] = IF entry[r] \in StatusEvents THEN entry[r] ELSE audit[x]]
      BY DEF Commit
<1>5. Close(r) /\ writer' \in [Resources -> Reqs \cup {None}]
      BY UnlockedType DEF LInv, Commit
<1>6. TypeOK'
  <2>1. row' \in [Resources -> Row \cup {None}] /\ audit' \in [Resources -> StatusEvents \cup {None}]
        BY <1>1, <1>2, <1>3, <1>4 DEF LInv, TypeOK
  <2>2. QED BY <1>5, <2>1, NoneApart DEF LInv, TypeOK, Close
<1>7. \A y \in Resources : row[y] # None => row'[y] # None
      BY <1>1, <1>2, <1>3, NoneApart DEF LInv, TypeOK
<1>8. AuditTellsStatus'
  <2>1. entry[r] = AuditAction(x, payload[r]) /\ update[r].status = payload[r].status
        BY DEF LInv, EntryFollowsPayload, UpdateFollowsPayload, Commit
  <2>2. CASE payload[r].status = None
    <3>1. audit' = audit
          BY <1>1, <1>4, <2>1, <2>2, PlainAction DEF LInv, TypeOK
    <3>2. \A y \in Resources : /\ row'[y] = None <=> row[y] = None
                               /\ row[y] # None => row'[y].status = row[y].status
          BY <1>1, <1>2, <1>3, <2>1, <2>2, NoneApart DEF LInv, TypeOK, Updated
    <3>3. QED BY <3>1, <3>2 DEF LInv, AuditTellsStatus
  <2>3. CASE payload[r].status # None
    <3>1. /\ payload[r].status # "DRAFT"
          /\ AuditEvent(x, payload[r].status) \in StatusEvents
          BY <2>3 DEF LInv, UpdateFollowsPayload, Commit
    <3>2. entry[r] = AuditEvent(x, payload[r].status)
          BY <2>1, <2>3 DEF AuditAction
    <3>3. audit' = [audit EXCEPT ![x] = AuditEvent(x, payload[r].status)]
          BY <1>4, <3>1, <3>2
    <3>4. Updated(row[x], update[r]).status = payload[r].status
          BY <2>1, <2>3 DEF Updated
    <3>5. QED BY <1>1, <1>2, <1>3, <3>1, <3>3, <3>4, NoneApart DEF LInv, TypeOK, AuditTellsStatus
  <2>4. QED BY <2>2, <2>3
<1>q. QED BY <1>5, <1>6, <1>7, <1>8, CloseStep DEF LInv

-----------------------------------------------------------------------------
\* Every step keeps the inductive invariant.
LEMMA LInvStep == LInv /\ [Next]_vars => LInv'
<1> SUFFICES ASSUME LInv, [Next]_vars PROVE LInv'
    OBVIOUS
<1>1. ASSUME NEW x \in Resources, NEW n \in Names, NEW c \in Configs \cup {None}, Create(x, n, c)
      PROVE  LInv'
      BY <1>1, CreateStep
<1>2. ASSUME NEW r \in Reqs, NEW x \in Resources, NEW s \in Status \cup {None},
             NEW n \in Names \cup {None}, NEW c \in Configs \cup {None},
             Patch(r, x, [status |-> s, name |-> n, config |-> c, version |-> None])
      PROVE  LInv'
  <2> DEFINE p == [status |-> s, name |-> n, config |-> c, version |-> None]
  <2>1. p \in Change /\ p.version = None
        BY DEF Change
  <2>2. QED BY <1>2, <2>1, LoadStep DEF Patch
<1>3. ASSUME NEW r \in Reqs, NEW x \in Resources, Archive(r, x)
      PROVE  LInv'
  <2> DEFINE p == [NoChange EXCEPT !.status = "ARCHIVED"]
  <2>1. p \in Change /\ p.version = None
        BY DEF Change, NoChange, Status
  <2>2. QED BY <1>3, <2>1, LoadStep DEF Archive
<1>4. ASSUME NEW r \in Reqs, Conflict(r) \/ Fail(r)
      PROVE  LInv'
      BY <1>4, RollbackStep
<1>5. ASSUME NEW r \in Reqs, Flush(r)
      PROVE  LInv'
      BY <1>5, FlushStep
<1>6. ASSUME NEW r \in Reqs, RecordAuditEvent(r)
      PROVE  LInv'
      BY <1>6, RecordAuditStep
<1>7. ASSUME NEW r \in Reqs, Commit(r)
      PROVE  LInv'
      BY <1>7, CommitStep
<1>8. CASE UNCHANGED vars
      BY <1>8 DEF LInv, TypeOK, Loaded, UpdateFollowsPayload, EntryFollowsPayload,
         AuditTellsStatus, vars, tables, locals
<1>q. QED BY <1>1, <1>2, <1>3, <1>4, <1>5, <1>6, <1>7, <1>8 DEF Next

LEMMA LInvInit == Init => LInv
BY NoneApart DEF Init, LInv, TypeOK, Loaded, UpdateFollowsPayload, EntryFollowsPayload,
   AuditTellsStatus

THEOREM Invariance == Spec => []LInv
BY LInvInit, LInvStep, PTL DEF Spec

\* Every variable keeps its type, for any number of resources and requests.
THEOREM TypeCorrect == Spec => []TypeOK
BY Invariance, PTL DEF LInv

\* Taken in the order of the commits, the audit rows name the status every
\* resource has, for any number of concurrent requests and any failure
\* (update_project, update_scraper).
THEOREM AuditIsFaithful == Spec => []AuditTellsStatus
BY Invariance, PTL DEF LInv

\* No commit, stale or not, changes a column its request left out.
THEOREM ColumnsAreIndependent == Spec => OnlyRequestedColumnsChange
<1> DEFINE A == \A r \in Reqs : Commit(r) =>
          LET x == target[r] IN
          /\ payload[r].status = None => row'[x].status = row[x].status
          /\ payload[r].name = None => row'[x].name = row[x].name
          /\ payload[r].config = None =>
                /\ row'[x].config = row[x].config
                /\ row'[x].version = row[x].version
<1>1. LInv => A
  <2> SUFFICES ASSUME LInv, NEW r \in Reqs, Commit(r)
               PROVE  LET x == target[r] IN
                      /\ payload[r].status = None => row'[x].status = row[x].status
                      /\ payload[r].name = None => row'[x].name = row[x].name
                      /\ payload[r].config = None =>
                            /\ row'[x].config = row[x].config
                            /\ row'[x].version = row[x].version
      OBVIOUS
  <2>1. row'[target[r]] = Updated(row[target[r]], update[r])
        BY DEF LInv, TypeOK, Loaded, Commit
  <2>2. /\ update[r].status = payload[r].status
        /\ payload[r].name = None => update[r].name = None
        /\ payload[r].config = None => update[r].config = None /\ update[r].version = None
        BY DEF LInv, UpdateFollowsPayload, Commit
  <2>3. QED BY <2>1, <2>2 DEF Updated
<1>2. QED BY <1>1, Invariance, PTL DEF OnlyRequestedColumnsChange

\* A status changes against the transition tables only by a request that had
\* loaded another status (apply_status_transition checks the loaded one).
THEOREM TransitionsAreLegal == Spec => IllegalOnlyIfStale
<1> DEFINE A == \A x \in Resources :
          row[x] # None /\ row'[x].status # row[x].status
              => \/ row'[x].status \in Allowed(x, row[x].status)
                 \/ \E r \in Reqs : Commit(r) /\ target[r] = x
                                     /\ copy[r].status # row[x].status
<1>1. ASSUME LInv, [Next]_vars PROVE A
  <2> SUFFICES ASSUME NEW x \in Resources, row[x] # None, row'[x].status # row[x].status
               PROVE  \/ row'[x].status \in Allowed(x, row[x].status)
                      \/ \E r \in Reqs : Commit(r) /\ target[r] = x
                                          /\ copy[r].status # row[x].status
      OBVIOUS
  <2>1. ASSUME NEW r \in Reqs, Commit(r)
        PROVE  \/ row'[x].status \in Allowed(x, row[x].status)
               \/ target[r] = x /\ copy[r].status # row[x].status
    <3>1. target[r] = x
          BY <1>1, <2>1 DEF Commit, LInv, TypeOK, Loaded
    <3>2. row'[x] = Updated(row[x], update[r])
          BY <1>1, <2>1, <3>1 DEF Commit, LInv, TypeOK
    <3>3. update[r].status = payload[r].status
          BY <1>1, <2>1 DEF Commit, LInv, UpdateFollowsPayload
    <3>4. payload[r].status # None /\ row'[x].status = payload[r].status
          BY <3>2, <3>3 DEF Updated
    <3>5. row'[x].status \in Allowed(x, copy[r].status)
          BY <1>1, <2>1, <3>1, <3>4 DEF Commit, LInv, UpdateFollowsPayload
    <3>q. QED BY <3>1, <3>5
  <2>2. \E r \in Reqs : Commit(r)
    <3>1. ASSUME NEW y \in Resources, NEW n \in Names, NEW c \in Configs \cup {None},
                 Create(y, n, c)
          PROVE  FALSE
          BY <1>1, <3>1 DEF Create, LInv, TypeOK
    <3>2. ~UNCHANGED row
          OBVIOUS
    <3>q. QED BY <1>1, <3>1, <3>2 DEF Next, Patch, Archive, Load, Conflict, Flush,
             RecordAuditEvent, Fail, tables, vars
  <2>q. QED BY <2>1, <2>2
<1>2. QED BY <1>1, Invariance, PTL DEF IllegalOnlyIfStale, Spec

\* The configuration of a scraper changes with its version, which no request
\* that loaded the current one repeats or lowers (apply_configuration_update).
THEOREM VersionsGrow == Spec => VersionGrowsUnlessStale
<1> DEFINE A == \A x \in Scrapers :
          row[x] # None
              => \/ /\ row'[x].version >= row[x].version
                    /\ row'[x].config # row[x].config => row'[x].version > row[x].version
                 \/ \E r \in Reqs : Commit(r) /\ target[r] = x
                                     /\ copy[r].version # row[x].version
<1>1. ASSUME LInv, [Next]_vars PROVE A
  <2> SUFFICES ASSUME NEW x \in Scrapers, row[x] # None
               PROVE  \/ /\ row'[x].version >= row[x].version
                         /\ row'[x].config # row[x].config => row'[x].version > row[x].version
                      \/ \E r \in Reqs : Commit(r) /\ target[r] = x
                                          /\ copy[r].version # row[x].version
      OBVIOUS
  <2>0. x \in Resources /\ row[x] \in Row /\ row[x].version \in Nat
        BY <1>1 DEF LInv, TypeOK, Resources, Row
  <2>1. ASSUME NEW r \in Reqs, Commit(r), target[r] = x, copy[r].version = row[x].version
        PROVE  /\ row'[x].version >= row[x].version
               /\ row'[x].config # row[x].config => row'[x].version > row[x].version
    <3>1. row'[x] = Updated(row[x], update[r])
          BY <1>1, <2>0, <2>1 DEF Commit, LInv, TypeOK
    <3>2. /\ payload[r].config = None => update[r].config = None /\ update[r].version = None
          /\ payload[r].config # None => update[r].version = row[x].version + 1
          BY <1>1, <2>1 DEF Commit, LInv, UpdateFollowsPayload
    <3>3. CASE payload[r].config = None
          BY <2>0, <3>1, <3>2, <3>3 DEF Updated
    <3>4. CASE payload[r].config # None
      <4>1. update[r].version # None /\ row'[x].version = row[x].version + 1
            BY <2>0, <3>1, <3>2, <3>4, NoneAssumption DEF Updated
      <4>q. QED BY <2>0, <4>1
    <3>q. QED BY <3>3, <3>4
  <2>2. CASE \E r \in Reqs : Commit(r) /\ target[r] = x
        BY <2>1, <2>2
  <2>3. CASE \A r \in Reqs : ~(Commit(r) /\ target[r] = x)
    <3>1. row'[x] = row[x]
      <4>1. ASSUME NEW r \in Reqs, Commit(r)
            PROVE  row'[x] = row[x]
        <5>1. target[r] # x
              BY <2>3, <4>1
        <5>q. QED BY <1>1, <2>0, <4>1, <5>1 DEF Commit, LInv, TypeOK
      <4>2. ASSUME NEW y \in Resources, NEW n \in Names, NEW c \in Configs \cup {None},
                   Create(y, n, c)
            PROVE  row'[x] = row[x]
            BY <1>1, <4>2 DEF Create, LInv, TypeOK
      <4>q. QED BY <1>1, <4>1, <4>2 DEF Next, Patch, Archive, Load, Conflict, Flush,
               RecordAuditEvent, Fail, tables, vars
    <3>q. QED BY <2>0, <3>1
  <2>q. QED BY <2>2, <2>3
<1>2. QED BY <1>1, Invariance, PTL DEF VersionGrowsUnlessStale, Spec

-----------------------------------------------------------------------------
(* One request at a time.                                                  *)

\* A request alone commits over the row it loaded.
Current == \A r \in Reqs : pc[r] # "idle" => copy[r] = row[target[r]]

LEMMA CurrentStep ==
    ASSUME NEW alone, Reqs = {alone}, LInv, Current, [Next]_vars
    PROVE  Current'
<1> USE DEF LInv, TypeOK, Loaded, Current
<1>1. ASSUME NEW x \in Resources, NEW n \in Names, NEW c \in Configs \cup {None}, Create(x, n, c)
      PROVE  Current'
      BY <1>1 DEF Create, locals
<1>2. ASSUME NEW r \in Reqs, NEW x \in Resources, NEW p, Load(r, x, p)
      PROVE  Current'
      BY <1>2 DEF Load, tables
<1>3. ASSUME NEW r \in Reqs, Close(r)
      PROVE  Current'
      BY <1>3 DEF Close
<1>4. ASSUME NEW r \in Reqs, Flush(r) \/ RecordAuditEvent(r)
      PROVE  Current'
      BY <1>4 DEF Flush, RecordAuditEvent, tables
<1>5. CASE UNCHANGED vars
      BY <1>5 DEF vars, tables, locals
<1>q. QED BY <1>1, <1>2, <1>3, <1>4, <1>5 DEF Next, Patch, Archive, Conflict, Commit, Fail

\* Between requests that do not overlap, archived is terminal and every
\* configuration change bumps the version: what concurrent requests refute
\* holds of each handler by itself (update_project, update_scraper).
THEOREM SerialRequestsKeepTheRules ==
    ASSUME NEW alone, Reqs = {alone}
    PROVE  Spec => ArchivedIsTerminal /\ ConfigurationChangeBumpsVersion
<1> DEFINE Arch == \A x \in Resources :
              row[x] # None /\ row[x].status = "ARCHIVED" => row'[x].status = "ARCHIVED"
           Bump == \A x \in Scrapers :
              row[x] # None /\ row'[x].config # row[x].config
                  => row'[x].version > row[x].version
           Legals == \A x \in Resources :
              row[x] # None /\ row'[x].status # row[x].status
                  => \/ row'[x].status \in Allowed(x, row[x].status)
                     \/ \E r \in Reqs : Commit(r) /\ target[r] = x
                                         /\ copy[r].status # row[x].status
           Grows == \A x \in Scrapers :
              row[x] # None
                  => \/ /\ row'[x].version >= row[x].version
                        /\ row'[x].config # row[x].config => row'[x].version > row[x].version
                     \/ \E r \in Reqs : Commit(r) /\ target[r] = x
                                         /\ copy[r].version # row[x].version
<1>1. Init => Current
      BY DEF Init, Current
<1>2. LInv /\ Current /\ [Next]_vars => Current'
      BY CurrentStep
<1>3. ASSUME Current, Legals PROVE Arch
  <2>1. \A x \in Resources, r \in Reqs : Commit(r) /\ target[r] = x => copy[r] = row[x]
        BY <1>3 DEF Commit, Current
  <2>2. \A x \in Resources : Allowed(x, "ARCHIVED") = {}
        BY DEF Allowed, ProjectTransitions, ScraperTransitions, Status
  <2>q. QED BY <1>3, <2>1, <2>2
<1>4. ASSUME Current, Grows PROVE Bump
  <2>1. \A x \in Scrapers, r \in Reqs : Commit(r) /\ target[r] = x => copy[r] = row[x]
        BY <1>4 DEF Commit, Current
  <2>q. QED BY <1>4, <2>1
<1>q. QED BY <1>1, <1>2, <1>3, <1>4, Invariance, TransitionsAreLegal, VersionsGrow, PTL
         DEF Spec, ArchivedIsTerminal, ConfigurationChangeBumpsVersion, IllegalOnlyIfStale,
             VersionGrowsUnlessStale
=============================================================================
