----------------------------- MODULE Catalog_proofs -----------------------------
(***************************************************************************)
(* What the actions of Catalog add up to, for any sets of resources, names *)
(* and callers, and so for the endpoints that implement it: names stay     *)
(* apart, the log tells the rows, nothing returns, and no resource ever    *)
(* moves to another organization.                                          *)
(***************************************************************************)
EXTENDS Catalog, TLAPS

CatalogRow == [parent : Ids \cup {None}, key : Keys]

\* URLs are keys, the kinds of resources differ, and the absent value is none of
\* the others.
CatalogAssumption ==
    /\ Urls \subseteq Keys
    /\ Users \cap (Organizations \cup Projects \cup Scrapers \cup Targets) = {}
    /\ Organizations \cap (Projects \cup Scrapers \cup Targets) = {}
    /\ Projects \cap (Scrapers \cup Targets) = {}
    /\ Scrapers \cap Targets = {}
    /\ None \notin Ids \cup Urls \cup CatalogRow \cup Writes

TypeOK ==
    /\ row \in [Ids -> CatalogRow \cup {None}]
    /\ log \in [Ids -> SUBSET {"create", "delete"}]
    /\ safe \subseteq Urls
    /\ permit \in [Callers -> Writes \cup {None}]

\* A resource has a row exactly when it was created and not deleted, and only
\* targets are deleted.
LogTells ==
    \A x \in Ids : /\ row[x] # None <=> log[x] = {"create"}
                   /\ "delete" \in log[x] => x \in Targets /\ "create" \in log[x]

\* Every row hangs on a row of the kind above.
Tree ==
    \A x \in Ids : row[x] # None =>
        /\ row[x].parent \in ParentsOf(x)
        /\ row[x].parent # None => row[row[x].parent] # None

\* No two rows have one name.
NamesApart ==
    \A x, y \in Ids :
        x # y /\ row[x] # None /\ row[y] # None => ~Clash(x, row[x], y, row[y])

\* The permissions and the safe URLs after a step are what they should be.
Noted == permit' \in [Callers -> Writes \cup {None}] /\ safe' \subseteq Urls

CInv == TypeOK /\ LogTells /\ Tree /\ NamesApart

\* What was erased is gone.
GoneForGood == [][\A x \in Ids : log[x] # {} /\ row[x] = None => row'[x] = None]_vars

\* A resource stays in its organization.
TenantForGood ==
    [][\A x \in Ids \ Users : row[x] # None /\ row'[x] # None
          => Organization(x)' = Organization(x)]_vars

-----------------------------------------------------------------------------
(* Writes, one at a time.                                                  *)

\* The parents of a resource are of the kind above it.
LEMMA Kinds ==
    ASSUME CatalogAssumption, NEW x \in Ids
    PROVE  /\ x \in Users \cup Organizations => ParentsOf(x) = {None}
           /\ x \in Projects => ParentsOf(x) = Organizations
           /\ x \in Scrapers => ParentsOf(x) = Projects
           /\ x \in Targets => ParentsOf(x) = Scrapers
           /\ ParentsOf(x) \subseteq (Ids \ Targets) \cup {None}
BY DEF CatalogAssumption, ParentsOf, Ids

\* An insert adds a row that was never there.
LEMMA InsertStep ==
    ASSUME CatalogAssumption, CInv, NEW w \in Writes, Insert(w), Noted
    PROVE  CInv'
<1> DEFINE new == [parent |-> w.parent, key |-> w.key]
<1> USE DEF CInv, TypeOK, Noted
<1>1. /\ w.id \in Ids /\ new \in CatalogRow /\ new # None
      /\ row' = [row EXCEPT ![w.id] = new]
      /\ log' = [log EXCEPT ![w.id] = {"create"}]
      /\ row[w.id] = None /\ log[w.id] = {}
  <2>1. w.id \in Ids /\ new \in CatalogRow
        BY DEF Insert, Writes, CatalogRow
  <2>2. log[w.id] = {} /\ {} # {"create"}
        BY DEF Insert
  <2>q. QED BY <2>1, <2>2 DEF Insert, CatalogAssumption, LogTells
<1>2. TypeOK'
      BY <1>1
<1>3. LogTells'
      BY <1>1 DEF LogTells
<1>4. Tree'
  <2>1. new.parent \in ParentsOf(w.id) /\ (new.parent # None => row[new.parent] # None)
        BY DEF Insert
  <2>2. \A x \in Ids : ParentsOf(x) \subseteq Ids \cup {None}
        BY Kinds
  <2>q. QED BY <1>1, <2>1, <2>2 DEF Tree
<1>5. NamesApart'
  <2>1. \A y \in Ids : row[y] # None =>
           ~Clash(w.id, new, y, row[y]) /\ ~Clash(y, row[y], w.id, new)
        BY DEF Insert, Clash
  <2>2. \A x, a, y, b : Clash(x, a, y, b)' <=> Clash(x, a, y, b)
        BY DEF Clash
  <2>q. QED BY <1>1, <2>1, <2>2 DEF NamesApart
<1>q. QED BY <1>2, <1>3, <1>4, <1>5

\* A new URL leaves the row in its place.
LEMMA RewriteStep ==
    ASSUME CatalogAssumption, CInv, NEW w \in Writes, Rewrite(w), Noted
    PROVE  CInv'
<1> USE DEF CInv, TypeOK, Noted
<1>1. /\ w.id \in Targets /\ w.id \in Ids /\ row[w.id] \in CatalogRow
      /\ [row[w.id] EXCEPT !.key = w.key] \in CatalogRow
      /\ [row[w.id] EXCEPT !.key = w.key].parent = row[w.id].parent
      /\ row' = [row EXCEPT ![w.id] = [row[w.id] EXCEPT !.key = w.key]]
      /\ log' = log
  <2>1. w.key \in Keys /\ w.id \in Ids /\ row[w.id] \in CatalogRow
        BY DEF Rewrite, Writes, CatalogAssumption
  <2>q. QED BY <2>1 DEF Rewrite, CatalogRow
<1>2. /\ row' \in [Ids -> CatalogRow \cup {None}]
      /\ \A x \in Ids : row'[x] # None <=> row[x] # None
      /\ \A x \in Ids : row[x] # None => row'[x].parent = row[x].parent
      /\ \A x \in Ids \ Targets : row'[x] = row[x]
      BY <1>1 DEF Rewrite, CatalogAssumption
<1>3. LogTells'
      BY <1>1, <1>2 DEF LogTells
<1>4. Tree'
  <2>1. \A x \in Ids : ParentsOf(x) \subseteq Ids \cup {None} /\ ParentsOf(x)' = ParentsOf(x)
        BY Kinds DEF ParentsOf
  <2>q. QED BY <1>2, <2>1 DEF Tree
<1>5. NamesApart'
  <2>1. \A x, y, a, b : x \in Targets \/ y \in Targets => ~Clash(x, a, y, b)
        BY DEF Clash, Named, CatalogAssumption
  <2>2. \A x, a, y, b : Clash(x, a, y, b)' <=> Clash(x, a, y, b)
        BY DEF Clash
  <2>q. QED BY <1>2, <2>1, <2>2 DEF NamesApart
<1>q. QED BY <1>1, <1>2, <1>3, <1>4, <1>5

\* Nothing hangs on a target.
LEMMA EraseStep ==
    ASSUME CatalogAssumption, CInv, NEW w \in Writes, Erase(w), Noted
    PROVE  CInv'
<1> USE DEF CInv, TypeOK, Noted
<1>1. /\ w.id \in Targets /\ w.id \in Ids
      /\ row' = [row EXCEPT ![w.id] = None]
      /\ log[w.id] # {}
      /\ log' = [log EXCEPT ![w.id] = log[w.id] \cup {"delete"}]
      BY DEF Erase, Writes
<1>2. TypeOK'
      BY <1>1
<1>3. LogTells'
  <2>1. "create" \in log[w.id]
        BY <1>1 DEF LogTells
  <2>q. QED BY <1>1, <2>1 DEF LogTells
<1>4. Tree'
  <2>1. \A x \in Ids : /\ ParentsOf(x) \subseteq (Ids \ Targets) \cup {None}
                        /\ ParentsOf(x)' = ParentsOf(x)
        BY Kinds DEF ParentsOf
  <2>q. QED BY <1>1, <2>1 DEF Tree, CatalogAssumption
<1>5. NamesApart'
      BY <1>1 DEF NamesApart, Clash
<1>q. QED BY <1>2, <1>3, <1>4, <1>5

-----------------------------------------------------------------------------
LEMMA Initially == ASSUME CatalogAssumption, Init PROVE CInv
<1>1. TypeOK
      BY DEF Init, TypeOK
<1>2. \A x \in Ids : row[x] = None /\ log[x] = {}
      BY DEF Init
<1>3. LogTells
      BY <1>2 DEF LogTells
<1>4. Tree
      BY <1>2 DEF Tree
<1>5. NamesApart
      BY <1>2 DEF NamesApart
<1>q. QED BY <1>1, <1>3, <1>4, <1>5 DEF CInv

\* Steps that touch no row.
LEMMA RowsStay ==
    ASSUME CInv, UNCHANGED <<row, log>>, Noted
    PROVE  CInv'
BY DEF CInv, TypeOK, Noted, LogTells, Tree, NamesApart, ParentsOf, Clash

\* A step of Catalog is one write or leaves the rows alone.
LEMMA OneWrite ==
    ASSUME CInv, [Next]_vars
    PROVE  /\ Noted
           /\ \/ \E w \in Writes : Insert(w) \/ Rewrite(w) \/ Erase(w)
              \/ UNCHANGED <<row, log>>
<1> USE DEF CInv, TypeOK, Noted
<1>1. ASSUME NEW c \in Callers, Permit(c)
      PROVE  Noted /\ UNCHANGED <<row, log>>
      BY <1>1 DEF Permit
<1>2. ASSUME NEW c \in Callers, End(c)
      PROVE  /\ Noted
             /\ \/ \E w \in Writes : Insert(w) \/ Rewrite(w) \/ Erase(w)
                \/ UNCHANGED <<row, log>>
  <2>1. permit[c] \in Writes
        BY <1>2 DEF End
  <2>2. permit' \in [Callers -> Writes \cup {None}]
        BY <1>2 DEF End
  <2>3. \A w \in Writes : Insert(w) \/ Rewrite(w) \/ Erase(w) => safe' = safe
        BY DEF Insert, Rewrite, Erase
  <2>q. QED BY <1>2, <2>1, <2>2, <2>3 DEF End
<1>3. CASE (\E u \in Users, o \in Organizations : Promote(u, o)) \/ Trust \/ UNCHANGED vars
      BY <1>3 DEF Promote, Trust, vars
<1>q. QED BY <1>1, <1>2, <1>3 DEF Next

LEMMA CInvStep == ASSUME CatalogAssumption, CInv, [Next]_vars PROVE CInv'
BY OneWrite, RowsStay, InsertStep, RewriteStep, EraseStep

\* A row that stays keeps its parent, and one that is gone does not return.
LEMMA ParentsStay ==
    ASSUME CatalogAssumption, CInv, [Next]_vars, NEW x \in Ids
    PROVE  /\ row[x] # None /\ row'[x] # None => row'[x].parent = row[x].parent
           /\ row[x] # None /\ x \notin Targets => row'[x] # None
           /\ log[x] # {} /\ row[x] = None => row'[x] = None
<1> USE DEF CInv, TypeOK, Noted
<1>1. ASSUME NEW w \in Writes, Insert(w)
      PROVE  /\ row[w.id] = None /\ log[w.id] = {}
             /\ w.id \in Ids /\ \A y \in Ids \ {w.id} : row'[y] = row[y]
      BY <1>1 DEF Insert, LogTells, Writes
<1>2. ASSUME NEW w \in Writes, Rewrite(w)
      PROVE  /\ row[w.id] # None /\ w.id \in Ids
             /\ row'[w.id] # None /\ row'[w.id].parent = row[w.id].parent
             /\ \A y \in Ids \ {w.id} : row'[y] = row[y]
  <2>1. row[w.id] \in CatalogRow /\ w.id \in Ids /\ w.key \in Keys
        BY <1>2 DEF Rewrite, Writes, CatalogAssumption
  <2>2. [row[w.id] EXCEPT !.key = w.key] \in CatalogRow
        BY <2>1 DEF CatalogRow
  <2>q. QED BY <1>2, <2>1, <2>2 DEF Rewrite, CatalogRow, CatalogAssumption
<1>3. ASSUME NEW w \in Writes, Erase(w)
      PROVE  /\ w.id \in Targets /\ w.id \in Ids /\ row'[w.id] = None
             /\ \A y \in Ids \ {w.id} : row'[y] = row[y]
      BY <1>3 DEF Erase, Writes
<1>q. QED BY <1>1, <1>2, <1>3, OneWrite

LEMMA TenantStays ==
    ASSUME CatalogAssumption, CInv, [Next]_vars,
           NEW x \in Ids \ Users, row[x] # None, row'[x] # None
    PROVE  Organization(x)' = Organization(x)
<1> DEFINE p == row[x].parent
<1>1. /\ row'[x].parent = p /\ p \in ParentsOf(x)
      /\ p # None => row[p] # None
      BY ParentsStay DEF CInv, Tree
<1>2. CASE x \in Organizations
      BY <1>2 DEF Organization, CatalogAssumption
<1>3. CASE x \in Projects
      BY <1>1, <1>3 DEF Organization, CatalogAssumption
<1>4. CASE x \in Scrapers
  <2>1. p \in Projects /\ p \in Ids /\ p # None /\ p \notin Targets
        BY <1>1, <1>4, Kinds DEF CatalogAssumption, Ids
  <2>2. row'[p].parent = row[p].parent
        BY <1>1, <2>1, ParentsStay
  <2>q. QED BY <1>1, <1>4, <2>2 DEF Organization, CatalogAssumption
<1>5. CASE x \in Targets
  <2> DEFINE q == row[p].parent
  <2>1. p \in Scrapers /\ p \in Ids /\ p # None /\ p \notin Targets
        BY <1>1, <1>5, Kinds DEF CatalogAssumption, Ids
  <2>2. row'[p].parent = q /\ q \in ParentsOf(p) /\ (q # None => row[q] # None)
        BY <1>1, <2>1, ParentsStay DEF CInv, Tree
  <2>3. q \in Projects /\ q \in Ids /\ q # None /\ q \notin Targets
        BY <2>1, <2>2, Kinds DEF CatalogAssumption, Ids
  <2>4. row'[q].parent = row[q].parent
        BY <2>2, <2>3, ParentsStay
  <2>q. QED BY <1>1, <1>5, <2>2, <2>4 DEF Organization, CatalogAssumption
<1>q. QED BY <1>2, <1>3, <1>4, <1>5 DEF Ids

-----------------------------------------------------------------------------
(* The theorems.                                                           *)

\* Rows form a tree of the four kinds, with names apart and a log that tells
\* which of them are there.
THEOREM CatalogInvariance ==
    ASSUME CatalogAssumption
    PROVE  Spec => []CInv
<1>1. Init => CInv
      BY Initially
<1>2. CInv /\ [Next]_vars => CInv'
      BY CInvStep
<1>q. QED BY <1>1, <1>2, PTL DEF Spec

\* A deleted target never returns, under any later write.
THEOREM DeletedStaysDeleted ==
    ASSUME CatalogAssumption
    PROVE  Spec => GoneForGood
<1>1. CInv /\ [Next]_vars =>
         \A x \in Ids : log[x] # {} /\ row[x] = None => row'[x] = None
      BY ParentsStay
<1>q. QED BY <1>1, CatalogInvariance, PTL DEF Spec, GoneForGood

\* A resource never moves to another organization, so a role that was checked
\* in its organization was checked in the right one for as long as it exists.
THEOREM TenantIsConstant ==
    ASSUME CatalogAssumption
    PROVE  Spec => TenantForGood
<1>1. CInv /\ [Next]_vars =>
         \A x \in Ids \ Users : row[x] # None /\ row'[x] # None
            => Organization(x)' = Organization(x)
      BY TenantStays
<1>q. QED BY <1>1, CatalogInvariance, PTL DEF Spec, TenantForGood
=============================================================================
