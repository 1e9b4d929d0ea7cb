---------------------- MODULE SessionRefinement_proofs ----------------------
(***************************************************************************)
(* The store implements SessionSpec, for every set of users, families,     *)
(* pairs and requests and every TTL with AccessTTL <= RefreshTTL.          *)
(*                                                                         *)
(* A step of the store is seen by its callers only where the set Held or   *)
(* the requests about to grant a pair change.  The simulation rests on     *)
(* what SessionStore_proofs has shown of every reachable state (IInv and   *)
(* ListedMatch) and on one fact more, about the token a rotation carries.  *)
(***************************************************************************)
EXTENDS SessionRefinement, SessionStore_proofs

\* A request carries a token only while it rotates it, and from the SET that
\* marks it on the token is spent.
Carried ==
    \A r \in Reqs :
        /\ pc[r] \notin Issuing => token[r] = None
        /\ pc[r] \in Issuing \ {"mark"} => token[r] \in spent \cup {None}

SInv == IInv /\ ListedMatch /\ Carried

LEMMA CarriedStep == IInv /\ Carried /\ [Next]_vars => Carried'
<1> SUFFICES ASSUME IInv, Carried, [Next]_vars PROVE Carried'
    OBVIOUS
<1> USE DEF Carried, IInv, TypeOK, Issuing, Revoking, Goto
<1>1. ASSUME NEW r \in Reqs, Start(r) PROVE Carried'
  <2>1. CASE \E u \in Users, f \in Families : CreateSession(r, u, f)
        BY <2>1 DEF CreateSession
  <2>2. CASE \E t \in Tokens : RotateInvalid(r, t) \/ RevokeUnknown(r, t)
        BY <2>2 DEF RotateInvalid, RevokeUnknown, vars, locals, history
  <2>3. CASE \E t \in Tokens : RotateLookup(r, t)
        BY <2>3 DEF RotateLookup
  <2>4. CASE \E t \in Tokens : RotateReused(r, t) \/ RevokeLookup(r, t)
        BY <2>4 DEF RotateReused, RevokeLookup, Presents, history
  <2>q. QED BY <1>1, <2>1, <2>2, <2>3, <2>4 DEF Start
<1>2. ASSUME NEW r \in Reqs, Continue(r) PROVE Carried'
  <2>1. CASE \E p \in Pairs : IssueAccess(r, p)
        BY <2>1 DEF IssueAccess
  <2>2. CASE IssueRefresh(r) \/ Track(r)
        BY <2>2 DEF IssueRefresh, Track, history
  <2>3. CASE ExpireFamily(r) \/ RevokeFamily(r)
        BY <2>3 DEF ExpireFamily, RevokeFamily, End
  <2>4. CASE MarkUsed(r)
        BY <2>4 DEF MarkUsed
  <2>5. CASE RevokeMembers(r) \/ RevokeTokens(r)
        BY <2>5 DEF RevokeMembers, RevokeTokens, history
  <2>q. QED BY <1>2, <2>1, <2>2, <2>3, <2>4, <2>5 DEF Continue
<1>3. ASSUME NEW r \in Reqs, Fail(r) PROVE Carried'
      BY <1>3 DEF Fail, End, history
<1>4. CASE Tick
      BY <1>4 DEF Tick, locals
<1>5. CASE UNCHANGED vars
      BY <1>5 DEF vars, locals, history
<1>q. QED BY <1>1, <1>2, <1>3, <1>4, <1>5 DEF Next

LEMMA Reachable == Spec => []SInv
<1>1. Init => SInv
      BY IInvInit DEF Init, SInv, ListedMatch, Listed, Carried, Issuing
<1>2. SInv /\ [Next]_vars => SInv'
      BY IInvStep, ListedStep, CarriedStep DEF SInv
<1>q. QED BY <1>1, <1>2, PTL DEF Spec

-----------------------------------------------------------------------------
(* What callers see.                                                       *)

usable    == {Session(t) : t \in Held}
due       == [r \in Reqs |-> IF pc[r] \in Issuing THEN subject[r].family ELSE None]
presented == [r \in Reqs |-> IF pc[r] \in Issuing THEN token[r] ELSE None]
opened    == {f \in Families : owner[f] # None}

\* A member of usable is a held token with its own family.
LEMMA UsableFacts ==
    /\ \A u \in usable : u.token \in Held /\ u = Session(u.token)
    /\ \A t \in Held : Session(t) \in usable
    /\ \A t \in Tokens : Session(t).token = t /\ Session(t).family = record[t].family
BY DEF usable, Session, Held

\* Records are written only for tokens nobody holds, or deleted: a step that
\* holds no new token and keeps the records of those that stay only takes
\* from usable.
LEMMA UsableShrinks ==
    ASSUME \A t \in Tokens : t \in Held' => t \in Held /\ record'[t] = record[t]
    PROVE  usable' \subseteq usable
BY DEF usable, Session, Held

LEMMA UsableSame ==
    ASSUME \A t \in Tokens : t \in Held' <=> t \in Held,
           \A t \in Held : record'[t] = record[t]
    PROVE  usable' = usable
BY DEF usable, Session, Held

\* The mapped variables, under the names used here.
seenVars == <<opened, usable, delivered, due, presented, torn, dead>>

\* A step that none of them notices.
LEMMA Unnoticed ==
    ASSUME UNCHANGED seenVars
    PROVE  UNCHANGED Abstract!vars
BY DEF seenVars, Abstract!vars, opened, usable, due, presented

\* What a request is due changes with its pc alone, unless it starts.
LEMMA DueKept ==
    ASSUME SInv, NEW r \in Reqs, NEW where,
           pc' = [pc EXCEPT ![r] = where],
           pc[r] \in Issuing <=> where \in Issuing,
           pc[r] \in Issuing => subject' = subject /\ token' = token,
           \A q \in Reqs \ {r} : subject'[q] = subject[q] /\ token'[q] = token[q]
    PROVE  due' = due /\ presented' = presented
BY DEF SInv, IInv, TypeOK, due, presented

-----------------------------------------------------------------------------
(* One lemma per kind of step.                                             *)

\* The uuid4 of a login opens a session.
LEMMA OpenStep ==
    ASSUME SInv, NEW r \in Reqs, NEW u \in Users, NEW f \in Families, CreateSession(r, u, f)
    PROVE  Abstract!Open(r, f)
<1> USE DEF SInv, IInv, TypeOK
<1>1. due[r] = None /\ f \notin opened /\ pc[r] \notin Issuing
      BY DEF CreateSession, due, opened, Issuing
<1>2. opened' = opened \cup {f}
      BY NoneAssumption DEF CreateSession, opened
<1>3. due' = [due EXCEPT ![r] = f]
      BY DEF CreateSession, due, Goto, Issuing
<1>4. presented' = presented
      BY <1>1 DEF CreateSession, presented, Goto, Issuing, Carried
<1>5. usable' = usable
      BY UsableSame DEF CreateSession, Held, Usable, Live, redis
<1>6. UNCHANGED <<delivered, torn, dead>>
      BY DEF CreateSession
<1>q. QED BY <1>1, <1>2, <1>3, <1>4, <1>5, <1>6
         DEF Abstract!Open, opened, usable, due, presented

\* The GET of a rotation redeems the token.
LEMMA RedeemStep ==
    ASSUME SInv, NEW r \in Reqs, NEW t \in Tokens, RotateLookup(r, t)
    PROVE  \E u \in usable : Abstract!Redeem(r, u)
<1> USE DEF SInv, IInv, TypeOK
<1>1. t \in Held /\ t[2] = "refresh"
      BY DEF RotateLookup, Presents, Rotatable, Held, Usable, RecordsBelongToOwner
<1>2. Session(t) \in usable /\ Session(t).token = t /\ Session(t).family = record[t].family
      BY <1>1, UsableFacts
<1>3. due[r] = None
      BY DEF RotateLookup, Presents, due, Issuing
<1>4. due' = [due EXCEPT ![r] = record[t].family]
      BY DEF RotateLookup, due, Goto, Issuing
<1>5. presented' = [presented EXCEPT ![r] = t]
      BY DEF RotateLookup, presented, Goto, Issuing
<1>6. torn' \in {torn, torn \cup {record[t].family}}
      BY DEF RotateLookup
<1>7. usable' = usable
      BY UsableSame DEF RotateLookup, Held, Usable, Live, redis
<1>8. UNCHANGED <<opened, delivered, dead>>
      BY DEF RotateLookup, opened
<1>q. QED BY <1>1, <1>2, <1>3, <1>4, <1>5, <1>6, <1>7, <1>8
         DEF Abstract!Redeem, opened, usable, due, presented

\* The EXPIRE that returns the pair grants it.
LEMMA GrantStep ==
    ASSUME SInv, NEW r \in Reqs, ExpireFamily(r)
    PROVE  \E p \in Pairs : Abstract!Grant(r, p)
<1> USE TokenShape DEF SInv, IInv, TypeOK
<1>0. PICK p \in Pairs, g \in Families : p = pair[r] /\ g = subject[r].family
      BY DEF ExpireFamily, OwnPair, Holding, InFlight, Subject
<1> DEFINE Granted == {type \in {"access", "refresh"} : Usable(<<p, type>>)}
           New     == {[token |-> <<p, type>>, family |-> g] : type \in Granted}
<1>1. /\ pc[r] = "expire" /\ p \notin delivered
      /\ \A t \in FamilyMembers(p) : Live(t) => record[t].family = g
      /\ delivered' = delivered \cup {p}
      /\ UNCHANGED <<record, opened, torn, dead>>
      BY <1>0 DEF ExpireFamily, OwnPair, Holding, opened
<1>2. due[r] = g /\ g # None
      BY <1>0, <1>1, NoneAssumption DEF due, Issuing
<1>3. \A u \in usable : u.token # presented[r]
  <2>1. presented[r] = token[r] /\ token[r] \in spent \cup {None}
        BY <1>1 DEF presented, Carried, Issuing
  <2>2. \A t \in Held : t # None /\ t \notin spent
        BY NoneAssumption DEF Held, Usable, Minted
  <2>q. QED BY <2>1, <2>2, UsableFacts
<1>n. /\ \A type \in Granted : [token |-> <<p, type>>, family |-> g] \in New
      /\ \A u \in New : \E type \in Granted : u = [token |-> <<p, type>>, family |-> g]
      /\ \A type \in {"access", "refresh"} : type \in Granted <=> Usable(<<p, type>>)
      OBVIOUS
<1>6. Granted \in SUBSET {"access", "refresh"}
      OBVIOUS
<1>4. usable' = usable \cup New
  <2> HIDE DEF Granted, New
  <2>1. \A t \in Tokens : t \in Held' <=> t \in Held \/ (t[1] = p /\ Usable(t))
        BY <1>1 DEF Held, Usable, Live
  <2>2. \A type \in Granted : <<p, type>> \in Tokens /\ record[<<p, type>>].family = g
    <3>1. \A type \in {"access", "refresh"} : <<p, type>> \in Tokens /\ <<p, type>> \in FamilyMembers(p)
          BY DEF FamilyMembers, Access, Refresh, Tokens
    <3>2. \A type \in Granted : type \in {"access", "refresh"} /\ Live(<<p, type>>)
          BY <1>n, <1>6 DEF Usable
    <3>q. QED BY <1>1, <3>1, <3>2
  <2>3. \A t \in Tokens : t[1] = p /\ Usable(t) => t[2] \in Granted /\ t = <<p, t[2]>>
        BY <1>n DEF Tokens
  <2>4. \A t \in Tokens : Session(t)' = Session(t)
        BY <1>1 DEF Session
  <2>5. \A type \in Granted : <<p, type>> \in Held'
        BY <1>n, <1>6, <2>1, <2>2
  <2>6. usable' \subseteq usable \cup New
    <3>1. ASSUME NEW t \in Held'
          PROVE  Session(t)' \in usable \cup New
      <4>1. t \in Tokens
            BY DEF Held
      <4>2. CASE t \in Held
            BY <4>1, <4>2, <2>4 DEF usable
      <4>3. CASE t[1] = p /\ Usable(t)
        <5>1. t[2] \in Granted /\ t = <<p, t[2]>>
              BY <4>1, <4>3, <2>3
        <5>2. Session(t) = [token |-> <<p, t[2]>>, family |-> g]
              BY <5>1, <2>2 DEF Session
        <5>q. QED BY <1>n, <4>1, <5>1, <5>2, <2>4
      <4>q. QED BY <4>1, <4>2, <4>3, <2>1
    <3>q. QED BY <3>1 DEF usable
  <2>7. usable \subseteq usable'
        BY <2>1, <2>4 DEF usable, Held
  <2>8. ASSUME NEW type \in Granted
        PROVE  [token |-> <<p, type>>, family |-> g] \in usable'
    <3>1. Session(<<p, type>>)' = [token |-> <<p, type>>, family |-> g]
          BY <2>2, <2>4 DEF Session
    <3>q. QED BY <3>1, <2>5 DEF usable
  <2>q. QED BY <1>n, <2>6, <2>7, <2>8
<1>5. due' = [due EXCEPT ![r] = None] /\ presented' = [presented EXCEPT ![r] = None]
      BY DEF ExpireFamily, End, Goto, due, presented, Issuing
<1>7. \E S \in SUBSET {"access", "refresh"} :
         usable' = usable \cup {[token |-> <<p, type>>, family |-> due[r]] : type \in S}
  <2>1. New = {[token |-> <<p, type>>, family |-> due[r]] : type \in Granted}
        BY <1>2
  <2>q. QED BY <1>4, <1>6, <2>1
<1>8. Abstract!Grant(r, p)
  <2> HIDE DEF SInv, IInv, TypeOK, Granted, New
  <2>q. QED BY <1>1, <1>2, <1>3, <1>5, <1>7
           DEF Abstract!Grant, opened, usable, due, presented
<1>q. QED BY <1>8

\* A step that ends no token but some, tears at most sessions with a grant
\* due, and is otherwise unseen.
LEMMA LapseStep ==
    ASSUME SInv,
           \A t \in Tokens : t \in Held' => t \in Held /\ record'[t] = record[t],
           torn \subseteq torn',
           \A f \in torn' \ torn : \E r \in Reqs : IssuingFor(r, f),
           UNCHANGED <<opened, delivered, due, presented, dead>>
    PROVE  Abstract!Lapse
<1>1. usable' \in SUBSET usable
      BY UsableShrinks
<1>2. torn' \ torn \subseteq {due[r] : r \in Reqs} \ {None}
      BY NoneAssumption DEF SInv, IInv, TypeOK, InFlight, Subject, Issuing, IssuingFor, due
<1>q. QED BY <1>1, <1>2 DEF Abstract!Lapse, opened, usable, due, presented

\* The SET of a rotation spends its token.
LEMMA MarkStep ==
    ASSUME SInv, NEW r \in Reqs, MarkUsed(r)
    PROVE  Abstract!Lapse
<1> USE DEF SInv, IInv, TypeOK
<1>1. token[r] \in Tokens /\ seen[r] \in TokenRecord /\ MarkedRecord(seen[r]).used
      BY MarkedType DEF MarkUsed, InFlight
<1>2. \A t \in Tokens : t \in Held' => t \in Held /\ record'[t] = record[t]
      BY <1>1 DEF MarkUsed, SetKey, Held, Usable, Live
<1>3. due' = due /\ presented' = presented
      BY DueKept DEF MarkUsed, Goto, Issuing
<1>4. UNCHANGED <<opened, delivered, torn, dead>>
      BY DEF MarkUsed, opened
<1>q. QED BY <1>2, <1>3, <1>4, LapseStep

\* SMEMBERS tears the session if a grant is due, and is unseen otherwise.
LEMMA MembersStep ==
    ASSUME SInv, NEW r \in Reqs, RevokeMembers(r)
    PROVE  Abstract!Lapse
<1> USE DEF SInv, IInv, TypeOK
<1>1. \A t \in Tokens : t \in Held' => t \in Held /\ record'[t] = record[t]
      BY DEF RevokeMembers, redis, Held, Usable, Live
<1>2. due' = due /\ presented' = presented
      BY DEF RevokeMembers, Goto, Issuing, due, presented
<1>3. torn \subseteq torn' /\ \A f \in torn' \ torn : \E q \in Reqs : IssuingFor(q, f)
      BY DEF RevokeMembers
<1>4. UNCHANGED <<opened, delivered, dead>>
      BY DEF RevokeMembers, opened
<1>q. QED BY <1>1, <1>2, <1>3, <1>4, LapseStep

\* Time ends tokens and the family sets of sessions with a grant due.
LEMMA TickLapses ==
    ASSUME SInv, Tick
    PROVE  Abstract!Lapse
<1> USE DEF SInv, IInv, TypeOK
<1>1. \A t \in Tokens : t \in Held' => t \in Held /\ record'[t] = record[t]
      BY DEF Tick, Held, Usable, Live
<1>2. due' = due /\ presented' = presented
      BY DEF Tick, locals, due, presented
<1>3. torn \subseteq torn' /\ \A f \in torn' \ torn : \E q \in Reqs : IssuingFor(q, f)
      BY DEF Tick, IssuingFor, Issuing
<1>4. UNCHANGED <<opened, delivered, dead>>
      BY DEF Tick, opened
<1>q. QED BY <1>1, <1>2, <1>3, <1>4, LapseStep

\* The DEL of a revocation ends the session's tokens: all of them, unless the
\* session is torn.
LEMMA RevokeStep ==
    ASSUME SInv, NEW r \in Reqs, RevokeTokens(r)
    PROVE  \E f \in Families : Abstract!Revoke(f)
<1> USE DEF SInv, IInv, TypeOK
<1>0. PICK f \in Families : f = subject[r].family
      BY DEF RevokeTokens, InFlight, Subject
<1>1. /\ pc[r] = "tokens" /\ UNCHANGED <<torn, delivered, dead, opened>>
      /\ \A t \in Tokens : record'[t] = IF t \in members[r] THEN None ELSE record[t]
      BY DEF RevokeTokens, DelKeys, history, opened
<1>2. \A t \in members[r] \cap Held : record[t].family = f
      BY <1>0, <1>1 DEF ListedMatch, Listed, Held, Usable
<1>3. f \notin torn => \A t \in Held : record[t].family = f => t \in members[r]
      BY <1>0, <1>1 DEF Snapshot
<1>4. \A t \in Tokens : t \in Held' <=> t \in Held /\ t \notin members[r]
      BY <1>1 DEF Held, Usable, Live
<1>5. due' = due /\ presented' = presented
      BY DEF RevokeTokens, Goto, Issuing, due, presented
<1>6. \A t \in Held' : Session(t)' = Session(t)
      BY <1>1, <1>4 DEF Session, Held
<1>h. Held \subseteq Tokens /\ Held' \subseteq Tokens
      BY DEF Held
<1>7. usable' \subseteq usable
      BY <1>4, <1>6, <1>h DEF usable
<1>8. usable \ {u \in usable : u.family = f} \subseteq usable'
  <2> SUFFICES ASSUME NEW t \in Held, Session(t).family # f PROVE Session(t) \in usable'
      BY DEF usable
  <2>1. t \in Held'
        BY <1>2, <1>4, <1>h, UsableFacts
  <2>q. QED BY <2>1, <1>6 DEF usable
<1>9. ASSUME f \notin torn
      PROVE  usable' = usable \ {u \in usable : u.family = f}
  <2>1. \A t \in Held' : Session(t).family # f
        BY <1>3, <1>4, <1>9, <1>h, UsableFacts
  <2>2. \A u \in usable' : u.family # f
        BY <2>1, <1>6 DEF usable
  <2>q. QED BY <2>2, <1>7, <1>8
<1>10. Abstract!Revoke(f)
  <2> HIDE DEF SInv, IInv, TypeOK
  <2>q. QED BY <1>1, <1>5, <1>7, <1>8, <1>9
           DEF Abstract!Revoke, Abstract!Of, opened, usable, due, presented
<1>q. QED BY <1>10

\* The DEL of the family key closes the session, unless it is torn.
LEMMA CloseStep ==
    ASSUME SInv, NEW r \in Reqs, RevokeFamily(r)
    PROVE  (\E f \in Families : Abstract!Close(f)) \/ UNCHANGED seenVars
<1> USE DEF SInv, IInv, TypeOK
<1>0. PICK f \in Families : f = subject[r].family
      BY DEF RevokeFamily, InFlight, Subject
<1>1. /\ pc[r] = "family" /\ UNCHANGED <<record, torn, delivered, opened>>
      /\ dead' = IF f \in torn THEN dead ELSE dead \cup {f}
      BY <1>0 DEF RevokeFamily, opened
<1>2. due' = due /\ presented' = presented
      BY <1>1 DEF RevokeFamily, End, Goto, Issuing, due, presented
<1>3. usable' = usable
      BY <1>1, UsableSame DEF Held, Usable, Live
<1>4. CASE f \in torn
      BY <1>1, <1>2, <1>3, <1>4 DEF seenVars
<1>5. CASE f \notin torn
  <2>1. f \in opened
        BY <1>0, <1>1, NoneAssumption DEF InFlight, Subject, opened
  <2>2. \A t \in Held : record[t].family # f
        BY <1>0, <1>1, <1>5 DEF Snapshot
  <2>3. {u \in usable : u.family = f} = {}
    <3>1. \A u \in usable : u.token \in Held /\ u.family = record[u.token].family
          BY UsableFacts DEF Held
    <3>q. QED BY <2>2, <3>1
  <2>4. \A q \in Reqs : due[q] # f
        BY <1>0, <1>1, <1>5, NoneAssumption DEF Snapshot, IssuingFor, due
  <2>5. Abstract!Close(f)
    <3> HIDE DEF SInv, IInv, TypeOK
    <3>q. QED BY <1>1, <1>2, <1>3, <1>5, <2>1, <2>3, <2>4
             DEF Abstract!Close, Abstract!Of, opened, usable, due, presented
  <2>q. QED BY <2>5
<1>q. QED BY <1>4, <1>5

\* A call that dies while it issues a pair abandons it; a revocation that dies
\* is unseen.
LEMMA FailIsAbandon ==
    ASSUME SInv, NEW r \in Reqs, Fail(r)
    PROVE  Abstract!Abandon(r) \/ UNCHANGED seenVars
<1> USE DEF SInv, IInv, TypeOK
<1>1. UNCHANGED <<record, opened, delivered, torn, dead>>
      BY DEF Fail, redis, history, opened
<1>2. usable' = usable
      BY <1>1, UsableSame DEF Held, Usable, Live
<1>3. CASE pc[r] \in Issuing
  <2>1. due[r] # None
        BY <1>3, NoneAssumption DEF due, InFlight, Issuing, Subject
  <2>2. due' = [due EXCEPT ![r] = None] /\ presented' = [presented EXCEPT ![r] = None]
        BY DEF Fail, End, Goto, Issuing, due, presented
  <2>3. Abstract!Abandon(r)
    <3> HIDE DEF SInv, IInv, TypeOK
    <3>q. QED BY <1>1, <1>2, <2>1, <2>2 DEF Abstract!Abandon, opened, usable, due, presented
  <2>q. QED BY <2>3
<1>4. CASE pc[r] \in Revoking
  <2>1. due' = due /\ presented' = presented
        BY <1>4 DEF Fail, End, Goto, Issuing, Revoking, due, presented
  <2>q. QED BY <1>1, <1>2, <2>1 DEF seenVars
<1>q. QED BY <1>3, <1>4 DEF Fail

\* The two SETs and the SADD of a new pair are unseen: nobody holds it yet.
LEMMA IssueUnseen ==
    ASSUME SInv, NEW r \in Reqs,
           (\E p \in Pairs : IssueAccess(r, p)) \/ IssueRefresh(r) \/ Track(r)
    PROVE  UNCHANGED seenVars
<1> USE TokenShape DEF SInv, IInv, TypeOK
<1>1. due' = due /\ presented' = presented
      BY DEF IssueAccess, IssueRefresh, Track, Goto, Issuing, due, presented
<1>2. UNCHANGED <<opened, delivered, torn, dead>>
      BY DEF IssueAccess, IssueRefresh, Track, history, opened
<1>3. \A t \in Tokens : t[1] \in delivered => record'[t] = record[t]
  <2>1. ASSUME NEW p \in Pairs, IssueAccess(r, p)
        PROVE  \A t \in Tokens : t[1] \in delivered => record'[t] = record[t]
        BY <2>1 DEF IssueAccess, SetKey, Minted
  <2>2. CASE IssueRefresh(r)
    <3>1. pair[r] \in Pairs \ delivered
          BY <2>2 DEF IssueRefresh, OwnPair, Holding
    <3>q. QED BY <2>2, <3>1 DEF IssueRefresh, SetKey
  <2>3. CASE Track(r)
        BY <2>3 DEF Track
  <2>q. QED BY <2>1, <2>2, <2>3
<1>4. usable' = usable
  <2>1. \A t \in Tokens : t \in Held' <=> t \in Held
        BY <1>2, <1>3 DEF Held, Usable, Live
  <2>2. \A t \in Held : record'[t] = record[t]
        BY <1>3 DEF Held
  <2>q. QED BY <2>1, <2>2, UsableSame
<1>q. QED BY <1>1, <1>2, <1>4 DEF seenVars

\* A call that finds no usable refresh token, or starts a revocation, is
\* unseen.
LEMMA LookupUnseen ==
    ASSUME SInv, NEW r \in Reqs, NEW t \in Tokens,
           RotateInvalid(r, t) \/ RevokeUnknown(r, t) \/ RotateReused(r, t) \/ RevokeLookup(r, t)
    PROVE  UNCHANGED seenVars
<1> USE DEF SInv, IInv, TypeOK
<1>1. UNCHANGED <<redis, token, history>>
      BY DEF RotateInvalid, RevokeUnknown, RotateReused, RevokeLookup, vars, locals
<1>2. due' = due /\ presented' = presented
  <2>1. CASE RotateInvalid(r, t) \/ RevokeUnknown(r, t)
        BY <2>1 DEF RotateInvalid, RevokeUnknown, vars, locals, due, presented
  <2>2. CASE RotateReused(r, t) \/ RevokeLookup(r, t)
        BY <2>2 DEF RotateReused, RevokeLookup, Presents, Goto, Issuing, due, presented
  <2>q. QED BY <2>1, <2>2
<1>3. usable' = usable
      BY <1>1, UsableSame DEF redis, history, Held, Usable, Live
<1>q. QED BY <1>1, <1>2, <1>3 DEF seenVars, history, opened

-----------------------------------------------------------------------------
LEMMA InitMaps == Init => Abstract!Init
<1> SUFFICES ASSUME Init PROVE Abstract!Init
    OBVIOUS
<1>1. opened = {} /\ delivered = {} /\ torn = {} /\ dead = {}
      BY DEF Init, opened
<1>2. usable = {}
      BY <1>1 DEF usable, Held
<1>3. due = [r \in Reqs |-> None] /\ presented = [r \in Reqs |-> None]
      BY DEF Init, Issuing, due, presented
<1>q. QED BY <1>1, <1>2, <1>3 DEF Abstract!Init, opened, usable, due, presented

LEMMA StepMaps == SInv /\ [Next]_vars => [Abstract!Next]_(Abstract!vars)
<1> SUFFICES ASSUME SInv, [Next]_vars, ~UNCHANGED seenVars PROVE Abstract!Next
    BY Unnoticed
<1>1. ASSUME NEW r \in Reqs, Start(r) PROVE Abstract!Next
  <2>1. ASSUME NEW u \in Users, NEW f \in Families, CreateSession(r, u, f)
        PROVE  Abstract!Next
        BY <2>1, OpenStep DEF Abstract!Next
  <2>2. ASSUME NEW t \in Tokens, RotateLookup(r, t)
        PROVE  Abstract!Next
        BY <2>2, RedeemStep DEF Abstract!Next, usable
  <2>q. QED BY <1>1, <2>1, <2>2, LookupUnseen DEF Start
<1>2. ASSUME NEW r \in Reqs, Continue(r) PROVE Abstract!Next
  <2>1. CASE ExpireFamily(r)
        BY <2>1, GrantStep DEF Abstract!Next
  <2>2. CASE MarkUsed(r)
        BY <2>2, MarkStep DEF Abstract!Next
  <2>3. CASE RevokeMembers(r)
        BY <2>3, MembersStep DEF Abstract!Next
  <2>4. CASE RevokeTokens(r)
        BY <2>4, RevokeStep DEF Abstract!Next
  <2>5. CASE RevokeFamily(r)
        BY <2>5, CloseStep DEF Abstract!Next
  <2>q. QED BY <1>2, <2>1, <2>2, <2>3, <2>4, <2>5, IssueUnseen DEF Continue
<1>3. ASSUME NEW r \in Reqs, Fail(r) PROVE Abstract!Next
      BY <1>3, FailIsAbandon DEF Abstract!Next
<1>4. CASE Tick
      BY <1>4, TickLapses DEF Abstract!Next
<1>5. UNCHANGED vars => UNCHANGED seenVars
  <2> SUFFICES ASSUME UNCHANGED vars PROVE UNCHANGED seenVars
      OBVIOUS
  <2>1. usable' = usable
        BY UsableSame DEF vars, redis, history, Held, Usable, Live
  <2>q. QED BY <2>1 DEF vars, redis, locals, history, seenVars, opened, due, presented
<1>q. QED BY <1>1, <1>2, <1>3, <1>4, <1>5 DEF Next

\* Whatever commands of other requests run between its own, and whichever
\* requests die, a call of the store is one grant, one revocation or nothing,
\* and a token is spent before its successor is granted (sessions.py:89-212).
THEOREM StoreImplementsSession == Spec => ImplementsSession
<1>1. Init => Abstract!Init
      BY InitMaps
<1>2. SInv /\ [Next]_vars => [Abstract!Next]_(Abstract!vars)
      BY StepMaps
<1>q. QED BY <1>1, <1>2, Reachable, PTL DEF Spec, Abstract!Spec, ImplementsSession

\* No call ever makes a token usable that was handed out and could no longer be
\* used: what is written over a record is that record marked used, or belongs
\* to a pair nobody has been given.
THEOREM UnusableStays == Spec => UnusableForGood
<1> DEFINE Stays == \A t \in Tokens : t[1] \in delivered /\ ~Usable(t) => ~Usable(t)'
<1>1. ASSUME SInv, [Next]_vars PROVE Stays
  <2> USE <1>1, TokenShape DEF SInv, IInv, TypeOK
  <2> SUFFICES ASSUME NEW t \in Tokens, t[1] \in delivered, Usable(t)' PROVE Usable(t)
      OBVIOUS
  <2>1. ASSUME NEW r \in Reqs, Start(r) PROVE Usable(t)
        BY <2>1 DEF Start, CreateSession, RotateInvalid, RotateLookup, RotateReused,
           RevokeUnknown, RevokeLookup, vars, redis, Usable, Live
  <2>2. ASSUME NEW r \in Reqs, Continue(r) PROVE Usable(t)
    <3>1. ASSUME NEW p \in Pairs, IssueAccess(r, p)
          PROVE  Usable(t)
          BY <3>1 DEF IssueAccess, SetKey, Minted, Usable, Live
    <3>2. CASE IssueRefresh(r)
      <4>1. pair[r] \in Pairs \ delivered
            BY <3>2 DEF IssueRefresh, OwnPair, Holding
      <4>q. QED BY <3>2, <4>1 DEF IssueRefresh, SetKey, Usable, Live
    <3>3. CASE MarkUsed(r)
      <4>1. token[r] \in Tokens /\ MarkedRecord(seen[r]).used
            BY <3>3, MarkedType DEF MarkUsed, InFlight
      <4>q. QED BY <3>3, <4>1 DEF MarkUsed, SetKey, Usable, Live
    <3>4. CASE RevokeTokens(r)
          BY <3>4 DEF RevokeTokens, DelKeys, Usable, Live
    <3>q. QED BY <2>2, <3>1, <3>2, <3>3, <3>4
              DEF Continue, Track, ExpireFamily, RevokeMembers, RevokeFamily, redis, Usable, Live
  <2>3. ASSUME NEW r \in Reqs, Fail(r) PROVE Usable(t)
        BY <2>3 DEF Fail, redis, Usable, Live
  <2>4. CASE Tick
        BY <2>4 DEF Tick, Usable, Live
  <2>5. CASE UNCHANGED vars
        BY <2>5 DEF vars, redis, Usable, Live
  <2>q. QED BY <2>1, <2>2, <2>3, <2>4, <2>5 DEF Next
<1>q. QED BY <1>1, Reachable, PTL DEF Spec, UnusableForGood
-----------------------------------------------------------------------------
(* What SessionSpec_proofs shows of sessions holds of the store.           *)

Promises == INSTANCE SessionSpec_proofs WITH
    Callers   <- Reqs,
    opened    <- {f \in Families : owner[f] # None},
    usable    <- {Session(t) : t \in Held},
    granted   <- delivered,
    due       <- [r \in Reqs |->
                    IF pc[r] \in Issuing THEN subject[r].family ELSE None],
    presented <- [r \in Reqs |-> IF pc[r] \in Issuing THEN token[r] ELSE None],
    closed    <- dead

\* It is the session that the store implements.
LEMMA SameSession ==
    /\ Promises!Init <=> Abstract!Init
    /\ [Promises!Next]_(Promises!vars) <=> [Abstract!Next]_(Abstract!vars)
<1>1. Promises!Init <=> Abstract!Init
      BY DEF Promises!Init, Abstract!Init
<1>2. UNCHANGED Promises!vars <=> UNCHANGED Abstract!vars
      BY DEF Promises!vars, Abstract!vars
<1>3. \A c, f : Promises!Open(c, f) <=> Abstract!Open(c, f)
      BY DEF Promises!Open, Abstract!Open
<1>4. \A c, u : Promises!Redeem(c, u) <=> Abstract!Redeem(c, u)
      BY DEF Promises!Redeem, Abstract!Redeem
<1>5. \A c, p : Promises!Grant(c, p) <=> Abstract!Grant(c, p)
      BY DEF Promises!Grant, Abstract!Grant
<1>6. \A c : Promises!Abandon(c) <=> Abstract!Abandon(c)
      BY DEF Promises!Abandon, Abstract!Abandon
<1>7. Promises!Lapse <=> Abstract!Lapse
      BY DEF Promises!Lapse, Abstract!Lapse
<1>8. \A f : Promises!Revoke(f) <=> Abstract!Revoke(f)
      BY DEF Promises!Revoke, Abstract!Revoke, Promises!Of, Abstract!Of
<1>9. \A f : Promises!Close(f) <=> Abstract!Close(f)
      BY DEF Promises!Close, Abstract!Close, Promises!Of, Abstract!Of
<1>10. Promises!Next <=> Abstract!Next
       BY <1>3, <1>4, <1>5, <1>6, <1>7, <1>8, <1>9 DEF Promises!Next, Abstract!Next
<1>q. QED BY <1>1, <1>2, <1>10

\* In the store too a session that is over has no usable token and no call that
\* is about to make one, and a usable token is of one session and was handed out.
THEOREM StoreKeepsPromises == Spec => [](Promises!ClosedIsOver /\ Promises!GrantedInOneSession)
<1>1. Spec => Promises!Spec
      BY SameSession, StoreImplementsSession, PTL
      DEF Promises!Spec, Abstract!Spec, ImplementsSession
<1>q. QED BY <1>1, Promises!ClosedIsFinal, Promises!OneSessionPerToken, PTL
=============================================================================
