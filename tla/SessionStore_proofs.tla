------------------------- MODULE SessionStore_proofs -------------------------
(***************************************************************************)
(* Proofs about SessionStore for every set of users, families, pairs and   *)
(* requests and every TTL with AccessTTL <= RefreshTTL.                    *)
(*                                                                         *)
(* The safety invariants are not inductive: what a revocation will find    *)
(* depends on what the requests in flight hold.  IInv below adds, one      *)
(* conjunct each, what a request knows at every await.                     *)
(***************************************************************************)
EXTENDS SessionStore, TLAPS

\* pair[r] has been minted and not yet returned.
Holding == {"refresh", "track", "expire"}

\* A request in flight works for a family of its subject's user, and one
\* about to mark a token read it unused.
InFlight ==
    \A r \in Reqs :
        /\ pc[r] # "idle" =>
              /\ subject[r] \in Subject
              /\ owner[subject[r].family] = subject[r].user
        /\ pc[r] = "mark" =>
              /\ token[r] \in Tokens
              /\ token[r][1] \in delivered
              /\ token[r][2] = "refresh"
              /\ seen[r] \in TokenRecord
              /\ seen[r].user = subject[r].user
              /\ seen[r].family = subject[r].family
              /\ seen[r].type = "refresh"
              /\ seen[r].csrf = token[r][1]

\* A record exists only for a minted pair, and a spent token's record says so.
Minted ==
    /\ delivered \subseteq minted
    /\ \A t \in Tokens : Live(t) => t[1] \in minted
    /\ \A t \in spent : t[1] \in delivered /\ (Live(t) => record[t].used)

\* The pair a request is issuing is its own, unknown to callers, and its
\* records name the request's family.
OwnPair ==
    /\ \A r \in Reqs : pc[r] \in Holding =>
          /\ pair[r] \in minted \ delivered
          /\ \A t \in FamilyMembers(pair[r]) :
                Live(t) => record[t].family = subject[r].family
    /\ \A r, q \in Reqs :
          r # q /\ pc[r] \in Holding /\ pc[q] \in Holding => pair[r] # pair[q]

\* Between SADD and EXPIRE the pair is in the family set.
TrackedPair ==
    \A r \in Reqs :
        pc[r] = "expire" /\ subject[r].family \notin torn
            => FamilyMembers(pair[r]) \subseteq family[subject[r].family]

\* A revocation that has its snapshot overlaps no issuance, its snapshot has
\* every held token of the family, and after the DEL there is none.
Snapshot ==
    \A r \in Reqs :
        pc[r] \in {"tokens", "family"} /\ subject[r].family \notin torn =>
            /\ \A q \in Reqs : ~IssuingFor(q, subject[r].family)
            /\ \A t \in Held : record[t].family = subject[r].family
                  => pc[r] = "tokens" /\ t \in members[r]

DeadIsOwned == \A f \in dead : owner[f] # None

IInv ==
    /\ TypeOK
    /\ InFlight
    /\ RecordsBelongToOwner
    /\ Minted
    /\ OwnPair
    /\ AccessTokensStayShort
    /\ TrackedPair
    /\ RevocationFindsEveryToken
    /\ Snapshot
    /\ RevokedFamilyStaysDead
    /\ DeadIsOwned

-----------------------------------------------------------------------------
(* Tokens are pairs of a token pair and a type.                            *)

LEMMA TokenShape ==
    /\ \A p \in Pairs : /\ Access(p) \in Tokens /\ Access(p)[1] = p /\ Access(p)[2] = "access"
                        /\ Refresh(p) \in Tokens /\ Refresh(p)[1] = p /\ Refresh(p)[2] = "refresh"
                        /\ FamilyMembers(p) \subseteq Tokens
    /\ \A t \in Tokens : t[1] \in Pairs /\ t \in FamilyMembers(t[1])
    /\ \A p \in Pairs : \A t \in FamilyMembers(p) : t[1] = p
    /\ \A t \in Tokens : t[2] = "access" => t = Access(t[1])
    /\ \A t \in Tokens : t[2] = "refresh" => t = Refresh(t[1])
BY DEF Tokens, Access, Refresh, FamilyMembers

\* Marking a record gives a record that differs in `used` alone.
LEMMA MarkedType ==
    ASSUME NEW rec \in TokenRecord
    PROVE  /\ MarkedRecord(rec) \in TokenRecord
           /\ MarkedRecord(rec).used
           /\ MarkedRecord(rec).user = rec.user
           /\ MarkedRecord(rec).family = rec.family
           /\ MarkedRecord(rec).type = rec.type
           /\ MarkedRecord(rec).csrf = rec.csrf
BY DEF MarkedRecord, TokenRecord

\* A tick keeps a TTL in its range and takes one from it unless it is 0 or
\* NoExpiry.
LEMMA AgedType ==
    /\ \A n \in 0 .. RefreshTTL : Aged(n) \in 0 .. RefreshTTL /\ (n > 1 => Aged(n) = n - 1)
    /\ \A n \in 0 .. NoExpiry : Aged(n) \in 0 .. NoExpiry
    /\ \A n \in 0 .. RefreshTTL, m \in 0 .. NoExpiry :
          n > 1 /\ n <= m => m # 1 /\ Aged(n) <= Aged(m)
BY TTLAssumption DEF Aged, NoExpiry

\* Every step keeps every variable in its type.  A request in flight has the
\* locals its next command reads, which is why IInv is needed.
LEMMA TypeStep == IInv /\ [Next]_vars => TypeOK'
<1> SUFFICES ASSUME IInv, [Next]_vars PROVE TypeOK'
    OBVIOUS
<1> USE TTLAssumption, TokenShape DEF IInv, TypeOK
<1>1. ASSUME NEW r \in Reqs, NEW u \in Users, NEW f \in Families, CreateSession(r, u, f)
      PROVE  TypeOK'
      BY <1>1 DEF CreateSession, Goto, redis, Subject, Issuing
<1>2. ASSUME NEW r \in Reqs, NEW t \in Tokens, RotateInvalid(r, t) \/ RevokeUnknown(r, t)
      PROVE  TypeOK'
      BY <1>2 DEF RotateInvalid, RevokeUnknown, vars, redis, locals, history
<1>3. ASSUME NEW r \in Reqs, NEW t \in Tokens, RotateLookup(r, t)
      PROVE  TypeOK'
      BY <1>3 DEF RotateLookup, Presents, Live, Goto, redis, Subject, TokenRecord, Issuing
<1>4. ASSUME NEW r \in Reqs, NEW t \in Tokens, RotateReused(r, t)
      PROVE  TypeOK'
      BY <1>4 DEF RotateReused, Presents, Live, Goto, redis, history, Subject, TokenRecord, Revoking
<1>5. ASSUME NEW r \in Reqs, NEW t \in Tokens, RevokeLookup(r, t)
      PROVE  TypeOK'
      BY <1>5 DEF RevokeLookup, Presents, Live, Goto, redis, history, Subject, TokenRecord, Revoking
<1>6. ASSUME NEW r \in Reqs, MarkUsed(r)
      PROVE  TypeOK'
  <2>1. token[r] \in Tokens /\ MarkedRecord(seen[r]) \in TokenRecord
        BY <1>6, MarkedType DEF InFlight, MarkUsed
  <2>2. record' \in [Tokens -> TokenRecord \cup {None}] /\ ttl' \in [Tokens -> 0 .. RefreshTTL]
        BY <1>6, <2>1 DEF MarkUsed, SetKey, MarkTTL
  <2>3. QED BY <1>6, <2>1, <2>2 DEF MarkUsed, Goto, Issuing
<1>7. ASSUME NEW r \in Reqs, NEW p \in Pairs, IssueAccess(r, p)
      PROVE  TypeOK'
      BY <1>7 DEF InFlight, IssueAccess, NewRecord, SetKey, Goto, TokenRecord, Subject, Issuing
<1>8. ASSUME NEW r \in Reqs, IssueRefresh(r)
      PROVE  TypeOK'
      BY <1>8 DEF InFlight, Holding, OwnPair, IssueRefresh, NewRecord, SetKey, Goto, TokenRecord, Subject, history, Issuing
<1>9. ASSUME NEW r \in Reqs, Track(r)
      PROVE  TypeOK'
      BY <1>9 DEF InFlight, Holding, OwnPair, Track, Goto, Subject, history, Issuing, NoExpiry
<1>10. ASSUME NEW r \in Reqs, ExpireFamily(r)
       PROVE  TypeOK'
       BY <1>10 DEF InFlight, Holding, OwnPair, ExpireFamily, End, Goto, Subject, NoExpiry
<1>11. ASSUME NEW r \in Reqs, RevokeMembers(r)
       PROVE  TypeOK'
       BY <1>11 DEF InFlight, RevokeMembers, SMembers, Goto, redis, Subject, Revoking
<1>12. ASSUME NEW r \in Reqs, RevokeTokens(r)
       PROVE  TypeOK'
       BY <1>12 DEF RevokeTokens, DelKeys, Goto, history, Revoking
<1>13. ASSUME NEW r \in Reqs, RevokeFamily(r)
       PROVE  TypeOK'
       BY <1>13 DEF InFlight, RevokeFamily, End, Goto, Subject, NoExpiry
<1>14. ASSUME NEW r \in Reqs, Fail(r)
       PROVE  TypeOK'
       BY <1>14 DEF Fail, End, Goto, redis, history
<1>15. CASE Tick
  <2>1. record' \in [Tokens -> TokenRecord \cup {None}] /\ ttl' \in [Tokens -> 0 .. RefreshTTL]
        BY <1>15, AgedType DEF Tick
  <2>2. family' \in [Families -> SUBSET Tokens] /\ familyTTL' \in [Families -> 0 .. NoExpiry]
        BY <1>15, AgedType DEF Tick
  <2>3. QED BY <1>15, <2>1, <2>2 DEF Tick, locals
<1>16. CASE UNCHANGED vars
       BY <1>16 DEF vars, redis, locals, history
<1>q. QED
      BY <1>1, <1>2, <1>3, <1>4, <1>5, <1>6, <1>7, <1>8, <1>9, <1>10, <1>11, <1>12,
         <1>13, <1>14, <1>15, <1>16
      DEF Next, Start, Continue

-----------------------------------------------------------------------------
(* One lemma per action, one step per conjunct of IInv.                     *)

\* A fresh family has no token, so the login that opens it endangers nothing.
LEMMA CreateSessionStep ==
    ASSUME IInv, TypeOK', NEW r \in Reqs, NEW u \in Users, NEW f \in Families, CreateSession(r, u, f)
    PROVE  IInv'
<1>1. InFlight'
      BY NoneAssumption DEF IInv, TypeOK, InFlight, Subject, CreateSession, Goto
<1>2. RecordsBelongToOwner'
      BY NoneAssumption DEF IInv, TypeOK, RecordsBelongToOwner, TokenRecord, Live,
         CreateSession, redis
<1>3. Minted'
      BY DEF IInv, Minted, Live, CreateSession, redis
<1>4. OwnPair'
      BY DEF IInv, OwnPair, Holding, Live, CreateSession, Goto, redis
<1>5. AccessTokensStayShort'
      BY DEF IInv, AccessTokensStayShort, CreateSession, redis
<1>6. TrackedPair'
      BY DEF IInv, TrackedPair, CreateSession, Goto, redis
<1>7. RevocationFindsEveryToken'
      BY DEF IInv, RevocationFindsEveryToken, Held, Usable, Live, CreateSession,
         redis
<1>8. Snapshot'
      BY NoneAssumption DEF IInv, TypeOK, Snapshot, Held, Usable, Live, IssuingFor,
         InFlight, Subject, CreateSession, Goto, redis
<1>9. RevokedFamilyStaysDead'
      BY DEF IInv, TypeOK, RevokedFamilyStaysDead, DeadIsOwned, Held, Usable, Live,
         IssuingFor, CreateSession, Goto, redis
<1>10. DeadIsOwned'
      BY DEF IInv, DeadIsOwned, CreateSession
<1>q. QED BY <1>1, <1>2, <1>3, <1>4, <1>5, <1>6, <1>7, <1>8, <1>9, <1>10 DEF IInv

\* The access token gets a fresh pair: no caller knows it, so it is not yet held.
LEMMA IssueAccessStep ==
    ASSUME IInv, TypeOK', NEW r \in Reqs, NEW p \in Pairs, IssueAccess(r, p)
    PROVE  IInv'
<1>1. InFlight'
      BY DEF IInv, InFlight, IssueAccess, Goto
<1>2. RecordsBelongToOwner'
      BY TTLAssumption, TokenShape DEF IInv, RecordsBelongToOwner, InFlight, Live,
         IssueAccess, SetKey, NewRecord
<1>3. Minted'
      BY TokenShape DEF IInv, Minted, Live, IssueAccess, SetKey
<1>4. OwnPair'
      BY TokenShape DEF IInv, TypeOK, OwnPair, Minted, InFlight, Live, Subject,
         TokenRecord, IssueAccess, Goto, SetKey, NewRecord
<1>5. AccessTokensStayShort'
      BY DEF IInv, TypeOK, AccessTokensStayShort, IssueAccess, SetKey
<1>6. TrackedPair'
      BY DEF IInv, TypeOK, TrackedPair, IssueAccess, Goto
<1>7. RevocationFindsEveryToken'
      BY TokenShape DEF IInv, RevocationFindsEveryToken, Held, Usable, Live, Minted,
         IssueAccess, SetKey
<1>8. Snapshot'
      BY DEF IInv, Snapshot, Held, Usable, Live, IssuingFor, Issuing, IssueAccess,
         Goto, SetKey, NewRecord
<1>9. RevokedFamilyStaysDead'
      BY DEF IInv, RevokedFamilyStaysDead, Held, Usable, Live, IssuingFor, Issuing,
         IssueAccess, Goto, SetKey, NewRecord
<1>10. DeadIsOwned'
      BY DEF IInv, DeadIsOwned, IssueAccess
<1>q. QED BY <1>1, <1>2, <1>3, <1>4, <1>5, <1>6, <1>7, <1>8, <1>9, <1>10 DEF IInv

\* The refresh token joins the pair, still unknown to callers.
LEMMA IssueRefreshStep ==
    ASSUME IInv, TypeOK', NEW r \in Reqs, IssueRefresh(r)
    PROVE  IInv'
<1>1. InFlight'
      BY DEF IInv, InFlight, IssueRefresh, Goto, history
<1>2. RecordsBelongToOwner'
      BY TokenShape DEF IInv, TypeOK, RecordsBelongToOwner, InFlight, Live, Holding,
         OwnPair, IssueRefresh, SetKey, NewRecord, history
<1>3. Minted'
      BY TokenShape DEF IInv, TypeOK, Minted, OwnPair, Holding, Live, IssueRefresh,
         SetKey, history
<1>4. OwnPair'
      BY TokenShape DEF IInv, TypeOK, OwnPair, Holding, Live, IssueRefresh, Goto,
         SetKey, NewRecord, history
<1>5. AccessTokensStayShort'
      BY TokenShape DEF IInv, TypeOK, AccessTokensStayShort, OwnPair, Holding,
         IssueRefresh, SetKey
<1>6. TrackedPair'
      BY DEF IInv, TrackedPair, IssueRefresh, Goto, history
<1>7. RevocationFindsEveryToken'
      BY TokenShape DEF IInv, TypeOK, RevocationFindsEveryToken, Held, Usable, Live,
         OwnPair, Holding, IssueRefresh, SetKey, history
<1>8. Snapshot'
      BY DEF IInv, Snapshot, Held, Usable, Live, IssuingFor, Issuing, IssueRefresh,
         Goto, SetKey, NewRecord, history
<1>9. RevokedFamilyStaysDead'
      BY DEF IInv, RevokedFamilyStaysDead, Held, Usable, Live, IssuingFor, Issuing,
         IssueRefresh, Goto, SetKey, NewRecord, history
<1>10. DeadIsOwned'
      BY DEF IInv, DeadIsOwned, IssueRefresh, history
<1>q. QED BY <1>1, <1>2, <1>3, <1>4, <1>5, <1>6, <1>7, <1>8, <1>9, <1>10 DEF IInv

\* The SADD puts both tokens of the pair in the family set and takes none out.
LEMMA TrackStep ==
    ASSUME IInv, TypeOK', NEW r \in Reqs, Track(r)
    PROVE  IInv'
<1>1. InFlight'
      BY DEF IInv, InFlight, Track, Goto, history
<1>2. RecordsBelongToOwner'
      BY DEF IInv, RecordsBelongToOwner, Live, Track, history
<1>3. Minted'
      BY DEF IInv, Minted, Live, Track, history
<1>4. OwnPair'
      BY DEF IInv, OwnPair, Holding, Live, Track, Goto, history
<1>5. AccessTokensStayShort'
      BY DEF IInv, AccessTokensStayShort, Track
<1>6. TrackedPair'
      BY DEF IInv, TypeOK, TrackedPair, Track, Goto, history
<1>7. RevocationFindsEveryToken'
      BY DEF IInv, RevocationFindsEveryToken, Held, Usable, Live, Track, history
<1>8. Snapshot'
      BY DEF IInv, Snapshot, Held, Usable, Live, IssuingFor, Issuing, Track, Goto,
         history
<1>9. RevokedFamilyStaysDead'
      BY DEF IInv, RevokedFamilyStaysDead, Held, Usable, Live, IssuingFor, Issuing,
         Track, Goto, history
<1>10. DeadIsOwned'
      BY DEF IInv, DeadIsOwned, Track, history
<1>q. QED BY <1>1, <1>2, <1>3, <1>4, <1>5, <1>6, <1>7, <1>8, <1>9, <1>10 DEF IInv

\* The pair becomes held: TrackedPair says that it is in the set, and the EXPIRE
\* gives the set the TTL of a whole refresh token.
LEMMA ExpireFamilyStep ==
    ASSUME IInv, TypeOK', NEW r \in Reqs, ExpireFamily(r)
    PROVE  IInv'
<1>1. InFlight'
      BY DEF IInv, TypeOK, InFlight, ExpireFamily, End, Goto
<1>2. RecordsBelongToOwner'
      BY DEF IInv, RecordsBelongToOwner, Live, ExpireFamily
<1>3. Minted'
      BY DEF IInv, Minted, OwnPair, Holding, Live, ExpireFamily
<1>4. OwnPair'
      BY DEF IInv, TypeOK, OwnPair, Holding, Live, ExpireFamily, End, Goto
<1>5. AccessTokensStayShort'
      BY DEF IInv, AccessTokensStayShort, ExpireFamily
<1>6. TrackedPair'
      BY DEF IInv, TypeOK, TrackedPair, ExpireFamily, End, Goto
<1>7. RevocationFindsEveryToken'
      BY TokenShape DEF IInv, TypeOK, RevocationFindsEveryToken, Held, Usable, Live,
         TrackedPair, OwnPair, Holding, ExpireFamily
<1>8. Snapshot'
      BY TokenShape DEF IInv, TypeOK, Snapshot, Held, Usable, Live, IssuingFor,
         Issuing, OwnPair, Holding, ExpireFamily, End, Goto
<1>9. RevokedFamilyStaysDead'
      BY TokenShape DEF IInv, TypeOK, RevokedFamilyStaysDead, Held, Usable, Live,
         IssuingFor, Issuing, OwnPair, Holding, ExpireFamily, End, Goto
<1>10. DeadIsOwned'
      BY DEF IInv, DeadIsOwned, ExpireFamily
<1>q. QED BY <1>1, <1>2, <1>3, <1>4, <1>5, <1>6, <1>7, <1>8, <1>9, <1>10 DEF IInv

\* A rotation starts from a record that is unused.  If its family is being revoked,
\* the family is torn; a dead family has no held token to start from.
LEMMA RotateLookupStep ==
    ASSUME IInv, TypeOK', NEW r \in Reqs, NEW t \in Tokens, RotateLookup(r, t)
    PROVE  IInv'
<1>1. InFlight'
      BY DEF IInv, TypeOK, InFlight, Subject, TokenRecord, Live, RotateLookup,
         Presents, Rotatable, Goto, RecordsBelongToOwner
<1>2. RecordsBelongToOwner'
      BY DEF IInv, RecordsBelongToOwner, Live, RotateLookup, redis
<1>3. Minted'
      BY DEF IInv, Minted, Live, RotateLookup, redis
<1>4. OwnPair'
      BY DEF IInv, OwnPair, Holding, Live, RotateLookup, Presents, Goto, redis
<1>5. AccessTokensStayShort'
      BY DEF IInv, AccessTokensStayShort, RotateLookup, redis
<1>6. TrackedPair'
      BY DEF IInv, TypeOK, TrackedPair, RotateLookup, Goto, redis
<1>7. RevocationFindsEveryToken'
      BY DEF IInv, RevocationFindsEveryToken, Held, Usable, Live, RotateLookup,
         redis
<1>8. Snapshot'
      BY DEF IInv, TypeOK, Snapshot, Held, Usable, Live, IssuingFor, RevokingFor,
         RotateLookup, Goto, redis
<1>9. RevokedFamilyStaysDead'
      BY DEF IInv, TypeOK, RevokedFamilyStaysDead, Held, Usable, Live, IssuingFor,
         RotateLookup, Presents, Rotatable, Goto, redis
<1>10. DeadIsOwned'
      BY DEF IInv, DeadIsOwned, RotateLookup
<1>q. QED BY <1>1, <1>2, <1>3, <1>4, <1>5, <1>6, <1>7, <1>8, <1>9, <1>10 DEF IInv

\* The write-back may re-create a key, but the record it writes is used, so no token
\* becomes usable.
LEMMA MarkUsedStep ==
    ASSUME IInv, TypeOK', NEW r \in Reqs, MarkUsed(r)
    PROVE  IInv'
<1>1. InFlight'
      BY DEF IInv, InFlight, MarkUsed, Goto
<1>2. RecordsBelongToOwner'
      BY TTLAssumption, MarkedType DEF IInv, RecordsBelongToOwner, InFlight, Live,
         MarkUsed, SetKey
<1>3. Minted'
      BY MarkedType DEF IInv, TypeOK, Minted, InFlight, Live, MarkUsed, SetKey
<1>4. OwnPair'
      BY TokenShape DEF IInv, TypeOK, OwnPair, Holding, InFlight, Live, MarkUsed,
         Goto, SetKey
<1>5. AccessTokensStayShort'
      BY TokenShape DEF IInv, AccessTokensStayShort, InFlight, MarkUsed, SetKey
<1>6. TrackedPair'
      BY DEF IInv, TrackedPair, MarkUsed, Goto
<1>7. RevocationFindsEveryToken'
      BY MarkedType DEF IInv, TypeOK, RevocationFindsEveryToken, Held, Usable, Live,
         InFlight, MarkUsed, SetKey
<1>8. Snapshot'
      BY MarkedType DEF IInv, Snapshot, Held, Usable, Live, IssuingFor, Issuing,
         InFlight, MarkUsed, Goto, SetKey
<1>9. RevokedFamilyStaysDead'
      BY MarkedType DEF IInv, RevokedFamilyStaysDead, Held, Usable, Live,
         IssuingFor, Issuing, InFlight, MarkUsed, Goto, SetKey
<1>10. DeadIsOwned'
      BY DEF IInv, DeadIsOwned, MarkUsed
<1>q. QED BY <1>1, <1>2, <1>3, <1>4, <1>5, <1>6, <1>7, <1>8, <1>9, <1>10 DEF IInv

\* A reuse leaves the store as it is and turns to the revocation.
LEMMA RotateReusedStep ==
    ASSUME IInv, TypeOK', NEW r \in Reqs, NEW t \in Tokens, RotateReused(r, t)
    PROVE  IInv'
<1>1. InFlight'
      BY DEF IInv, TypeOK, InFlight, Subject, TokenRecord, Live, RotateReused, Goto,
         history, RecordsBelongToOwner
<1>2. RecordsBelongToOwner'
      BY DEF IInv, RecordsBelongToOwner, Live, RotateReused, redis, history
<1>3. Minted'
      BY DEF IInv, Minted, Live, RotateReused, redis, history
<1>4. OwnPair'
      BY DEF IInv, OwnPair, Holding, Live, RotateReused, Presents, Goto, redis,
         history
<1>5. AccessTokensStayShort'
      BY DEF IInv, AccessTokensStayShort, RotateReused, redis
<1>6. TrackedPair'
      BY DEF IInv, TrackedPair, RotateReused, Presents, Goto, redis, history
<1>7. RevocationFindsEveryToken'
      BY DEF IInv, RevocationFindsEveryToken, Held, Usable, Live, RotateReused,
         redis, history
<1>8. Snapshot'
      BY DEF IInv, Snapshot, Held, Usable, Live, IssuingFor, Issuing, RotateReused,
         Presents, Goto, redis, history
<1>9. RevokedFamilyStaysDead'
      BY DEF IInv, RevokedFamilyStaysDead, Held, Usable, Live, IssuingFor, Issuing,
         RotateReused, Presents, Goto, redis, history
<1>10. DeadIsOwned'
      BY DEF IInv, DeadIsOwned, RotateReused, history
<1>q. QED BY <1>1, <1>2, <1>3, <1>4, <1>5, <1>6, <1>7, <1>8, <1>9, <1>10 DEF IInv

\* So does a logout.
LEMMA RevokeLookupStep ==
    ASSUME IInv, TypeOK', NEW r \in Reqs, NEW t \in Tokens, RevokeLookup(r, t)
    PROVE  IInv'
<1>1. InFlight'
      BY DEF IInv, TypeOK, InFlight, Subject, TokenRecord, Live, RevokeLookup, Goto,
         history, RecordsBelongToOwner
<1>2. RecordsBelongToOwner'
      BY DEF IInv, RecordsBelongToOwner, Live, RevokeLookup, redis, history
<1>3. Minted'
      BY DEF IInv, Minted, Live, RevokeLookup, redis, history
<1>4. OwnPair'
      BY DEF IInv, OwnPair, Holding, Live, RevokeLookup, Presents, Goto, redis,
         history
<1>5. AccessTokensStayShort'
      BY DEF IInv, AccessTokensStayShort, RevokeLookup, redis
<1>6. TrackedPair'
      BY DEF IInv, TrackedPair, RevokeLookup, Presents, Goto, redis, history
<1>7. RevocationFindsEveryToken'
      BY DEF IInv, RevocationFindsEveryToken, Held, Usable, Live, RevokeLookup,
         redis, history
<1>8. Snapshot'
      BY DEF IInv, Snapshot, Held, Usable, Live, IssuingFor, Issuing, RevokeLookup,
         Presents, Goto, redis, history
<1>9. RevokedFamilyStaysDead'
      BY DEF IInv, RevokedFamilyStaysDead, Held, Usable, Live, IssuingFor, Issuing,
         RevokeLookup, Presents, Goto, redis, history
<1>10. DeadIsOwned'
      BY DEF IInv, DeadIsOwned, RevokeLookup, history
<1>q. QED BY <1>1, <1>2, <1>3, <1>4, <1>5, <1>6, <1>7, <1>8, <1>9, <1>10 DEF IInv

\* The snapshot of a family that is not torn has every held token of it, because the
\* family set had.
LEMMA RevokeMembersStep ==
    ASSUME IInv, TypeOK', NEW r \in Reqs, RevokeMembers(r)
    PROVE  IInv'
<1>1. InFlight'
      BY DEF IInv, InFlight, RevokeMembers, Goto
<1>2. RecordsBelongToOwner'
      BY DEF IInv, RecordsBelongToOwner, Live, RevokeMembers, redis
<1>3. Minted'
      BY DEF IInv, Minted, Live, RevokeMembers, redis
<1>4. OwnPair'
      BY DEF IInv, OwnPair, Holding, Live, RevokeMembers, Goto, redis
<1>5. AccessTokensStayShort'
      BY DEF IInv, AccessTokensStayShort, RevokeMembers, redis
<1>6. TrackedPair'
      BY DEF IInv, TrackedPair, RevokeMembers, Goto, redis
<1>7. RevocationFindsEveryToken'
      BY DEF IInv, RevocationFindsEveryToken, Held, Usable, Live, RevokeMembers,
         redis
<1>8. Snapshot'
      BY DEF IInv, TypeOK, Snapshot, RevocationFindsEveryToken, Held, Usable, Live,
         IssuingFor, Issuing, RevokeMembers, SMembers, Goto, redis
<1>9. RevokedFamilyStaysDead'
      BY DEF IInv, RevokedFamilyStaysDead, Held, Usable, Live, IssuingFor, Issuing,
         RevokeMembers, Goto, redis
<1>10. DeadIsOwned'
      BY DEF IInv, DeadIsOwned, RevokeMembers
<1>q. QED BY <1>1, <1>2, <1>3, <1>4, <1>5, <1>6, <1>7, <1>8, <1>9, <1>10 DEF IInv

\* Deleting what the snapshot holds leaves no held token of the family.
LEMMA RevokeTokensStep ==
    ASSUME IInv, TypeOK', NEW r \in Reqs, RevokeTokens(r)
    PROVE  IInv'
<1>1. InFlight'
      BY DEF IInv, InFlight, RevokeTokens, Goto, history
<1>2. RecordsBelongToOwner'
      BY DEF IInv, RecordsBelongToOwner, Live, RevokeTokens, DelKeys, history
<1>3. Minted'
      BY DEF IInv, TypeOK, Minted, Live, RevokeTokens, DelKeys, history
<1>4. OwnPair'
      BY TokenShape DEF IInv, TypeOK, OwnPair, Holding, Live, RevokeTokens, DelKeys,
         Goto, history
<1>5. AccessTokensStayShort'
      BY TTLAssumption, TokenShape DEF IInv, AccessTokensStayShort, RevokeTokens,
         DelKeys
<1>6. TrackedPair'
      BY DEF IInv, TrackedPair, RevokeTokens, Goto, history
<1>7. RevocationFindsEveryToken'
      BY DEF IInv, RevocationFindsEveryToken, Held, Usable, Live, RevokeTokens,
         DelKeys, history
<1>8. Snapshot'
      BY DEF IInv, Snapshot, Held, Usable, Live, IssuingFor, Issuing, RevokeTokens,
         DelKeys, Goto, history
<1>9. RevokedFamilyStaysDead'
      BY DEF IInv, RevokedFamilyStaysDead, Held, Usable, Live, IssuingFor, Issuing,
         RevokeTokens, DelKeys, Goto, history
<1>10. DeadIsOwned'
      BY DEF IInv, DeadIsOwned, RevokeTokens, history
<1>q. QED BY <1>1, <1>2, <1>3, <1>4, <1>5, <1>6, <1>7, <1>8, <1>9, <1>10 DEF IInv

\* The DEL of the set strands no held token: Snapshot says there is none.
LEMMA RevokeFamilyStep ==
    ASSUME IInv, TypeOK', NEW r \in Reqs, RevokeFamily(r)
    PROVE  IInv'
<1>1. InFlight'
      BY DEF IInv, TypeOK, InFlight, RevokeFamily, End, Goto
<1>2. RecordsBelongToOwner'
      BY DEF IInv, RecordsBelongToOwner, Live, RevokeFamily
<1>3. Minted'
      BY DEF IInv, Minted, Live, RevokeFamily
<1>4. OwnPair'
      BY DEF IInv, OwnPair, Holding, Live, RevokeFamily, End, Goto
<1>5. AccessTokensStayShort'
      BY DEF IInv, AccessTokensStayShort, RevokeFamily
<1>6. TrackedPair'
      BY DEF IInv, TypeOK, TrackedPair, RevokeFamily, End, Goto, Snapshot,
         IssuingFor, Issuing
<1>7. RevocationFindsEveryToken'
      BY DEF IInv, RevocationFindsEveryToken, Held, Usable, Live, Snapshot,
         RevokeFamily
<1>8. Snapshot'
      BY DEF IInv, TypeOK, Snapshot, Held, Usable, Live, IssuingFor, Issuing,
         RevokeFamily, End, Goto
<1>9. RevokedFamilyStaysDead'
      BY DEF IInv, RevokedFamilyStaysDead, Snapshot, Held, Usable, Live, IssuingFor,
         Issuing, RevokeFamily, End, Goto
<1>10. DeadIsOwned'
      BY NoneAssumption DEF IInv, DeadIsOwned, InFlight, Subject, RevokeFamily
<1>q. QED BY <1>1, <1>2, <1>3, <1>4, <1>5, <1>6, <1>7, <1>8, <1>9, <1>10 DEF IInv

\* A request that dies leaves the store as it is.
LEMMA FailStep ==
    ASSUME IInv, TypeOK', NEW r \in Reqs, Fail(r)
    PROVE  IInv'
<1>1. InFlight'
      BY DEF IInv, TypeOK, InFlight, Fail, End, Goto, history
<1>2. RecordsBelongToOwner'
      BY DEF IInv, RecordsBelongToOwner, Live, Fail, redis, history
<1>3. Minted'
      BY DEF IInv, Minted, Live, Fail, redis, history
<1>4. OwnPair'
      BY DEF IInv, TypeOK, OwnPair, Holding, Live, Fail, End, Goto, redis, history
<1>5. AccessTokensStayShort'
      BY DEF IInv, AccessTokensStayShort, Fail, redis
<1>6. TrackedPair'
      BY DEF IInv, TypeOK, TrackedPair, Fail, End, Goto, redis, history
<1>7. RevocationFindsEveryToken'
      BY DEF IInv, RevocationFindsEveryToken, Held, Usable, Live, Fail, redis,
         history
<1>8. Snapshot'
      BY DEF IInv, TypeOK, Snapshot, Held, Usable, Live, IssuingFor, Issuing, Fail,
         End, Goto, redis, history
<1>9. RevokedFamilyStaysDead'
      BY DEF IInv, TypeOK, RevokedFamilyStaysDead, Held, Usable, Live, IssuingFor,
         Issuing, Fail, End, Goto, redis, history
<1>10. DeadIsOwned'
      BY DEF IInv, DeadIsOwned, Fail, history
<1>q. QED BY <1>1, <1>2, <1>3, <1>4, <1>5, <1>6, <1>7, <1>8, <1>9, <1>10 DEF IInv

\* A token expires no later than its family set.
LEMMA TickStep ==
    ASSUME IInv, TypeOK', Tick
    PROVE  IInv'
<1>1. InFlight'
      BY DEF IInv, InFlight, Tick, locals
<1>2. RecordsBelongToOwner'
      BY DEF IInv, RecordsBelongToOwner, Live, Tick
<1>3. Minted'
      BY DEF IInv, TypeOK, Minted, Live, Tick
<1>4. OwnPair'
      BY TokenShape DEF IInv, TypeOK, OwnPair, Live, Tick, locals
<1>5. AccessTokensStayShort'
      BY TTLAssumption, TokenShape DEF IInv, TypeOK, AccessTokensStayShort, Tick,
         Aged
<1>6. TrackedPair'
      BY DEF IInv, TrackedPair, Tick, locals, InFlight, Subject
<1>7. RevocationFindsEveryToken'
      BY AgedType DEF IInv, TypeOK, RevocationFindsEveryToken, Held, Usable, Live,
         TokenRecord, Tick, Expiring
<1>8. Snapshot'
      BY DEF IInv, Snapshot, Held, Usable, Live, IssuingFor, Tick, locals
<1>9. RevokedFamilyStaysDead'
      BY DEF IInv, RevokedFamilyStaysDead, Held, Usable, Live, IssuingFor, Tick,
         locals
<1>10. DeadIsOwned'
      BY DEF IInv, DeadIsOwned, Tick
<1>q. QED BY <1>1, <1>2, <1>3, <1>4, <1>5, <1>6, <1>7, <1>8, <1>9, <1>10 DEF IInv

-----------------------------------------------------------------------------
(* The invariant, and what follows from it.                                *)

LEMMA IInvInit == Init => IInv
<1> SUFFICES ASSUME Init PROVE IInv
    OBVIOUS
<1> USE DEF Init
<1>1. TypeOK
      BY TTLAssumption DEF TypeOK, NoExpiry
<1>2. InFlight /\ OwnPair /\ TrackedPair /\ Snapshot
      BY DEF InFlight, OwnPair, Holding, TrackedPair, Snapshot
<1>3. RecordsBelongToOwner /\ Minted /\ RevocationFindsEveryToken
      BY DEF RecordsBelongToOwner, Minted, RevocationFindsEveryToken, Held, Usable, Live
<1>4. AccessTokensStayShort
      BY TTLAssumption, TokenShape DEF AccessTokensStayShort
<1>5. RevokedFamilyStaysDead /\ DeadIsOwned
      BY DEF RevokedFamilyStaysDead, DeadIsOwned
<1>q. QED BY <1>1, <1>2, <1>3, <1>4, <1>5 DEF IInv

\* A call that ends at its lookup changes nothing.
LEMMA StutterStep == IInv /\ UNCHANGED vars => IInv'
<1> SUFFICES ASSUME IInv, UNCHANGED vars PROVE IInv'
    OBVIOUS
<1> USE DEF vars, redis, locals, history
<1>1. TypeOK' /\ InFlight' /\ RecordsBelongToOwner'
      BY DEF IInv, TypeOK, InFlight, RecordsBelongToOwner, Live
<1>2. Minted' /\ OwnPair' /\ TrackedPair'
      BY DEF IInv, Minted, OwnPair, Holding, TrackedPair, Live
<1>3. AccessTokensStayShort' /\ RevocationFindsEveryToken' /\ DeadIsOwned'
      BY DEF IInv, AccessTokensStayShort, RevocationFindsEveryToken, DeadIsOwned, Held,
         Usable, Live
<1>4. Snapshot' /\ RevokedFamilyStaysDead'
      BY DEF IInv, Snapshot, RevokedFamilyStaysDead, IssuingFor, Held, Usable, Live
<1>q. QED BY <1>1, <1>2, <1>3, <1>4 DEF IInv

LEMMA IInvStep == IInv /\ [Next]_vars => IInv'
<1> SUFFICES ASSUME IInv, [Next]_vars PROVE IInv'
    OBVIOUS
<1>t. TypeOK'
      BY TypeStep
<1>1. ASSUME NEW r \in Reqs, Start(r) PROVE IInv'
  <2>1. CASE \E u \in Users, f \in Families : CreateSession(r, u, f)
        BY <1>t, <2>1, CreateSessionStep
  <2>2. CASE \E t \in Tokens : RotateInvalid(r, t) \/ RevokeUnknown(r, t)
        BY <2>2, StutterStep DEF RotateInvalid, RevokeUnknown
  <2>3. CASE \E t \in Tokens : RotateLookup(r, t)
        BY <1>t, <2>3, RotateLookupStep
  <2>4. CASE \E t \in Tokens : RotateReused(r, t)
        BY <1>t, <2>4, RotateReusedStep
  <2>5. CASE \E t \in Tokens : RevokeLookup(r, t)
        BY <1>t, <2>5, RevokeLookupStep
  <2>q. QED BY <1>1, <2>1, <2>2, <2>3, <2>4, <2>5 DEF Start
<1>2. ASSUME NEW r \in Reqs, Continue(r) PROVE IInv'
  <2>1. CASE \E p \in Pairs : IssueAccess(r, p)
        BY <1>t, <2>1, IssueAccessStep
  <2>2. CASE IssueRefresh(r)
        BY <1>t, <2>2, IssueRefreshStep
  <2>3. CASE Track(r)
        BY <1>t, <2>3, TrackStep
  <2>4. CASE ExpireFamily(r)
        BY <1>t, <2>4, ExpireFamilyStep
  <2>5. CASE MarkUsed(r)
        BY <1>t, <2>5, MarkUsedStep
  <2>6. CASE RevokeMembers(r)
        BY <1>t, <2>6, RevokeMembersStep
  <2>7. CASE RevokeTokens(r)
        BY <1>t, <2>7, RevokeTokensStep
  <2>8. CASE RevokeFamily(r)
        BY <1>t, <2>8, RevokeFamilyStep
  <2>q. QED BY <1>2, <2>1, <2>2, <2>3, <2>4, <2>5, <2>6, <2>7, <2>8 DEF Continue
<1>3. ASSUME NEW r \in Reqs, Fail(r) PROVE IInv'
      BY <1>t, <1>3, FailStep
<1>4. CASE Tick
      BY <1>t, <1>4, TickStep
<1>5. CASE UNCHANGED vars
      BY <1>5, StutterStep
<1>q. QED BY <1>1, <1>2, <1>3, <1>4, <1>5 DEF Next

\* What every request knows at its awaits, and the promises of the store, hold
\* in every reachable state.
THEOREM Invariance == Spec => []IInv
<1>1. Init => IInv
      BY IInvInit
<1>2. IInv /\ [Next]_vars => IInv'
      BY IInvStep
<1>q. QED BY <1>1, <1>2, PTL DEF Spec

\* Every variable of the store and every local of a request keeps its type.
THEOREM TypeCorrect == Spec => []TypeOK
<1>1. IInv => TypeOK
      BY DEF IInv
<1>q. QED BY <1>1, Invariance, PTL

\* revoke_family finds every usable token of the session, unless an issuance or
\* the expiry of the set overlapped.
THEOREM RevocationIsComplete == Spec => []RevocationFindsEveryToken
<1>1. IInv => RevocationFindsEveryToken
      BY DEF IInv
<1>q. QED BY <1>1, Invariance, PTL

\* A session whose revocation overlapped no issuance stays revoked.
THEOREM RevocationIsFinal == Spec => []RevokedFamilyStaysDead
<1>1. IInv => RevokedFamilyStaysDead
      BY DEF IInv
<1>q. QED BY <1>1, Invariance, PTL

\* No sequence of calls makes an access token outlive ACCESS_TTL_SECONDS.
THEOREM AccessIsShort == Spec => []AccessTokensStayShort
<1>1. IInv => AccessTokensStayShort
      BY DEF IInv
<1>q. QED BY <1>1, Invariance, PTL

\* Rotations hand a session from record to record and never to another user.
THEOREM OwnerIsConstant == Spec => []RecordsBelongToOwner
<1>1. IInv => RecordsBelongToOwner
      BY DEF IInv
<1>q. QED BY <1>1, Invariance, PTL

\* No rotation starts from a refresh token that was marked used: the record it
\* would have to read is unused, and the record of a spent token never is.
THEOREM SpentIsSpent == Spec => SpentTokenNeverRotates
<1> DEFINE Fresh == \A r \in Reqs : pc[r] = "idle" /\ pc'[r] = "mark" => token'[r] \notin spent
<1>1. ASSUME IInv, [Next]_vars PROVE [Fresh]_vars
  <2>1. ASSUME NEW r \in Reqs, pc[r] = "idle", pc'[r] = "mark"
        PROVE  token'[r] \notin spent
    <3>1. \E t \in Tokens : RotateLookup(r, t)
          BY <1>1, <2>1
          DEF IInv, TypeOK, Next, Start, Continue, CreateSession, RotateInvalid, RotateLookup,
              RotateReused, RevokeUnknown, RevokeLookup, IssueAccess, IssueRefresh, Track,
              ExpireFamily, MarkUsed, RevokeMembers, RevokeTokens, RevokeFamily, Fail, Tick,
              End, Goto, locals, vars, Issuing, Revoking
    <3>2. PICK t \in Tokens : RotateLookup(r, t)
          BY <3>1
    <3>3. token'[r] = t /\ Live(t) /\ ~record[t].used
          BY <1>1, <3>2 DEF IInv, TypeOK, RotateLookup, Rotatable
    <3>q. QED BY <1>1, <3>3 DEF IInv, Minted
  <2>q. QED BY <2>1
<1>q. QED BY <1>1, Invariance, PTL DEF Spec, SpentTokenNeverRotates

-----------------------------------------------------------------------------
(* What a revocation deletes.                                              *)

\* A token a revocation of f would delete, or is about to delete.
Listed(t, f) ==
    \/ t \in family[f]
    \/ \E r \in Reqs : pc[r] = "tokens" /\ subject[r].family = f /\ t \in members[r]

\* What is listed for a family is of that family: its pair has been minted, its
\* record names the family, no request is still writing its records, and one
\* that will write its mark writes the family back.
ListedMatch ==
    \A t \in Tokens, f \in Families : Listed(t, f) =>
        /\ t[1] \in minted
        /\ Live(t) => record[t].family = f
        /\ \A q \in Reqs :
              /\ pc[q] \in {"refresh", "track"} => pair[q] # t[1]
              /\ pc[q] = "mark" /\ token[q] = t => seen[q].family = f

\* A step that lists nothing new and touches no record and no request that
\* writes one keeps it.
LEMMA ListedQuiet ==
    ASSUME ListedMatch,
           \A t \in Tokens, f \in Families : Listed(t, f)' => Listed(t, f),
           minted \subseteq minted',
           \A t \in Tokens : Live(t)' => Live(t) /\ record'[t] = record[t],
           \A q \in Reqs :
              /\ pc'[q] \in {"refresh", "track"} =>
                    pc[q] \in {"refresh", "track"} /\ pair'[q] = pair[q]
              /\ pc'[q] = "mark" =>
                    pc[q] = "mark" /\ token'[q] = token[q] /\ seen'[q] = seen[q]
    PROVE  ListedMatch'
BY DEF ListedMatch

LEMMA ListedStart ==
    ASSUME IInv, ListedMatch, NEW r \in Reqs, Start(r)
    PROVE  ListedMatch'
<1> USE DEF IInv, TypeOK
<1>1. CASE \E u \in Users, f \in Families : CreateSession(r, u, f)
  <2>1. \A t \in Tokens, f \in Families : Listed(t, f)' => Listed(t, f)
        BY <1>1 DEF CreateSession, Listed, Goto, redis
  <2>q. QED BY <1>1, <2>1, ListedQuiet DEF CreateSession, Goto, redis, Live
<1>2. CASE \E t \in Tokens : RotateInvalid(r, t) \/ RevokeUnknown(r, t)
      BY <1>2 DEF RotateInvalid, RevokeUnknown, ListedMatch, Listed, Live, vars, redis, locals,
         history
<1>3. ASSUME NEW u \in Tokens, RotateLookup(r, u)
      PROVE  ListedMatch'
  <2>1. \A t \in Tokens, f \in Families : Listed(t, f)' => Listed(t, f)
        BY <1>3 DEF RotateLookup, Listed, Goto, redis
  <2>2. UNCHANGED <<record, minted, pair>> /\ Live(u)
        BY <1>3 DEF RotateLookup, redis
  <2>3. pc' = [pc EXCEPT ![r] = "mark"] /\ token' = [token EXCEPT ![r] = u]
        /\ seen' = [seen EXCEPT ![r] = record[u]]
        BY <1>3 DEF RotateLookup, Goto
  <2>q. QED BY <2>1, <2>2, <2>3 DEF ListedMatch, Live
<1>4. CASE \E t \in Tokens : RotateReused(r, t) \/ RevokeLookup(r, t)
  <2>1. \A t \in Tokens, f \in Families : Listed(t, f)' => Listed(t, f)
        BY <1>4 DEF RotateReused, RevokeLookup, Listed, Goto, redis
  <2>q. QED BY <1>4, <2>1, ListedQuiet DEF RotateReused, RevokeLookup, Goto, redis, history, Live
<1>q. QED BY <1>1, <1>2, <1>3, <1>4 DEF Start

LEMMA ListedContinue ==
    ASSUME IInv, ListedMatch, NEW r \in Reqs, Continue(r)
    PROVE  ListedMatch'
<1> USE TokenShape DEF IInv, TypeOK
<1>1. ASSUME NEW p \in Pairs, IssueAccess(r, p)
      PROVE  ListedMatch'
  <2>1. \A t \in Tokens, f \in Families : Listed(t, f)' => Listed(t, f)
        BY <1>1 DEF IssueAccess, Listed, Goto
  <2>2. p \notin minted /\ minted' = minted \cup {p} /\ UNCHANGED <<token, seen>>
        BY <1>1 DEF IssueAccess
  <2>3. \A t \in Tokens : t[1] \in minted => record'[t] = record[t]
        BY <1>1, <2>2 DEF IssueAccess, SetKey
  <2>4. pc' = [pc EXCEPT ![r] = "refresh"] /\ pair' = [pair EXCEPT ![r] = p]
        BY <1>1 DEF IssueAccess, Goto
  <2>q. QED BY <2>1, <2>2, <2>3, <2>4 DEF ListedMatch, Live
<1>2. CASE IssueRefresh(r)
  <2>1. \A t \in Tokens, f \in Families : Listed(t, f)' => Listed(t, f)
        BY <1>2 DEF IssueRefresh, Listed, Goto
  <2>2. UNCHANGED <<minted, token, seen, pair>> /\ pc' = [pc EXCEPT ![r] = "track"]
        BY <1>2 DEF IssueRefresh, Goto, history
  <2>3. pc[r] = "refresh" /\ pair[r] \in Pairs
        BY <1>2 DEF IssueRefresh, OwnPair, Holding
  <2>4. \A t \in Tokens : t[1] # pair[r] => record'[t] = record[t]
        BY <1>2, <2>3 DEF IssueRefresh, SetKey
  <2>q. QED BY <2>1, <2>2, <2>3, <2>4 DEF ListedMatch, Live
<1>3. CASE Track(r)
  <2> DEFINE g == subject[r].family
  <2>1. \A t \in Tokens, f \in Families :
           Listed(t, f)' => Listed(t, f) \/ (f = g /\ t \in FamilyMembers(pair[r]))
        BY <1>3 DEF Track, Listed, Goto
  <2>2. /\ pc[r] = "track" /\ pc' = [pc EXCEPT ![r] = "expire"]
        /\ UNCHANGED <<record, minted, token, seen, pair>>
        BY <1>3 DEF Track, Goto, history
  <2>3. ASSUME NEW t \in FamilyMembers(pair[r])
        PROVE  /\ t[1] = pair[r]
               /\ t[1] \in minted \ delivered
               /\ Live(t) => record[t].family = g
        BY <2>2 DEF OwnPair, Holding
  <2>4. ASSUME NEW t \in FamilyMembers(pair[r]), NEW q \in Reqs
        PROVE  /\ pc'[q] \in {"refresh", "track"} => pair[q] # t[1]
               /\ pc'[q] = "mark" => token[q] # t
        BY <2>2, <2>3 DEF OwnPair, Holding, InFlight
  <2>5. ASSUME NEW t \in Tokens, NEW f \in Families, Listed(t, f)'
        PROVE  /\ t[1] \in minted'
               /\ Live(t)' => record'[t].family = f
               /\ \A q \in Reqs :
                     /\ pc'[q] \in {"refresh", "track"} => pair'[q] # t[1]
                     /\ pc'[q] = "mark" /\ token'[q] = t => seen'[q].family = f
    <3>1. CASE Listed(t, f)
          BY <2>2, <3>1 DEF ListedMatch, Live
    <3>2. CASE f = g /\ t \in FamilyMembers(pair[r])
          BY <2>2, <2>3, <2>4, <3>2 DEF Live
    <3>q. QED BY <2>1, <2>5, <3>1, <3>2
  <2>q. QED BY <2>5 DEF ListedMatch
<1>4. CASE ExpireFamily(r)
  <2>1. \A t \in Tokens, f \in Families : Listed(t, f)' => Listed(t, f)
        BY <1>4 DEF ExpireFamily, End, Listed, Goto
  <2>q. QED BY <1>4, <2>1, ListedQuiet DEF ExpireFamily, End, Goto, Live
<1>5. CASE MarkUsed(r)
  <2>1. \A t \in Tokens, f \in Families : Listed(t, f)' => Listed(t, f)
        BY <1>5 DEF MarkUsed, Listed, Goto
  <2>2. /\ pc[r] = "mark" /\ pc' = [pc EXCEPT ![r] = "access"]
        /\ UNCHANGED <<minted, token, seen, pair>>
        BY <1>5 DEF MarkUsed, Goto
  <2>3. \A t \in Tokens :
           record'[t] = IF t = token[r] THEN MarkedRecord(seen[r]) ELSE record[t]
        BY <1>5 DEF MarkUsed, SetKey
  <2>4. MarkedRecord(seen[r]).family = seen[r].family
        BY <2>2, MarkedType DEF InFlight
  <2>q. QED BY <2>1, <2>2, <2>3, <2>4 DEF ListedMatch, Live
<1>6. CASE RevokeMembers(r)
  <2>1. \A t \in Tokens, f \in Families : Listed(t, f)' => Listed(t, f)
        BY <1>6 DEF RevokeMembers, SMembers, Listed, Goto, redis
  <2>q. QED BY <1>6, <2>1, ListedQuiet DEF RevokeMembers, Goto, redis, Live
<1>7. CASE RevokeTokens(r)
  <2>1. \A t \in Tokens, f \in Families : Listed(t, f)' => Listed(t, f)
        BY <1>7 DEF RevokeTokens, Listed, Goto
  <2>q. QED BY <1>7, <2>1, ListedQuiet DEF RevokeTokens, DelKeys, Goto, history, Live
<1>8. CASE RevokeFamily(r)
  <2>1. \A t \in Tokens, f \in Families : Listed(t, f)' => Listed(t, f)
        BY <1>8 DEF RevokeFamily, End, Listed, Goto
  <2>q. QED BY <1>8, <2>1, ListedQuiet DEF RevokeFamily, End, Goto, Live
<1>q. QED BY <1>1, <1>2, <1>3, <1>4, <1>5, <1>6, <1>7, <1>8 DEF Continue

LEMMA ListedStep == IInv /\ ListedMatch /\ [Next]_vars => ListedMatch'
<1> SUFFICES ASSUME IInv, ListedMatch, [Next]_vars PROVE ListedMatch'
    OBVIOUS
<1>1. ASSUME NEW r \in Reqs, Fail(r) PROVE ListedMatch'
  <2>1. \A t \in Tokens, f \in Families : Listed(t, f)' => Listed(t, f)
        BY <1>1 DEF Fail, End, Listed, Goto, redis, IInv, TypeOK
  <2>q. QED BY <1>1, <2>1, ListedQuiet DEF Fail, End, Goto, redis, history, Live, IInv, TypeOK
<1>2. CASE Tick
  <2>1. \A t \in Tokens, f \in Families : Listed(t, f)' => Listed(t, f)
        BY <1>2 DEF Tick, Listed, locals, IInv, TypeOK
  <2>q. QED BY <1>2, <2>1, ListedQuiet DEF Tick, locals, Live, IInv, TypeOK
<1>3. CASE UNCHANGED vars
      BY <1>3 DEF ListedMatch, Listed, Live, vars, redis, locals, history
<1>q. QED BY <1>1, <1>2, <1>3, ListedStart, ListedContinue DEF Next

\* A key leaves the store before its time only by the revocation of the family
\* its own record names (revoke_family over the set _issue_pair has filled).
THEOREM FamiliesStayApart == Spec => OnlyOwnFamilyIsRevoked
<1> DEFINE Own == \A t \in Tokens :
           Live(t) /\ ~Live(t)' /\ ttl[t] > 1
               => \E r \in Reqs : pc[r] = "tokens" /\ subject[r].family = record[t].family
<1>1. Init => IInv /\ ListedMatch
      BY IInvInit DEF Init, ListedMatch, Listed
<1>2. IInv /\ ListedMatch /\ [Next]_vars => (IInv /\ ListedMatch)'
      BY IInvStep, ListedStep
<1>3. ASSUME IInv, ListedMatch, [Next]_vars PROVE Own
  <2> SUFFICES ASSUME NEW t \in Tokens, Live(t), ~Live(t)', ttl[t] > 1
               PROVE  \E r \in Reqs : pc[r] = "tokens" /\ subject[r].family = record[t].family
      OBVIOUS
  <2>1. \E r \in Reqs : RevokeTokens(r) /\ t \in members[r]
    <3>1. ASSUME NEW r \in Reqs, Start(r) PROVE FALSE
          BY <3>1 DEF Start, CreateSession, RotateInvalid, RotateLookup, RotateReused,
             RevokeUnknown, RevokeLookup, vars, redis, Live
    <3>2. ASSUME NEW r \in Reqs, Continue(r) PROVE RevokeTokens(r) /\ t \in members[r]
      <4>1. \A s \in Subject, u \in {"access", "refresh"}, p \in Pairs :
               NewRecord(s, u, p) \in TokenRecord
            BY DEF NewRecord, TokenRecord, Subject
      <4>2. CASE \E p \in Pairs : IssueAccess(r, p)
            BY <1>3, <4>1, <4>2, NoneAssumption
            DEF IssueAccess, SetKey, Live, IInv, TypeOK, InFlight
      <4>3. CASE IssueRefresh(r)
            BY <1>3, <4>1, <4>3, NoneAssumption
            DEF IssueRefresh, SetKey, Live, IInv, TypeOK, InFlight, OwnPair, Holding
      <4>4. CASE MarkUsed(r)
            BY <1>3, <4>4, MarkedType, NoneAssumption
            DEF MarkUsed, SetKey, Live, IInv, TypeOK, InFlight
      <4>5. CASE RevokeTokens(r)
            BY <4>5 DEF RevokeTokens, DelKeys, Live
      <4>q. QED BY <3>2, <4>2, <4>3, <4>4, <4>5
                DEF Continue, Track, ExpireFamily, RevokeMembers, RevokeFamily, redis, Live
    <3>3. ~Tick /\ ~UNCHANGED vars /\ \A r \in Reqs : ~Fail(r)
          BY DEF Tick, Fail, Live, vars, redis
    <3>q. QED BY <1>3, <3>1, <3>2, <3>3 DEF Next
  <2>2. PICK r \in Reqs : RevokeTokens(r) /\ t \in members[r]
        BY <2>1
  <2>3. pc[r] = "tokens" /\ subject[r].family \in Families
        BY <1>3, <2>2 DEF RevokeTokens, IInv, InFlight, Subject
  <2>4. record[t].family = subject[r].family
        BY <1>3, <2>2, <2>3 DEF ListedMatch, Listed
  <2>q. QED BY <2>3, <2>4
<1>q. QED BY <1>1, <1>2, <1>3, PTL DEF Spec, OnlyOwnFamilyIsRevoked
=============================================================================
