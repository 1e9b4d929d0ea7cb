---------------------------- MODULE SessionStore ----------------------------
(***************************************************************************)
(* The Redis-backed session store (apps/api/app/core/sessions.py).         *)
(*                                                                         *)
(* Each method of SessionStore is a sequence of Redis commands with an     *)
(* `await` at each one.  Redis runs a command atomically; between two      *)
(* commands of one request the event loop (or another API process) may run *)
(* commands of any other request.  Every action below is therefore one     *)
(* Redis command together with the local code up to the next await.        *)
(*                                                                         *)
(* A token pair is one call of _issue_pair: its access token, its refresh  *)
(* token and its CSRF token are named after it.  Token hashing is          *)
(* injective, so a token names its key.  ip_address and user_agent are     *)
(* carried and never read by this module: they are left out.               *)
(***************************************************************************)
EXTENDS Integers, FiniteSets

CONSTANTS
    Users,          \* user ids
    Families,       \* family ids uuid4() may return
    Pairs,          \* token pairs generate_token() may make
    Reqs,           \* request slots: the requests that can be in flight at once
    AccessTTL,      \* ACCESS_TTL_SECONDS, in ticks
    RefreshTTL,     \* REFRESH_TTL_SECONDS, in ticks
    None            \* an absent value

ASSUME TTLAssumption ==
    /\ AccessTTL \in Nat \ {0}
    /\ RefreshTTL \in Nat
    /\ AccessTTL <= RefreshTTL

Access(p)  == <<p, "access">>
Refresh(p) == <<p, "refresh">>
Tokens     == Pairs \X {"access", "refresh"}

TokenRecord ==
    [user : Users, family : Families, type : {"access", "refresh"},
     used : BOOLEAN, csrf : Pairs]

Subject == [user : Users, family : Families]

ASSUME NoneAssumption ==
    None \notin TokenRecord \cup Subject \cup Tokens \cup Pairs \cup Users \cup Families

VARIABLES
    \* Redis
    record,     \* session:token:<hash> -> the record, None when the key is absent
    ttl,        \* ticks until that key expires, 0 when it is absent
    family,     \* session:family:<id>, the empty set when the key is absent
    familyTTL,  \* ticks until that key expires; NoExpiry when it has no TTL
    \* locals of the requests
    pc,         \* the command a request runs next, "idle" between two calls
    token,      \* the token it presents
    seen,       \* the record its GET returned
    subject,    \* the user and the family the call works for
    pair,       \* the pair _issue_pair is issuing
    members,    \* what SMEMBERS returned to revoke_family
    onReuse,    \* revoke_family was called because of a reuse
    \* history
    owner,      \* the user a family was created for, None while the id is unused
    minted,     \* pairs generate_token() has made
    delivered,  \* pairs returned to a caller
    spent,      \* refresh tokens a rotation has marked used
    torn,       \* families in which a revocation or an expiry overlapped an issuance
    dead        \* families whose revocation completed and that were not torn

redis   == <<record, ttl, family, familyTTL>>
locals  == <<pc, token, seen, subject, pair, members, onReuse>>
history == <<owner, minted, delivered, spent, torn, dead>>
vars    == <<redis, locals, history>>

-----------------------------------------------------------------------------
(* The program counter.                                                    *)

\* Between the GET of a rotation (or the uuid4 of a login) and the return of
\* the pair.
Issuing == {"mark", "access", "refresh", "track", "expire"}

\* Inside revoke_family.
Revoking == {"members", "tokens", "family"}

\* A key written with SADD before its EXPIRE never expires by itself.
NoExpiry == RefreshTTL + 1

Live(t)   == record[t] # None
Usable(t) == Live(t) /\ ~record[t].used

IssuingFor(r, f)  == pc[r] \in Issuing /\ subject[r].family = f
RevokingFor(r, f) == pc[r] \in Revoking /\ subject[r].family = f

-----------------------------------------------------------------------------
TypeOK ==
    /\ record \in [Tokens -> TokenRecord \cup {None}]
    /\ ttl \in [Tokens -> 0 .. RefreshTTL]
    /\ family \in [Families -> SUBSET Tokens]
    /\ familyTTL \in [Families -> 0 .. NoExpiry]
    /\ pc \in [Reqs -> {"idle"} \cup Issuing \cup Revoking]
    /\ token \in [Reqs -> Tokens \cup {None}]
    /\ seen \in [Reqs -> TokenRecord \cup {None}]
    /\ subject \in [Reqs -> Subject \cup {None}]
    /\ pair \in [Reqs -> Pairs \cup {None}]
    /\ members \in [Reqs -> SUBSET Tokens]
    /\ onReuse \in [Reqs -> BOOLEAN]
    /\ owner \in [Families -> Users \cup {None}]
    /\ minted \subseteq Pairs
    /\ delivered \subseteq Pairs
    /\ spent \subseteq Tokens
    /\ torn \subseteq Families
    /\ dead \subseteq Families

Init ==
    /\ record = [t \in Tokens |-> None]
    /\ ttl = [t \in Tokens |-> 0]
    /\ family = [f \in Families |-> {}]
    /\ familyTTL = [f \in Families |-> 0]
    /\ pc = [r \in Reqs |-> "idle"]
    /\ token = [r \in Reqs |-> None]
    /\ seen = [r \in Reqs |-> None]
    /\ subject = [r \in Reqs |-> None]
    /\ pair = [r \in Reqs |-> None]
    /\ members = [r \in Reqs |-> {}]
    /\ onReuse = [r \in Reqs |-> FALSE]
    /\ owner = [f \in Families |-> None]
    /\ minted = {}
    /\ delivered = {}
    /\ spent = {}
    /\ torn = {}
    /\ dead = {}

-----------------------------------------------------------------------------
(* Redis commands and the bookkeeping of a request.                        *)

\* SET key value ex=seconds
SetKey(t, rec, ticks) ==
    /\ record' = [record EXCEPT ![t] = rec]
    /\ ttl' = [ttl EXCEPT ![t] = ticks]

\* DEL key ...
DelKeys(S) ==
    /\ record' = [t \in Tokens |-> IF t \in S THEN None ELSE record[t]]
    /\ ttl' = [t \in Tokens |-> IF t \in S THEN 0 ELSE ttl[t]]

Goto(r, where) == pc' = [pc EXCEPT ![r] = where]

\* The call returns, raises or dies: its locals are gone.
End(r) ==
    /\ Goto(r, "idle")
    /\ token' = [token EXCEPT ![r] = None]
    /\ seen' = [seen EXCEPT ![r] = None]
    /\ subject' = [subject EXCEPT ![r] = None]
    /\ pair' = [pair EXCEPT ![r] = None]
    /\ members' = [members EXCEPT ![r] = {}]
    /\ onReuse' = [onReuse EXCEPT ![r] = FALSE]

\* A caller presents a token it was given; one it made up is not in the store
\* and ends like an expired one.
Presents(r, t) == pc[r] = "idle" /\ t[1] \in delivered

-----------------------------------------------------------------------------
(* create_session                                                          *)

\* A fresh uuid4 names the family.
CreateSession(r, u, f) ==
    /\ pc[r] = "idle"
    /\ owner[f] = None
    /\ owner' = [owner EXCEPT ![f] = u]
    /\ subject' = [subject EXCEPT ![r] = [user |-> u, family |-> f]]
    /\ Goto(r, "access")
    /\ UNCHANGED <<redis, token, seen, pair, members, onReuse,
                   minted, delivered, spent, torn, dead>>

(* _issue_pair: SET, SET, SADD, EXPIRE.                                    *)

\* Mutant: both records of a pair are written as refresh tokens.
NewRecordRefresh(s, type, p) ==
    [user |-> s.user, family |-> s.family, type |-> "refresh",
     used |-> FALSE, csrf |-> p]

NewRecord(s, type, p) ==
    [user |-> s.user, family |-> s.family, type |-> type,
     used |-> FALSE, csrf |-> p]

\* Mutant: SADD of the refresh token alone.
FamilyMembersRefresh(p) == {Refresh(p)}

\* What SADD adds to the family set.
FamilyMembers(p) == {Access(p), Refresh(p)}

IssueAccess(r, p) ==
    /\ pc[r] = "access"
    /\ p \notin minted
    /\ minted' = minted \cup {p}
    /\ pair' = [pair EXCEPT ![r] = p]
    /\ SetKey(Access(p), NewRecord(subject[r], "access", p), AccessTTL)
    /\ Goto(r, "refresh")
    /\ UNCHANGED <<family, familyTTL, token, seen, subject, members, onReuse,
                   owner, delivered, spent, torn, dead>>

IssueRefresh(r) ==
    /\ pc[r] = "refresh"
    /\ SetKey(Refresh(pair[r]), NewRecord(subject[r], "refresh", pair[r]), RefreshTTL)
    /\ Goto(r, "track")
    /\ UNCHANGED <<family, familyTTL, token, seen, subject, pair, members,
                   onReuse, history>>

\* SADD creates the set when it is absent, without a TTL, and leaves the TTL
\* of an existing set alone.
Track(r) ==
    /\ pc[r] = "track"
    /\ LET f == subject[r].family
       IN  /\ family' = [family EXCEPT ![f] = @ \cup FamilyMembers(pair[r])]
           /\ familyTTL' = [familyTTL EXCEPT ![f] =
                                IF family[f] = {} THEN NoExpiry ELSE @]
    /\ Goto(r, "expire")
    /\ UNCHANGED <<record, ttl, token, seen, subject, pair, members, onReuse,
                   history>>

\* EXPIRE does nothing to an absent key.  The pair goes to the caller.
ExpireFamily(r) ==
    /\ pc[r] = "expire"
    /\ LET f == subject[r].family
       IN  familyTTL' = [familyTTL EXCEPT ![f] =
                            IF family[f] = {} THEN 0 ELSE RefreshTTL]
    /\ delivered' = delivered \cup {pair[r]}
    /\ End(r)
    /\ UNCHANGED <<record, ttl, family, owner, minted, spent, torn, dead>>

-----------------------------------------------------------------------------
(* rotate_refresh_token: GET, then SET used and _issue_pair, or            *)
(* revoke_family.                                                          *)

\* Mutants: rotation without the type check, and without the reuse check.
RotatableAnyType(rec) == ~rec.used
RotatableUsed(rec)    == rec.type = "refresh"

\* Only an unused refresh token may be rotated; a used one is a reuse.
Rotatable(rec) == rec.type = "refresh" /\ ~rec.used
Reused(rec)    == rec.type = "refresh" /\ rec.used

\* ValueError: no such key, or an access token.
RotateInvalid(r, t) ==
    /\ Presents(r, t)
    /\ ~Live(t) \/ (Live(t) /\ ~Rotatable(record[t]) /\ ~Reused(record[t]))
    /\ UNCHANGED vars

\* History: a rotation that starts during a revocation of its family.
RotateLookup(r, t) ==
    /\ Presents(r, t)
    /\ Live(t)
    /\ Rotatable(record[t])
    /\ LET f == record[t].family
       IN  /\ subject' = [subject EXCEPT ![r] = [user |-> record[t].user, family |-> f]]
           /\ torn' = IF \E q \in Reqs : RevokingFor(q, f) THEN torn \cup {f} ELSE torn
    /\ token' = [token EXCEPT ![r] = t]
    /\ seen' = [seen EXCEPT ![r] = record[t]]
    /\ Goto(r, "mark")
    /\ UNCHANGED <<redis, pair, members, onReuse, owner, minted, delivered, spent, dead>>

\* Mutants: the SET writes only the mark; the SET leaves the record as it was.
MarkedRecordOnlyMark(rec) == [used |-> TRUE]
MarkedRecordUnmarked(rec) == rec

\* The record the SET writes back: the one the GET read, used.
MarkedRecord(rec) == [rec EXCEPT !.used = TRUE]

\* Mutant: the SET has no `ex`.
MarkTTLNone == NoExpiry

\* The `ex` of that SET.
MarkTTL == RefreshTTL

MarkUsed(r) ==
    /\ pc[r] = "mark"
    /\ SetKey(token[r], MarkedRecord(seen[r]), MarkTTL)
    /\ spent' = spent \cup {token[r]}
    /\ Goto(r, "access")
    /\ UNCHANGED <<family, familyTTL, token, seen, subject, pair, members,
                   onReuse, owner, minted, delivered, torn, dead>>

RotateReused(r, t) ==
    /\ Presents(r, t)
    /\ Live(t)
    /\ Reused(record[t])
    /\ subject' = [subject EXCEPT ![r] =
                      [user |-> record[t].user, family |-> record[t].family]]
    /\ onReuse' = [onReuse EXCEPT ![r] = TRUE]
    /\ Goto(r, "members")
    /\ UNCHANGED <<redis, token, seen, pair, members, history>>

-----------------------------------------------------------------------------
(* revoke_session_by_refresh_token and revoke_family.                      *)

RevokeUnknown(r, t) ==
    /\ Presents(r, t)
    /\ ~Live(t)
    /\ UNCHANGED vars

\* The type of the token is not looked at.
RevokeLookup(r, t) ==
    /\ Presents(r, t)
    /\ Live(t)
    /\ subject' = [subject EXCEPT ![r] =
                      [user |-> record[t].user, family |-> record[t].family]]
    /\ Goto(r, "members")
    /\ UNCHANGED <<redis, token, seen, pair, members, onReuse, history>>

\* Mutant: the keys of all the user's families.
SMembersOfUser(f) == UNION {family[g] : g \in {h \in Families : owner[h] = owner[f]}}

\* What SMEMBERS returns.
SMembers(f) == family[f]

\* History: an issuance is in flight.
RevokeMembers(r) ==
    /\ pc[r] = "members"
    /\ LET f == subject[r].family
       IN  /\ members' = [members EXCEPT ![r] = SMembers(f)]
           /\ Goto(r, IF SMembers(f) = {} THEN "family" ELSE "tokens")
           /\ torn' = IF \E q \in Reqs : IssuingFor(q, f) THEN torn \cup {f} ELSE torn
    /\ UNCHANGED <<redis, token, seen, subject, pair, onReuse,
                   owner, minted, delivered, spent, dead>>

\* Mutant: only the refresh tokens are deleted.
RevokeTokensRefresh(r) ==
    /\ pc[r] = "tokens"
    /\ DelKeys({t \in members[r] : t[2] = "refresh"})
    /\ Goto(r, "family")
    /\ UNCHANGED <<family, familyTTL, token, seen, subject, pair, members,
                   onReuse, history>>

\* One DEL for all the keys SMEMBERS returned.
RevokeTokens(r) ==
    /\ pc[r] = "tokens"
    /\ DelKeys(members[r])
    /\ Goto(r, "family")
    /\ UNCHANGED <<family, familyTTL, token, seen, subject, pair, members,
                   onReuse, history>>

\* DEL of the family key; revoke_family returns, and rotate_refresh_token
\* raises SessionReuseDetected if it was the caller.
RevokeFamily(r) ==
    /\ pc[r] = "family"
    /\ LET f == subject[r].family
       IN  /\ family' = [family EXCEPT ![f] = {}]
           /\ familyTTL' = [familyTTL EXCEPT ![f] = 0]
           /\ dead' = IF f \in torn THEN dead ELSE dead \cup {f}
    /\ End(r)
    /\ UNCHANGED <<record, ttl, owner, minted, delivered, spent, torn>>

-----------------------------------------------------------------------------
(* The environment.                                                        *)

\* The API process stops, or a Redis command raises: the exception leaves the
\* handler and what the request already wrote stays.
Fail(r) ==
    /\ pc[r] \in Issuing \cup Revoking
    /\ End(r)
    /\ UNCHANGED <<redis, history>>

\* An absent key stays absent and a key without a TTL stays.
Aged(n) == IF n \in {0, NoExpiry} THEN n ELSE n - 1

\* The family keys that expire with the next tick.
Expiring(f) == familyTTL[f] = 1

\* Time passes and Redis drops the keys that reach the end of their TTL.
\* History: a family set expires between the SADD and the EXPIRE of a request.
Tick ==
    /\ record' = [t \in Tokens |-> IF ttl[t] > 1 THEN record[t] ELSE None]
    /\ ttl' = [t \in Tokens |-> Aged(ttl[t])]
    /\ family' = [f \in Families |-> IF Expiring(f) THEN {} ELSE family[f]]
    /\ familyTTL' = [f \in Families |-> Aged(familyTTL[f])]
    /\ torn' = torn \cup {f \in Families :
                            /\ Expiring(f)
                            /\ \E r \in Reqs : pc[r] = "expire" /\ subject[r].family = f}
    /\ UNCHANGED <<locals, owner, minted, delivered, spent, dead>>

-----------------------------------------------------------------------------
\* The commands of a request whose call has started.
Continue(r) ==
    \/ \E p \in Pairs : IssueAccess(r, p)
    \/ IssueRefresh(r)
    \/ Track(r)
    \/ ExpireFamily(r)
    \/ MarkUsed(r)
    \/ RevokeMembers(r)
    \/ RevokeTokens(r)
    \/ RevokeFamily(r)

\* The calls a request may start.
Start(r) ==
    \/ \E u \in Users, f \in Families : CreateSession(r, u, f)
    \/ \E t \in Tokens : RotateInvalid(r, t)
    \/ \E t \in Tokens : RotateLookup(r, t)
    \/ \E t \in Tokens : RotateReused(r, t)
    \/ \E t \in Tokens : RevokeUnknown(r, t)
    \/ \E t \in Tokens : RevokeLookup(r, t)

Next ==
    \/ \E r \in Reqs : Start(r)
    \/ \E r \in Reqs : Continue(r)
    \/ \E r \in Reqs : Fail(r)
    \/ Tick

Spec == Init /\ [][Next]_vars

-----------------------------------------------------------------------------
(* Properties.                                                             *)

\* The tokens a caller holds and can still use.
Held == {t \in Tokens : t[1] \in delivered /\ Usable(t)}

\* A revocation that starts now finds every usable token of the family: each
\* one is in the family set, and the set does not expire before it.  Families
\* in which a revocation or the expiry of the set overlapped an issuance are
\* the exception (sessions.py:11-13, the family set of _issue_pair).
RevocationFindsEveryToken ==
    \A t \in Held :
        LET f == record[t].family
        IN  f \notin torn => t \in family[f] /\ ttl[t] <= familyTTL[f]

\* Once a revocation that overlapped no issuance has returned, no token of the
\* family can be used and no request is about to issue one: revoke_family is
\* final (sessions.py:198-203).
RevokedFamilyStaysDead ==
    /\ \A t \in Held : record[t].family \notin dead
    /\ \A r \in Reqs, f \in dead : ~IssuingFor(r, f)

\* A rotation never starts from a refresh token some rotation has marked used,
\* whatever revocations, expiries and failures came between: the mark outlives
\* every way back to an unused record (sessions.py:176-189).
SpentTokenNeverRotates ==
    [][\A r \in Reqs : pc[r] = "idle" /\ pc'[r] = "mark" => token'[r] \notin spent]_vars

\* A token that was handed out and cannot be used any more never can again: no
\* write-back of a record read before a revocation or an expiry, and no later
\* call, brings it back (the SET of sessions.py:187-189).
UnusableForGood ==
    [][\A t \in Tokens : t[1] \in delivered /\ ~Usable(t) => ~Usable(t)']_vars

\* A key leaves the store before the end of its TTL only by a revocation of
\* its own family: revoking one login signs no other login out
\* (sessions.py:198-203 with the SADD of line 138).
OnlyOwnFamilyIsRevoked ==
    [][\A t \in Tokens :
           Live(t) /\ ~Live(t)' /\ ttl[t] > 1
               => \E r \in Reqs : pc[r] = "tokens" /\ subject[r].family = record[t].family]_vars

\* No sequence of calls extends an access token beyond its 15 minutes: only
\* the type check of rotate_refresh_token keeps the SET that renews a TTL away
\* from it (sessions.py:173-189).
AccessTokensStayShort ==
    \A p \in Pairs : ttl[Access(p)] <= AccessTTL

\* Every live record names the user its family was created for, its own type
\* and the CSRF token delivered with it, through any chain of rotations
\* (sessions.py:108-136, 191-196).
RecordsBelongToOwner ==
    \A t \in Tokens : Live(t) =>
        /\ record[t].user = owner[record[t].family]
        /\ record[t].type = t[2]
        /\ record[t].csrf = t[1]
=============================================================================
