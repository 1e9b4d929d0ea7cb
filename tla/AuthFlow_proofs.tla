--------------------------- MODULE AuthFlow_proofs ---------------------------
(***************************************************************************)
(* Proofs about AuthFlow for any number of accounts, pairs, clients and    *)
(* requests in flight.                                                     *)
(*                                                                         *)
(* A refresh token is in at most one place that can use it: on an answer   *)
(* on its way to one client, in the jar of that client, or on a request    *)
(* of it.  As long as a family has one refresh at a time, a token that was *)
(* spent is in the jar only while its replacement is being made or on its  *)
(* way; so nobody presents it again.  And as long as no rotation of a      *)
(* family overlaps a revocation, the family set lists what the revocation  *)
(* has to delete.                                                          *)
(***************************************************************************)
EXTENDS AuthFlow, TLAPS

Refreshing(r) == Open(r) /\ call[r].op = "refresh"

\* What a slot holds at each stage.
Stages ==
    \A r \in Reqs :
        /\ pc[r] = "idle" <=> call[r] = None
        /\ answer[r] # None <=> pc[r] \in {"opened", "revoked", "answered"}
        /\ pc[r] = "opened" => answer[r] \in Pairs /\ family[answer[r]] # None
        /\ pc[r] = "revoked" => answer[r] = "clear"
        /\ Refreshing(r) => call[r].cookies.refresh \in Pairs
        /\ Refreshing(r) /\ answer[r] # None =>
              answer[r] \in Pairs /\ family[answer[r]] = family[call[r].cookies.refresh]
        /\ Refreshing(r) => pc[r] \in {"sent", "redeemed", "marked", "found", "listed", "answered"}
        /\ pc[r] \in {"redeemed", "marked"} => call[r].op = "refresh"
        /\ pc[r] \in {"found", "listed"} =>
              call[r].op \in {"logout", "refresh"} /\ call[r].cookies.refresh \in Pairs
        /\ pc[r] = "identified" => call[r].op \in {"logout", "post", "patch"}
        /\ Open(r) /\ call[r].op = "login" => call[r].user # None
        /\ pc[r] \in {"composed", "checked"} => call[r].op \in {"post", "patch"}

\* Cookies, wherever they are, belong to recorded sessions.
Recorded ==
    /\ HeldSessionsAreRecorded
    /\ \A r \in Reqs :
          /\ Open(r) /\ call[r].cookies.refresh # None =>
                family[call[r].cookies.refresh] \in recorded
          /\ pc[r] = "answered" /\ answer[r] \in Pairs => family[answer[r]] \in recorded

\* The pair on an answer is nowhere else and is not spent.
Undelivered ==
    \A r \in Reqs : answer[r] \in Pairs =>
        /\ answer[r] \notin used
        /\ \A c \in Clients : jar[c].refresh # answer[r]
        /\ \A s \in Reqs : Open(s) => call[s].cookies.refresh # answer[r]
        /\ \A s \in Reqs \ {r} : answer[s] # answer[r]

\* The client has a refresh token of the family, or gets one.
HoldsFamily(c, f) ==
    \/ jar[c].refresh # None /\ family[jar[c].refresh] = f
    \/ \E r \in Reqs :
          /\ Open(r)
          /\ call[r].client = c
          /\ \/ call[r].cookies.refresh # None /\ family[call[r].cookies.refresh] = f
             \/ answer[r] \in Pairs /\ family[answer[r]] = f

\* A family has one client.
Apart ==
    \A c, d \in Clients, f \in Pairs : HoldsFamily(c, f) /\ HoldsFamily(d, f) => c = d

\* Two refreshes of a family at once are noted.
Overlap ==
    \A r, s \in Reqs :
        /\ r # s
        /\ Refreshing(r)
        /\ Refreshing(s)
        /\ family[call[r].cookies.refresh] = family[call[s].cookies.refresh]
        => family[call[r].cookies.refresh] \in muddled

\* A spent token is in a jar only while its replacement is being made or on the
\* way, and on no request that could still present it.
Replaced ==
    \A p \in used : family[p] \notin muddled =>
        /\ \A r \in Reqs : Refreshing(r) /\ pc[r] = "sent" => call[r].cookies.refresh # p
        /\ \A c \in Clients : jar[c].refresh = p =>
              \E r \in Reqs : /\ Refreshing(r)
                              /\ pc[r] \in {"marked", "answered"}
                              /\ call[r].client = c
                              /\ call[r].cookies.refresh = p

\* Spent and usable tokens were issued, and a family is named by its first pair.
Issued ==
    /\ \A p \in access \cup refresh \cup used : family[p] # None
    /\ \A p \in Pairs : family[p] # None => owner[p] # None /\ family[family[p]] = family[p]

AInv ==
    /\ TypeOK
    /\ Issued
    /\ Stages
    /\ Recorded
    /\ Undelivered
    /\ Apart
    /\ Overlap
    /\ Replaced

-----------------------------------------------------------------------------
(* Steps that touch one request and no cookie.                             *)

LEMMA NoneApart ==
    /\ None \notin Users
    /\ None \notin Pairs
    /\ None \notin Clients
    /\ None # "clear"
    /\ None \notin Call
    /\ "clear" \notin Pairs
BY NoneAssumption, PairsAssumption

\* A token that is held has a family.
LEMMA FamilyOfHeld ==
    ASSUME AInv
    PROVE  /\ \A c \in Clients : jar[c].refresh # None => family[jar[c].refresh] \in Pairs
           /\ \A r \in Reqs : Open(r) /\ call[r].cookies.refresh # None =>
                 call[r].cookies.refresh \in Pairs /\ family[call[r].cookies.refresh] \in Pairs
           /\ \A r \in Reqs : answer[r] \in Pairs => family[answer[r]] \in Pairs
<1>1. ASSUME NEW c \in Clients, jar[c].refresh # None
      PROVE  family[jar[c].refresh] \in Pairs
      BY <1>1 DEF AInv, TypeOK, Recorded, HeldSessionsAreRecorded, Jar
<1>2. ASSUME NEW r \in Reqs, Open(r), call[r].cookies.refresh # None
      PROVE  call[r].cookies.refresh \in Pairs /\ family[call[r].cookies.refresh] \in Pairs
      BY <1>2 DEF AInv, TypeOK, Recorded, Jar, Call, Open
<1>3. ASSUME NEW r \in Reqs, answer[r] \in Pairs
      PROVE  family[answer[r]] \in Pairs
      BY <1>3, NoneApart DEF AInv, TypeOK, Recorded, Stages
<1>q. QED BY <1>1, <1>2, <1>3

\* What is attached comes from the jar, and is of one pair if the jar is.
LEMMA AttachedCookies ==
    ASSUME TypeOK, NEW c \in Clients, NEW op \in Ops
    PROVE  LET a == Attached(c, op) IN
           /\ a \in Jar
           /\ a.refresh \in {None, jar[c].refresh}
           /\ op = "refresh" => a.refresh = jar[c].refresh
           /\ \/ a.access = jar[c].access /\ a.csrf = jar[c].csrf
              \/ a.access = None /\ a.csrf = None
           /\ jar[c] = EmptyJar => a = EmptyJar
<1> USE DEF Jar, EmptyJar
<1>1. jar[c] \in Jar
      BY DEF TypeOK
<1>2. CASE op = "login"
      BY <1>1, <1>2 DEF Attached
<1>3. CASE op = "refresh"
  <2>1. Attached(c, op) = [EmptyJar EXCEPT !.refresh = jar[c].refresh]
        BY <1>3 DEF Attached
  <2>q. QED BY <1>1, <1>3, <2>1
<1>4. CASE op = "logout" /\ c \in Scripts
      BY <1>1, <1>4 DEF Attached
<1>5. CASE op \notin {"login", "refresh"} /\ ~(op = "logout" /\ c \in Scripts)
  <2>1. Attached(c, op) = [jar[c] EXCEPT !.refresh = None]
        BY <1>5 DEF Attached
  <2>q. QED BY <1>1, <1>5, <2>1
<1>q. QED BY <1>2, <1>3, <1>4, <1>5

\* Every other request keeps what it has.
OthersStay(r) ==
    \A s \in Reqs \ {r} : pc'[s] = pc[s] /\ call'[s] = call[s] /\ answer'[s] = answer[s]

\* The request r goes on with the cookies it has or those of its client, or it
\* closes; it is not a refresh that goes on, and a pair that replaces a spent
\* token is lost only in a family that is noted.
Quiet(r) ==
    /\ UNCHANGED <<family, owner, recorded, jar>>
    /\ access' \subseteq access /\ refresh' \subseteq refresh
    /\ muddled \subseteq muddled'
    /\ used' \subseteq used
    /\ OthersStay(r)
    /\ answer'[r] = None
    /\ \/ /\ pc'[r] = "idle"
          /\ call'[r] = None
          /\ Refreshing(r) /\ pc[r] \in {"marked", "answered"} => FamilyOf(r) \in muddled'
       \/ /\ pc'[r] \in {"composed", "sent", "checked", "identified", "known", "ready"}
          /\ call'[r] # None
          /\ call'[r].op # "refresh"
          /\ pc[r] # "marked"
          /\ call'[r].op = "login" => call'[r].user # None
          /\ pc'[r] \in {"composed", "checked"} => call'[r].op \in {"post", "patch"}
          /\ pc'[r] = "identified" => call'[r].op \in {"logout", "post", "patch"}
          /\ answer[r] = None
          /\ \/ call'[r].cookies.refresh \in {None, jar[call'[r].client].refresh}
             \/ /\ Open(r)
                /\ call'[r].client = call[r].client
                /\ call'[r].cookies.refresh = call[r].cookies.refresh

LEMMA QuietStep ==
    ASSUME AInv, NEW r \in Reqs, Quiet(r), TypeOK'
    PROVE  AInv'
<1>1. Issued'
      BY DEF AInv, Issued, Quiet
<1>2. Stages'
      BY DEF AInv, Stages, Quiet, OthersStay, TypeOK, Refreshing, Open
<1>3. Recorded'
  <2>1. HeldSessionsAreRecorded'
        BY DEF AInv, Recorded, HeldSessionsAreRecorded, Quiet
  <2>2. ASSUME NEW s \in Reqs, Open(s)', (call[s].cookies.refresh # None)'
        PROVE  (family[call[s].cookies.refresh] \in recorded)'
        BY <2>2, NoneApart DEF AInv, TypeOK, Recorded, HeldSessionsAreRecorded, Quiet, OthersStay,
           Open, Call, Jar
  <2>3. ASSUME NEW s \in Reqs, (pc[s] = "answered" /\ answer[s] \in Pairs)'
        PROVE  (family[answer[s]] \in recorded)'
        BY <2>3, NoneApart DEF AInv, Recorded, Quiet, OthersStay, Stages
  <2>q. QED BY <2>1, <2>2, <2>3 DEF Recorded
<1>4. Undelivered'
  <2>1. \A s \in Reqs : answer'[s] \in Pairs => s # r /\ answer'[s] = answer[s]
        BY NoneApart DEF Quiet, OthersStay
  <2>2. ASSUME NEW s \in Reqs, NEW t \in Reqs, answer[s] \in Pairs, Open(t)'
        PROVE  call'[t].cookies.refresh # answer[s]
    <3>1. CASE t # r
          BY <2>2, <3>1 DEF AInv, Undelivered, Quiet, OthersStay, Open
    <3>2. CASE t = r /\ call'[r].cookies.refresh = call[r].cookies.refresh /\ Open(r)
          BY <2>2, <3>2 DEF AInv, Undelivered
    <3>3. CASE t = r /\ call'[r].cookies.refresh \in {None, jar[call'[r].client].refresh}
      <4>1. call'[r].client \in Clients
            BY <2>2, <3>3 DEF TypeOK, Open, Call
      <4>q. QED BY <2>2, <3>3, <4>1, NoneApart DEF AInv, Undelivered
    <3>q. QED BY <2>2, <3>1, <3>2, <3>3 DEF Quiet, Open
  <2>q. QED BY <2>1, <2>2 DEF AInv, Undelivered, Quiet
<1>5. Apart'
  <2>1. ASSUME NEW c \in Clients, NEW f \in Pairs, HoldsFamily(c, f)'
        PROVE  HoldsFamily(c, f)
        BY <2>1, NoneApart DEF HoldsFamily, Quiet, OthersStay, Open, AInv, TypeOK, Stages
  <2>q. QED BY <2>1 DEF Apart, AInv
<1>6. Overlap'
      BY DEF AInv, Overlap, Quiet, OthersStay, Refreshing, Open
<1>7. Replaced'
  <2>1. \A s \in Reqs :
           Refreshing(s)' => Refreshing(s) /\ s # r /\ pc'[s] = pc[s] /\ call'[s] = call[s]
        BY DEF Refreshing, Quiet, OthersStay, Open
  <2>2. \A s \in Reqs : Refreshing(s) /\ pc[s] \in {"marked", "answered"} =>
           \/ Refreshing(s)' /\ pc'[s] = pc[s] /\ call'[s] = call[s]
           \/ family[call[s].cookies.refresh] \in muddled'
        BY DEF Quiet, OthersStay, AInv, Stages, Refreshing, Open, FamilyOf
  <2>q. QED BY <2>1, <2>2 DEF AInv, Replaced, Quiet
<1>q. QED BY <1>1, <1>2, <1>3, <1>4, <1>5, <1>6, <1>7 DEF AInv

-----------------------------------------------------------------------------
(* Types.                                                                  *)

LEMMA TypeStep ==
    ASSUME AInv, Next
    PROVE  TypeOK'
<1> USE NoneApart DEF AInv, TypeOK, store, history
<1>1. ASSUME NEW r \in Reqs, NEW c \in Clients, NEW op \in Ops, NEW u \in Users \cup {None},
             Send(r, c, op, u)
      PROVE  TypeOK'
  <2>1. Attached(c, op) \in Jar
        BY AttachedCookies
  <2>2. [client |-> c, op |-> op, cookies |-> Attached(c, op), header |-> None, user |-> u] \in Call
        BY <2>1 DEF Call
  <2>3. muddled' \subseteq Pairs
        BY <1>1, FamilyOfHeld DEF Send
  <2>q. QED BY <1>1, <2>2, <2>3 DEF Send
<1>2. ASSUME NEW r \in Reqs, NEW c \in Clients, NEW op \in Ops, Compose(r, c, op)
      PROVE  TypeOK'
  <2>1. EmptyJar \in Jar /\ jar[c] \in Jar
        BY DEF EmptyJar, Jar
  <2>2. [client |-> c, op |-> op, cookies |-> EmptyJar, header |-> jar[c].csrf, user |-> None] \in Call
        BY <2>1 DEF Call, Jar
  <2>q. QED BY <1>2, <2>2 DEF Compose
<1>3. ASSUME NEW r \in Reqs, Leave(r)
      PROVE  TypeOK'
  <2>1. call[r] \in Call
        BY <1>3 DEF Leave
  <2>2. Attached(call[r].client, call[r].op) \in Jar
        BY <2>1, AttachedCookies DEF Call
  <2>3. [call[r] EXCEPT !.cookies = Attached(call[r].client, call[r].op)] \in Call
        BY <2>1, <2>2 DEF Call
  <2>q. QED BY <1>3, <2>3 DEF Leave
<1>4. ASSUME NEW r \in Reqs,
             \/ AuthenticateUser(r) \/ GetCurrentUser(r) \/ RequireCsrf(r) \/ Reuse(r)
             \/ RevokeSession(r)
      PROVE  TypeOK'
      BY <1>4 DEF AuthenticateUser, GetCurrentUser, RequireCsrf, AwaitsCsrf, Reuse, RevokeSession,
         Advance
<1>5. ASSUME NEW r \in Reqs,
             InvalidCredentials(r) \/ Unauthorized(r) \/ CsrfFails(r) \/ Accept(r) \/ InvalidRefresh(r)
      PROVE  TypeOK'
      BY <1>5 DEF InvalidCredentials, Unauthorized, CsrfFails, Accept, InvalidRefresh, End, Close
<1>6. ASSUME NEW r \in Reqs, NEW p \in Pairs, CreateSession(r, p)
      PROVE  TypeOK'
      BY <1>6 DEF CreateSession, Issue, HeldBack, Call
<1>7. ASSUME NEW r \in Reqs, GetUserId(r)
      PROVE  TypeOK'
  <2>1. call[r] \in Call /\ call[r].cookies.access \in Pairs
        BY <1>7 DEF GetUserId, AwaitsUser
  <2>2. [call[r] EXCEPT !.user = owner[call[r].cookies.access]] \in Call
        BY <2>1 DEF Call
  <2>q. QED BY <1>7, <2>2 DEF GetUserId
<1>8. ASSUME NEW r \in Reqs, NothingToRevoke(r)
      PROVE  TypeOK'
      BY <1>8 DEF NothingToRevoke
<1>9. ASSUME NEW r \in Reqs, Record(r)
      PROVE  TypeOK'
      BY <1>9, FamilyOfHeld DEF Record, Stages
<1>10. ASSUME NEW r \in Reqs, pc[r] \in {"redeemed", "marked", "found", "listed"} \/ Refreshing(r)
       PROVE  Open(r) /\ call[r].cookies.refresh \in Pairs /\ FamilyOf(r) \in Pairs
  <2>1. Open(r) /\ call[r].cookies.refresh \in Pairs
        BY <1>10 DEF Stages, Refreshing, Open
  <2>q. QED BY <2>1, FamilyOfHeld DEF FamilyOf
<1>11. ASSUME NEW r \in Reqs, Redeem(r) \/ Mark(r) \/ ListFamily(r)
       PROVE  TypeOK'
  <2>1. call[r].cookies.refresh \in Pairs /\ FamilyOf(r) \in Pairs
        BY <1>10, <1>11 DEF Redeem, Mark, ListFamily, Refreshing, Open
  <2>q. QED BY <1>11, <2>1 DEF Redeem, Mark, ListFamily, Members
<1>12. ASSUME NEW r \in Reqs, NEW q \in Pairs, Rotate(r, q)
       PROVE  TypeOK'
  <2>1. call[r].cookies.refresh \in Pairs /\ FamilyOf(r) \in Pairs
        BY <1>10, <1>12 DEF Rotate
  <2>q. QED BY <1>12, <2>1 DEF Rotate, Issue
<1>13. ASSUME NEW r \in Reqs, RevokeFamily(r) \/ RefuseReuse(r)
       PROVE  TypeOK'
  <2>1. FamilyOf(r) \in Pairs
        BY <1>10, <1>13 DEF RevokeFamily, RefuseReuse, DeleteFamily
  <2>2. /\ access' \subseteq Pairs /\ refresh' \subseteq Pairs /\ used' \subseteq Pairs
        /\ listed' \subseteq Pairs /\ ended' \subseteq Pairs
        /\ UNCHANGED <<active, family, owner, recorded, jar, torn, muddled, out, back>>
        BY <1>13, <2>1 DEF RevokeFamily, RefuseReuse, DeleteFamily
  <2>3. CASE RevokeFamily(r)
        BY <2>2, <2>3 DEF RevokeFamily, DeleteFamily
  <2>4. CASE RefuseReuse(r)
        BY <2>2, <2>4 DEF RefuseReuse, Close
  <2>q. QED BY <1>13, <2>3, <2>4
<1>14. ASSUME NEW r \in Reqs, Fail(r)
       PROVE  TypeOK'
  <2>1. call[r].op = "refresh" => FamilyOf(r) \in Pairs
        BY <1>10, <1>14 DEF Fail, Refreshing
  <2>q. QED BY <1>14, <2>1 DEF Fail, Close
<1>15. ASSUME NEW r \in Reqs, Receive(r)
       PROVE  TypeOK'
  <2>1. call[r].client \in Clients /\ answer[r] \in Pairs \cup {"clear"}
        BY <1>15 DEF Receive, Stages, Call
  <2>2. ClearSessionCookies(jar[call[r].client]) \in Jar
        BY DEF ClearSessionCookies, EmptyJar, Jar
  <2>3. answer[r] \in Pairs => SetSessionCookies(jar[call[r].client], answer[r]) \in Jar
        BY DEF SetSessionCookies, Jar
  <2>4. jar' \in [Clients -> Jar]
        BY <1>15, <2>1, <2>2, <2>3 DEF Receive
  <2>q. QED BY <1>15, <2>1, <2>4 DEF Receive
<1>16. ASSUME NEW p \in Pairs, Expire(p)
       PROVE  TypeOK'
       BY <1>16 DEF Expire
<1>17. ASSUME NEW c \in Clients, Restart(c)
       PROVE  TypeOK'
  <2>1. [EmptyJar EXCEPT !.refresh = jar[c].refresh] \in Jar
        BY DEF EmptyJar, Jar
  <2>q. QED BY <1>17, <2>1 DEF Restart
<1>18. ASSUME NEW u \in Users, Suspend(u)
       PROVE  TypeOK'
       BY <1>18 DEF Suspend
<1>q. QED BY <1>1, <1>2, <1>3, <1>4, <1>5, <1>6, <1>7, <1>8, <1>9, <1>11, <1>12, <1>13, <1>14,
          <1>15, <1>16, <1>17, <1>18 DEF Next

-----------------------------------------------------------------------------
(* The steps that are quiet.                                               *)

LEMMA QuietSteps ==
    ASSUME AInv, NEW r \in Reqs
    PROVE  /\ \A c \in Clients, op \in Ops, u \in Users \cup {None} :
                 op # "refresh" /\ Send(r, c, op, u) => Quiet(r)
           /\ \A c \in Clients, op \in Ops : Compose(r, c, op) => Quiet(r)
           /\ \/ Leave(r) \/ AuthenticateUser(r) \/ GetUserId(r) \/ GetCurrentUser(r)
              \/ RequireCsrf(r)
              => Quiet(r)
           /\ \/ InvalidCredentials(r) \/ Unauthorized(r) \/ CsrfFails(r) \/ Accept(r)
              \/ InvalidRefresh(r) \/ RefuseReuse(r) \/ Fail(r)
              => Quiet(r)
<1> USE NoneApart DEF AInv, TypeOK, Quiet, OthersStay, store, history
<1>1. ASSUME NEW c \in Clients, NEW op \in Ops, NEW u \in Users \cup {None},
             op # "refresh", Send(r, c, op, u)
      PROVE  Quiet(r)
  <2>1. Attached(c, op).refresh \in {None, jar[c].refresh}
        BY AttachedCookies
  <2>2. /\ call'[r].op = op
        /\ call'[r].client = c
        /\ call'[r].cookies = Attached(c, op)
        BY <1>1 DEF Send
  <2>3. Next
        BY <1>1 DEF Next
  <2>4. call'[r] \in Call
        BY <2>3, <1>1, TypeStep DEF Send
  <2>5. pc'[r] = "sent" /\ answer[r] = None
        BY <1>1 DEF Send, Stages
  <2>q. QED BY <1>1, <2>1, <2>2, <2>4, <2>5 DEF Send
<1>2. ASSUME NEW c \in Clients, NEW op \in Ops, Compose(r, c, op)
      PROVE  Quiet(r)
  <2>1. /\ call'[r].op = op
        /\ call'[r].cookies = EmptyJar
        BY <1>2 DEF Compose
  <2>2. Next
        BY <1>2 DEF Next
  <2>3. EmptyJar.refresh = None /\ op # "refresh"
        BY <1>2 DEF EmptyJar, Compose
  <2>4. call'[r] \in Call
        BY <2>2, <1>2, TypeStep DEF Compose
  <2>5. pc'[r] = "composed" /\ answer[r] = None
        BY <1>2 DEF Compose, Stages
  <2>q. QED BY <1>2, <2>1, <2>3, <2>4, <2>5 DEF Compose
<1>3. ASSUME Leave(r)
      PROVE  Quiet(r)
  <2>1. call[r] \in Call /\ Open(r) /\ answer[r] = None /\ call[r].op # "refresh"
        BY <1>3 DEF Leave, Open, Stages, Refreshing
  <2>2. /\ call'[r].op = call[r].op
        /\ call'[r].client = call[r].client
        /\ call'[r].cookies = Attached(call[r].client, call[r].op)
        BY <1>3, <2>1 DEF Leave, Call
  <2>3. call'[r].cookies.refresh \in {None, jar[call'[r].client].refresh}
        BY <2>1, <2>2, AttachedCookies DEF Call
  <2>4. call[r].op # "login"
        BY <1>3, <2>1 DEF Leave, Stages
  <2>5. call'[r] \in Call
        BY <1>3, <2>1, TypeStep DEF Leave, Next, Open
  <2>q. QED BY <1>3, <2>1, <2>2, <2>3, <2>4, <2>5 DEF Leave, Open
<1>4. ASSUME AuthenticateUser(r) \/ GetCurrentUser(r) \/ RequireCsrf(r)
      PROVE  Quiet(r)
      BY <1>4 DEF AuthenticateUser, GetCurrentUser, RequireCsrf, AwaitsCsrf, Advance, Stages, Open,
         Refreshing
<1>5. ASSUME GetUserId(r)
      PROVE  Quiet(r)
  <2>1. /\ call[r] \in Call /\ Open(r) /\ answer[r] = None /\ pc[r] # "marked"
        /\ call[r].op \in {"logout", "post", "patch"}
        BY <1>5 DEF GetUserId, AwaitsUser, Open, Stages
  <2>2. /\ call'[r].op = call[r].op
        /\ call'[r].client = call[r].client
        /\ call'[r].cookies = call[r].cookies
        BY <1>5, <2>1 DEF GetUserId, Call
  <2>3. call'[r] \in Call
        BY <1>5, <2>1, TypeStep DEF GetUserId, Next
  <2>q. QED BY <1>5, <2>1, <2>2, <2>3 DEF GetUserId, Open
<1>6. ASSUME InvalidCredentials(r) \/ Unauthorized(r) \/ CsrfFails(r) \/ Accept(r) \/ InvalidRefresh(r)
      PROVE  Quiet(r)
      BY <1>6 DEF InvalidCredentials, Unauthorized, CsrfFails, Accept, InvalidRefresh, End, Close,
         Stages, AwaitsUser, AwaitsCsrf
<1>7. ASSUME RefuseReuse(r)
      PROVE  Quiet(r)
      BY <1>7 DEF RefuseReuse, DeleteFamily, Close
<1>8. ASSUME Fail(r)
      PROVE  Quiet(r)
      BY <1>8 DEF Fail, Close, Refreshing
<1>q. QED BY <1>1, <1>2, <1>3, <1>4, <1>5, <1>6, <1>7, <1>8

-----------------------------------------------------------------------------
(* The steps that are not.                                                 *)

LEMMA RefreshStep ==
    ASSUME AInv, NEW r \in Reqs, NEW c \in Clients, NEW u \in Users \cup {None},
           Send(r, c, "refresh", u), TypeOK'
    PROVE  AInv'
<1> DEFINE p == jar[c].refresh
<1> USE NoneApart DEF AInv, TypeOK, store
<1>1. /\ p \in Pairs
      /\ pc[r] = "idle" /\ call[r] = None /\ answer[r] = None
      /\ pc'[r] = "sent"
      /\ call'[r].op = "refresh" /\ call'[r].client = c /\ call'[r].cookies.refresh = p
  <2>1. p \in Pairs
        BY DEF Send, Jar
  <2>2. Attached(c, "refresh").refresh = p
        BY AttachedCookies DEF Ops
  <2>q. QED BY <2>1, <2>2 DEF Send, Stages
<1>2. family[p] \in recorded /\ family[p] \in Pairs
      BY <1>1, FamilyOfHeld DEF Recorded, HeldSessionsAreRecorded
<1>3. /\ \A s \in Reqs \ {r} : pc'[s] = pc[s] /\ call'[s] = call[s]
      /\ answer' = answer /\ UNCHANGED <<family, owner, access, refresh, used, recorded, jar>>
      /\ muddled \subseteq muddled'
      BY DEF Send
<1>4. Contended(r, c, p) => family[p] \in muddled'
      BY DEF Send
<1>5. Issued'
      BY <1>3 DEF Issued
<1>6. Stages'
  <2>1. call'[r] \in Call
        BY <1>1
  <2>q. QED BY <1>1, <1>3, <2>1 DEF Stages, Refreshing, Open
<1>7. Recorded'
      BY <1>1, <1>2, <1>3 DEF Recorded, HeldSessionsAreRecorded, Open
<1>8. Undelivered'
      BY <1>1, <1>3 DEF Undelivered, Open
<1>9. Apart'
  <2>1. ASSUME NEW d \in Clients, NEW f \in Pairs, HoldsFamily(d, f)'
        PROVE  HoldsFamily(d, f)
        BY <2>1, <1>1, <1>3 DEF HoldsFamily, Open
  <2>q. QED BY <2>1 DEF Apart
<1>10. HoldsFamily(c, family[p])
       BY <1>1 DEF HoldsFamily
<1>11. Overlap'
  <2>1. ASSUME NEW s \in Reqs \ {r}, Refreshing(s), family[call[s].cookies.refresh] = family[p]
        PROVE  family[p] \in muddled'
    <3>1. call[s] \in Call /\ call[s].cookies.refresh \in Pairs /\ Open(s)
          BY <2>1 DEF Stages, Refreshing, Open
    <3>2. HoldsFamily(call[s].client, family[p])
          BY <2>1, <3>1 DEF HoldsFamily
    <3>3. call[s].client = c
          BY <1>2, <1>10, <3>1, <3>2 DEF Apart, Call
    <3>q. QED BY <1>4, <2>1, <3>1, <3>3 DEF Contended, Refreshing
  <2>q. QED BY <1>1, <1>3, <2>1 DEF Overlap, Refreshing, Open
<1>12. Replaced'
  <2>1. ASSUME NEW s \in Reqs, Refreshing(s), call[s].client = c, call[s].cookies.refresh = p
        PROVE  family[p] \in muddled'
        BY <2>1, <1>1, <1>4 DEF Contended, Refreshing, Open
  <2>2. \A s \in Reqs \ {r} : Refreshing(s)' <=> Refreshing(s)
        BY <1>3 DEF Refreshing, Open
  <2>3. \A s \in Reqs : pc[s] \in {"marked", "answered"} =>
            s # r /\ pc'[s] = pc[s] /\ call'[s] = call[s]
        BY <1>1, <1>3
  <2>4. p \in used => family[p] \in muddled'
        BY <2>1, <1>3 DEF Replaced
  <2>q. QED BY <1>1, <1>3, <2>2, <2>3, <2>4 DEF Replaced
<1>q. QED BY <1>5, <1>6, <1>7, <1>8, <1>9, <1>11, <1>12

\* The request r goes on as what it is; if its answer leaves, it sets no cookies
\* of a session that is not recorded.
Onward(r) ==
    /\ UNCHANGED <<family, owner, jar, call, muddled>>
    /\ access' \subseteq access /\ refresh' \subseteq refresh /\ used' \subseteq used
    /\ recorded \subseteq recorded'
    /\ OthersStay(r)
    /\ Open(r) /\ pc[r] \notin {"marked", "answered"} /\ pc'[r] \notin {"idle", "sent"}
    /\ answer'[r] \in {answer[r], "clear"}
    /\ pc'[r] = "answered" => answer'[r] = "clear" \/ family[answer'[r]] \in recorded'

LEMMA OnwardStep ==
    ASSUME AInv, NEW r \in Reqs, Onward(r), Stages', TypeOK'
    PROVE  AInv'
<1> USE NoneApart DEF AInv, TypeOK, store
<1>1. \A s \in Reqs : (Open(s)' <=> Open(s)) /\ (Refreshing(s)' <=> Refreshing(s))
      BY DEF Refreshing, Open, Onward, OthersStay
<1>2. \A s \in Reqs : answer'[s] \in {answer[s], "clear"}
      BY DEF Onward, OthersStay
<1>3. Issued'
      BY DEF Issued, Onward
<1>4. Recorded'
  <2>1. \A s \in Reqs : pc'[s] = "answered" /\ answer'[s] \in Pairs =>
            family'[answer'[s]] \in recorded'
        BY <1>2 DEF Onward, OthersStay, Recorded
  <2>q. QED BY <1>1, <2>1 DEF Recorded, HeldSessionsAreRecorded, Onward
<1>5. Undelivered'
      BY <1>1, <1>2 DEF Undelivered, Onward
<1>6. Apart'
      BY <1>1, <1>2 DEF Apart, HoldsFamily, Onward
<1>7. Overlap'
      BY <1>1 DEF Overlap, Onward
<1>8. Replaced'
  <2>1. \A s \in Reqs : /\ pc'[s] = "sent" => pc[s] = "sent"
                        /\ pc[s] \in {"marked", "answered"} => pc'[s] = pc[s]
        BY DEF Onward, OthersStay
  <2>q. QED BY <1>1, <2>1 DEF Replaced, Onward
<1>q. QED BY <1>3, <1>4, <1>5, <1>6, <1>7, <1>8

LEMMA OnwardSteps ==
    ASSUME AInv, NEW r \in Reqs,
           \/ Redeem(r) \/ Reuse(r) \/ RevokeSession(r) \/ NothingToRevoke(r) \/ ListFamily(r)
           \/ RevokeFamily(r) \/ Record(r)
    PROVE  Onward(r) /\ Stages'
<1> USE NoneApart DEF AInv, TypeOK, store, history, Onward, OthersStay
<1>1. CASE Redeem(r)
  <2>1. Onward(r)
        BY <1>1 DEF Redeem, Open
  <2>2. Stages'
        BY <1>1 DEF Redeem, Stages, Refreshing, Open
  <2>q. QED BY <2>1, <2>2
<1>2. CASE Reuse(r) \/ RevokeSession(r)
  <2>1. Onward(r)
        BY <1>2 DEF Reuse, RevokeSession, Advance, Open
  <2>2. Stages'
        BY <1>2 DEF Reuse, RevokeSession, Advance, Stages, Refreshing, Open
  <2>q. QED BY <2>1, <2>2
<1>3. CASE NothingToRevoke(r)
  <2>1. Onward(r)
        BY <1>3 DEF NothingToRevoke, Open
  <2>2. Stages'
        BY <1>3 DEF NothingToRevoke, Stages, Refreshing, Open
  <2>q. QED BY <2>1, <2>2
<1>4. CASE ListFamily(r)
  <2>1. Onward(r)
        BY <1>4 DEF ListFamily, Open
  <2>2. Stages'
        BY <1>4 DEF ListFamily, Stages, Refreshing, Open
  <2>q. QED BY <2>1, <2>2
<1>5. CASE RevokeFamily(r)
  <2>1. Onward(r)
        BY <1>5 DEF RevokeFamily, DeleteFamily, Open
  <2>2. Stages'
        BY <1>5 DEF RevokeFamily, DeleteFamily, Stages, Refreshing, Open
  <2>q. QED BY <2>1, <2>2
<1>6. CASE Record(r)
  <2>1. Onward(r)
        BY <1>6 DEF Record, Open, Stages
  <2>2. Stages'
        BY <1>6 DEF Record, Stages, Refreshing, Open
  <2>q. QED BY <2>1, <2>2
<1>q. QED BY <1>1, <1>2, <1>3, <1>4, <1>5, <1>6

\* A pair that was not issued is nowhere.
LEMMA FreshPair ==
    ASSUME AInv, NEW q \in Pairs, family[q] = None
    PROVE  /\ q \notin access \cup refresh \cup used
           /\ \A c \in Clients : q \notin {jar[c].access, jar[c].csrf, jar[c].refresh}
           /\ \A r \in Reqs : Open(r) => call[r].cookies.refresh # q
           /\ \A r \in Reqs : answer[r] # q
           /\ \A p \in Pairs : family[p] # q
<1> USE NoneApart DEF AInv, TypeOK
<1>1. q \notin access \cup refresh \cup used
      BY DEF Issued
<1>2. \A c \in Clients : q \notin {jar[c].access, jar[c].csrf, jar[c].refresh}
      BY DEF Recorded, HeldSessionsAreRecorded
<1>3. \A r \in Reqs : Open(r) => call[r].cookies.refresh # q
      BY FamilyOfHeld
<1>4. \A r \in Reqs : answer[r] # q
      BY FamilyOfHeld
<1>5. \A p \in Pairs : family[p] # q
      BY DEF Issued
<1>q. QED BY <1>1, <1>2, <1>3, <1>4, <1>5

LEMMA CreateSessionStep ==
    ASSUME AInv, NEW r \in Reqs, NEW p \in Pairs, CreateSession(r, p), TypeOK'
    PROVE  AInv'
<1> USE NoneApart DEF AInv, TypeOK, store
<1>1. /\ p \notin access \cup refresh \cup used
      /\ \A c \in Clients : p \notin {jar[c].access, jar[c].csrf, jar[c].refresh}
      /\ \A s \in Reqs : Open(s) => call[s].cookies.refresh # p
      /\ \A s \in Reqs : answer[s] # p
      /\ \A q \in Pairs : family[q] # p
      /\ family[p] = None
      BY FreshPair DEF CreateSession
<1>2. /\ pc[r] = "known" /\ call[r].op = "login" /\ call[r] \in Call /\ answer[r] = None
      /\ pc' = [pc EXCEPT ![r] = "opened"]
      /\ answer' = [answer EXCEPT ![r] = p]
      /\ family' = [family EXCEPT ![p] = p]
      /\ owner' = [owner EXCEPT ![p] = call[r].user]
      /\ access' = access \cup {p} /\ refresh' = refresh \cup {p}
      /\ UNCHANGED <<used, recorded, jar, call, muddled>>
      BY DEF CreateSession, Issue, HeldBack, Stages, history
<1>3. call[r].user # None
      BY <1>2 DEF Stages, Open
<1>4. Issued'
      BY <1>1, <1>2, <1>3 DEF Issued
<1>5. Stages'
      BY <1>1, <1>2 DEF Stages, Refreshing, Open
<1>6. Recorded'
      BY <1>1, <1>2 DEF Recorded, HeldSessionsAreRecorded, Open, Jar
<1>7. Undelivered'
      BY <1>1, <1>2 DEF Undelivered, Open
<1>8. Apart'
  <2>1. ASSUME NEW c \in Clients, NEW f \in Pairs, HoldsFamily(c, f)'
        PROVE  \/ HoldsFamily(c, f) /\ f # p
               \/ c = call[r].client /\ f = p
        BY <2>1, <1>1, <1>2 DEF HoldsFamily, Open, Jar, Call
  <2>q. QED BY <2>1 DEF Apart
<1>9. Overlap'
      BY <1>1, <1>2 DEF Overlap, Refreshing, Open, Stages
<1>10. Replaced'
  <2>1. \A s \in Reqs : (Refreshing(s)' <=> Refreshing(s)) /\ (Refreshing(s) => pc'[s] = pc[s])
        BY <1>2 DEF Refreshing, Open
  <2>q. QED BY <1>1, <1>2, <2>1 DEF Replaced
<1>q. QED BY <1>4, <1>5, <1>6, <1>7, <1>8, <1>9, <1>10

LEMMA MarkStep ==
    ASSUME AInv, NEW r \in Reqs, Mark(r), TypeOK'
    PROVE  AInv'
<1> DEFINE p == call[r].cookies.refresh
<1> USE NoneApart DEF AInv, TypeOK, store
<1>1. /\ pc[r] = "redeemed" /\ call[r].op = "refresh" /\ call[r] \in Call /\ answer[r] = None
      /\ p \in Pairs
      /\ pc' = [pc EXCEPT ![r] = "marked"]
      /\ refresh' \subseteq refresh /\ used' = used \cup {p}
      /\ UNCHANGED <<family, owner, access, recorded, jar, call, answer, muddled>>
      BY DEF Mark, Stages, history, Refreshing, Open
<1>2. Refreshing(r) /\ Open(r) /\ family[p] \in Pairs
      BY <1>1, FamilyOfHeld DEF Refreshing, Open
<1>3. \A s \in Reqs : (Open(s)' <=> Open(s)) /\ (Refreshing(s)' <=> Refreshing(s))
      BY <1>1 DEF Refreshing, Open
<1>4. Issued'
      BY <1>1, <1>2 DEF Issued
<1>5. Stages'
      BY <1>1, <1>3 DEF Stages, Open
<1>6. Recorded'
      BY <1>1, <1>3 DEF Recorded, HeldSessionsAreRecorded
<1>7. Undelivered'
      BY <1>1, <1>2, <1>3 DEF Undelivered
<1>8. Apart'
      BY <1>1, <1>3 DEF Apart, HoldsFamily
<1>9. Overlap'
      BY <1>1, <1>3 DEF Overlap
<1>10. Replaced'
  <2>1. HoldsFamily(call[r].client, family[p]) /\ call[r].client \in Clients
        BY <1>1, <1>2 DEF HoldsFamily, Call
  <2>2. ASSUME NEW c \in Clients, jar[c].refresh = p
        PROVE  call[r].client = c
    <3>1. HoldsFamily(c, family[p])
          BY <2>2, <1>1 DEF HoldsFamily
    <3>q. QED BY <2>1, <3>1, <1>2 DEF Apart
  <2>3. ASSUME family[p] \notin muddled, NEW s \in Reqs \ {r}, Refreshing(s)
        PROVE  call[s].cookies.refresh # p
        BY <2>3, <1>2 DEF Overlap
  <2>4. ASSUME NEW t \in used', family'[t] \notin muddled', NEW s \in Reqs,
               Refreshing(s)', pc'[s] = "sent"
        PROVE  call'[s].cookies.refresh # t
        BY <2>3, <2>4, <1>1, <1>3 DEF Replaced
  <2>5. ASSUME NEW t \in used', family'[t] \notin muddled', NEW c \in Clients, jar'[c].refresh = t
        PROVE  \E s \in Reqs : /\ Refreshing(s)'
                               /\ pc'[s] \in {"marked", "answered"}
                               /\ call'[s].client = c
                               /\ call'[s].cookies.refresh = t
    <3>1. CASE t = p
          BY <3>1, <2>2, <2>5, <1>1, <1>2, <1>3
    <3>2. CASE t # p
          BY <3>2, <2>5, <1>1, <1>3 DEF Replaced
    <3>q. QED BY <3>1, <3>2
  <2>q. QED BY <2>4, <2>5 DEF Replaced
<1>q. QED BY <1>4, <1>5, <1>6, <1>7, <1>8, <1>9, <1>10

LEMMA RotateStep ==
    ASSUME AInv, NEW r \in Reqs, NEW q \in Pairs, Rotate(r, q), TypeOK'
    PROVE  AInv'
<1> DEFINE p == call[r].cookies.refresh
<1> USE NoneApart DEF AInv, TypeOK, store
<1>1. /\ q \notin access \cup refresh \cup used
      /\ \A c \in Clients : q \notin {jar[c].access, jar[c].csrf, jar[c].refresh}
      /\ \A s \in Reqs : Open(s) => call[s].cookies.refresh # q
      /\ \A s \in Reqs : answer[s] # q
      /\ \A s \in Pairs : family[s] # q
      /\ family[q] = None
      BY FreshPair DEF Rotate
<1>2. /\ pc[r] = "marked" /\ call[r].op = "refresh" /\ call[r] \in Call /\ answer[r] = None
      /\ p \in Pairs
      /\ pc' = [pc EXCEPT ![r] = "answered"]
      /\ answer' = [answer EXCEPT ![r] = q]
      /\ family' = [family EXCEPT ![q] = family[p]]
      /\ owner' = [owner EXCEPT ![q] = owner[p]]
      /\ access' = access \cup {q} /\ refresh' = refresh \cup {q}
      /\ UNCHANGED <<used, recorded, jar, call, muddled>>
      BY DEF Rotate, Issue, Stages, history, Refreshing, Open, FamilyOf
<1>3. Refreshing(r) /\ Open(r) /\ family[p] \in Pairs /\ family[p] \in recorded /\ p # q
      BY <1>1, <1>2, FamilyOfHeld DEF Refreshing, Open, Recorded
<1>4. \A s \in Reqs : (Open(s)' <=> Open(s)) /\ (Refreshing(s)' <=> Refreshing(s))
      BY <1>2 DEF Refreshing, Open
<1>5. \A s \in Reqs : Refreshing(s) =>
          /\ call[s].cookies.refresh \in Pairs
          /\ family'[call[s].cookies.refresh] = family[call[s].cookies.refresh]
      BY <1>1, <1>2, FamilyOfHeld DEF Refreshing, Stages
<1>6. Issued'
      BY <1>1, <1>2, <1>3 DEF Issued
<1>7. Stages'
      BY <1>1, <1>2, <1>3, <1>4, <1>5 DEF Stages, Open
<1>8. Recorded'
      BY <1>1, <1>2, <1>3, <1>4 DEF Recorded, HeldSessionsAreRecorded, Jar
<1>9. Undelivered'
      BY <1>1, <1>2, <1>3, <1>4 DEF Undelivered
<1>10. \A c \in Clients, f \in Pairs : HoldsFamily(c, f)' => HoldsFamily(c, f)
  <2>1. ASSUME NEW c \in Clients, NEW f \in Pairs, HoldsFamily(c, f)'
        PROVE  HoldsFamily(c, f)
        BY <2>1, <1>1, <1>2, <1>3, <1>4 DEF HoldsFamily, Jar, Call
  <2>q. QED BY <2>1
<1>11. Apart'
       BY <1>10 DEF Apart
<1>12. Overlap'
       BY <1>2, <1>4, <1>5 DEF Overlap
<1>13. Replaced'
  <2>1. \A s \in Reqs : /\ pc'[s] = "sent" => pc[s] = "sent"
                        /\ pc[s] \in {"marked", "answered"} => pc'[s] \in {"marked", "answered"}
        BY <1>2
  <2>2. \A t \in used : family'[t] = family[t]
        BY <1>1, <1>2
  <2>q. QED BY <1>2, <1>4, <2>1, <2>2 DEF Replaced
<1>q. QED BY <1>6, <1>7, <1>8, <1>9, <1>11, <1>12, <1>13

LEMMA ReceiveStep ==
    ASSUME AInv, NEW r \in Reqs, Receive(r), TypeOK'
    PROVE  AInv'
<1> DEFINE c == call[r].client
           a == answer[r]
           new == IF a = "clear" THEN EmptyJar ELSE [access |-> a, csrf |-> a, refresh |-> a]
<1> USE NoneApart DEF AInv, TypeOK, store
<1>1. /\ pc[r] = "answered" /\ call[r] \in Call /\ c \in Clients
      /\ a \in Pairs \cup {"clear"}
      /\ jar' = [jar EXCEPT ![c] = new]
      /\ pc' = [pc EXCEPT ![r] = "idle"]
      /\ call' = [call EXCEPT ![r] = None]
      /\ answer' = [answer EXCEPT ![r] = None]
      /\ UNCHANGED <<family, owner, access, refresh, used, recorded, muddled>>
      BY DEF Receive, Stages, Call, SetSessionCookies, ClearSessionCookies
<1>2. \A s \in Reqs : (Open(s)' <=> Open(s) /\ s # r) /\ (Refreshing(s)' <=> Refreshing(s) /\ s # r)
      BY <1>1 DEF Refreshing, Open
<1>3. /\ a \in Pairs => family[a] \in recorded /\ a \notin used /\ new.refresh = a
      /\ a = "clear" => new.refresh = None
      BY <1>1 DEF Recorded, Undelivered, EmptyJar
<1>4. Open(r)
      BY <1>1 DEF Open
<1>5. Issued'
      BY <1>1 DEF Issued
<1>6. Stages'
      BY <1>1, <1>2 DEF Stages
<1>7. Recorded'
  <2>1. \A t \in {new.access, new.csrf, new.refresh} \ {None} : family[t] \in recorded
        BY <1>1, <1>3 DEF EmptyJar
  <2>q. QED BY <1>1, <1>2, <2>1 DEF Recorded, HeldSessionsAreRecorded
<1>8. Undelivered'
      BY <1>1, <1>2, <1>3 DEF Undelivered
<1>9. \A d \in Clients, f \in Pairs : HoldsFamily(d, f)' => HoldsFamily(d, f)
  <2>1. ASSUME NEW d \in Clients, NEW f \in Pairs, HoldsFamily(d, f)'
        PROVE  HoldsFamily(d, f)
        BY <2>1, <1>1, <1>2, <1>3, <1>4 DEF HoldsFamily
  <2>q. QED BY <2>1
<1>10. Apart'
       BY <1>9 DEF Apart
<1>11. Overlap'
       BY <1>1, <1>2 DEF Overlap
<1>12. Replaced'
  <2>1. ASSUME NEW t \in used, family[t] \notin muddled, NEW d \in Clients, jar'[d].refresh = t
        PROVE  d # c /\ jar[d].refresh = t
        BY <2>1, <1>1, <1>3
  <2>2. ASSUME NEW t \in used, family[t] \notin muddled, NEW d \in Clients, jar'[d].refresh = t
        PROVE  \E s \in Reqs \ {r} : /\ Refreshing(s)
                                     /\ pc[s] \in {"marked", "answered"}
                                     /\ call[s].client = d
                                     /\ call[s].cookies.refresh = t
        BY <2>1, <2>2 DEF Replaced
  <2>q. QED BY <1>1, <1>2, <2>2 DEF Replaced
<1>q. QED BY <1>5, <1>6, <1>7, <1>8, <1>10, <1>11, <1>12

LEMMA EnvironmentStep ==
    ASSUME AInv, TypeOK',
           \/ \E p \in Pairs : Expire(p)
           \/ \E c \in Clients : Restart(c)
           \/ \E u \in Users : Suspend(u)
           \/ UNCHANGED vars
    PROVE  AInv'
<1> USE NoneApart DEF AInv, TypeOK, store
<1>1. /\ access' \subseteq access /\ refresh' \subseteq refresh /\ used' \subseteq used
      /\ UNCHANGED <<family, owner, recorded, pc, call, answer, muddled>>
      BY DEF Expire, Restart, Suspend, vars, history
<1>2. \A c \in Clients :
         /\ jar'[c].refresh = jar[c].refresh
         /\ jar'[c].access \in {None, jar[c].access}
         /\ jar'[c].csrf \in {None, jar[c].csrf}
  <2>1. ASSUME NEW d \in Clients, Restart(d)
        PROVE  jar' = [jar EXCEPT ![d] = [access |-> None, csrf |-> None, refresh |-> jar[d].refresh]]
    <3>1. [EmptyJar EXCEPT !.refresh = jar[d].refresh]
             = [access |-> None, csrf |-> None, refresh |-> jar[d].refresh]
          BY DEF EmptyJar
    <3>q. QED BY <2>1, <3>1 DEF Restart
  <2>2. (\A d \in Clients : ~Restart(d)) => jar' = jar
        BY DEF Expire, Suspend, vars
  <2>q. QED BY <2>1, <2>2
<1>3. \A s \in Reqs : (Open(s)' <=> Open(s)) /\ (Refreshing(s)' <=> Refreshing(s))
      BY <1>1 DEF Refreshing, Open
<1>4. Issued'
      BY <1>1 DEF Issued
<1>5. Stages'
      BY <1>1, <1>3 DEF Stages
<1>6. Recorded'
      BY <1>1, <1>2, <1>3 DEF Recorded, HeldSessionsAreRecorded
<1>7. Undelivered'
      BY <1>1, <1>2, <1>3 DEF Undelivered
<1>8. Apart'
      BY <1>1, <1>2, <1>3 DEF Apart, HoldsFamily
<1>9. Overlap'
      BY <1>1, <1>3 DEF Overlap
<1>10. Replaced'
  <2>1. \A p \in used' : p \in used /\ family'[p] = family[p]
        BY <1>1
  <2>2. pc' = pc /\ call' = call /\ muddled' = muddled
        BY <1>1
  <2>3. \A c \in Clients : jar'[c].refresh = jar[c].refresh
        BY <1>2
  <2>q. QED BY <1>3, <2>1, <2>2, <2>3 DEF Replaced
<1>q. QED BY <1>4, <1>5, <1>6, <1>7, <1>8, <1>9, <1>10

-----------------------------------------------------------------------------
(* What a request has been let through for, and by.                        *)

\* Past authentication its account is active or has been suspended since.
AccountRead ==
    \A r \in Reqs : pc[r] \in Trusted /\ call[r].op # "refresh" =>
        call[r].user \in active \/ r \in overtaken

\* The cookies of a browser are of one pair, wherever they are.
Coherent ==
    /\ \A c \in Clients : jar[c].access \in {None, jar[c].csrf}
    /\ \A r \in Reqs : Open(r) => call[r].cookies.access \in {None, call[r].cookies.csrf}

\* A client that saw its logout succeed has no cookies and sends none, until a
\* late refresh gives it some.
SignedOut ==
    /\ \A r \in Reqs : /\ pc[r] \in {"identified", "known", "ready"} =>
                             call[r].op = "login" \/ call[r].cookies.access # None
                       /\ Open(r) /\ answer[r] \in Pairs => call[r].op \in {"login", "refresh"}
    /\ \A c \in out \ back :
          /\ jar[c] = EmptyJar
          /\ \A r \in Reqs \ late : Open(r) /\ call[r].client = c =>
                call[r].cookies = EmptyJar /\ call[r].op # "login"

HInv == AccountRead /\ Coherent /\ SignedOut

LEMMA HistoryStep ==
    ASSUME AInv, HInv, [Next]_vars, TypeOK'
    PROVE  HInv'
<1> USE NoneApart DEF AInv, TypeOK, HInv, store, history
<1>1. ASSUME NEW r \in Reqs, NEW c \in Clients, NEW op \in Ops, NEW u \in Users \cup {None},
             Send(r, c, op, u)
      PROVE  HInv'
  <2>1. /\ pc' = [pc EXCEPT ![r] = "sent"] /\ pc[r] = "idle" /\ answer[r] = None
        /\ call'[r].client = c /\ call'[r].op = op /\ call'[r].cookies = Attached(c, op)
        /\ \A s \in Reqs \ {r} : call'[s] = call[s]
        /\ UNCHANGED <<active, jar, answer, overtaken>>
        /\ out' \ back' \subseteq out \ back /\ (op = "login" => c \notin out')
        /\ \A s \in Reqs : call[s].client \in out' /\ s \in late => s \in late'
        BY <1>1 DEF Send, Stages
  <2>2. /\ \/ /\ Attached(c, op).access = jar[c].access
              /\ Attached(c, op).csrf = jar[c].csrf
           \/ Attached(c, op).access = None /\ Attached(c, op).csrf = None
        /\ jar[c] = EmptyJar => Attached(c, op) = EmptyJar
        BY AttachedCookies
  <2>3. AccountRead'
        BY <2>1 DEF AccountRead, Trusted
  <2>4. Coherent'
        BY <2>1, <2>2 DEF Coherent, Open
  <2>5. SignedOut'
        BY <2>1, <2>2 DEF SignedOut, Open
  <2>q. QED BY <2>3, <2>4, <2>5
<1>2. ASSUME NEW r \in Reqs, NEW c \in Clients, NEW op \in Ops, Compose(r, c, op)
      PROVE  HInv'
  <2>1. /\ pc' = [pc EXCEPT ![r] = "composed"] /\ pc[r] = "idle" /\ answer[r] = None
        /\ call'[r].client = c /\ call'[r].op = op /\ call'[r].cookies = EmptyJar
        /\ op \in {"post", "patch"}
        /\ \A s \in Reqs \ {r} : call'[s] = call[s]
        /\ UNCHANGED <<active, jar, answer, overtaken, late, out, back>>
        BY <1>2 DEF Compose, Stages
  <2>2. AccountRead'
        BY <2>1 DEF AccountRead, Trusted
  <2>3. Coherent'
        BY <2>1 DEF Coherent, Open, EmptyJar
  <2>4. SignedOut'
        BY <2>1 DEF SignedOut, Open
  <2>q. QED BY <2>2, <2>3, <2>4
<1>3. ASSUME NEW r \in Reqs, Leave(r)
      PROVE  HInv'
  <2>1. /\ pc' = [pc EXCEPT ![r] = "sent"] /\ pc[r] = "composed" /\ answer[r] = None
        /\ call[r] \in Call
        /\ call' = [call EXCEPT ![r].cookies = Attached(call[r].client, call[r].op)]
        /\ UNCHANGED <<active, jar, answer, overtaken, late, out, back>>
        BY <1>3 DEF Leave, Stages
  <2>2. /\ call'[r].client = call[r].client /\ call'[r].op = call[r].op
        /\ call'[r].cookies = Attached(call[r].client, call[r].op)
        /\ call[r].client \in Clients
        BY <2>1 DEF Call
  <2>3. \A c \in Clients, op \in Ops :
           /\ \/ /\ Attached(c, op).access = jar[c].access
                 /\ Attached(c, op).csrf = jar[c].csrf
              \/ Attached(c, op).access = None /\ Attached(c, op).csrf = None
           /\ jar[c] = EmptyJar => Attached(c, op) = EmptyJar
        BY AttachedCookies
  <2>4. AccountRead'
        BY <2>1 DEF AccountRead, Trusted
  <2>5. Coherent'
        BY <2>1, <2>2, <2>3 DEF Coherent, Open, Call
  <2>6. SignedOut'
        BY <2>1, <2>2, <2>3 DEF SignedOut, Open, Call
  <2>q. QED BY <2>4, <2>5, <2>6
<1>4. ASSUME NEW r \in Reqs, AuthenticateUser(r) \/ GetCurrentUser(r) \/ RequireCsrf(r)
      PROVE  HInv'
  <2>1. /\ \A s \in Reqs \ {r} : pc'[s] = pc[s]
        /\ pc[r] # "idle" /\ pc'[r] # "idle"
        /\ pc'[r] \in Trusted => pc[r] \in Trusted \/ call[r].user \in active
        /\ pc'[r] \in {"identified", "known", "ready"} =>
              pc[r] \in {"identified", "known", "ready"} \/ call[r].op = "login"
        /\ UNCHANGED <<active, jar, call, answer, overtaken, late, out, back>>
        BY <1>4 DEF AuthenticateUser, GetCurrentUser, RequireCsrf, AwaitsCsrf, LiveAccount, Advance,
           Trusted
  <2>2. AccountRead'
        BY <2>1 DEF AccountRead, Trusted
  <2>3. Coherent'
        BY <2>1 DEF Coherent, Open
  <2>4. SignedOut'
        BY <2>1 DEF SignedOut, Open
  <2>q. QED BY <2>2, <2>3, <2>4
<1>5. ASSUME NEW r \in Reqs,
             \/ InvalidCredentials(r) \/ Unauthorized(r) \/ CsrfFails(r) \/ Accept(r)
             \/ InvalidRefresh(r) \/ RefuseReuse(r) \/ Fail(r)
      PROVE  HInv'
  <2>1. Close(r) /\ UNCHANGED <<active, jar, out, back>>
        BY <1>5 DEF InvalidCredentials, Unauthorized, CsrfFails, Accept, InvalidRefresh,
           RefuseReuse, DeleteFamily, Fail, End
  <2>2. AccountRead'
        BY <2>1 DEF Close, AccountRead, Trusted
  <2>3. Coherent'
        BY <2>1 DEF Close, Coherent, Open
  <2>4. SignedOut'
        BY <2>1 DEF Close, SignedOut, Open
  <2>q. QED BY <2>2, <2>3, <2>4
<1>6. ASSUME NEW r \in Reqs, NEW p \in Pairs, CreateSession(r, p)
      PROVE  HInv'
  <2>1. /\ pc[r] = "known" /\ call[r].op = "login"
        /\ pc' = [pc EXCEPT ![r] = "opened"]
        /\ answer' = [answer EXCEPT ![r] = p]
        /\ UNCHANGED <<active, jar, call, overtaken, late, out, back>>
        BY <1>6 DEF CreateSession, HeldBack
  <2>2. AccountRead'
        BY <2>1 DEF AccountRead, Trusted
  <2>3. Coherent'
        BY <2>1 DEF Coherent, Open
  <2>4. SignedOut'
        BY <2>1 DEF SignedOut, Open
  <2>q. QED BY <2>2, <2>3, <2>4
<1>7. ASSUME NEW r \in Reqs, GetUserId(r)
      PROVE  HInv'
  <2>1. /\ pc[r] # "idle" /\ call[r] \in Call /\ answer[r] = None
        /\ call' = [call EXCEPT ![r].user = owner[call[r].cookies.access]]
        /\ pc' = [pc EXCEPT ![r] = "identified"]
        /\ call[r].cookies.access # None
        /\ UNCHANGED <<active, jar, answer, overtaken, late, out, back>>
        BY <1>7 DEF GetUserId, AwaitsUser, Stages
  <2>2. /\ call'[r].client = call[r].client /\ call'[r].op = call[r].op
        /\ call'[r].cookies = call[r].cookies
        BY <2>1 DEF Call
  <2>3. AccountRead'
        BY <2>1, <2>2 DEF AccountRead, Trusted
  <2>4. Coherent'
        BY <2>1, <2>2 DEF Coherent, Open
  <2>5. SignedOut'
        BY <2>1, <2>2 DEF SignedOut, Open
  <2>q. QED BY <2>3, <2>4, <2>5
<1>8. ASSUME NEW r \in Reqs,
             \/ Reuse(r) \/ RevokeSession(r) \/ NothingToRevoke(r) \/ ListFamily(r)
             \/ RevokeFamily(r) \/ Record(r) \/ Redeem(r) \/ Mark(r)
      PROVE  HInv'
  <2>1. \A s \in Reqs :
           /\ pc'[s] # "idle" => pc[s] # "idle"
           /\ pc'[s] \in {"identified", "known", "ready"} =>
                 pc[s] \in {"identified", "known", "ready"}
           /\ pc'[s] \in Trusted => pc[s] \in Trusted \/ call[s].op = "refresh"
           /\ answer'[s] \in Pairs => answer'[s] = answer[s]
        BY <1>8 DEF Reuse, RevokeSession, NothingToRevoke, ListFamily, RevokeFamily, DeleteFamily,
           Record, Redeem, Mark, Advance, Trusted
  <2>2. active' = active /\ jar' = jar /\ call' = call /\ overtaken' = overtaken
        BY <1>8 DEF Reuse, RevokeSession, NothingToRevoke, ListFamily, RevokeFamily, DeleteFamily,
           Record, Redeem, Mark, Advance
  <2>3. late' = late /\ out' = out /\ back' = back
        BY <1>8 DEF Reuse, RevokeSession, NothingToRevoke, ListFamily, RevokeFamily, DeleteFamily,
           Record, Redeem, Mark, Advance
  <2>4. AccountRead'
        BY <2>1, <2>2 DEF AccountRead
  <2>5. Coherent'
        BY <2>1, <2>2 DEF Coherent, Open
  <2>6. SignedOut'
        BY <2>1, <2>2, <2>3 DEF SignedOut, Open
  <2>q. QED BY <2>4, <2>5, <2>6
<1>9. ASSUME NEW r \in Reqs, NEW q \in Pairs, Rotate(r, q)
      PROVE  HInv'
  <2>1. /\ pc[r] = "marked" /\ call[r].op = "refresh"
        /\ pc' = [pc EXCEPT ![r] = "answered"]
        /\ answer' = [answer EXCEPT ![r] = q]
        /\ UNCHANGED <<active, jar, call, overtaken, late, out, back>>
        BY <1>9 DEF Rotate, Stages
  <2>2. AccountRead'
        BY <2>1 DEF AccountRead, Trusted
  <2>3. Coherent'
        BY <2>1 DEF Coherent, Open
  <2>4. SignedOut'
        BY <2>1 DEF SignedOut, Open
  <2>q. QED BY <2>2, <2>3, <2>4
<1>10. ASSUME NEW r \in Reqs, Receive(r)
       PROVE  HInv'
  <2> DEFINE c == call[r].client
             a == answer[r]
  <2>1. /\ pc[r] = "answered" /\ call[r] \in Call /\ c \in Clients /\ Open(r)
        /\ a \in Pairs \cup {"clear"}
        /\ jar' = [jar EXCEPT ![c] =
                      IF a = "clear" THEN EmptyJar ELSE [access |-> a, csrf |-> a, refresh |-> a]]
        /\ pc' = [pc EXCEPT ![r] = "idle"]
        /\ call' = [call EXCEPT ![r] = None]
        /\ answer' = [answer EXCEPT ![r] = None]
        /\ overtaken' = overtaken \ {r}
        /\ active' = active
        BY <1>10 DEF Receive, Stages, Call, Open, SetSessionCookies, ClearSessionCookies
  <2>2. AccountRead'
        BY <2>1 DEF AccountRead, Trusted
  <2>3. Coherent'
        BY <2>1 DEF Coherent, Open, EmptyJar
  <2>4. CASE a = "clear"
    <3>1. /\ out' \ back' = (out \ back) \cup {c}
          /\ late' = (late \cup {s \in Reqs : Open(s) /\ call[s].client = c}) \ {r}
          BY <2>4, <1>10 DEF Receive
    <3>q. QED BY <2>1, <2>2, <2>3, <2>4, <3>1 DEF SignedOut, Open
  <2>5. CASE a \in Pairs /\ call[r].op = "login"
    <3>1. /\ out' \ back' = (out \ back) \ {c}
          /\ late' = {s \in late : call[s].client # c}
          BY <2>5, <1>10 DEF Receive
    <3>q. QED BY <2>1, <2>2, <2>3, <2>5, <3>1 DEF SignedOut, Open
  <2>6. CASE a \in Pairs /\ call[r].op # "login"
    <3>1. /\ out' = out
          /\ late' = late \ {r}
          /\ back' = IF r \in late THEN back \cup {c} ELSE back
          BY <2>6, <1>10 DEF Receive
    <3>2. call[r].cookies.refresh \in Pairs
          BY <2>1, <2>6 DEF SignedOut, Stages, Refreshing
    <3>3. r \notin late => c \notin out \ back
          BY <2>1, <3>2 DEF SignedOut, EmptyJar
    <3>4. /\ out' \ back' \subseteq (out \ back) \ {c}
          /\ late \ late' \subseteq {r}
          BY <3>1, <3>3
    <3>q. QED BY <2>1, <2>2, <2>3, <2>6, <3>4 DEF SignedOut, Open
  <2>q. QED BY <2>1, <2>4, <2>5, <2>6
<1>11. ASSUME NEW p \in Pairs, Expire(p)
       PROVE  HInv'
       BY <1>11 DEF Expire, AccountRead, Coherent, SignedOut, Open
<1>12. ASSUME NEW c \in Clients, Restart(c)
       PROVE  HInv'
  <2>1. jar' = [jar EXCEPT ![c] = [access |-> None, csrf |-> None, refresh |-> jar[c].refresh]]
    <3>1. [EmptyJar EXCEPT !.refresh = jar[c].refresh]
             = [access |-> None, csrf |-> None, refresh |-> jar[c].refresh]
          BY DEF EmptyJar
    <3>q. QED BY <1>12, <3>1 DEF Restart
  <2>2. UNCHANGED <<active, pc, call, answer, overtaken, out, late, back>>
        BY <1>12 DEF Restart
  <2>3. AccountRead' /\ Coherent'
        BY <2>1, <2>2 DEF AccountRead, Coherent, Open
  <2>4. SignedOut'
        BY <2>1, <2>2 DEF SignedOut, Open, EmptyJar
  <2>q. QED BY <2>3, <2>4
<1>13. ASSUME NEW u \in Users, Suspend(u)
       PROVE  HInv'
  <2>1. AccountRead'
        BY <1>13 DEF Suspend, AccountRead
  <2>2. Coherent' /\ SignedOut'
        BY <1>13 DEF Suspend, Coherent, SignedOut, Open
  <2>q. QED BY <2>1, <2>2
<1>14. ASSUME UNCHANGED vars
       PROVE  HInv'
       BY <1>14 DEF vars, AccountRead, Coherent, SignedOut, Open
<1>q. QED BY <1>1, <1>2, <1>3, <1>4, <1>5, <1>6, <1>7, <1>8, <1>9, <1>10, <1>11, <1>12, <1>13,
          <1>14 DEF Next

-----------------------------------------------------------------------------
(* Sessions that were revoked.                                             *)

Live == access \cup refresh \cup used

\* While no rotation of a family overlaps a revocation, its set lists its tokens,
\* a revocation has found them all, and none is left when it is done.
Sets ==
    /\ \A f \in ended : family[f] = f
    /\ \A p \in Live : family[p] \notin torn => p \in listed
    /\ \A r \in Reqs : pc[r] \in {"redeemed", "marked"} /\ FamilyOf(r) \notin torn =>
          call[r].cookies.refresh \in listed
    /\ \A r \in Reqs : pc[r] = "listed" /\ FamilyOf(r) \notin torn =>
          ~Rotating(FamilyOf(r)) /\ \A p \in Live : family[p] = FamilyOf(r) => p \in found[r]
    /\ \A f \in ended \ torn : ~Rotating(f) /\ \A p \in Live : family[p] # f

\* Who rotates or revokes has a pair of the family.
LEMMA FamilyInHand ==
    ASSUME AInv, NEW r \in Reqs, pc[r] \in {"redeemed", "marked", "found", "listed"}
    PROVE  /\ Open(r)
           /\ call[r].cookies.refresh \in Pairs
           /\ FamilyOf(r) = family[call[r].cookies.refresh]
           /\ FamilyOf(r) \in Pairs
<1>1. Open(r) /\ call[r].cookies.refresh \in Pairs
      BY DEF AInv, Stages, Refreshing, Open
<1>q. QED BY <1>1, NoneApart, FamilyOfHeld DEF FamilyOf

\* Steps that leave the family sets, the rotations and the revocations alone, or
\* end one.
LEMMA SetsKept ==
    ASSUME Sets,
           access' \subseteq access, refresh' \subseteq refresh, used' \subseteq used,
           family' = family, listed' = listed, torn' = torn, ended' = ended,
           \A s \in Reqs : pc'[s] \in {"redeemed", "marked", "listed"} =>
               pc'[s] = pc[s] /\ call'[s] = call[s] /\ found'[s] = found[s]
    PROVE  Sets'
<1>1. Live' \subseteq Live
      BY DEF Live
<1>2. \A f : Rotating(f)' => Rotating(f)
      BY DEF Rotating, FamilyOf
<1>3. \A s \in Reqs : pc'[s] \in {"redeemed", "marked", "listed"} => FamilyOf(s)' = FamilyOf(s)
      BY DEF FamilyOf
<1>q. QED BY <1>1, <1>2, <1>3 DEF Sets

\* The pair p is issued, of a family that has no revocation under way and was not
\* revoked, or is torn.
LEMMA SetsIssued ==
    ASSUME AInv, Sets, NEW r \in Reqs, NEW p \in Pairs, NEW f \in Pairs,
           family[p] = None,
           family' = [family EXCEPT ![p] = f],
           access' = access \cup {p}, refresh' = refresh \cup {p}, used' = used,
           listed' = listed \cup {p}, torn' = torn, ended' = ended, call' = call, found' = found,
           \A s \in Reqs \ {r} : pc'[s] = pc[s],
           pc'[r] \in {"opened", "answered"},
           f \in torn \/ (f \notin ended /\ ~Revoking(f))
    PROVE  Sets'
<1> USE NoneApart DEF AInv, TypeOK
<1>1. Live' = Live \cup {p}
      BY DEF Live
<1>2. \A s \in Reqs : pc'[s] \in {"redeemed", "marked", "listed"} =>
          /\ s # r
          /\ call[s].cookies.refresh \in Pairs \ {p}
          /\ FamilyOf(s)' = FamilyOf(s)
  <2>1. ASSUME NEW s \in Reqs, pc'[s] \in {"redeemed", "marked", "listed"}
        PROVE  /\ s # r
               /\ call[s].cookies.refresh \in Pairs \ {p}
               /\ FamilyOf(s)' = FamilyOf(s)
    <3>1. s # r /\ pc[s] = pc'[s]
          BY <2>1
    <3>2. call[s].cookies.refresh \in Pairs /\ family[call[s].cookies.refresh] \in Pairs
          BY <2>1, <3>1, FamilyInHand
    <3>3. call[s].cookies.refresh # p
          BY <3>2
    <3>q. QED BY <3>1, <3>2, <3>3 DEF FamilyOf
  <2>q. QED BY <2>1
<1>3. \A g : Rotating(g)' => Rotating(g)
      BY <1>2 DEF Rotating
<1>4. \A q \in Live : q # p /\ q \in Pairs /\ family'[q] = family[q]
      BY FreshPair DEF Live
<1>5. \A g \in ended : family'[g] = g
      BY DEF Sets
<1>6. \A q \in Live' : family'[q] \notin torn' => q \in listed'
      BY <1>1, <1>4 DEF Sets
<1>7. \A s \in Reqs : pc'[s] \in {"redeemed", "marked"} /\ FamilyOf(s)' \notin torn' =>
          call'[s].cookies.refresh \in listed'
      BY <1>2 DEF Sets
<1>8. ASSUME NEW s \in Reqs, pc'[s] = "listed", FamilyOf(s)' \notin torn'
      PROVE  /\ ~Rotating(FamilyOf(s))'
             /\ \A q \in Live' : family'[q] = FamilyOf(s)' => q \in found'[s]
  <2>1. s # r /\ pc[s] = "listed" /\ FamilyOf(s)' = FamilyOf(s) /\ FamilyOf(s) \notin torn
        BY <1>2, <1>8
  <2>2. FamilyOf(s) # f
        BY <2>1 DEF Revoking
  <2>3. ~Rotating(FamilyOf(s)) /\ \A q \in Live : family[q] = FamilyOf(s) => q \in found[s]
        BY <2>1 DEF Sets
  <2>4. family'[p] = f
        OBVIOUS
  <2>q. QED BY <1>1, <1>3, <1>4, <2>1, <2>2, <2>3, <2>4
<1>9. ASSUME NEW g \in ended \ torn
      PROVE  ~Rotating(g)' /\ \A q \in Live' : family'[q] # g
      BY <1>1, <1>3, <1>4 DEF Sets
<1>q. QED BY <1>5, <1>6, <1>7, <1>8, <1>9 DEF Sets

LEMMA SetsStep ==
    ASSUME AInv, Sets, [Next]_vars
    PROVE  Sets'
<1> USE NoneApart DEF AInv, TypeOK, store, history
<1>1. ASSUME NEW r \in Reqs,
             \/ \E c \in Clients, op \in Ops, u \in Users \cup {None} : Send(r, c, op, u)
             \/ \E c \in Clients, op \in Ops : Compose(r, c, op)
             \/ Leave(r) \/ AuthenticateUser(r) \/ GetUserId(r) \/ GetCurrentUser(r)
             \/ RequireCsrf(r) \/ Reuse(r) \/ RevokeSession(r) \/ NothingToRevoke(r)
      PROVE  Sets'
      BY <1>1, SetsKept DEF Send, Compose, Leave, AuthenticateUser, GetUserId, GetCurrentUser,
         RequireCsrf, Reuse, RevokeSession, NothingToRevoke, Advance
<1>2. ASSUME NEW r \in Reqs,
             \/ InvalidCredentials(r) \/ Unauthorized(r) \/ CsrfFails(r) \/ Accept(r)
             \/ InvalidRefresh(r) \/ Record(r) \/ Fail(r) \/ Receive(r)
      PROVE  Sets'
      BY <1>2, SetsKept DEF InvalidCredentials, Unauthorized, CsrfFails, Accept, InvalidRefresh,
         Record, Fail, Receive, End, Close
<1>3. ASSUME \/ \E p \in Pairs : Expire(p)
             \/ \E c \in Clients : Restart(c)
             \/ \E u \in Users : Suspend(u)
             \/ UNCHANGED vars
      PROVE  Sets'
      BY <1>3, SetsKept DEF Expire, Restart, Suspend, vars
<1>4. ASSUME NEW r \in Reqs, NEW p \in Pairs, CreateSession(r, p)
      PROVE  Sets'
  <2>1. p \notin ended
        BY <1>4 DEF CreateSession, Sets
  <2>2. ~Revoking(p)
    <3>1. ASSUME NEW s \in Reqs, pc[s] = "listed"
          PROVE  FamilyOf(s) # p
          BY <1>4, <3>1, FamilyInHand, FreshPair DEF CreateSession
    <3>q. QED BY <3>1 DEF Revoking
  <2>q. QED BY <1>4, <2>1, <2>2, SetsIssued DEF CreateSession, Issue, HeldBack
<1>5. ASSUME NEW r \in Reqs, NEW q \in Pairs, Rotate(r, q)
      PROVE  Sets'
  <2>1. pc[r] = "marked" /\ FamilyOf(r) \in Pairs /\ Rotating(FamilyOf(r))
        BY <1>5, FamilyInHand DEF Rotate, Rotating
  <2>2. FamilyOf(r) \in torn \/ (FamilyOf(r) \notin ended /\ ~Revoking(FamilyOf(r)))
        BY <2>1 DEF Sets, Revoking
  <2>q. QED BY <1>5, <2>1, <2>2, SetsIssued DEF Rotate, Issue
<1>6. ASSUME NEW r \in Reqs, Redeem(r)
      PROVE  Sets'
  <2> DEFINE p == call[r].cookies.refresh
  <2>1. /\ pc[r] = "sent" /\ p \in refresh /\ p \in Live /\ FamilyOf(r) = family[p]
        /\ pc' = [pc EXCEPT ![r] = "redeemed"]
        /\ torn' = IF Revoking(FamilyOf(r)) THEN torn \cup {FamilyOf(r)} ELSE torn
        /\ call' = call /\ found' = found /\ ended' = ended /\ family' = family /\ listed' = listed
        /\ access' = access /\ refresh' = refresh /\ used' = used
        BY <1>6 DEF Redeem, Live, FamilyOf
  <2>2. Live' = Live /\ \A s : FamilyOf(s)' = FamilyOf(s)
        BY <2>1 DEF Live, FamilyOf
  <2>3. \A g : Rotating(g)' => Rotating(g) \/ g = FamilyOf(r)
        BY <2>1, <2>2 DEF Rotating
  <2>4. FamilyOf(r) \notin torn' => ~Revoking(FamilyOf(r)) /\ FamilyOf(r) \notin ended \ torn
        BY <2>1 DEF Sets
  <2>5. torn \subseteq torn'
        BY <2>1
  <2>6. ASSUME NEW s \in Reqs, pc'[s] \in {"redeemed", "marked"}, FamilyOf(s) \notin torn'
        PROVE  call'[s].cookies.refresh \in listed'
    <3>1. CASE s = r
          BY <2>1, <2>5, <2>6, <3>1 DEF Sets
    <3>2. CASE s # r
          BY <2>1, <2>5, <2>6, <3>2 DEF Sets
    <3>q. QED BY <3>1, <3>2
  <2>7. ASSUME NEW s \in Reqs, pc'[s] = "listed", FamilyOf(s) \notin torn'
        PROVE  /\ ~Rotating(FamilyOf(s))'
               /\ \A q \in Live' : family'[q] = FamilyOf(s) => q \in found'[s]
    <3>1. s # r /\ pc[s] = "listed" /\ FamilyOf(s) \notin torn
          BY <2>1, <2>5, <2>7
    <3>2. FamilyOf(s) # FamilyOf(r)
          BY <3>1, <2>4, <2>7 DEF Revoking
    <3>3. ~Rotating(FamilyOf(s)) /\ \A q \in Live : family[q] = FamilyOf(s) => q \in found[s]
          BY <3>1 DEF Sets
    <3>4. ~Rotating(FamilyOf(s))'
          BY <2>2, <2>3, <3>2, <3>3
    <3>q. QED BY <2>1, <2>2, <3>3, <3>4
  <2>8. \A g \in ended' \ torn' : ~Rotating(g)' /\ \A q \in Live' : family'[q] # g
        BY <2>1, <2>2, <2>3, <2>4, <2>5 DEF Sets
  <2>9. /\ \A g \in ended' : family'[g] = g
        /\ \A q \in Live' : family'[q] \notin torn' => q \in listed'
        BY <2>1, <2>2, <2>5 DEF Sets
  <2>q. QED BY <2>2, <2>6, <2>7, <2>8, <2>9 DEF Sets
<1>7. ASSUME NEW r \in Reqs, Mark(r)
      PROVE  Sets'
  <2> DEFINE p == call[r].cookies.refresh
  <2>1. /\ pc[r] = "redeemed" /\ FamilyOf(r) = family[p] /\ Rotating(FamilyOf(r))
        /\ pc' = [pc EXCEPT ![r] = "marked"]
        /\ call' = call /\ found' = found /\ ended' = ended /\ family' = family /\ listed' = listed
        /\ torn' = torn /\ Live' \subseteq Live \cup {p}
        BY <1>7 DEF Mark, Live, FamilyOf, Rotating
  <2>2. \A s : FamilyOf(s)' = FamilyOf(s)
        BY <2>1 DEF FamilyOf
  <2>3. \A g : Rotating(g)' => Rotating(g)
        BY <2>1, <2>2 DEF Rotating
  <2>4. FamilyOf(r) \notin torn => FamilyOf(r) \notin ended /\ ~Revoking(FamilyOf(r)) /\ p \in listed
        BY <2>1 DEF Sets, Revoking
  <2>5. ASSUME NEW s \in Reqs, pc'[s] = "listed", FamilyOf(s) \notin torn
        PROVE  /\ ~Rotating(FamilyOf(s))'
               /\ \A q \in Live' : family[q] = FamilyOf(s) => q \in found[s]
    <3>1. pc[s] = "listed"
          BY <2>1, <2>5
    <3>2. FamilyOf(s) # FamilyOf(r)
          BY <3>1, <2>4, <2>5 DEF Revoking
    <3>3. ~Rotating(FamilyOf(s)) /\ \A q \in Live : family[q] = FamilyOf(s) => q \in found[s]
          BY <3>1, <2>5 DEF Sets
    <3>4. ~Rotating(FamilyOf(s))'
          BY <2>2, <2>3, <3>3
    <3>q. QED BY <2>1, <3>2, <3>3, <3>4
  <2>6. ASSUME NEW s \in Reqs, pc'[s] \in {"redeemed", "marked"}, FamilyOf(s) \notin torn
        PROVE  call[s].cookies.refresh \in listed
        BY <2>1, <2>6 DEF Sets
  <2>7. \A g \in ended \ torn : ~Rotating(g)' /\ \A q \in Live' : family[q] # g
        BY <2>1, <2>3, <2>4 DEF Sets
  <2>8. /\ \A g \in ended : family[g] = g
        /\ \A q \in Live' : family[q] \notin torn => q \in listed
        BY <2>1, <2>4 DEF Sets
  <2>q. QED BY <2>1, <2>2, <2>5, <2>6, <2>7, <2>8 DEF Sets
<1>8. ASSUME NEW r \in Reqs, ListFamily(r)
      PROVE  Sets'
  <2>1. /\ pc[r] = "found"
        /\ found' = [found EXCEPT ![r] = Members(FamilyOf(r))]
        /\ pc' = [pc EXCEPT ![r] = "listed"]
        /\ torn' = IF Rotating(FamilyOf(r)) THEN torn \cup {FamilyOf(r)} ELSE torn
        /\ call' = call /\ ended' = ended /\ family' = family /\ listed' = listed
        /\ access' = access /\ refresh' = refresh /\ used' = used
        BY <1>8 DEF ListFamily
  <2>2. Live' = Live /\ Live \subseteq Pairs /\ \A s : FamilyOf(s)' = FamilyOf(s)
        BY <2>1 DEF Live, FamilyOf
  <2>3. \A g : Rotating(g)' => Rotating(g)
        BY <2>1, <2>2 DEF Rotating
  <2>4. torn \subseteq torn' /\ (FamilyOf(r) \notin torn' => ~Rotating(FamilyOf(r)))
        BY <2>1
  <2>5. ASSUME NEW s \in Reqs, pc'[s] = "listed", FamilyOf(s) \notin torn'
        PROVE  /\ ~Rotating(FamilyOf(s))'
               /\ \A q \in Live' : family'[q] = FamilyOf(s) => q \in found'[s]
    <3>1. CASE s = r
      <4>1. \A q \in Live : family[q] = FamilyOf(r) => q \in Members(FamilyOf(r))
            BY <2>4, <2>5, <3>1 DEF Sets, Members
      <4>2. ~Rotating(FamilyOf(r))'
            BY <2>2, <2>3, <2>4, <2>5, <3>1
      <4>q. QED BY <2>1, <2>2, <3>1, <4>1, <4>2
    <3>2. CASE s # r
      <4>1. pc[s] = "listed" /\ FamilyOf(s) \notin torn /\ found'[s] = found[s]
            BY <2>1, <2>4, <2>5, <3>2
      <4>2. ~Rotating(FamilyOf(s)) /\ \A q \in Live : family[q] = FamilyOf(s) => q \in found[s]
            BY <4>1 DEF Sets
      <4>3. ~Rotating(FamilyOf(s))'
            BY <2>2, <2>3, <4>2
      <4>q. QED BY <2>1, <2>2, <4>1, <4>2, <4>3
    <3>q. QED BY <3>1, <3>2
  <2>6. \A s \in Reqs : pc'[s] \in {"redeemed", "marked"} /\ FamilyOf(s) \notin torn' =>
            call'[s].cookies.refresh \in listed'
        BY <2>1, <2>4 DEF Sets
  <2>7. \A g \in ended' \ torn' : ~Rotating(g)' /\ \A q \in Live' : family'[q] # g
        BY <2>1, <2>2, <2>3, <2>4 DEF Sets
  <2>8. /\ \A g \in ended' : family'[g] = g
        /\ \A q \in Live' : family'[q] \notin torn' => q \in listed'
        BY <2>1, <2>2, <2>4 DEF Sets
  <2>q. QED BY <2>2, <2>5, <2>6, <2>7, <2>8 DEF Sets
<1>9. ASSUME NEW r \in Reqs, RevokeFamily(r) \/ RefuseReuse(r)
      PROVE  Sets'
  <2> DEFINE F == FamilyOf(r)
  <2>1. /\ pc[r] = "listed"
        /\ access' = access \ found[r] /\ refresh' = refresh \ found[r] /\ used' = used \ found[r]
        /\ listed' = {q \in listed : family[q] # F}
        /\ ended' = ended \cup {F}
        /\ family' = family /\ torn' = torn
        /\ \A s \in Reqs \ {r} : pc'[s] = pc[s] /\ call'[s] = call[s] /\ found'[s] = found[s]
        /\ pc'[r] \in {"revoked", "idle"}
        BY <1>9 DEF RevokeFamily, RefuseReuse, DeleteFamily, Close
  <2>2. F \in Pairs /\ family[F] = F
        BY <2>1, FamilyInHand DEF Issued
  <2>3. Live' = Live \ found[r] /\ Live \subseteq Pairs
        BY <2>1 DEF Live
  <2>4. F \notin torn => ~Rotating(F) /\ \A q \in Live' : family[q] # F
        BY <2>1, <2>3 DEF Sets
  <2>5. \A s \in Reqs : pc'[s] \in {"redeemed", "marked", "listed"} =>
            s # r /\ pc[s] = pc'[s] /\ FamilyOf(s)' = FamilyOf(s)
        BY <2>1 DEF FamilyOf
  <2>6. \A g : Rotating(g)' => Rotating(g)
        BY <2>5 DEF Rotating
  <2>7. ASSUME NEW s \in Reqs, pc'[s] = "listed", FamilyOf(s)' \notin torn
        PROVE  /\ ~Rotating(FamilyOf(s))'
               /\ \A q \in Live' : family[q] = FamilyOf(s)' => q \in found'[s]
    <3>1. s # r /\ pc[s] = "listed" /\ FamilyOf(s)' = FamilyOf(s) /\ found'[s] = found[s]
          BY <2>1, <2>5, <2>7
    <3>2. ~Rotating(FamilyOf(s)) /\ \A q \in Live : family[q] = FamilyOf(s) => q \in found[s]
          BY <2>7, <3>1 DEF Sets
    <3>q. QED BY <2>3, <2>6, <3>1, <3>2
  <2>8. ASSUME NEW s \in Reqs, pc'[s] \in {"redeemed", "marked"}, FamilyOf(s)' \notin torn
        PROVE  call'[s].cookies.refresh \in listed'
    <3>1. /\ s # r /\ pc[s] = pc'[s] /\ FamilyOf(s)' = FamilyOf(s) /\ call'[s] = call[s]
          /\ FamilyOf(s) = family[call[s].cookies.refresh]
          BY <2>1, <2>5, <2>8 DEF FamilyOf
    <3>2. call[s].cookies.refresh \in listed
          BY <2>8, <3>1 DEF Sets
    <3>3. FamilyOf(s) # F
          BY <2>4, <2>8, <3>1 DEF Rotating
    <3>q. QED BY <2>1, <3>1, <3>2, <3>3
  <2>9. \A g \in ended' \ torn : ~Rotating(g)' /\ \A q \in Live' : family[q] # g
        BY <2>1, <2>3, <2>4, <2>6 DEF Sets
  <2>10. /\ \A g \in ended' : family[g] = g
         /\ \A q \in Live' : family[q] \notin torn => q \in listed'
         BY <2>1, <2>2, <2>3, <2>4 DEF Sets
  <2>q. QED BY <2>1, <2>7, <2>8, <2>9, <2>10 DEF Sets
<1>q. QED BY <1>1, <1>2, <1>3, <1>4, <1>5, <1>6, <1>7, <1>8, <1>9 DEF Next

-----------------------------------------------------------------------------
(* The theorems.                                                           *)

LEMMA Initially ==
    ASSUME Init
    PROVE  AInv /\ HInv /\ Sets
<1> USE NoneApart DEF Init
<1>1. TypeOK
  <2>1. EmptyJar \in Jar
        BY DEF EmptyJar, Jar
  <2>q. QED BY <2>1 DEF TypeOK
<1>2. Issued /\ Stages
      BY DEF Issued, Stages, Refreshing, Open
<1>3. Recorded
      BY DEF Recorded, HeldSessionsAreRecorded, EmptyJar, Open
<1>4. Undelivered /\ Overlap /\ Replaced
      BY DEF Undelivered, Overlap, Replaced, Refreshing, Open
<1>5. Apart
      BY DEF Apart, HoldsFamily, EmptyJar, Open
<1>6. HInv
      BY DEF HInv, AccountRead, Coherent, SignedOut, EmptyJar, Open, Trusted
<1>7. Sets
      BY DEF Sets, Live
<1>q. QED BY <1>1, <1>2, <1>3, <1>4, <1>5, <1>6, <1>7 DEF AInv

LEMMA Inductive ==
    ASSUME AInv, HInv, Sets, [Next]_vars
    PROVE  AInv' /\ HInv' /\ Sets'
<1>1. TypeOK'
  <2>1. CASE UNCHANGED vars
        BY <2>1 DEF AInv, TypeOK, vars, store, history
  <2>q. QED BY <2>1, TypeStep
<1>2. HInv' /\ Sets'
      BY <1>1, HistoryStep, SetsStep
<1>3. ASSUME NEW r \in Reqs,
             \/ \E c \in Clients, op \in Ops, u \in Users \cup {None} : Send(r, c, op, u)
             \/ \E c \in Clients, op \in Ops : Compose(r, c, op)
             \/ Leave(r) \/ AuthenticateUser(r) \/ GetUserId(r) \/ GetCurrentUser(r)
             \/ RequireCsrf(r) \/ InvalidCredentials(r) \/ Unauthorized(r) \/ CsrfFails(r)
             \/ Accept(r) \/ InvalidRefresh(r) \/ RefuseReuse(r) \/ Fail(r)
      PROVE  AInv'
  <2>1. CASE Quiet(r)
        BY <2>1, <1>1, QuietStep
  <2>2. ASSUME NEW c \in Clients, NEW u \in Users \cup {None}, Send(r, c, "refresh", u)
        PROVE  AInv'
        BY <2>2, <1>1, RefreshStep
  <2>q. QED BY <1>3, <2>1, <2>2, QuietSteps
<1>4. ASSUME NEW r \in Reqs, NEW p \in Pairs, CreateSession(r, p)
      PROVE  AInv'
      BY <1>4, <1>1, CreateSessionStep
<1>5. ASSUME NEW r \in Reqs,
             \/ Redeem(r) \/ Reuse(r) \/ RevokeSession(r) \/ NothingToRevoke(r) \/ ListFamily(r)
             \/ RevokeFamily(r) \/ Record(r)
      PROVE  AInv'
      BY <1>5, <1>1, OnwardStep, OnwardSteps
<1>6. ASSUME NEW r \in Reqs, Mark(r)
      PROVE  AInv'
      BY <1>6, <1>1, MarkStep
<1>7. ASSUME NEW r \in Reqs, NEW q \in Pairs, Rotate(r, q)
      PROVE  AInv'
      BY <1>7, <1>1, RotateStep
<1>8. ASSUME NEW r \in Reqs, Receive(r)
      PROVE  AInv'
      BY <1>8, <1>1, ReceiveStep
<1>9. ASSUME \/ \E p \in Pairs : Expire(p)
             \/ \E c \in Clients : Restart(c)
             \/ \E u \in Users : Suspend(u)
             \/ UNCHANGED vars
      PROVE  AInv'
      BY <1>9, <1>1, EnvironmentStep
<1>q. QED BY <1>2, <1>3, <1>4, <1>5, <1>6, <1>7, <1>8, <1>9 DEF Next

\* The inductive invariant: where the cookies of a session can be, what each
\* request has been let through for, and what a revocation leaves of a family.
THEOREM Invariance == Spec => [](AInv /\ HInv /\ Sets)
BY Initially, Inductive, PTL DEF Spec

\* get_current_user finds the user of no token of a revoked family, unless a
\* rotation and a revocation of that family have overlapped.
THEOREM RevokedStayOut == Spec => RevokedSessionsAreRefused
<1>1. ASSUME AInv, Sets, NEW r \in Reqs, GetUserId(r)
      PROVE  LET f == family[call[r].cookies.access] IN f \in ended => f \in torn
  <2>1. call[r].cookies.access \in Live
        BY <1>1 DEF GetUserId, Live
  <2>q. QED BY <1>1, <2>1 DEF Sets
<1>2. AInv /\ HInv /\ Sets =>
         \A r \in Reqs : GetUserId(r) =>
            LET f == family[call[r].cookies.access] IN f \in ended => f \in torn
      BY <1>1
<1>q. QED BY <1>2, Invariance, PTL DEF RevokedSessionsAreRefused

\* Every variable keeps its type.
THEOREM TypeCorrect == Spec => []TypeOK
<1>1. AInv => TypeOK
      BY DEF AInv
<1>q. QED BY <1>1, Invariance, PTL

\* No client holds a cookie of a session whose LOGIN audit row is not
\* committed, whichever commits and answers fail.
THEOREM HeldRecorded == Spec => []HeldSessionsAreRecorded
<1>1. AInv => HeldSessionsAreRecorded
      BY DEF AInv, Recorded
<1>q. QED BY <1>1, Invariance, PTL

\* Without two refreshes at once and without one that broke off, a client
\* never sets off the reuse detection of its own session.
THEOREM ReuseNeedsMuddle == Spec => ReuseOnlyIfMuddled
<1>1. ASSUME AInv, NEW r \in Reqs, Reuse(r)
      PROVE  family[call[r].cookies.refresh] \in muddled
      BY <1>1 DEF AInv, Replaced, Reuse, Refreshing, Open
<1>2. AInv /\ HInv /\ Sets => \A r \in Reqs : Reuse(r) => family[call[r].cookies.refresh] \in muddled
      BY <1>1
<1>q. QED BY <1>2, Invariance, PTL DEF ReuseOnlyIfMuddled

\* After a logout that succeeded and until it logs in, a client gets a write
\* accepted only if it, or a refresh answered since, was under way by then.
THEOREM OnlyLateRefresh == Spec => OnlyRefreshUndoesLogout
<1>1. ASSUME AInv, HInv, NEW r \in Reqs, Accept(r)
      PROVE  call[r].client \notin out \/ r \in late \/ call[r].client \in back
  <2>1. pc[r] = "ready" /\ Open(r)
        BY <1>1 DEF Accept, Open
  <2>q. QED BY <1>1, <2>1 DEF HInv, SignedOut, EmptyJar
<1>2. AInv /\ HInv /\ Sets =>
         \A r \in Reqs : Accept(r) =>
            \/ call[r].client \notin out
            \/ r \in late
            \/ call[r].client \in back
      BY <1>1
<1>q. QED BY <1>2, Invariance, PTL DEF OnlyRefreshUndoesLogout

\* A write, a login or a logout of a suspended account is done only if the account
\* was read while it was active; its pairs are of sessions it had, or of a login
\* whose account was.
THEOREM SuspendedStays == Spec => SuspendedOnlyRefreshes
<1>1. ASSUME AInv, HInv, NEW r \in Reqs, Accept(r) \/ Record(r)
      PROVE  call[r].user \in active \/ r \in overtaken
  <2>1. pc[r] \in Trusted /\ Open(r)
        BY <1>1 DEF Accept, Record, Trusted, Open
  <2>2. call[r].op # "refresh"
        BY <1>1, <2>1 DEF AInv, Stages, Refreshing, Accept, Record
  <2>q. QED BY <1>1, <2>1, <2>2 DEF HInv, AccountRead
<1>2. ASSUME AInv, HInv, [Next]_vars, NEW p \in Pairs, family[p] = None, family'[p] # None
      PROVE  \/ owner'[p] \in active
             \/ \E q \in Pairs : family[q] = family'[p] /\ owner[q] = owner'[p]
             \/ \E r \in overtaken : answer'[r] = p
  <2> USE DEF AInv, TypeOK, store
  <2>1. ASSUME NEW r \in Reqs, NEW q \in Pairs, CreateSession(r, q)
        PROVE  owner'[p] \in active \/ (r \in overtaken /\ answer'[r] = p)
    <3>1. p = q
          BY <1>2, <2>1 DEF CreateSession, Issue
    <3>2. owner'[p] = call[r].user /\ answer'[r] = p
          BY <1>2, <2>1, <3>1 DEF CreateSession, Issue
    <3>3. call[r].user \in active \/ r \in overtaken
          BY <1>2, <2>1 DEF HInv, AccountRead, CreateSession, Trusted
    <3>q. QED BY <3>2, <3>3
  <2>2. ASSUME NEW r \in Reqs, NEW q \in Pairs, Rotate(r, q)
        PROVE  \E s \in Pairs : family[s] = family'[p] /\ owner[s] = owner'[p]
    <3>1. p = q
          BY <1>2, <2>2 DEF Rotate, Issue
    <3>2. call[r].cookies.refresh \in Pairs
          BY <1>2, <2>2, FamilyInHand DEF Rotate
    <3>q. QED BY <1>2, <2>2, <3>1, <3>2 DEF Rotate, Issue, FamilyOf
  <2>3. \/ family' = family
        \/ \E r \in Reqs, q \in Pairs : CreateSession(r, q) \/ Rotate(r, q)
        BY <1>2 DEF Next, vars, Send, Compose, Leave, AuthenticateUser, InvalidCredentials, GetUserId,
           GetCurrentUser, Unauthorized, RequireCsrf, CsrfFails, Accept, Redeem, Mark,
           InvalidRefresh, Reuse, RevokeSession, NothingToRevoke, ListFamily, RevokeFamily,
           RefuseReuse, DeleteFamily, Record, Fail, Receive, Expire, Restart, Suspend, End, Advance
  <2>q. QED BY <1>2, <2>1, <2>2, <2>3
<1>3. AInv /\ HInv /\ Sets /\ [Next]_vars =>
         /\ \A r \in Reqs : Accept(r) \/ Record(r) => call[r].user \in active \/ r \in overtaken
         /\ \A p \in Pairs : family[p] = None /\ family'[p] # None =>
               \/ owner'[p] \in active
               \/ \E q \in Pairs : /\ family[q] = family'[p]
                                   /\ owner[q] = owner'[p]
               \/ \E r \in overtaken : answer'[r] = p
      BY <1>1, <1>2
<1>q. QED BY <1>3, Invariance, PTL DEF Spec, SuspendedOnlyRefreshes

\* A CSRF check fails only for a page that read another CSRF cookie than the
\* one attached, or for a session that ended: the cookies stay one pair's.
THEOREM CsrfCoherent == Spec => CsrfFailsOnlyIfOvertaken
<1>1. ASSUME AInv, HInv, NEW r \in Reqs, CsrfFails(r)
      PROVE  call[r].header # call[r].cookies.csrf \/ call[r].cookies.access \notin access
      BY <1>1 DEF HInv, Coherent, CsrfFails, CsrfPasses, AwaitsCsrf, Open
<1>2. AInv /\ HInv /\ Sets =>
         \A r \in Reqs : CsrfFails(r)
            => \/ call[r].header # call[r].cookies.csrf
               \/ call[r].cookies.access \notin access
      BY <1>1
<1>q. QED BY <1>2, Invariance, PTL DEF CsrfFailsOnlyIfOvertaken
=============================================================================
