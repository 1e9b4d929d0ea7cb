------------------------------ MODULE AuthFlow ------------------------------
(***************************************************************************)
(* Login, refresh, logout and authenticated writes, from the cookie jar of *)
(* a client through the handlers of apps/api/app/modules/auth/router.py    *)
(* and the dependencies get_current_user and require_csrf of api/deps.py,  *)
(* and back.                                                               *)
(*                                                                         *)
(* A step is one await of a handler.  Those on the session store are in as *)
(* many steps as requests can tell apart: a rotation reads its token,      *)
(* marks it, and writes and tracks its pair; a revocation reads its token, *)
(* lists the family set and deletes what it listed.  SessionStore has the  *)
(* single Redis commands and their TTLs; here a family set outlives the    *)
(* tokens in it.  The access, refresh and CSRF token of a pair are named   *)
(* by the pair; a family is named by the pair its login was given.         *)
(*                                                                         *)
(* A browser attaches a cookie to the paths it was set for, and its page   *)
(* copies the CSRF cookie into a header some time before the request       *)
(* leaves.  A script is an API client that keeps the tokens itself: it     *)
(* sends the access token as a Bearer and the refresh cookie to any path.  *)
(* Answers take time and can be lost; a client has any number of requests  *)
(* in flight (tabs).  Accounts are suspended by an administrator's SQL.    *)
(***************************************************************************)
CONSTANTS
    Users,      \* accounts
    Pairs,      \* token pairs
    Browsers,   \* clients that follow cookie paths
    Scripts,    \* clients that do not
    Writers,    \* clients that send writes
    Reqs,       \* request slots
    None        \* an absent value

Clients == Browsers \cup Scripts

ASSUME ClientsAssumption == Browsers \cap Scripts = {}
ASSUME PairsAssumption == "clear" \notin Pairs

\* The three cookies, and what a request carries of them.
Jar == [access : Pairs \cup {None}, csrf : Pairs \cup {None}, refresh : Pairs \cup {None}]

EmptyJar == [access |-> None, csrf |-> None, refresh |-> None]

Ops == {"login", "refresh", "logout", "post", "patch"}

\* cookies: what was attached.  header: the X-CSRF-Token header.  user: the
\* account a login names, or the one get_current_user has resolved.
Call == [client : Clients, op : Ops, cookies : Jar, header : Pairs \cup {None},
         user : Users \cup {None}]

ASSUME NoneAssumption == None \notin Users \cup Pairs \cup Clients \cup Call \cup {"clear"}

VARIABLES
    active,     \* accounts that are active
    family,     \* the family of each pair that was issued, else None
    owner,      \* and its user
    access,     \* pairs whose access token is usable
    refresh,    \* pairs whose refresh token is usable
    used,       \* pairs whose refresh token is kept to detect its reuse
    listed,     \* pairs that are in their family set
    recorded,   \* families whose LOGIN audit row is committed
    jar,        \* the cookies of each client
    pc,         \* where a request is
    call,       \* what it carries
    answer,     \* the cookies its answer sets: a pair, "clear", or None
    found,      \* the pairs its revocation has listed
    ended,      \* families that were revoked
    torn,       \* families of which a rotation overlapped a revocation
    overtaken,  \* requests whose account was suspended after it was read
    muddled,    \* families with two refreshes at once or one that broke off
    out,        \* clients that saw their logout succeed and did not log in since
    late,       \* their requests that were under way by then
    back        \* those of them that one of these, a refresh, gave cookies again

store   == <<family, owner, access, refresh, used, listed>>
history == <<ended, torn, overtaken, muddled, out, late, back>>
vars    == <<active, store, recorded, jar, pc, call, answer, found, history>>

TypeOK ==
    /\ active \subseteq Users
    /\ family \in [Pairs -> Pairs \cup {None}]
    /\ owner \in [Pairs -> Users \cup {None}]
    /\ access \subseteq Pairs
    /\ refresh \subseteq Pairs
    /\ used \subseteq Pairs
    /\ listed \subseteq Pairs
    /\ recorded \subseteq Pairs
    /\ jar \in [Clients -> Jar]
    /\ pc \in [Reqs -> {"idle", "composed", "sent", "checked", "identified", "known", "ready",
                        "redeemed", "marked", "found", "listed", "opened", "revoked",
                        "answered"}]
    /\ call \in [Reqs -> Call \cup {None}]
    /\ \A r \in Reqs : pc[r] # "idle" => call[r] \in Call
    /\ answer \in [Reqs -> Pairs \cup {"clear", None}]
    /\ found \in [Reqs -> SUBSET Pairs]
    /\ ended \subseteq Pairs
    /\ torn \subseteq Pairs
    /\ overtaken \subseteq Reqs
    /\ muddled \subseteq Pairs
    /\ out \subseteq Clients
    /\ late \subseteq Reqs
    /\ back \subseteq Clients

Init ==
    /\ active = Users
    /\ family = [p \in Pairs |-> None]
    /\ owner = [p \in Pairs |-> None]
    /\ access = {}
    /\ refresh = {}
    /\ used = {}
    /\ listed = {}
    /\ recorded = {}
    /\ jar = [c \in Clients |-> EmptyJar]
    /\ pc = [r \in Reqs |-> "idle"]
    /\ call = [r \in Reqs |-> None]
    /\ answer = [r \in Reqs |-> None]
    /\ found = [r \in Reqs |-> {}]
    /\ ended = {}
    /\ torn = {}
    /\ overtaken = {}
    /\ muddled = {}
    /\ out = {}
    /\ late = {}
    /\ back = {}

-----------------------------------------------------------------------------
(* Sending.                                                                *)

\* The cookies that are attached, as far as the handler reads them.  The refresh
\* cookie has path /api/v1/auth/refresh, the others have path /.
Attached(c, op) ==
    CASE op = "login"                    -> EmptyJar
      [] op = "refresh"                  -> [EmptyJar EXCEPT !.refresh = jar[c].refresh]
      [] op = "logout" /\ c \in Scripts -> jar[c]
      [] OTHER                           -> [jar[c] EXCEPT !.refresh = None]

Open(p) == pc[p] # "idle"

\* Another request is about to present, or has presented, this refresh token's
\* family and its answer is not back.
Contended(r, c, p) ==
    \E s \in Reqs \ {r} : /\ Open(s)
                          /\ call[s].client = c
                          /\ call[s].op = "refresh"
                          /\ family[call[s].cookies.refresh] = family[p]

Send(r, c, op, u) ==
    /\ pc[r] = "idle"
    /\ op \in {"post", "patch"} => c \in Scripts \cap Writers
    /\ op = "login" <=> u # None
    /\ op = "refresh" => jar[c].refresh # None
    /\ pc' = [pc EXCEPT ![r] = "sent"]
    /\ call' = [call EXCEPT ![r] = [client |-> c, op |-> op, cookies |-> Attached(c, op),
                                    header |-> None, user |-> u]]
    /\ out' = IF op = "login" THEN out \ {c} ELSE out
    /\ muddled' = IF op = "refresh" /\ Contended(r, c, jar[c].refresh)
                  THEN muddled \cup {family[jar[c].refresh]} ELSE muddled
    /\ late' = IF op = "login" THEN {s \in late : call[s].client # c} ELSE late
    /\ back' = IF op = "login" THEN back \ {c} ELSE back
    /\ UNCHANGED <<active, store, recorded, jar, answer, found, ended, torn, overtaken>>

\* The page reads the CSRF cookie ...
Compose(r, c, op) ==
    /\ pc[r] = "idle"
    /\ c \in Browsers \cap Writers
    /\ op \in {"post", "patch"}
    /\ pc' = [pc EXCEPT ![r] = "composed"]
    /\ call' = [call EXCEPT ![r] = [client |-> c, op |-> op, cookies |-> EmptyJar,
                                    header |-> jar[c].csrf, user |-> None]]
    /\ UNCHANGED <<active, store, recorded, jar, answer, found, history>>

\* ... and the browser attaches the cookies.
Leave(r) ==
    /\ pc[r] = "composed"
    /\ pc' = [pc EXCEPT ![r] = "sent"]
    /\ call' = [call EXCEPT ![r].cookies = Attached(call[r].client, call[r].op)]
    /\ UNCHANGED <<active, store, recorded, jar, answer, found, history>>

-----------------------------------------------------------------------------
(* The server: login, the dependencies, and writes.                        *)

\* The request is over and changes no cookie.
Close(r) ==
    /\ pc' = [pc EXCEPT ![r] = "idle"]
    /\ call' = [call EXCEPT ![r] = None]
    /\ answer' = [answer EXCEPT ![r] = None]
    /\ found' = [found EXCEPT ![r] = {}]
    /\ overtaken' = overtaken \ {r}
    /\ late' = late \ {r}

\* It is refused, or done, and leaves everything else as it was.
End(r) ==
    /\ Close(r)
    /\ UNCHANGED <<active, store, recorded, jar, ended, torn, muddled, out, back>>

\* It goes on; what it carries, and everything else, stays as it was.
Advance(r, stage) ==
    /\ pc' = [pc EXCEPT ![r] = stage]
    /\ UNCHANGED <<active, store, recorded, jar, call, answer, found, history>>

\* Mutant: the account's status is not looked at.
LiveAccountAny(u) == TRUE

\* is_active and status = ACTIVE
LiveAccount(u) == u \in active

\* authenticate_user
AuthenticateUser(r) ==
    /\ pc[r] = "sent"
    /\ call[r].op = "login"
    /\ LiveAccount(call[r].user)
    /\ Advance(r, "known")

\* InvalidCredentials: the account is not active or the password is wrong.
InvalidCredentials(r) ==
    /\ pc[r] = "sent"
    /\ call[r].op = "login"
    /\ End(r)

\* Mutant: the arguments are swapped.
IssueSwapped(p, f, u) ==
    /\ family' = [family EXCEPT ![p] = f]
    /\ owner' = [owner EXCEPT ![p] = f]
    /\ access' = access \cup {p}
    /\ listed' = listed \cup {p}

\* _issue_pair, but for the refresh token
Issue(p, f, u) ==
    /\ family' = [family EXCEPT ![p] = f]
    /\ owner' = [owner EXCEPT ![p] = u]
    /\ access' = access \cup {p}
    /\ listed' = listed \cup {p}

\* Mutant: the answer does not wait for the commit.
HeldBackNot == "answered"

\* The cookies wait on the response for the audit row and its commit.
HeldBack == "opened"

\* create_session
CreateSession(r, p) ==
    /\ pc[r] = "known"
    /\ call[r].op = "login"
    /\ family[p] = None
    /\ Issue(p, p, call[r].user)
    /\ refresh' = refresh \cup {p}
    /\ answer' = [answer EXCEPT ![r] = p]
    /\ pc' = [pc EXCEPT ![r] = HeldBack]
    /\ UNCHANGED <<active, used, recorded, jar, call, found, history>>

AwaitsUser(r) ==
    \/ pc[r] = "sent" /\ call[r].op \in {"logout", "patch"}
    \/ pc[r] = "checked"

\* get_current_user asks the store for the token's user ...
GetUserId(r) ==
    /\ AwaitsUser(r)
    /\ call[r].cookies.access \in access
    /\ call' = [call EXCEPT ![r].user = owner[call[r].cookies.access]]
    /\ pc' = [pc EXCEPT ![r] = "identified"]
    /\ UNCHANGED <<active, store, recorded, jar, answer, found, history>>

\* ... and the database for the account.
GetCurrentUser(r) ==
    /\ pc[r] = "identified"
    /\ LiveAccount(call[r].user)
    /\ Advance(r, IF call[r].op = "post" THEN "ready" ELSE "known")

Unauthorized(r) ==
    /\ \/ AwaitsUser(r) /\ call[r].cookies.access \notin access
       \/ pc[r] = "identified" /\ ~LiveAccount(call[r].user)
    /\ End(r)

\* require_csrf: a dependency of the route itself on POST, so before
\* get_current_user; the last parameter on PATCH and DELETE, so after it.
AwaitsCsrf(r) ==
    \/ pc[r] = "sent" /\ call[r].op = "post"
    \/ pc[r] = "known" /\ call[r].op = "patch"

\* No session cookie, or the header, the cookie and the session record agree.
CsrfPasses(r) ==
    LET k == call[r].cookies
    IN  \/ call[r].client \in Scripts \/ k.access = None
        \/ k.access \in access /\ k.csrf = call[r].header /\ k.csrf = k.access

RequireCsrf(r) ==
    /\ AwaitsCsrf(r)
    /\ CsrfPasses(r)
    /\ Advance(r, IF call[r].op = "post" THEN "checked" ELSE "ready")

CsrfFails(r) ==
    /\ AwaitsCsrf(r)
    /\ ~CsrfPasses(r)
    /\ End(r)

\* The handler of the write, to its commit.
Accept(r) ==
    /\ pc[r] = "ready"
    /\ End(r)

-----------------------------------------------------------------------------
(* The server: rotations and revocations.                                  *)

\* The family of the refresh cookie.
FamilyOf(r) == family[call[r].cookies.refresh]

Rotating(f)  == \E r \in Reqs : pc[r] \in {"redeemed", "marked"} /\ FamilyOf(r) = f
Revoking(f)  == \E r \in Reqs : pc[r] = "listed" /\ FamilyOf(r) = f

\* rotate_refresh_token reads an unused token, ...
Redeem(r) ==
    /\ pc[r] = "sent"
    /\ call[r].op = "refresh"
    /\ call[r].cookies.refresh \in refresh
    /\ pc' = [pc EXCEPT ![r] = "redeemed"]
    /\ torn' = IF Revoking(FamilyOf(r)) THEN torn \cup {FamilyOf(r)} ELSE torn
    /\ UNCHANGED <<active, store, recorded, jar, call, answer, found, ended, overtaken, muddled,
                   out, late, back>>

\* ... marks it, whatever has become of its record meanwhile, ...
Mark(r) ==
    /\ pc[r] = "redeemed"
    /\ refresh' = refresh \ {call[r].cookies.refresh}
    /\ used' = used \cup {call[r].cookies.refresh}
    /\ pc' = [pc EXCEPT ![r] = "marked"]
    /\ UNCHANGED <<active, family, owner, access, listed, recorded, jar, call, answer, found, history>>

\* ... and issues a pair, which is set on the answer.  The old access token
\* stays usable.
Rotate(r, q) ==
    /\ pc[r] = "marked"
    /\ family[q] = None
    /\ Issue(q, FamilyOf(r), owner[call[r].cookies.refresh])
    /\ refresh' = refresh \cup {q}
    /\ answer' = [answer EXCEPT ![r] = q]
    /\ pc' = [pc EXCEPT ![r] = "answered"]
    /\ UNCHANGED <<active, used, recorded, jar, call, found, history>>

\* ValueError: the token is unknown.
InvalidRefresh(r) ==
    /\ pc[r] = "sent"
    /\ call[r].op = "refresh"
    /\ call[r].cookies.refresh \notin refresh \cup used
    /\ End(r)

\* It has been used: its family will be revoked.
Reuse(r) ==
    /\ pc[r] = "sent"
    /\ call[r].op = "refresh"
    /\ call[r].cookies.refresh \in used
    /\ Advance(r, "found")

\* logout revokes the family of the refresh cookie, if one came along and the
\* store knows it.
RevokeSession(r) ==
    /\ pc[r] = "known"
    /\ call[r].op = "logout"
    /\ call[r].cookies.refresh \in refresh \cup used
    /\ Advance(r, "found")

NothingToRevoke(r) ==
    /\ pc[r] = "known"
    /\ call[r].op = "logout"
    /\ call[r].cookies.refresh \notin refresh \cup used
    /\ answer' = [answer EXCEPT ![r] = "clear"]
    /\ pc' = [pc EXCEPT ![r] = "revoked"]
    /\ UNCHANGED <<active, store, recorded, jar, call, found, history>>

\* Mutant: the pairs of later rotations are not in the family set.
MembersFirst(f) == listed \cap {f}

Members(f) == {p \in listed : family[p] = f}

\* revoke_family reads the family set ...
ListFamily(r) ==
    /\ pc[r] = "found"
    /\ found' = [found EXCEPT ![r] = Members(FamilyOf(r))]
    /\ pc' = [pc EXCEPT ![r] = "listed"]
    /\ torn' = IF Rotating(FamilyOf(r)) THEN torn \cup {FamilyOf(r)} ELSE torn
    /\ UNCHANGED <<active, store, recorded, jar, call, answer, ended, overtaken, muddled,
                   out, late, back>>

\* ... and deletes the tokens it found there, and the set.
DeleteFamily(r) ==
    /\ pc[r] = "listed"
    /\ access' = access \ found[r]
    /\ refresh' = refresh \ found[r]
    /\ used' = used \ found[r]
    /\ listed' = {p \in listed : family[p] # FamilyOf(r)}
    /\ ended' = ended \cup {FamilyOf(r)}
    /\ UNCHANGED <<active, family, owner, recorded, jar, torn, muddled, out, back>>

RevokeFamily(r) ==
    /\ DeleteFamily(r)
    /\ call[r].op = "logout"
    /\ answer' = [answer EXCEPT ![r] = "clear"]
    /\ found' = [found EXCEPT ![r] = {}]
    /\ pc' = [pc EXCEPT ![r] = "revoked"]
    /\ UNCHANGED <<call, overtaken, late>>

\* SessionReuseDetected.  The cookies are cleared on a response the exception
\* replaces, so the client keeps them.
RefuseReuse(r) ==
    /\ DeleteFamily(r)
    /\ call[r].op = "refresh"
    /\ Close(r)

\* record_audit_event and the commit; the answer leaves.
Record(r) ==
    /\ pc[r] \in {"opened", "revoked"}
    /\ recorded' = IF pc[r] = "opened" THEN recorded \cup {family[answer[r]]} ELSE recorded
    /\ pc' = [pc EXCEPT ![r] = "answered"]
    /\ UNCHANGED <<active, store, jar, call, answer, found, history>>

\* The process is lost, a store or a commit fails, or the answer is.  A login
\* that fails here has a session nobody was given; a refresh, a token that is
\* marked and no other.
Fail(r) ==
    /\ Open(r)
    /\ muddled' = IF call[r].op = "refresh" /\ pc[r] \in {"marked", "answered"}
                  THEN muddled \cup {FamilyOf(r)} ELSE muddled
    /\ Close(r)
    /\ UNCHANGED <<active, store, recorded, jar, ended, torn, out, back>>

-----------------------------------------------------------------------------
(* The client receives an answer that sets or clears cookies.              *)

\* Mutant: a refresh cookie that is there is not renewed.
SetSessionCookiesOnce(j, p) ==
    [access |-> p, csrf |-> p, refresh |-> IF j.refresh = None THEN p ELSE j.refresh]

\* Mutant: the CSRF cookie is not renewed.
SetSessionCookiesStale(j, p) == [j EXCEPT !.access = p, !.refresh = p]

\* _set_session_cookies
SetSessionCookies(j, p) == [access |-> p, csrf |-> p, refresh |-> p]

\* Mutant: the refresh cookie is deleted for path / and stays.
ClearSessionCookiesRoot(j) == [EmptyJar EXCEPT !.refresh = j.refresh]

\* _clear_session_cookies
ClearSessionCookies(j) == EmptyJar

Receive(r) ==
    LET c == call[r].client IN
    /\ pc[r] = "answered"
    /\ IF answer[r] = "clear"
       THEN /\ jar' = [jar EXCEPT ![c] = ClearSessionCookies(@)]
            /\ out' = out \cup {c}
            /\ late' = (late \cup {s \in Reqs : Open(s) /\ call[s].client = c}) \ {r}
            /\ back' = back \ {c}
       ELSE /\ jar' = [jar EXCEPT ![c] = SetSessionCookies(@, answer[r])]
            /\ IF call[r].op = "login"
               THEN /\ out' = out \ {c}
                    /\ late' = {s \in late : call[s].client # c}
                    /\ back' = back \ {c}
               ELSE /\ out' = out
                    /\ late' = late \ {r}
                    /\ back' = IF r \in late THEN back \cup {c} ELSE back
    /\ pc' = [pc EXCEPT ![r] = "idle"]
    /\ call' = [call EXCEPT ![r] = None]
    /\ answer' = [answer EXCEPT ![r] = None]
    /\ overtaken' = overtaken \ {r}
    /\ UNCHANGED <<active, store, recorded, found, ended, torn, muddled>>

-----------------------------------------------------------------------------
(* The environment.                                                        *)

\* The access token expires first; both have a TTL.
Expire(p) ==
    /\ \/ p \in access /\ access' = access \ {p} /\ UNCHANGED <<refresh, used>>
       \/ /\ p \notin access
          /\ p \in refresh \cup used
          /\ refresh' = refresh \ {p}
          /\ used' = used \ {p}
          /\ UNCHANGED access
    /\ UNCHANGED <<active, family, owner, listed, recorded, jar, pc, call, answer, found, history>>

\* The browser is restarted: only the refresh cookie has a max_age.
Restart(c) ==
    /\ c \in Browsers
    /\ \A r \in Reqs : Open(r) => call[r].client # c
    /\ jar' = [jar EXCEPT ![c] = [EmptyJar EXCEPT !.refresh = jar[c].refresh]]
    /\ UNCHANGED <<active, store, recorded, pc, call, answer, found, history>>

\* The stages past the reading of the account.
Trusted == {"known", "ready", "found", "listed", "opened", "revoked"}

Suspend(u) ==
    /\ u \in active
    /\ active' = active \ {u}
    /\ overtaken' = overtaken \cup {r \in Reqs : pc[r] \in Trusted /\ call[r].user = u}
    /\ UNCHANGED <<store, recorded, jar, pc, call, answer, found, ended, torn, muddled,
                   out, late, back>>

Next ==
    \/ \E r \in Reqs, c \in Clients, op \in Ops, u \in Users \cup {None} : Send(r, c, op, u)
    \/ \E r \in Reqs, c \in Clients, op \in Ops : Compose(r, c, op)
    \/ \E r \in Reqs : Leave(r)
    \/ \E r \in Reqs : AuthenticateUser(r)
    \/ \E r \in Reqs : InvalidCredentials(r)
    \/ \E r \in Reqs, p \in Pairs : CreateSession(r, p)
    \/ \E r \in Reqs : GetUserId(r)
    \/ \E r \in Reqs : GetCurrentUser(r)
    \/ \E r \in Reqs : Unauthorized(r)
    \/ \E r \in Reqs : RequireCsrf(r)
    \/ \E r \in Reqs : CsrfFails(r)
    \/ \E r \in Reqs : Accept(r)
    \/ \E r \in Reqs : Redeem(r)
    \/ \E r \in Reqs : Mark(r)
    \/ \E r \in Reqs, q \in Pairs : Rotate(r, q)
    \/ \E r \in Reqs : InvalidRefresh(r)
    \/ \E r \in Reqs : Reuse(r)
    \/ \E r \in Reqs : RevokeSession(r)
    \/ \E r \in Reqs : NothingToRevoke(r)
    \/ \E r \in Reqs : ListFamily(r)
    \/ \E r \in Reqs : RevokeFamily(r)
    \/ \E r \in Reqs : RefuseReuse(r)
    \/ \E r \in Reqs : Record(r)
    \/ \E r \in Reqs : Fail(r)
    \/ \E r \in Reqs : Receive(r)
    \/ \E p \in Pairs : Expire(p)
    \/ \E c \in Clients : Restart(c)
    \/ \E u \in Users : Suspend(u)

Spec == Init /\ [][Next]_vars

-----------------------------------------------------------------------------
(* Properties.                                                             *)

\* login creates the session in Redis and then commits (router.py:113-119).
\* When the commit fails the session exists, but no client ever holds it:
\* every cookie belongs to a session whose LOGIN audit row is committed.
HeldSessionsAreRecorded ==
    \A c \in Clients : LET j == jar[c] IN
        \A p \in {j.access, j.csrf, j.refresh} \ {None} : family[p] \in recorded

\* Once a family was revoked, by a logout or as a reuse, get_current_user finds
\* the user of none of its tokens, for requests that were under way neither;
\* unless a rotation and a revocation of the family have overlapped
\* (router.py:132, :154, sessions.py:198-203).
RevokedSessionsAreRefused ==
    [][\A r \in Reqs : GetUserId(r) =>
          LET f == family[call[r].cookies.access] IN f \in ended => f \in torn]_vars

\* A client that only sends the cookies it holds sets off the reuse detection
\* of its own session (router.py:154) only after two refreshes at once or a
\* refresh that broke off: the rotation and the cookie it sets keep in step.
ReuseOnlyIfMuddled ==
    [][\A r \in Reqs : Reuse(r) => family[call[r].cookies.refresh] \in muddled]_vars

\* After a logout whose answer arrived, and until it logs in, a write of that
\* client is accepted only if it was under way by then, or if a refresh that was
\* under way by then has been answered since: that one sets the cookies again
\* (router.py:163), and nothing else that is left behind leads back in
\* (router.py:67-70, deletion per path).
OnlyRefreshUndoesLogout ==
    [][\A r \in Reqs : Accept(r) =>
          \/ call[r].client \notin out
          \/ r \in late
          \/ call[r].client \in back]_vars

\* A suspended account gets a write, a login or a logout done only by a request
\* that had read the account before (deps.py:79-81, auth_service.py:46-58).  The
\* refresh endpoint reads no account (router.py:142-163): it goes on handing
\* pairs to a suspended account, but of sessions it had.
SuspendedOnlyRefreshes ==
    [][/\ \A r \in Reqs : Accept(r) \/ Record(r) => call[r].user \in active \/ r \in overtaken
       /\ \A p \in Pairs : family[p] = None /\ family'[p] # None =>
             \/ owner'[p] \in active
             \/ \E q \in Pairs : /\ family[q] = family'[p]
                                 /\ owner[q] = owner'[p]
             \/ \E r \in overtaken : answer'[r] = p]_vars

\* A write is refused for its CSRF token only when the cookies changed after
\* the page had read them or the session ended: the three cookies stay those of
\* one pair through refreshes, restarts and late answers (deps.py:86-103).
CsrfFailsOnlyIfOvertaken ==
    [][\A r \in Reqs : CsrfFails(r)
          => \/ call[r].header # call[r].cookies.csrf
             \/ call[r].cookies.access \notin access]_vars
=============================================================================
