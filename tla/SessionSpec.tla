----------------------------- MODULE SessionSpec -----------------------------
(***************************************************************************)
(* What the session store promises its callers, without Redis: which       *)
(* tokens can be used, and how a session (a family of tokens) ends.        *)
(*                                                                         *)
(*   - a pair is granted only for a new session, or in exchange for a      *)
(*     usable refresh token that is no longer usable by then;              *)
(*   - revoking a session ends all its tokens in one step;                 *)
(*   - a closed session never has a usable token again.                    *)
(*                                                                         *)
(* The code keeps the last two promises unless a revocation, or the expiry *)
(* of the family set, overlaps a grant of the same session.  Such sessions *)
(* are `torn` and a revocation of one may leave any of its tokens usable.  *)
(***************************************************************************)
CONSTANTS
    Families,   \* sessions
    Pairs,      \* token pairs
    Callers,    \* calls that may be in flight at once
    None        \* an absent value

Tokens == Pairs \X {"access", "refresh"}

VARIABLES
    opened,     \* sessions that have begun
    usable,     \* the usable tokens, each with its session
    granted,    \* pairs handed out
    due,        \* the session a call is about to grant a pair of, or None
    presented,  \* the refresh token that call was given, or None
    torn,       \* sessions a revocation may miss tokens of
    closed      \* sessions that are over

vars == <<opened, usable, granted, due, presented, torn, closed>>

Of(f) == {u \in usable : u.family = f}

Init ==
    /\ opened = {}
    /\ usable = {}
    /\ granted = {}
    /\ due = [c \in Callers |-> None]
    /\ presented = [c \in Callers |-> None]
    /\ torn = {}
    /\ closed = {}

Open(c, f) ==
    /\ due[c] = None
    /\ f \notin opened
    /\ opened' = opened \cup {f}
    /\ due' = [due EXCEPT ![c] = f]
    /\ UNCHANGED <<usable, granted, presented, torn, closed>>

\* A usable refresh token earns a pair of its session.  The exchange may
\* overlap a revocation.
Redeem(c, u) ==
    /\ due[c] = None
    /\ u \in usable
    /\ u.token[2] = "refresh"
    /\ due' = [due EXCEPT ![c] = u.family]
    /\ presented' = [presented EXCEPT ![c] = u.token]
    /\ torn' \in {torn, torn \cup {u.family}}
    /\ UNCHANGED <<opened, usable, granted, closed>>

\* The pair is handed out; either token may have lapsed on the way.
Grant(c, p) ==
    /\ due[c] # None
    /\ p \notin granted
    /\ \A u \in usable : u.token # presented[c]
    /\ \E S \in SUBSET {"access", "refresh"} :
          usable' = usable \cup {[token |-> <<p, type>>, family |-> due[c]] : type \in S}
    /\ granted' = granted \cup {p}
    /\ due' = [due EXCEPT ![c] = None]
    /\ presented' = [presented EXCEPT ![c] = None]
    /\ UNCHANGED <<opened, torn, closed>>

Abandon(c) ==
    /\ due[c] # None
    /\ due' = [due EXCEPT ![c] = None]
    /\ presented' = [presented EXCEPT ![c] = None]
    /\ UNCHANGED <<opened, usable, granted, torn, closed>>

\* Tokens are spent or expire, and sessions with a grant due may tear.
Lapse ==
    /\ usable' \in SUBSET usable
    /\ torn \subseteq torn'
    /\ torn' \ torn \subseteq {due[c] : c \in Callers} \ {None}
    /\ UNCHANGED <<opened, granted, due, presented, closed>>

\* All the tokens of a session end together; of a torn one, some.
Revoke(f) ==
    /\ IF f \in torn
       THEN usable \ Of(f) \subseteq usable' /\ usable' \subseteq usable
       ELSE usable' = usable \ Of(f)
    /\ UNCHANGED <<opened, granted, due, presented, torn, closed>>

Close(f) ==
    /\ f \in opened
    /\ f \notin torn
    /\ Of(f) = {}
    /\ \A c \in Callers : due[c] # f
    /\ closed' = closed \cup {f}
    /\ UNCHANGED <<opened, usable, granted, due, presented, torn>>

Next ==
    \/ \E c \in Callers, f \in Families : Open(c, f)
    \/ \E c \in Callers : \E u \in usable : Redeem(c, u)
    \/ \E c \in Callers, p \in Pairs : Grant(c, p)
    \/ \E c \in Callers : Abandon(c)
    \/ Lapse
    \/ \E f \in Families : Revoke(f)
    \/ \E f \in Families : Close(f)

Spec == Init /\ [][Next]_vars
=============================================================================
