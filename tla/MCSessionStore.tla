--------------------------- MODULE MCSessionStore ---------------------------
(***************************************************************************)
(* The runs of SessionStore: its symmetry, the passing of time, and what   *)
(* the source says of it that the runs refute.                             *)
(***************************************************************************)
EXTENDS SessionRefinement, TLC

Symmetry ==
    Permutations(Users) \cup Permutations(Families)
        \cup Permutations(Pairs) \cup Permutations(Reqs)

\* Time passes: Redis drops a key some time after its TTL has run out.
FairSpec == Spec /\ WF_vars(Tick)

\* A refresh token that is kept for reuse detection does not stay for ever:
\* every SET of it carries a TTL, and a token is marked by finitely many
\* rotations (sessions.py:184-189).
SpentTokensExpire ==
    \A t \in Tokens : t \in spent /\ Live(t) ~> ~Live(t)

\* sessions.py:184-185, "keep it (with its existing TTL)": marking a refresh
\* token used does not postpone its expiry.
MarkingKeepsTTL ==
    [][\A t \in Tokens :
          Usable(t) /\ Live(t)' /\ ~Usable(t)' => ttl'[t] <= ttl[t]]_vars

\* sessions.py:61-63, "The entire session family has already been revoked by
\* the time this is raised": no token of the family can be used once
\* rotate_refresh_token raises SessionReuseDetected.
ReuseRevokesEntireFamily ==
    [][\A r \in Reqs :
          RevokeFamily(r) /\ onReuse[r]
              => \A t \in Tokens : t[1] \in delivered /\ Usable(t)'
                    => record'[t].family # subject[r].family]_vars
=============================================================================
