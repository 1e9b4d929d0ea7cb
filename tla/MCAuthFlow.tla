----------------------------- MODULE MCAuthFlow -----------------------------
(***************************************************************************)
(* The runs of AuthFlow: its symmetry, and what the repository says of     *)
(* logout that the code does not do for a browser.                         *)
(***************************************************************************)
EXTENDS AuthFlow, TLC

Symmetry == Permutations(Users) \cup Permutations(Pairs) \cup Permutations(Reqs)

\* Bound: the other client has no cookies and nothing in flight.  The clients
\* share no family; they take turns within a behaviour.
OneClientAtATime ==
    \E c \in Clients : \A d \in Clients \ {c} :
        /\ jar[d] = EmptyJar
        /\ \A r \in Reqs : Open(r) => call[r].client # d

\* src/PHASE_1_REPORT.md:197, "POST /api/v1/auth/logout - revokes the current
\* session family": when the logout of a client is recorded, no token of the
\* session it was sent from can be used.
LogoutRevokesFamily ==
    [][\A r \in Reqs :
          Record(r) /\ call[r].op = "logout"
              => {p \in access \cup refresh : family[p] = family[call[r].cookies.access]} = {}]_vars
=============================================================================
