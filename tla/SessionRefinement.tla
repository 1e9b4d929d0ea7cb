-------------------------- MODULE SessionRefinement --------------------------
(***************************************************************************)
(* The session that SessionStore implements: what a caller of the store    *)
(* sees of its Redis keys and of the requests in flight, as the variables  *)
(* of SessionSpec.                                                         *)
(*                                                                         *)
(* A token is usable once its pair was handed out, as long as its record   *)
(* is there and not marked.  A call is due to grant a pair from its GET    *)
(* (or uuid4) to the EXPIRE that returns the pair.                         *)
(***************************************************************************)
EXTENDS SessionStore

\* A held token together with its session.
Session(t) == [token |-> t, family |-> record[t].family]

Abstract == INSTANCE SessionSpec WITH
    Callers   <- Reqs,
    opened    <- {f \in Families : owner[f] # None},
    usable    <- {Session(t) : t \in Held},
    granted   <- delivered,
    due       <- [r \in Reqs |->
                    IF pc[r] \in Issuing THEN subject[r].family ELSE None],
    presented <- [r \in Reqs |-> IF pc[r] \in Issuing THEN token[r] ELSE None],
    closed    <- dead

\* The store implements the session of SessionSpec: the Redis commands of a
\* call add up to one grant, one revocation, under any interleaving
\* (sessions.py:89-212).
ImplementsSession == Abstract!Spec
=============================================================================
