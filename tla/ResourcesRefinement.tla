------------------------- MODULE ResourcesRefinement -------------------------
(***************************************************************************)
(* The catalog that the endpoints of Resources implement: the committed    *)
(* tables, and for a request the write its role check has let through.     *)
(*                                                                         *)
(* The membership is read for the role when the organization itself is     *)
(* loaded, and a step later for a resource below it.                       *)
(***************************************************************************)
EXTENDS Resources

\* The role of r has been read and suffices.
Admitted(r) ==
    \/ pc[r] \in {"authorized", "checked", "flushed"}
    \/ pc[r] = "loaded" /\ Gate(job[r]) \in Organizations /\ Permitted(r)

Abstract == INSTANCE Catalog WITH
    Callers <- Reqs,
    safe    <- trusted \cup PublicAddresses,
    permit  <- [r \in Reqs |-> IF Admitted(r) THEN job[r] ELSE None]

\* Requests that overlap, wait for each other and fail add up to writes that
\* happen one at a time, each permitted by a role its caller had during the
\* request (the routers of organizations, projects, scrapers and targets).
ImplementsCatalog == Abstract!Spec
=============================================================================
