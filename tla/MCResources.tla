----------------------------- MODULE MCResources -----------------------------
(***************************************************************************)
(* The run of Resources: its symmetry.                                     *)
(***************************************************************************)
EXTENDS ResourcesRefinement, TLC

Symmetry == Permutations(Organizations) \cup Permutations(Slugs) \cup Permutations(Reqs)
=============================================================================
