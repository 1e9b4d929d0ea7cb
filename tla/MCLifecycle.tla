----------------------------- MODULE MCLifecycle -----------------------------
(* Symmetry of the safety runs of Lifecycle. *)
EXTENDS Lifecycle, TLC

Symmetry == Permutations(Names) \cup Permutations(Configs) \cup Permutations(Reqs)
=============================================================================
