---------------------------- MODULE MCLifecycle -----------------------------
(* Small instances of Lifecycle. *)
EXTENDS Lifecycle, TLC

Symmetric == Permutations(Tasks) \cup Permutations(Requests)
=============================================================================
