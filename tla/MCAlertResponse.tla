-------------------------- MODULE MCAlertResponse --------------------------
(* Small instances of AlertResponse. *)
EXTENDS AlertResponse

CONSTANTS a1

MCTypeOf == [a \in AlertIds |-> "drift"]
=============================================================================
