------------------------------ MODULE EventLog ------------------------------
(***************************************************************************)
(* What ingestion promises about an event, whatever requests, retries and  *)
(* failures bring it: it is stored once, and only what is stored is        *)
(* published and raises an alert, each at most once.                       *)
(***************************************************************************)
EXTENDS Naturals

CONSTANTS Events, Triggering

VARIABLES stored, published, alerts

vars == <<stored, published, alerts>>

Init ==
    /\ stored = {}
    /\ published = [e \in Events |-> 0]
    /\ alerts = [e \in Events |-> 0]

\* A batch is stored whole, and none of it was there before.
Append(new) ==
    /\ new # {} /\ new \cap stored = {}
    /\ stored' = stored \cup new
    /\ UNCHANGED <<published, alerts>>

Publish(e) ==
    /\ e \in stored /\ published[e] = 0
    /\ published' = [published EXCEPT ![e] = 1]
    /\ UNCHANGED <<stored, alerts>>

\* Alerts follow publication.
RaiseAlert(e) ==
    /\ e \in Triggering /\ published[e] = 1 /\ alerts[e] = 0
    /\ alerts' = [alerts EXCEPT ![e] = 1]
    /\ UNCHANGED <<stored, published>>

Next ==
    \/ \E new \in SUBSET Events : Append(new)
    \/ \E e \in Events : Publish(e) \/ RaiseAlert(e)

Spec == Init /\ [][Next]_vars

=============================================================================
