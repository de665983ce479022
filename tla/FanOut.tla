------------------------------- MODULE FanOut -------------------------------
(***************************************************************************)
(* What dispatching to webhooks promises: a dispatch fixes its targets     *)
(* once, among the endpoints that are active then and that want what it    *)
(* tells, and sends to each of them at most once; an endpoint that is      *)
(* deactivated is in no later dispatch.                                    *)
(***************************************************************************)
EXTENDS Naturals, Sequences

CONSTANTS Hooks, TenantOf, Subscribed, Tenants, SentinelTypes, MaxDispatches

VARIABLES asked, active, targets, received

vars == <<asked, active, targets, received>>

Dispatches == 1 .. MaxDispatches

Init ==
    /\ asked = <<>>
    /\ active = {}
    /\ targets = [d \in Dispatches |-> {}]
    /\ received = [h \in Hooks |-> [d \in Dispatches |-> 0]]

Ask(tenant, type) ==
    /\ Len(asked) < MaxDispatches
    /\ asked' = Append(asked, [tenant_id |-> tenant, sentinel_type |-> type])
    /\ UNCHANGED <<active, targets, received>>

Register(h) ==
    /\ active' = active \cup {h}
    /\ UNCHANGED <<asked, targets, received>>

Deactivate(h) ==
    /\ active' = active \ {h}
    /\ UNCHANGED <<asked, targets, received>>

Target(d) ==
    /\ targets[d] = {}
    /\ targets' = [targets EXCEPT ![d] =
           {h \in active : /\ TenantOf[h] = asked[d].tenant_id
                           /\ asked[d].sentinel_type \in Subscribed[h]}]
    /\ UNCHANGED <<asked, active, received>>

Send(h, d) ==
    /\ h \in targets[d] /\ received[h][d] = 0
    /\ received' = [received EXCEPT ![h][d] = 1]
    /\ UNCHANGED <<asked, active, targets>>

Next ==
    \/ \E t \in Tenants, s \in SentinelTypes : Ask(t, s)
    \/ \E h \in Hooks : Register(h) \/ Deactivate(h)
    \/ \E d \in DOMAIN asked : Target(d) \/ \E h \in Hooks : Send(h, d)

Spec == Init /\ [][Next]_vars

=============================================================================
