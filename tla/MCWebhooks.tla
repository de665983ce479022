----------------------------- MODULE MCWebhooks -----------------------------
(* Small instances of Webhooks. *)
EXTENDS Webhooks, TLC

CONSTANTS h1, h2, acme, globex

\* Two endpoints of one tenant, one with a wildcard.
MCTenantOf == [h \in Hooks |-> acme]
MCSubscribed == h1 :> {"drift"} @@ h2 :> SentinelTypes
=============================================================================
