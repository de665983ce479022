---------------------------- MODULE MCIngestion ----------------------------
(* Small instances of Ingestion. *)
EXTENDS Ingestion, TLC

CONSTANTS acme, starter, e1, e2

MCTenantOf == [e \in Events |-> acme]
\* One event, two events, and the same event twice; the last is too long.
MCBatches == {<<e2>>, <<e1, e2>>, <<e2, e2>>, <<e1, e2, e1>>}
MCDailyLimit == starter :> 2
MCMonthlyLimit == starter :> 5
MCMonthStart == [d \in 0 .. LastDay |-> 0]
=============================================================================
