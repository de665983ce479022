------------------------------ MODULE MCQuota ------------------------------
(* Small instances of Quota. *)
EXTENDS Quota, TLC

CONSTANTS c1, c2, starter, professional

AllOperations == {"check_and_increment", "get_status", "reset_daily", "provision"}
Checks == {"check_and_increment"}

MCDailyLimit == starter :> 1 @@ professional :> 2
MCMonthlyLimit == starter :> 2 @@ professional :> 3

\* The last day explored is the first of a new month.
MCMonthStart == [d \in Days |-> IF d = LastDay THEN LastDay ELSE 0]

Symmetry == Permutations(Clients)
=============================================================================
