----------------------------- MODULE MCReports -----------------------------
(***************************************************************************)
(* Small instances of Reports.  The readers of events, the count with its  *)
(* reports, and the policies meet only in the store, so that TLC explores  *)
(* each of the three to its bounds with the others at rest; ReportsProofs  *)
(* is about all of them at once.                                           *)
(***************************************************************************)
EXTENDS Reports

MCTimes == 1 .. 2

NoPolicies == policies = <<>>

\* A session of any events, whose checks come one after the other between the tasks
\* of a reader.
ReadersOnly ==
    /\ task.op # "report" /\ open \cup resolved = {} /\ NoPolicies
    /\ daily_limit >= MaxRows /\ counted = Cardinality(charged) /\ doubtful = {}
    /\ Checking # {} => AtRest /\ Cardinality(Checking) = 1
    /\ built # <<>> => built[1].event_type = "agent_started"

\* Events that are alike, and everything that may befall their count.
CountsOnly ==
    /\ task.op \in {"none", "report"} /\ entries = <<>> /\ NoPolicies
    /\ \A e \in Range(built) : e.timestamp = 1 /\ e.payload_hash = "absent"
                               /\ e.event_type = "agent_started"

PoliciesOnly == built = <<>> /\ entries = <<>> /\ task = NoTask

MCOneAtATime == ReadersOnly \/ CountsOnly \/ PoliciesOnly
=============================================================================
