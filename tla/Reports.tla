------------------------------ MODULE Reports ------------------------------
(***************************************************************************)
(* Two answers that are put together from several rows of a tenant while   *)
(* they change: the compliance report (services/compliance) and the        *)
(* evaluation of policies (services/policy).  They read the store of       *)
(* EventReads.                                                             *)
(*                                                                         *)
(* The report makes four reads, one after the other: events, alerts, quota *)
(* and policies.                                                           *)
(***************************************************************************)
EXTENDS EventReads

CONSTANTS
    Severities,     \* Severity
    PolicyActions,  \* the InterventionActions that policies command
    DailyLimits,    \* the daily_limit of each tier
    MaxChecks,      \* bound: the checks of the quota under way at the same time
    NoReport        \* no report

\* _ACTION_RANK and _SEVERITY_RANK
ActionRank ==
    [ allow |-> 0, warn |-> 1, redact |-> 2, request_human_review |-> 3,
      block_tool_call |-> 4, pause_agent |-> 5, rollback_memory_write |-> 6,
      force_safe_response |-> 7, isolate_agent |-> 8, terminate_execution |-> 9 ]

SeverityRank == [low |-> 0, medium |-> 1, high |-> 2, critical |-> 3]

ASSUME PolicyAssumption ==
    /\ Severities \subseteq DOMAIN SeverityRank
    /\ PolicyActions \subseteq DOMAIN ActionRank

ASSUME QuotaAssumption == DailyLimits \subseteq Nat /\ MaxChecks \in Nat

VARIABLES
    daily_limit, \* the tenant's daily_limit, which goes with its tier
    counted,    \* events_today, as a request of this moment finds it
    held,       \* the count that each check under way has read, by event
    doubtful,   \* history: events whose check overlapped another, or came before a reset
    open,       \* the unresolved alerts; an alert is named after an event
    resolved,   \* the resolved alerts
    policies,   \* the policies for one sentinel type
    report      \* the report that is made, or was

Policy == [severity : Severities, action : PolicyActions, is_active : BOOLEAN]

quotaVars == <<daily_limit, counted, held, doubtful>>
reportVars == <<open, resolved, policies, report>>
vars == <<readVars, quotaVars, reportVars>>

Init ==
    /\ EventsInit
    /\ daily_limit \in DailyLimits /\ counted = 0
    /\ held = <<>> /\ doubtful = {}
    /\ open = {} /\ resolved = {}
    /\ policies = <<>>
    /\ report = NoReport

----------------------------------------------------------------------------
ForgetAll == Forget /\ report' = IF AtRest THEN NoReport ELSE report

Checking == DOMAIN held

\* check_and_increment (module Quota has the whole of its row).  It reads the count;
\* at the limit it is over, and all is as it was.  An event that is sent twice at
\* the same time is two events here.
ReadCount(n) ==
    /\ n \in DOMAIN built \ Checking
    /\ Cardinality(Checking) < MaxChecks
    /\ counted < daily_limit
    /\ held' = [m \in Checking \cup {n} |-> IF m = n THEN counted ELSE held[m]]
    /\ doubtful' = doubtful \cup (IF Checking = {} THEN {} ELSE Checking \cup {n})
    /\ ForgetAll
    /\ UNCHANGED <<storeVars, daily_limit, counted, open, resolved, policies>>

\* The commit writes what was read and one more, and may land although it raises.
CommitCount(n) ==
    /\ n \in Checking
    /\ counted' = held[n] + 1
    /\ held' = Restrict(held, Checking \ {n})
    /\ Pass(n) \/ UNCHANGED storeVars
    /\ ForgetAll
    /\ UNCHANGED <<daily_limit, doubtful, open, resolved, policies>>

\* A statement raises, or the month is used up: nothing is written.
DropCheck(n) ==
    /\ n \in Checking
    /\ held' = Restrict(held, Checking \ {n})
    /\ ForgetAll
    /\ UNCHANGED <<storeVars, daily_limit, counted, doubtful, open, resolved, policies>>

\* reset_daily, or the first request of a new day, which may commit after others.
ResetCount ==
    /\ counted > 0
    /\ counted' = 0
    /\ doubtful' = doubtful \cup charged
    /\ ForgetAll
    /\ UNCHANGED <<storeVars, daily_limit, held, open, resolved, policies>>

\* provision moves the tenant to another tier.
Provision(new) ==
    /\ new # daily_limit
    /\ daily_limit' = new
    /\ ForgetAll
    /\ UNCHANGED <<storeVars, counted, held, doubtful, open, resolved, policies>>

\* Raised for an event, and resolved (services/sentinel).
RaiseAlert(n) ==
    /\ n \in Stored \ (open \cup resolved)
    /\ AddRow /\ ForgetAll
    /\ open' = open \cup {n}
    /\ UNCHANGED <<built, charged, events, entries, quotaVars, resolved, policies>>

ResolveAlert(n) ==
    /\ n \in open
    /\ ForgetAll
    /\ open' = open \ {n} /\ resolved' = resolved \cup {n}
    /\ UNCHANGED <<storeVars, quotaVars, policies>>

CreatePolicy(severity, action) ==
    /\ AddRow /\ ForgetAll
    /\ policies' = Append(policies, [severity |-> severity, action |-> action,
                                     is_active |-> TRUE])
    /\ UNCHANGED <<built, charged, events, entries, quotaVars, open, resolved>>

\* update_policy sets the columns it is sent.
UpdatePolicy(i, p) ==
    /\ ForgetAll
    /\ policies' = [policies EXCEPT ![i] = p]
    /\ UNCHANGED <<storeVars, quotaVars, open, resolved>>

Active == {i \in DOMAIN policies : policies[i].is_active}

----------------------------------------------------------------------------
\* The evaluation: one SELECT, and the rest is computed from it.

\* Variant: a policy is matched by what is less severe than it.
MatchesBelow(p, severity) == SeverityRank[severity] <= SeverityRank[p.severity]

PolicyMatches(p, severity) == SeverityRank[severity] >= SeverityRank[p.severity]

\* The strongest action of the matched policies; allow when there is none.
WinningAction(actions) ==
    IF actions = {} THEN "allow"
    ELSE CHOOSE a \in actions : \A b \in actions : ActionRank[b] <= ActionRank[a]

IsBlocked(action) == ActionRank[action] >= ActionRank["block_tool_call"]

Evaluate(severity) ==
    LET matched == {i \in Active : PolicyMatches(policies[i], severity)}
        action == WinningAction({policies[i].action : i \in matched})
    IN  [matched |-> matched, action |-> action, is_blocked |-> IsBlocked(action)]

----------------------------------------------------------------------------
BeginReport(since) ==
    /\ Begin("report", "events", "events")
    /\ report' = [since |-> since]
    /\ UNCHANGED <<quotaVars, open, resolved, policies>>

\* A report with a further part.
With(r, part) ==
    [f \in DOMAIN r \cup DOMAIN part |-> IF f \in DOMAIN part THEN part[f] ELSE r[f]]

\* The next read of generate_report, and what it puts in the report.
Read(stage, next, part) ==
    /\ task.op = "report" /\ task.stage = stage
    /\ task' = [task EXCEPT !.stage = next]
    /\ report' = With(report, part)
    /\ UNCHANGED <<storeVars, dirty, quotaVars, open, resolved, policies>>

\* The events of the period, which total_count counts.
SummarizeEvents ==
    Read("events", "alerts",
         [ counted_events |-> {n \in Stored : events[n].timestamp >= report.since} ])

SummarizeAlerts ==
    Read("alerts", "quota", [ unresolved_count |-> Cardinality(open),
                              alert_count |-> Cardinality(open \cup resolved) ])

\* get_status: the tier, as its limit, and daily_remaining.
SummarizeQuota ==
    Read("quota", "policies",
         [ daily_limit |-> daily_limit,
           daily_remaining |-> IF counted < daily_limit THEN daily_limit - counted ELSE 0 ])

SummarizePolicies ==
    Read("policies", "done", [ active_count |-> Cardinality(Active) ])

\* A read raises, the quota's status among them: there is no report.
ReportFails ==
    /\ task.op = "report" /\ ~AtRest
    /\ task' = [task EXCEPT !.stage = "done", !.error = TRUE]
    /\ report' = NoReport
    /\ UNCHANGED <<storeVars, dirty, quotaVars, open, resolved, policies>>

Next ==
    \/ EventsNext /\ UNCHANGED <<quotaVars, open, resolved, policies>>
                     /\ report' = IF AtRest THEN NoReport ELSE report
    \/ \E n \in DOMAIN built : ReadCount(n) \/ CommitCount(n) \/ DropCheck(n)
    \/ ResetCount
    \/ \E new \in DailyLimits : Provision(new)
    \/ \E n \in Stored : RaiseAlert(n) \/ ResolveAlert(n)
    \/ \E severity \in Severities, action \in PolicyActions : CreatePolicy(severity, action)
    \/ \E i \in DOMAIN policies, p \in Policy : UpdatePolicy(i, p)
    \/ \E since \in Times : BeginReport(since)
    \/ SummarizeEvents \/ SummarizeAlerts \/ SummarizeQuota \/ SummarizePolicies
    \/ ReportFails

Spec == Init /\ [][Next]_vars

----------------------------------------------------------------------------
TypeOK ==
    /\ EventsTypeOK
    /\ daily_limit \in DailyLimits /\ counted \in Nat
    /\ Checking \subseteq DOMAIN built /\ \A n \in Checking : held[n] \in Nat
    /\ doubtful \subseteq DOMAIN built
    /\ open \subseteq Stored /\ resolved \subseteq Stored /\ open \cap resolved = {}
    /\ policies \in Seq(Policy)

\* A report that shows room left for the day shows no more than what its tier grants:
\* the room and the events it shows make up the daily limit at most, without those
\* whose check overlapped another or came before a reset.  Checks that lose each
\* other's counts lose no others, and as an event is counted before it is stored,
\* and the events are read before the quota, nothing that is stored or counted
\* between the two reads tips the balance (generate_report, check_and_increment).
ReportOwesNothing ==
    report # NoReport /\ "daily_remaining" \in DOMAIN report =>
        \/ report.daily_remaining = 0
        \/ Cardinality(report.counted_events \ doubtful) + report.daily_remaining
               <= report.daily_limit

\* A severer request is answered with an action at least as strong, and with
\* none weaker than any active policy for its severity commands, whatever the
\* policies have been changed into (evaluate).
EvaluationIsMonotone ==
    \A s, t \in Severities : SeverityRank[s] <= SeverityRank[t] =>
        /\ ActionRank[Evaluate(s).action] <= ActionRank[Evaluate(t).action]
        /\ Evaluate(s).is_blocked => Evaluate(t).is_blocked
        /\ \A i \in Evaluate(s).matched :
               ActionRank[policies[i].action] <= ActionRank[Evaluate(t).action]

=============================================================================
