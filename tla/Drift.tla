------------------------------- MODULE Drift -------------------------------
(***************************************************************************)
(* Drift detection (services/drift) and the workflow that runs it          *)
(* (langgraph_workflows/drift_analysis): a baseline counts the events of   *)
(* an agent by type, an analysis compares the active baseline with the     *)
(* recent events.                                                          *)
(*                                                                         *)
(* Requests overlap at every await.  compute_baseline reads the events,    *)
(* then the active baselines, and then deactivates those it read and adds  *)
(* its own in one commit.  analyze reads the baseline before the events.   *)
(* An agent stands for a tenant_id with an agent_id.  Time is in hours, a  *)
(* request runs at the end of one; an event bears the timestamp its agent  *)
(* gave it, which may lie in a window that was counted before.             *)
(***************************************************************************)
EXTENDS Integers, FiniteSets, FiniteSetsExt

CONSTANTS
    Clients,        \* requests that can be under way at the same time
    Agents,
    Types,          \* event types
    Lookback,       \* the lookback_hours of every request
    LastHour,       \* bound: the hours that are explored
    MaxEvents,      \* bound: the events stored
    MaxCalls,       \* bound: the calls made
    None            \* no active baseline

ASSUME BoundsAssumption ==
    /\ Lookback \in Nat \ {0}
    /\ LastHour \in Nat /\ MaxEvents \in Nat /\ MaxCalls \in Nat

\* EventType is an enumeration.
ASSUME TypesAssumption == IsFiniteSet(Types)

\* Up to here the rounding of floats keeps scores apart (SeveritiesOf).
ASSUME PrecisionAssumption == MaxEvents <= 1000000 /\ Cardinality(Types) <= 100

Hours == 0 .. LastHour

\* event_counts: how many events of each type.
Counts == [Types -> Nat]

\* What an analysis sees of an event; `nth' numbers those that look alike.
Event == [agent : Agents, type : Types, timestamp : Hours, nth : 1 .. MaxEvents]

\* AgentBaseline; its total_events is the sum of its counts.
Baseline == [agent : Agents, event_counts : Counts, is_active : BOOLEAN]

ASSUME NoneAssumption == None \notin Counts \cup Agents \cup Baseline

Severities == {"none", "low", "medium", "high"}

VARIABLES
    clock,      \* the current hour
    events,     \* the table events
    baselines,  \* the table agent_baselines, by computed_at
    built,      \* the last computed_at given to a baseline
    job,        \* what each client's request does
    calls,      \* calls made so far
    watched,    \* the calls whose service has a sentinel service
    alerts,     \* the calls that raised a drift alert
    findings,   \* the calls that wrote a drift_detected entry of the audit trail
    overlapped  \* history: agents with two compute_baseline at the same time

trails == <<watched, alerts, findings>>
vars == <<clock, events, baselines, built, job, calls, trails, overlapped>>

Nodes == {"idle", "events", "active", "commit", "baseline", "recent", "alert",
          "finding", "ended", "failed"}

\* kind: compute_baseline, analyze by the route, or analyze by the workflow.
Job == [ node     : Nodes,
         kind     : {"compute", "analyze", "workflow"},
         agent    : Agents \cup {None},
         call     : 0 .. MaxCalls,      \* the number of an analysis
         since    : Int,
         counts   : Counts,             \* of the events it read
         old      : SUBSET (1 .. MaxCalls),
         at       : 0 .. MaxCalls,      \* computed_at
         baseline : Counts \cup {None},
         severity : Severities ]

NoCounts == [t \in Types |-> 0]

NewJob(kind, node, agent, call, since) ==
    [ node |-> node, kind |-> kind, agent |-> agent, call |-> call, since |-> since,
      counts |-> NoCounts, old |-> {}, at |-> 0, baseline |-> None,
      severity |-> "none" ]

NoJob == NewJob("analyze", "idle", None, 0, 0)

Init ==
    /\ clock = 0
    /\ events = {}
    /\ baselines = [i \in 1 .. MaxCalls |-> None]
    /\ built = 0
    /\ job = [c \in Clients |-> NoJob]
    /\ calls = 0
    /\ watched = {} /\ alerts = {} /\ findings = {}
    /\ overlapped = {}

----------------------------------------------------------------------------
\* The sum of the values f has on S.
Sum(f, S) == MapThenSumSet(LAMBDA t : f[t], S)

Total(counts) == Sum(counts, Types)

\* The events of the agent with a timestamp not before `since', by type.
CountEvents(agent, since) ==
    [t \in Types |-> Cardinality({e \in events : /\ e.agent = agent /\ e.type = t
                                                 /\ e.timestamp >= since})]

Absolute(n) == IF n < 0 THEN -n ELSE n

\* How far the shares of the types are apart, over Total(b) * Total(r).
Deltas(b, r) == [t \in Types |-> Absolute(b[t] * Total(r) - r[t] * Total(b))]

\* Variant: the types the baseline has not seen are left out.
DistanceOfSeen(b, r) == Sum(Deltas(b, r), {t \in Types : b[t] > 0})

\* _compute_tvd, as the numerator over 2 * Total(b) * Total(r).
Distance(b, r) == Sum(Deltas(b, r), Types)

\* Variant: full drift is critical, as alerts may be.
SeveritiesUpToCritical(b, r) ==
    {IF Total(b) * Total(r) > 0 /\ Distance(b, r) = 2 * Total(b) * Total(r)
     THEN "critical" ELSE "none"}

\* _score_to_severity of the score Distance / scale.  The code divides and adds
\* floats: the sum is off by less than 1E-13, and by PrecisionAssumption a score
\* that is not a threshold is farther from it than that.  One that is may come out
\* below it (7 and 3 events against 1 and 1: 0.19999999999999998, not 0.2).
SeveritiesOf(b, r) ==
    LET scale == 2 * Total(b) * Total(r)
        Reaches(n, below) ==
            \/ 10 * Distance(b, r) > n * scale
            \/ 10 * Distance(b, r) = n * scale /\ ~below
        Label(below) == IF Reaches(6, below) THEN "high"
                        ELSE IF Reaches(4, below) THEN "medium"
                        ELSE IF Reaches(2, below) THEN "low"
                        ELSE "none"
    IN  IF scale = 0 THEN {"none"} ELSE {Label(below) : below \in BOOLEAN}

Existing == {i \in DOMAIN baselines : baselines[i] # None}

Active(agent) == {i \in Existing : baselines[i].agent = agent /\ baselines[i].is_active}

----------------------------------------------------------------------------
\* The first hour of the window.
Since == clock - Lookback + 1

\* Ingestion stores an event (module Ingestion).
StoreEvent(agent, type, hour) ==
    /\ hour <= clock
    /\ Cardinality(events) < MaxEvents
    /\ LET alike == {e \in events : /\ e.agent = agent /\ e.type = type
                                    /\ e.timestamp = hour}
       IN  events' = events \cup {[agent |-> agent, type |-> type, timestamp |-> hour,
                                   nth |-> Cardinality(alike) + 1]}
    /\ UNCHANGED <<clock, baselines, built, job, calls, trails, overlapped>>

NextHour ==
    /\ clock < LastHour
    /\ clock' = clock + 1
    /\ UNCHANGED <<events, baselines, built, job, calls, trails, overlapped>>

Start(c, new) ==
    /\ job[c].node \in {"idle", "ended", "failed"}
    /\ calls < MaxCalls
    /\ calls' = calls + 1
    /\ job' = [job EXCEPT ![c] = new]
    /\ UNCHANGED <<clock, events, baselines, built, alerts, findings>>

Computing(agent) ==
    {c \in Clients : job[c].agent = agent /\ job[c].node \in {"events", "active", "commit"}}

StartCompute(c, agent) ==
    /\ Start(c, NewJob("compute", "events", agent, 0, Since))
    /\ overlapped' = IF Computing(agent) = {} THEN overlapped ELSE overlapped \cup {agent}
    /\ UNCHANGED watched

\* The service of the route has no sentinel service (deps.py); that of the workflow
\* may have one or not.
StartAnalyze(c, agent, kind) ==
    /\ Start(c, NewJob(kind, "baseline", agent, calls + 1, 0))
    /\ \/ UNCHANGED watched
       \/ kind = "workflow" /\ watched' = watched \cup {calls + 1}
    /\ UNCHANGED overlapped

\* The request is over and what it read is dropped.
End(c, node) == job' = [job EXCEPT ![c] = [NoJob EXCEPT !.node = node]]

Goto(c, new, node) == job' = [job EXCEPT ![c] = [new EXCEPT !.node = node]]

\* compute_baseline: SELECT and count the events.
ReadEvents(c) ==
    /\ job[c].node = "events"
    /\ Goto(c, [job[c] EXCEPT !.counts = CountEvents(job[c].agent, job[c].since)], "active")
    /\ UNCHANGED <<clock, events, baselines, built, calls, trails, overlapped>>

\* SELECT the active baselines, deactivate them in the session and build one.
ReadActive(c) ==
    /\ job[c].node = "active"
    /\ built' = built + 1
    /\ Goto(c, [job[c] EXCEPT !.old = Active(job[c].agent), !.at = built + 1], "commit")
    /\ UNCHANGED <<clock, events, baselines, calls, trails, overlapped>>

\* Variant: the old baselines stay active.
ReplaceNone(c) ==
    [baselines EXCEPT ![job[c].at] =
        [agent |-> job[c].agent, event_counts |-> job[c].counts, is_active |-> TRUE]]

\* The rows after the commit of compute_baseline.
Replace(c) ==
    [i \in DOMAIN baselines |->
        IF i = job[c].at
        THEN [agent |-> job[c].agent, event_counts |-> job[c].counts, is_active |-> TRUE]
        ELSE IF i \in job[c].old THEN [baselines[i] EXCEPT !.is_active = FALSE]
        ELSE baselines[i]]

\* The commit may land although the call raises.
CommitBaseline(c) ==
    /\ job[c].node = "commit"
    /\ baselines' = Replace(c)
    /\ \E node \in {"ended", "failed"} : End(c, node)
    /\ UNCHANGED <<clock, events, built, calls, trails, overlapped>>

\* deactivate_baseline writes is_active = FALSE whatever it read.
Deactivate(i) ==
    /\ baselines[i].is_active
    /\ baselines' = [baselines EXCEPT ![i].is_active = FALSE]
    /\ UNCHANGED <<clock, events, built, job, calls, trails, overlapped>>

\* analyze: _get_active_baseline, the newest; the window of the events starts
\* then.
ReadBaseline(c) ==
    LET active == Active(job[c].agent)
        Load(baseline) ==
            Goto(c, [job[c] EXCEPT !.baseline = baseline, !.since = Since], "recent")
    IN  /\ job[c].node = "baseline"
        /\ \/ active = {} /\ Load(None)
           \/ \E i \in active : /\ \A j \in active : j <= i
                                /\ Load(baselines[i].event_counts)
        /\ UNCHANGED <<clock, events, baselines, built, calls, trails, overlapped>>

\* Count the recent events and score them.  A drift is alerted if the service has a
\* sentinel service, and goes to record_finding by its severity alone.
ReadRecent(c) ==
    LET recent == CountEvents(job[c].agent, job[c].since)
        scored == IF job[c].baseline = None THEN {"none"}
                  ELSE SeveritiesOf(job[c].baseline, recent)
        After(severity) ==
            IF severity \notin {"medium", "high"} THEN "ended"
            ELSE IF job[c].call \in watched THEN "alert"
            ELSE IF job[c].kind = "workflow" THEN "finding"
            ELSE "ended"
    IN  /\ job[c].node = "recent"
        /\ \E severity \in scored :
               Goto(c, [job[c] EXCEPT !.counts = recent, !.severity = severity],
                    After(severity))
        /\ UNCHANGED <<clock, events, baselines, built, calls, trails, overlapped>>

\* create_alert, whose commit may land although it raises: the workflow's error
\* then keeps the finding from being recorded.
RaiseAlert(c) ==
    /\ job[c].node = "alert"
    /\ alerts' = alerts \cup {job[c].call}
    /\ \/ Goto(c, job[c], "finding")
       \/ End(c, "failed")
    /\ UNCHANGED <<clock, events, baselines, built, calls, watched, findings, overlapped>>

\* record_finding, with an audit service or without one.
RecordFinding(c) ==
    /\ job[c].node = "finding"
    /\ \/ /\ findings' = findings \cup {job[c].call}
          /\ \E node \in {"ended", "failed"} : End(c, node)
       \/ UNCHANGED findings /\ End(c, "ended")
    /\ UNCHANGED <<clock, events, baselines, built, calls, watched, alerts, overlapped>>

\* Variant: a failed alert does not keep the finding from being recorded.
FailGoesOn(c) ==
    /\ job[c].node \notin {"idle", "ended", "failed"}
    /\ IF job[c].node = "alert" THEN Goto(c, job[c], "finding") ELSE End(c, "failed")
    /\ UNCHANGED <<clock, events, baselines, built, calls, trails, overlapped>>

\* The statement raises, or the process stops, and nothing is written.
Fail(c) ==
    /\ job[c].node \notin {"idle", "ended", "failed"}
    /\ End(c, "failed")
    /\ UNCHANGED <<clock, events, baselines, built, calls, trails, overlapped>>

Step(c) ==
    \/ ReadEvents(c) \/ ReadActive(c) \/ CommitBaseline(c)
    \/ ReadBaseline(c) \/ ReadRecent(c) \/ RaiseAlert(c) \/ RecordFinding(c)
    \/ Fail(c)

Next ==
    \/ \E g \in Agents, t \in Types, h \in Hours : StoreEvent(g, t, h)
    \/ NextHour
    \/ \E i \in Existing : Deactivate(i)
    \/ \E c \in Clients :
           \/ \E g \in Agents :
                  \/ StartCompute(c, g)
                  \/ \E kind \in {"analyze", "workflow"} : StartAnalyze(c, g, kind)
           \/ Step(c)

Spec == Init /\ [][Next]_vars

----------------------------------------------------------------------------
TypeOK ==
    /\ clock \in Hours
    /\ events \subseteq Event /\ Cardinality(events) <= MaxEvents
    /\ baselines \in [1 .. MaxCalls -> Baseline \cup {None}]
    /\ built \in 0 .. MaxCalls
    /\ job \in [Clients -> Job]
    /\ calls \in 0 .. MaxCalls
    /\ watched \subseteq 1 .. calls
    /\ alerts \subseteq 1 .. calls /\ findings \subseteq 1 .. calls
    /\ overlapped \subseteq Agents

\* An agent whose baselines were computed one after the other has at most one
\* active baseline, whatever fails, half-succeeds or is deactivated meanwhile
\* (compute_baseline).
OneActiveWithoutOverlap ==
    \A g \in Agents \ overlapped : Cardinality(Active(g)) <= 1

\* The largest difference of the shares that a set of types has in b and in r,
\* over Total(b) * Total(r): the definition of the total variation distance.
Variation(b, r) ==
    Max({Sum(b, S) * Total(r) - Sum(r, S) * Total(b) : S \in SUBSET Types})

\* The severity an analysis arrives at is that of the total variation distance
\* between the baseline and the recent events, by the thresholds 0.6, 0.4 and 0.2:
\* it is the higher one above a threshold, the lower one below it, and either at it,
\* where the floats decide (_compute_tvd, _score_to_severity).
SeverityIsOfVariation ==
    \A c \in Clients :
        job[c].node \in {"alert", "finding", "ended"} /\ job[c].baseline # None =>
            LET b == job[c].baseline
                r == job[c].counts
                product == Total(b) * Total(r)
                Above(n) == product > 0 /\ 10 * Variation(b, r) > n * product
                AtLeast(n) == product > 0 /\ 10 * Variation(b, r) >= n * product
                Separates(n, labels) == /\ Above(n) => job[c].severity \in labels
                                        /\ job[c].severity \in labels => AtLeast(n)
            IN  /\ Separates(6, {"high"})
                /\ Separates(4, {"high", "medium"})
                /\ Separates(2, {"high", "medium", "low"})

\* Where a sentinel watches, the audit trail tells of no drift that its own analysis
\* did not alert, whatever fails or half-succeeds; where none does, the entry is all
\* there is (analyze, _route_after_analysis, record_finding).
FindingsWereAlerted == findings \cap watched \subseteq alerts

=============================================================================
