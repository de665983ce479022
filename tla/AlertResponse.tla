--------------------------- MODULE AlertResponse ---------------------------
(***************************************************************************)
(* Who resolves a sentinel alert (services/sentinel) and what the audit    *)
(* trail (services/audit) says of it: the automated response workflow      *)
(* (langgraph_workflows/sentinels), the human review workflow              *)
(* (langgraph_workflows/human_review) and the route POST .../resolve.      *)
(*                                                                         *)
(* A run is one invocation of a workflow or of the route.  Runs overlap:   *)
(* every node awaits the database, resolve_alert reads the alert before it *)
(* commits, and a resolved alert may be resolved again.  Any statement can *)
(* raise, before or after its effect, and the nodes turn exceptions into   *)
(* routing.  All alerts and policies are those of one tenant.              *)
(***************************************************************************)
EXTENDS Naturals, Sequences, FiniteSets

CONSTANTS
    Workers,        \* runs that can be under way at the same time
    AlertIds,
    SentinelTypes,
    TypeOf,         \* the sentinel_type of an alert
    PolicyActions,  \* the InterventionActions that policies command
    OperatorActions,\* the InterventionActions that the resolve route is sent
    MaxPolicies,    \* bound: policies created
    MaxRuns,        \* bound: runs started
    None            \* no row, no action

ASSUME AlertAssumption == TypeOf \in [AlertIds -> SentinelTypes]
ASSUME BoundsAssumption == MaxPolicies \in Nat /\ MaxRuns \in Nat

Decisions == {"approve", "reject", "escalate", "other"}

\* action_map, and the default of its get.
ActionOf == [ approve  |-> "allow",
              reject   |-> "block_tool_call",
              escalate |-> "request_human_review",
              other    |-> "warn" ]

Actions == PolicyActions \cup OperatorActions \cup {ActionOf[d] : d \in Decisions}

\* The columns of SentinelAlert that change.
AlertRow == [is_resolved : BOOLEAN, action_taken : Actions \cup {None}]
NewAlert == [is_resolved |-> FALSE, action_taken |-> None]

ASSUME NoneAssumption == None \notin Actions \cup Decisions \cup AlertRow

Policy == [sentinel_type : SentinelTypes, action : PolicyActions, is_active : BOOLEAN]

Entry == [ action       : {"human_review_requested", "human_review_completed",
                           "sentinel_response_applied"},
           resource_id  : AlertIds,
           action_taken : Actions \cup {None},
           resolved     : BOOLEAN ]

Nodes == {"idle", "load_alert", "find_policy", "request_review",
          "resolve", "commit", "record_outcome", "record_completed", "ended", "stopped"}

Idle == {"idle", "ended", "stopped"}

VARIABLES
    alerts,     \* the table sentinel_alerts
    policies,   \* the policies, in the order they were created
    trail,      \* the audit trail
    run,        \* what each worker runs: its node and its workflow state
    runs,       \* runs started so far
    applied,    \* history: the actions committed for an alert
    commanded   \* history: the actions policies commanded for a sentinel type

history == <<applied, commanded>>
vars == <<alerts, policies, trail, run, runs, history>>

Run == [ node     : Nodes,
         kind     : {"response", "review", "route"},
         alert    : AlertIds \cup {None},
         decision : Decisions \cup {None},
         taken    : Actions \cup {None},
         loaded   : AlertRow,
         resolved : BOOLEAN ]

\* The state a run starts with.
NewRun(kind, node, a, decision, action) ==
    [ node |-> node, kind |-> kind, alert |-> a, decision |-> decision,
      taken |-> action, loaded |-> NewAlert, resolved |-> FALSE ]

Init ==
    /\ alerts = [a \in AlertIds |-> None]
    /\ policies = <<>>
    /\ trail = <<>>
    /\ run = [w \in Workers |-> NewRun("route", "idle", None, None, None)]
    /\ runs = 0
    /\ applied = [a \in AlertIds |-> {}]
    /\ commanded = [type \in SentinelTypes |-> {}]

----------------------------------------------------------------------------
CreateAlert(a) ==
    /\ alerts[a] = None
    /\ alerts' = [alerts EXCEPT ![a] = NewAlert]
    /\ UNCHANGED <<policies, trail, run, runs, history>>

CreatePolicy(type, action) ==
    /\ Len(policies) < MaxPolicies
    /\ policies' = Append(policies, [sentinel_type |-> type, action |-> action,
                                     is_active |-> TRUE])
    /\ commanded' = [commanded EXCEPT ![type] = @ \cup {action}]
    /\ UNCHANGED <<alerts, trail, run, runs, applied>>

\* It writes is_active = FALSE whatever it read.
DeactivatePolicy(i) ==
    /\ policies[i].is_active
    /\ policies' = [policies EXCEPT ![i].is_active = FALSE]
    /\ UNCHANGED <<alerts, trail, run, runs, history>>

\* update_policy of services/policy sets the columns it is sent, and may activate
\* a policy again; the sentinel_type stays.
UpdatePolicy(i, action, active) ==
    /\ policies' = [policies EXCEPT ![i].action = action, ![i].is_active = active]
    /\ commanded' = [commanded EXCEPT ![policies[i].sentinel_type] = @ \cup {action}]
    /\ UNCHANGED <<alerts, trail, run, runs, applied>>

----------------------------------------------------------------------------
Start(w, kind, node, a, decision, action) ==
    /\ run[w].node \in Idle
    /\ runs < MaxRuns
    /\ runs' = runs + 1
    /\ run' = [run EXCEPT ![w] = NewRun(kind, node, a, decision, action)]
    /\ UNCHANGED <<alerts, policies, trail, history>>

StartResponse(w, a) == Start(w, "response", "load_alert", a, None, None)

\* A review without a decision ends when it has been requested; the decision
\* comes with another invocation.
StartReview(w, a, decision) == Start(w, "review", "load_alert", a, decision, None)

StartRoute(w, a, action) == Start(w, "route", "resolve", a, None, action)

\* The run goes to a node, with an update of its state.
Goto(w, state, node) == run' = [run EXCEPT ![w] = [state EXCEPT !.node = node]]

LoadAlert(w) ==
    /\ run[w].node = "load_alert"
    /\ alerts[run[w].alert] # None
    /\ Goto(w, run[w], IF run[w].kind = "response" THEN "find_policy"
                                                   ELSE "request_review")
    /\ UNCHANGED <<alerts, policies, trail, runs, history>>

\* NotFoundError, or the statement raised.
LoadFails(w) ==
    /\ run[w].node = "load_alert"
    /\ Goto(w, run[w], "ended")
    /\ UNCHANGED <<alerts, policies, trail, runs, history>>

\* Variant: every active policy matches.
MatchingAnyType(a) == {i \in DOMAIN policies : policies[i].is_active}

\* list_policies, filtered by the type of the alert.
Matching(a) ==
    {i \in DOMAIN policies :
        policies[i].is_active /\ policies[i].sentinel_type = TypeOf[a]}

\* The newest policy's action, or none.
FindPolicy(w) ==
    LET matching == Matching(run[w].alert)
    IN  /\ run[w].node = "find_policy"
        /\ \/ matching = {} /\ Goto(w, [run[w] EXCEPT !.taken = None], "resolve")
           \/ \E i \in matching :
                  /\ \A j \in matching : j <= i
                  /\ Goto(w, [run[w] EXCEPT !.taken = policies[i].action], "resolve")
        /\ UNCHANGED <<alerts, policies, trail, runs, history>>

FindFails(w) ==
    /\ run[w].node = "find_policy"
    /\ Goto(w, run[w], "resolve")
    /\ UNCHANGED <<alerts, policies, trail, runs, history>>

\* An audit entry about the alert of a run.
EntryOf(w, action) ==
    [ action |-> action, resource_id |-> run[w].alert,
      action_taken |-> run[w].taken, resolved |-> run[w].resolved ]

\* The state after a failed record: record_decision returns resolved = False,
\* record_outcome leaves it as it is.
Unrecorded(w) ==
    [run[w] EXCEPT !.resolved = @ /\ run[w].kind = "response"]

\* Variant: a failed request does not end the review.
RecordGoesOn(w, action, state, next) ==
    /\ \/ trail' = Append(trail, EntryOf(w, action))
       \/ UNCHANGED trail
    /\ Goto(w, state, next)
    /\ UNCHANGED <<alerts, policies, runs, history>>

\* The entry is committed; it may land although the call raises.
Record(w, action, state, next) ==
    /\ trail' = Append(trail, EntryOf(w, action))
    /\ \/ Goto(w, state, next)
       \/ Goto(w, Unrecorded(w), "ended")
    /\ UNCHANGED <<alerts, policies, runs, history>>

\* request_review; a decision in the state is recorded next.
RequestReview(w) ==
    LET decided == run[w].decision # None
    IN  /\ run[w].node = "request_review"
        /\ Record(w, "human_review_requested",
                  [run[w] EXCEPT !.taken =
                       IF decided THEN ActionOf[run[w].decision] ELSE None],
                  IF decided THEN "resolve" ELSE "ended")

\* resolve_alert, up to its commit.
ReadAlert(w) ==
    /\ run[w].node = "resolve"
    /\ alerts[run[w].alert] # None
    /\ Goto(w, [run[w] EXCEPT !.loaded = alerts[run[w].alert]], "commit")
    /\ UNCHANGED <<alerts, policies, trail, runs, history>>

\* Where a run goes when resolve_alert returns, and when it raises.
AfterSuccess(kind) ==
    CASE kind = "response" -> "record_outcome"
      [] kind = "review" -> "record_completed"
      [] OTHER -> "ended"

AfterFailure(kind) == IF kind = "response" THEN "record_outcome" ELSE "ended"

\* Variant: resolved is set before the commit.
ResolveFailsResolved(w) ==
    /\ run[w].node \in {"resolve", "commit"}
    /\ Goto(w, [run[w] EXCEPT !.resolved = TRUE],
            AfterFailure(run[w].kind))
    /\ UNCHANGED <<alerts, policies, trail, runs, history>>

\* NotFoundError, or a statement raised and nothing was written.
ResolveFails(w) ==
    /\ run[w].node \in {"resolve", "commit"}
    /\ Goto(w, run[w], AfterFailure(run[w].kind))
    /\ UNCHANGED <<alerts, policies, trail, runs, history>>

\* Variant: there is no default action.
PolicyActionOnly(w) == run[w].taken

\* resolve_with_default resolves with warn.
ActionToTake(w) == IF run[w].taken = None THEN "warn" ELSE run[w].taken

\* COMMIT: the UPDATE sets action_taken when its value differs from the loaded
\* one.  It may land although the call raises.
Commit(w) ==
    LET a == run[w].alert
        new == ActionToTake(w)
    IN  /\ run[w].node = "commit"
        /\ alerts' = [alerts EXCEPT
               ![a].is_resolved = TRUE,
               ![a].action_taken = IF new # run[w].loaded.action_taken THEN new ELSE @]
        /\ applied' = [applied EXCEPT ![a] = @ \cup {new}]
        /\ \/ Goto(w, [run[w] EXCEPT !.resolved = TRUE, !.taken = new],
                   AfterSuccess(run[w].kind))
           \/ Goto(w, run[w], AfterFailure(run[w].kind))
        /\ UNCHANGED <<policies, trail, runs, commanded>>

RecordOutcome(w) ==
    /\ run[w].node = "record_outcome"
    /\ Record(w, "sentinel_response_applied", run[w], "ended")

RecordCompleted(w) ==
    /\ run[w].node = "record_completed"
    /\ Record(w, "human_review_completed", run[w], "ended")

\* Variant: the response starts over until its outcome is recorded.
RecordFailsAgain(w) ==
    /\ run[w].node \in {"request_review", "record_outcome", "record_completed"}
    /\ Goto(w, Unrecorded(w), IF run[w].kind = "response" THEN "find_policy" ELSE "ended")
    /\ UNCHANGED <<alerts, policies, trail, runs, history>>

\* The entry is not written, and the node returns the error.
RecordFails(w) ==
    /\ run[w].node \in {"request_review", "record_outcome", "record_completed"}
    /\ Goto(w, Unrecorded(w), "ended")
    /\ UNCHANGED <<alerts, policies, trail, runs, history>>

\* The process stops, or the caller goes away, between two statements.
Stop(w) ==
    /\ run[w].node \notin Idle
    /\ Goto(w, run[w], "stopped")
    /\ UNCHANGED <<alerts, policies, trail, runs, history>>

Step(w) ==
    \/ LoadAlert(w) \/ LoadFails(w) \/ FindPolicy(w) \/ FindFails(w)
    \/ RequestReview(w) \/ ReadAlert(w) \/ ResolveFails(w) \/ Commit(w)
    \/ RecordOutcome(w) \/ RecordCompleted(w) \/ RecordFails(w)

Next ==
    \/ \E a \in AlertIds : CreateAlert(a)
    \/ \E type \in SentinelTypes, action \in PolicyActions : CreatePolicy(type, action)
    \/ \E i \in DOMAIN policies :
           \/ DeactivatePolicy(i)
           \/ \E action \in PolicyActions, active \in BOOLEAN : UpdatePolicy(i, action, active)
    \/ \E w \in Workers :
           \/ \E a \in AlertIds :
                  \/ StartResponse(w, a)
                  \/ \E decision \in Decisions \cup {None} : StartReview(w, a, decision)
                  \/ \E action \in OperatorActions : StartRoute(w, a, action)
           \/ Step(w)
           \/ Stop(w)

\* A run goes on whenever its statement completes or raises.
Spec == Init /\ [][Next]_vars /\ \A w \in Workers : WF_vars(Step(w))

----------------------------------------------------------------------------
TypeOK ==
    /\ alerts \in [AlertIds -> AlertRow \cup {None}]
    /\ policies \in Seq(Policy) /\ Len(policies) <= MaxPolicies
    /\ trail \in Seq(Entry)
    /\ run \in [Workers -> Run]
    /\ runs \in 0 .. MaxRuns
    /\ applied \in [AlertIds -> SUBSET Actions]
    /\ commanded \in [SentinelTypes -> SUBSET PolicyActions]

\* The trail never says more than what happened: an entry that says an alert was
\* resolved names an action that was committed for it, although resolving and
\* recording are two commits and other runs resolve the alert in between
\* (record_decision, record_outcome).
TrailIsTrue ==
    \A i \in DOMAIN trail :
        trail[i].resolved => trail[i].action_taken \in applied[trail[i].resource_id]

\* However policies come, change and go, the automated response applies warn or
\* what a policy for the alert's own sentinel type commanded once (find_policy).
ResponseFollowsPolicy ==
    \A i \in DOMAIN trail :
        /\ trail[i].action = "sentinel_response_applied"
        /\ trail[i].resolved
        => trail[i].action_taken \in {"warn"} \cup commanded[TypeOf[trail[i].resource_id]]

Entries(a, action) ==
    {i \in DOMAIN trail : trail[i].resource_id = a /\ trail[i].action = action}

\* No decision is on record without a review of its own on record: the decisions
\* recorded for an alert never outnumber the reviews requested for it, whatever
\* fails between the two (_route_after_request).
DecisionsWereRequested ==
    \A a \in AlertIds :
        Cardinality(Entries(a, "human_review_completed"))
            <= Cardinality(Entries(a, "human_review_requested"))

\* Every run ends, whatever fails in it.
EveryRunEnds ==
    \A w \in Workers : run[w].node \notin Idle ~> run[w].node \in Idle

\* A response that ran to its end and has resolved its alert has left an entry
\* about it ("so we always audit what happened").
ResponseIsAudited ==
    \A w \in Workers :
        run[w].kind = "response" /\ run[w].node = "ended" /\ run[w].resolved
        => \E i \in Entries(run[w].alert, "sentinel_response_applied") :
               trail[i].action_taken = run[w].taken

=============================================================================
