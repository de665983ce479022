----------------------------- MODULE Ingestion -----------------------------
(***************************************************************************)
(* The ingestion service (services/ingestion) with the SDK client that     *)
(* calls it (sdk/python/dox_sdk/client.py) and the quota service that it   *)
(* calls (module Quota).                                                   *)
(*                                                                         *)
(* A request carries a batch; POST /v1/events is the batch of one event,   *)
(* whose steps are the same.  The request checks the quota of each event,  *)
(* each check with its commit, stores all records in one commit, publishes *)
(* the events one by one and raises their alerts one by one.  Any of these *)
(* steps can fail, with or without its effect, and the steps before it     *)
(* stay done.  The client gives up after its timeout while the request     *)
(* goes on, and an application may send the same events again.             *)
(***************************************************************************)
EXTENDS Integers, Sequences, FiniteSets

CONSTANTS
    Requests,       \* requests that can be in flight at the same time
    Events,         \* event_ids
    TenantOf,       \* the tenant_id of an event
    Triggering,     \* the events whose type is in _TRIGGER_MAP
    Batches,        \* what an application sends
    MaxBatch,       \* BatchIngestRequest.events: max_length
    MaxRequests     \* bound: the requests received in a behaviour

\* The constants of Quota; its clients are the requests.
CONSTANTS Tenants, Tiers, Starter, DailyLimit, MonthlyLimit, LastDay,
          MonthStart, MaxCalls, NoRow

ASSUME EventAssumption ==
    /\ TenantOf \in [Events -> Tenants]
    /\ Triggering \subseteq Events
    /\ Batches \subseteq Seq(Events) \ {<<>>}
    /\ MaxBatch \in Nat \ {0} /\ MaxRequests \in Nat
    /\ MaxCalls >= MaxRequests * MaxBatch

VARIABLES
    stage,      \* where a request is, or how it was answered
    batch,      \* the events of a request
    next,       \* the position the request's current loop is at
    result,     \* what the client's emit or emit_batch returned
    stored,     \* the table events
    published,  \* how often an event was published to the bus
    alerts,     \* how many alerts an event raised
    received    \* requests received so far

\* The variables of Quota.
VARIABLES clock, quota, pc, call, loaded, object, calls,
          granted, admitted, admittedInMonth

Q == INSTANCE Quota WITH Clients <- Requests,
                         Operations <- {"check_and_increment"}

\* What Quota assumes of its constants.
ASSUME QuotaAssumption ==
    /\ LastDay \in Nat /\ MaxCalls \in Nat
    /\ Starter \in Tiers
    /\ DailyLimit \in [Tiers -> Nat \ {0}] /\ MonthlyLimit \in [Tiers -> Nat \ {0}]
    /\ MonthStart \in [Q!Days -> Q!Days]
    /\ NoRow \notin Q!Row \cup Tiers

\* What the theorems about Quota assume besides: no two tiers share a limit, and
\* months are made of days in order.
ASSUME QuotaTheoremsAssumption ==
    /\ \A s, t \in Tiers : s # t => /\ DailyLimit[s] # DailyLimit[t]
                                    /\ MonthlyLimit[s] # MonthlyLimit[t]
    /\ \A d \in Q!Days : /\ MonthStart[d] <= d
                         /\ MonthStart[MonthStart[d]] = MonthStart[d]
    /\ \A d, e \in Q!Days : d <= e => MonthStart[d] <= MonthStart[e]

server == <<stage, batch, next, received>>
effects == <<stored, published, alerts>>
quotaVars == <<clock, quota, pc, call, loaded, object, calls,
               granted, admitted, admittedInMonth>>
vars == <<server, result, effects, quotaVars>>

Working == {"check", "checking", "store", "publish", "alert"}
\* The answers: 202, 429 for QuotaExceededError, 422, and 500 for the rest.
Answered == {"accepted", "refused", "invalid", "error"}

Init ==
    /\ Q!Init
    /\ stage = [r \in Requests |-> "idle"]
    /\ batch = [r \in Requests |-> <<>>]
    /\ next = [r \in Requests |-> 1]
    /\ result = [r \in Requests |-> "none"]
    /\ stored = {}
    /\ published = [e \in Events |-> 0]
    /\ alerts = [e \in Events |-> 0]
    /\ received = 0

----------------------------------------------------------------------------
\* The event the request's loop is at, and the ids of its batch.
Current(r) == batch[r][next[r]]
Ids(s) == {s[i] : i \in DOMAIN s}

\* Variant: the position is not reset for the loop that follows.
AdvanceKeepsPosition(r, here, after) ==
    /\ stage' = [stage EXCEPT ![r] = IF next[r] < Len(batch[r]) THEN here ELSE after]
    /\ next' = [next EXCEPT ![r] = @ + 1]

\* Variant: the loop leaves out the last event of a longer batch.
AdvanceStopsShort(r, here, after) ==
    IF next[r] + 1 < Len(batch[r])
    THEN /\ stage' = [stage EXCEPT ![r] = here]
         /\ next' = [next EXCEPT ![r] = @ + 1]
    ELSE /\ stage' = [stage EXCEPT ![r] = after]
         /\ next' = [next EXCEPT ![r] = 1]

\* Go on to the next event of the loop, or to the next loop after the last.
Advance(r, here, after) ==
    IF next[r] < Len(batch[r])
    THEN /\ stage' = [stage EXCEPT ![r] = here]
         /\ next' = [next EXCEPT ![r] = @ + 1]
    ELSE /\ stage' = [stage EXCEPT ![r] = after]
         /\ next' = [next EXCEPT ![r] = 1]

Answer(r, a) ==
    /\ stage' = [stage EXCEPT ![r] = a]
    /\ UNCHANGED <<batch, next, received>>

\* DoxClient.emit or emit_batch posts a batch.
Emit(r, events) ==
    /\ stage[r] \in {"idle"} \cup Answered
    /\ result[r] # "waiting"
    /\ received < MaxRequests
    /\ received' = received + 1
    /\ batch' = [batch EXCEPT ![r] = events]
    /\ next' = [next EXCEPT ![r] = 1]
    /\ stage' = [stage EXCEPT ![r] =
           IF Len(events) <= MaxBatch THEN "check" ELSE "invalid"]
    /\ result' = [result EXCEPT ![r] = "waiting"]
    /\ UNCHANGED <<effects, quotaVars>>

\* _check_quota calls check_and_increment for the tenant of the current event.
CheckQuota(r) ==
    /\ stage[r] = "check"
    /\ Q!Call(r, [op |-> "check_and_increment", tenant |-> TenantOf[Current(r)],
                  tier |-> Starter, day |-> clock])
    /\ stage' = [stage EXCEPT ![r] = "checking"]
    /\ UNCHANGED <<batch, next, received, result, effects>>

\* Variant: one check for the whole batch.
CheckPassedOnce(r) ==
    /\ stage[r] = "checking" /\ pc[r] = "ok"
    /\ stage' = [stage EXCEPT ![r] = "store"]
    /\ next' = [next EXCEPT ![r] = 1]
    /\ UNCHANGED <<batch, received, result, effects, quotaVars>>

CheckPassed(r) ==
    /\ stage[r] = "checking" /\ pc[r] = "ok"
    /\ Advance(r, "check", "store")
    /\ UNCHANGED <<batch, received, result, effects, quotaVars>>

\* Variant: only QuotaExceededError is turned into an answer.
CheckRaisedQuotaOnly(r) ==
    /\ stage[r] = "checking" /\ pc[r] = "refused"
    /\ Answer(r, "refused")
    /\ UNCHANGED <<result, effects, quotaVars>>

\* QuotaExceededError, or any other exception, ends the request.
CheckRaised(r) ==
    /\ stage[r] = "checking" /\ pc[r] \in {"refused", "error"}
    /\ Answer(r, pc[r])
    /\ UNCHANGED <<result, effects, quotaVars>>

\* Variant: event_id is not unique in the table.
StoreAgain(r) ==
    /\ stage[r] = "store"
    /\ stored' = stored \cup Ids(batch[r])
    /\ \E outcome \in {"publish", "error"} : Answer(r, outcome)
    /\ UNCHANGED <<result, published, alerts, quotaVars>>

\* Add every record and commit.  The commit may land although its
\* acknowledgement is lost.
Store(r) ==
    /\ stage[r] = "store"
    /\ Cardinality(Ids(batch[r])) = Len(batch[r])
    /\ Ids(batch[r]) \cap stored = {}
    /\ stored' = stored \cup Ids(batch[r])
    /\ \E outcome \in {"publish", "error"} : Answer(r, outcome)
    /\ UNCHANGED <<result, published, alerts, quotaVars>>

\* event_id is unique: the flush of a known or repeated id raises IntegrityError.
StoreConflict(r) ==
    /\ stage[r] = "store"
    /\ \/ Cardinality(Ids(batch[r])) < Len(batch[r])
       \/ Ids(batch[r]) \cap stored # {}
    /\ Answer(r, "error")
    /\ UNCHANGED <<result, effects, quotaVars>>

Publish(r) ==
    /\ stage[r] = "publish"
    /\ published' = [published EXCEPT ![Current(r)] = @ + 1]
    /\ \/ Advance(r, "publish", "alert") /\ UNCHANGED <<batch, received>>
       \/ Answer(r, "error")
    /\ UNCHANGED <<result, stored, alerts, quotaVars>>

\* _run_sentinel creates and commits an alert when the event's type has a trigger.
RaiseAlert(r) ==
    /\ stage[r] = "alert" /\ Current(r) \in Triggering
    /\ alerts' = [alerts EXCEPT ![Current(r)] = @ + 1]
    /\ \/ Advance(r, "alert", "accepted") /\ UNCHANGED <<batch, received>>
       \/ Answer(r, "error")
    /\ UNCHANGED <<result, stored, published, quotaVars>>

NoAlert(r) ==
    /\ stage[r] = "alert" /\ Current(r) \notin Triggering
    /\ Advance(r, "alert", "accepted")
    /\ UNCHANGED <<batch, received, result, effects, quotaVars>>

\* The statement or the publish that is awaited fails without its effect.
Fail(r) ==
    /\ stage[r] \in {"store", "publish", "alert"}
    /\ Answer(r, "error")
    /\ UNCHANGED <<result, effects, quotaVars>>

\* The client reads the response.
Respond(r) ==
    /\ stage[r] \in Answered /\ result[r] = "waiting"
    /\ result' = [result EXCEPT ![r] =
           IF stage[r] = "accepted" THEN "success" ELSE "failure"]
    /\ UNCHANGED <<server, effects, quotaVars>>

\* The client's timeout passes, or its connection breaks: emit swallows the
\* exception.
ClientGivesUp(r) ==
    /\ result[r] = "waiting"
    /\ result' = [result EXCEPT ![r] = "failure"]
    /\ UNCHANGED <<server, effects, quotaVars>>

QuotaStep(r) ==
    /\ Q!Step(r) \/ Q!Abort(r)
    /\ UNCHANGED <<server, result, effects>>

NewDay == Q!Midnight /\ UNCHANGED <<server, result, effects>>

Work(r) ==
    \/ CheckQuota(r) \/ CheckPassed(r) \/ CheckRaised(r) \/ QuotaStep(r)
    \/ Store(r) \/ StoreConflict(r) \/ Publish(r) \/ RaiseAlert(r) \/ NoAlert(r)
    \/ Fail(r)

Next ==
    \/ \E r \in Requests : \/ \E events \in Batches : Emit(r, events)
                           \/ Work(r)
                           \/ Respond(r) \/ ClientGivesUp(r)
    \/ NewDay

\* A request's coroutine is scheduled again whenever its await completes, and
\* every await completes or raises.
Fairness == \A r \in Requests : WF_vars(Work(r)) /\ WF_vars(Respond(r))

Spec == Init /\ [][Next]_vars /\ Fairness

----------------------------------------------------------------------------
TypeOK ==
    /\ Q!TypeOK
    /\ stage \in [Requests -> {"idle"} \cup Working \cup Answered]
    /\ batch \in [Requests -> Batches \cup {<<>>}]
    /\ \A r \in Requests : stage[r] \in Working => next[r] \in DOMAIN batch[r]
    /\ result \in [Requests -> {"none", "waiting", "success", "failure"}]
    /\ stored \subseteq Events
    /\ published \in [Events -> Nat]
    /\ alerts \in [Events -> Nat]
    /\ received \in 0 .. MaxRequests

\* 202 means all of it, and so does EmitResult.success: every event of an
\* accepted request is stored, has been published, and has raised its alert when
\* its type triggers one (ingest, ingest_batch, DoxClient.emit_batch).
AcceptedIsComplete ==
    \A r \in Requests : stage[r] = "accepted" \/ result[r] = "success" =>
        \A e \in Ids(batch[r]) : /\ e \in stored
                                 /\ published[e] = 1
                                 /\ e \in Triggering => alerts[e] = 1

\* The events admitted for a tenant, each by its day and its number on the day.
Admissions(t) == UNION {{d} \X (1 .. admitted[t][d]) : d \in Q!Days}

StoredOf(t) == {e \in stored : TenantOf[e] = t}

\* However requests fail and overlap, no event is stored that was not counted
\* against its tenant's quota (ingest_batch checks before it stores).
StoredIsPaidFor ==
    \A t \in Tenants : Cardinality(StoredOf(t)) <= Cardinality(Admissions(t))

\* Every request is answered, whatever fails and whatever the quota says.
EveryRequestIsAnswered ==
    \A r \in Requests : stage[r] \in Working ~> stage[r] \in Answered

\* Retries, duplicates and overlapping requests implement the event log: an
\* event is stored once, published at most once and only after it is stored,
\* and raises at most one alert.
Log == INSTANCE EventLog

ImplementsEventLog == Log!Spec

=============================================================================
