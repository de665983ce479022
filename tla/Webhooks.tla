------------------------------ MODULE Webhooks ------------------------------
(***************************************************************************)
(* The notification service (services/notify): webhook endpoints and the   *)
(* dispatch that posts to them one after the other.                        *)
(*                                                                         *)
(* A dispatch reads the active endpoints once and keeps those objects: its *)
(* commits do not expire them.  Between the read, each post and each       *)
(* commit other requests deactivate an endpoint or post to it.  A post     *)
(* that raises or times out may have arrived.                              *)
(***************************************************************************)
EXTENDS Naturals, Sequences, FiniteSets, Functions

CONSTANTS
    Clients,        \* dispatches that can be under way at the same time
    Hooks,          \* webhook ids
    NoHook,
    TenantOf,       \* the tenant_id of an endpoint
    Subscribed,     \* its event_types; the wildcard stands for all of them
    Tenants,
    SentinelTypes,
    HasClient,      \* whether the service was given an http_client
    MaxDispatches   \* bound: dispatches requested

ASSUME HookAssumption ==
    /\ NoHook \notin Hooks
    /\ TenantOf \in [Hooks -> Tenants]
    /\ Subscribed \in [Hooks -> SUBSET SentinelTypes]
    /\ HasClient \in BOOLEAN /\ MaxDispatches \in Nat

Dispatches == 1 .. MaxDispatches

VARIABLES
    registered,     \* the endpoints, in the order of their created_at
    active,         \* those with is_active
    failure_count,  \* by endpoint
    job,            \* what each client's dispatch does
    asked,          \* the dispatches requested so far
    received,       \* how often an endpoint received a dispatch
    targets,        \* history: the endpoints a dispatch matched
    streak,         \* history: failures recorded since the last success
    recorded,       \* history: failures recorded in all
    overlapped      \* history: endpoints that two dispatches held at once

history == <<targets, streak, recorded, overlapped>>
vars == <<registered, active, failure_count, job, asked, received, history>>

Nodes == {"idle", "list", "post", "commit", "ended", "failed"}

\* queue: the matching endpoints that are left; webhook: the one that the loop
\* delivers to; loaded: the failure_counts as the session holds them.
Job == [ node    : Nodes,
         id      : 0 .. MaxDispatches,
         queue   : SUBSET Hooks,
         webhook : Hooks \cup {NoHook},
         loaded  : [Hooks -> Nat],
         success : BOOLEAN,
         successful : Nat,
         failed : Nat ]

NewJob(node, id) ==
    [ node |-> node, id |-> id, queue |-> {}, webhook |-> NoHook,
      loaded |-> [h \in Hooks |-> 0], success |-> FALSE, successful |-> 0, failed |-> 0 ]

Init ==
    /\ registered = <<>> /\ active = {}
    /\ failure_count = [h \in Hooks |-> 0]
    /\ job = [c \in Clients |-> NewJob("idle", 0)]
    /\ asked = <<>>
    /\ received = [h \in Hooks |-> [d \in Dispatches |-> 0]]
    /\ targets = [d \in Dispatches |-> {}]
    /\ streak = [h \in Hooks |-> 0] /\ recorded = [h \in Hooks |-> 0]
    /\ overlapped = {}

----------------------------------------------------------------------------
\* register_webhook
Register(h) ==
    /\ h \notin Range(registered)
    /\ registered' = Append(registered, h)
    /\ active' = active \cup {h}
    /\ UNCHANGED <<failure_count, job, asked, received, history>>

\* deactivate_webhook writes is_active = FALSE whatever it read, and no other
\* column.
Deactivate(h) ==
    /\ h \in active
    /\ active' = active \ {h}
    /\ UNCHANGED <<registered, failure_count, job, asked, received, history>>

Dispatch(c, tenant, type) ==
    /\ job[c].node \in {"idle", "ended", "failed"}
    /\ Len(asked) < MaxDispatches
    /\ asked' = Append(asked, [tenant_id |-> tenant, sentinel_type |-> type])
    /\ job' = [job EXCEPT ![c] = NewJob("list", Len(asked) + 1)]
    /\ UNCHANGED <<registered, active, failure_count, received, history>>

\* Variant: endpoints of every tenant match.
WantsOfAny(h, d) == asked[d].sentinel_type \in Subscribed[h]

\* The endpoint is the tenant's and asked for the sentinel type.
Wants(h, d) ==
    /\ TenantOf[h] = asked[d].tenant_id
    /\ asked[d].sentinel_type \in Subscribed[h]

Goto(c, new, node) == job' = [job EXCEPT ![c] = [new EXCEPT !.node = node]]

\* The endpoints that the dispatches under way still hold.
HeldBy(c) == IF job[c].node \in {"post", "commit"} THEN targets[job[c].id] ELSE {}

\* Variant: the loop is entered without an endpoint.
ListUnchecked(c) ==
    /\ job[c].node = "list"
    /\ Goto(c, [job[c] EXCEPT !.queue = {h \in active : Wants(h, job[c].id)},
                              !.loaded = failure_count], "post")
    /\ UNCHANGED <<registered, active, failure_count, asked, received, history>>

\* list_webhooks(active_only=True) and the matching endpoints.
List(c) ==
    LET d == job[c].id
        matching == {h \in active : Wants(h, d)}
    IN  /\ job[c].node = "list"
        /\ Goto(c, [job[c] EXCEPT !.queue = matching, !.loaded = failure_count],
                IF matching = {} THEN "ended" ELSE "post")
        /\ targets' = [targets EXCEPT ![d] = matching]
        /\ overlapped' = overlapped \cup
               (matching \cap UNION {HeldBy(b) : b \in Clients \ {c}})
        /\ UNCHANGED <<registered, active, failure_count, asked, received, streak, recorded>>

\* The order of list_webhooks: nothing in the queue was created after h.
Newest(h, queue) ==
    /\ h \in queue
    /\ \E i \in DOMAIN registered :
           /\ registered[i] = h
           /\ \A j \in DOMAIN registered : j > i => registered[j] \notin queue

\* Variant: an endpoint that is no longer active is not posted to.
PostToActive(c) ==
    /\ job[c].node = "post"
    /\ \E h \in active, success \in BOOLEAN :
           /\ Newest(h, job[c].queue)
           /\ received' = IF success THEN [received EXCEPT ![h][job[c].id] = @ + 1]
                                     ELSE received
           /\ Goto(c, [job[c] EXCEPT !.queue = @ \ {h}, !.webhook = h,
                                     !.success = success], "commit")
    /\ UNCHANGED <<registered, active, failure_count, asked, history>>

\* _deliver to the next endpoint, up to its commit: the post is answered with a
\* 2xx, or it is not, whether it arrived or not.  Without a client nothing is
\* posted.
Post(c) ==
    /\ job[c].node = "post"
    /\ \E h \in job[c].queue, arrives, success \in BOOLEAN :
           /\ Newest(h, job[c].queue)
           /\ success => arrives
           /\ arrives => HasClient
           /\ received' = IF arrives THEN [received EXCEPT ![h][job[c].id] = @ + 1]
                                     ELSE received
           /\ Goto(c, [job[c] EXCEPT !.queue = @ \ {h}, !.webhook = h,
                                     !.success = success], "commit")
    /\ UNCHANGED <<registered, active, failure_count, asked, history>>

\* Variant: a success leaves the count.
NewCountKept(c) == job[c].loaded[job[c].webhook] + IF job[c].success THEN 0 ELSE 1

\* Variant: a post that failed is counted twice.
NewCountTwice(c) == IF job[c].success THEN 0 ELSE job[c].loaded[job[c].webhook] + 2

\* The failure_count that _deliver assigns.
NewCount(c) == IF job[c].success THEN 0 ELSE job[c].loaded[job[c].webhook] + 1

\* Variant: a failed delivery is not in the result.
DeliveredOnly(c) ==
    [job[c] EXCEPT !.loaded[job[c].webhook] = NewCount(c),
                   !.successful = IF job[c].success THEN @ + 1 ELSE @]

\* The job after a delivery.
Delivered(c) ==
    [job[c] EXCEPT !.loaded[job[c].webhook] = NewCount(c),
                   !.successful = IF job[c].success THEN @ + 1 ELSE @,
                   !.failed = IF job[c].success THEN @ ELSE @ + 1]

\* COMMIT: failure_count is written when it differs from the loaded one.  It may
\* land although the call raises.
Commit(c) ==
    LET h == job[c].webhook
    IN  /\ job[c].node = "commit"
        /\ failure_count' = [failure_count EXCEPT
               ![h] = IF NewCount(c) # job[c].loaded[h] THEN NewCount(c) ELSE @]
        /\ streak' = [streak EXCEPT ![h] = IF job[c].success THEN 0 ELSE @ + 1]
        /\ recorded' = [recorded EXCEPT ![h] = IF job[c].success THEN @ ELSE @ + 1]
        /\ \/ Goto(c, Delivered(c), IF job[c].queue = {} THEN "ended" ELSE "post")
           \/ Goto(c, job[c], "failed")
        /\ UNCHANGED <<registered, active, asked, received, targets, overlapped>>

\* A statement raises and nothing is written: the dispatch is given up.
Fail(c) ==
    /\ job[c].node \in {"list", "commit"}
    /\ Goto(c, job[c], "failed")
    /\ UNCHANGED <<registered, active, failure_count, asked, received, history>>

Step(c) == List(c) \/ Post(c) \/ Commit(c) \/ Fail(c)

\* The process stops, or the caller goes away.
Stop(c) ==
    /\ job[c].node \in {"list", "post", "commit"}
    /\ Goto(c, job[c], "failed")
    /\ UNCHANGED <<registered, active, failure_count, asked, received, history>>

Next ==
    \/ \E h \in Hooks : Register(h) \/ Deactivate(h)
    \/ \E c \in Clients : \/ \E t \in Tenants, s \in SentinelTypes : Dispatch(c, t, s)
                          \/ Step(c)
                          \/ Stop(c)

\* A post ends after its timeout of 10 seconds at the latest, and a statement
\* completes or raises.
Spec == Init /\ [][Next]_vars /\ \A c \in Clients : WF_vars(Step(c))

----------------------------------------------------------------------------
TypeOK ==
    /\ registered \in Seq(Hooks) /\ active \subseteq Range(registered)
    /\ failure_count \in [Hooks -> Nat]
    /\ job \in [Clients -> Job]
    /\ \A c \in Clients : \/ job[c].node = "post" /\ job[c].queue # {}
                          \/ job[c].node = "commit" /\ job[c].webhook # NoHook
                          \/ job[c].node \notin {"post", "commit"}
    /\ asked \in Seq([tenant_id : Tenants, sentinel_type : SentinelTypes])
    /\ Len(asked) <= MaxDispatches
    /\ received \in [Hooks -> [Dispatches -> Nat]]
    /\ targets \in [Dispatches -> SUBSET Hooks]
    /\ streak \in [Hooks -> Nat] /\ recorded \in [Hooks -> Nat]
    /\ overlapped \subseteq Hooks

\* While no two dispatches hold an endpoint at once, its failure_count is the
\* number of failures in a row, although a dispatch works on objects it read
\* before its posts and a success writes nothing over a zero (_deliver).
FailureCountIsExact ==
    \A h \in Hooks \ overlapped : failure_count[h] = streak[h]

\* However dispatches overlap, an endpoint is never charged with more failures
\* than were recorded for it (_deliver).
FailuresAreReal == \A h \in Hooks : failure_count[h] <= recorded[h]

\* The DispatchResult of a dispatch that returned accounts for every endpoint it
\* matched, and each success in it was received (dispatch).
ResultIsTrue ==
    \A c \in Clients : job[c].node = "ended" =>
        LET d == job[c].id
        IN  /\ job[c].successful + job[c].failed = Cardinality(targets[d])
            /\ job[c].successful <= Cardinality({h \in targets[d] : received[h][d] = 1})

\* Dispatches implement the fan-out: the targets are the active endpoints that
\* want the dispatch, each receives it at most once and nobody else does.
Fan == INSTANCE FanOut

ImplementsFanOut == Fan!Spec

\* Every dispatch ends, whatever its endpoints do.
EveryDispatchEnds ==
    \A c \in Clients :
        job[c].node \in {"list", "post", "commit"} ~> job[c].node \in {"ended", "failed"}

=============================================================================
