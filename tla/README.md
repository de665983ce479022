# A verification development for Dox

Dox is a governance control plane for AI agents: agents send events through an
SDK, services count them against a tenant's quota, store and publish them, raise
sentinel alerts, measure drift, resolve alerts by policy or by a human, and tell
webhooks. The code is asynchronous Python (FastAPI, SQLAlchemy). Almost every
hard behaviour comes from one pattern: a request loads a row, gives way at an
`await`, and commits values computed from what it loaded, with no lock and no
version column, while other requests do the same.

## Inventory

| Component | State | Operations | Talks to | What makes it correct |
|---|---|---|---|---|
| Quota (`services/quota`) | a row per tenant: tier, limits, two counters, two windows | `provision`, `get_status`, `check_and_increment`, `reset_daily` | database | tier and limits belong together; counters stay within limits and mean the events admitted in the window; refusals are justified |
| Ingestion (`services/ingestion`) | table `events` | `ingest`, `ingest_batch` | quota, sentinel, event bus, database | an event is stored once, published at most once, only if counted; accepted means complete; every request is answered |
| SDK client (`sdk/python/dox_sdk/client.py`) | an HTTP connection | `emit`, `emit_batch`, `close` | ingestion | its result does not claim more than what happened; it loses no connection and closes none that is not its own |
| SDK builder | trace, session, sequence number | one method per event type | - | the events of a session can be put back in order |
| Sentinel (`services/sentinel`) | alerts, policies | create, resolve, list, deactivate, `evaluate_event` | database | what the trail says of an alert was committed for it |
| Response workflow (`langgraph_workflows/sentinels`) | state of a run | load, find policy, resolve, record | sentinel, audit | follows policies of the alert's type; ends; is audited |
| Review workflow (`langgraph_workflows/human_review`) | state of a run | load, request, record decision | sentinel, audit | no decision without a request on record |
| Audit (`services/audit`) | append-only entries | `record`, list, count | database | entries are true |
| Drift (`services/drift`) and its workflow | baselines | `compute_baseline`, `analyze`, deactivate | events, sentinel, audit | one active baseline per agent; counts and severity are right; alerts and findings have their cause |
| Notification (`services/notify`) | endpoints with a failure count | register, deactivate, `dispatch` | HTTP endpoints | right targets, at most one post each; true result; count equals failures in a row |
| Policy (`services/policy`) | policies | `update_policy`, `evaluate` | database | the strongest matching action wins; a severer request is not answered more weakly |
| Tenants, users, registry | one table each | create, get, update, (de)activate, change password, heartbeat | database | identities unique; no update undoes another; an update that is stored is answered |
| Authentication (`services/auth`, `common/auth`, `app/main.py`) | tokens held by clients | issue, decode, role check | users | what a token says was true of its user at its login; it ends |
| Query, replay, compliance, integrity | none | reads | all tables | a list read page by page is whole; a replay is in order; a report adds up; an alteration that was found is found again |
| Adapters, sessions, lifecycle | connections | publish, open, close | Redis, database | usable between start and stop |

Hard behaviours: overlapping read-modify-write cycles (quota, drift, webhooks,
alerts); commits that land although the call raises; steps done before a later
one fails (ingestion, workflows); midnights inside a call; retries and client
timeouts; state read once and used after several awaits (policies, baselines,
endpoint lists); reads at different times that make one answer; connections that
are closed while they are used. `PROJECT.json` lists them by line under `hazards`, with the
properties aimed at each, and names every component that is not modelled with the
reason.

## Modules

A request is a client (or worker) with a program counter; each awaited statement
is one action, the code between two awaits is part of the action before it, and
every statement may fail without its effect or, where it writes, with it.
Loaded ORM objects are kept as the session keeps them: a commit writes the
columns whose value changed since the load, as absolute values (the sessions are
opened with `expire_on_commit=False`).

* **Quota** - `quota` is the table, `loaded`/`object` are what a client's session
  loaded and holds, `clock` is the day. `Select`, `Insert`, `InsertConflict`,
  `Count`, `Refuse`, `GetStatus`, `ResetDaily`, `Provision`, `Commit` and `Abort`
  are the statements of the four methods; `ResetWindows`, `CountEvent`,
  `ChangeTier`, `RestartDay` and `OverLimit` are the code between them.
  `granted`, `admitted`, `admittedInMonth` and the `day` of a call are history.
  **QuotaMeter** is the abstract promise, with a clock and calls but no rows and no
  windows: a call takes effect once, on a day on which it was under way; an event is
  admitted while the use of that day and of its month is below the limits, and refused
  only when the use of the present day or month has reached one. A service that
  compared the limits before it reset its windows would refuse a tenant for a day that
  is over, and would not implement it (`RefuseBeforeReset`).
* **Ingestion** - composes the pipeline of `ingest`/`ingest_batch` with an instance
  of Quota whose clients are the requests, and with the SDK client: `Emit`,
  `CheckQuota` ... `Store` ... `Publish` ... `RaiseAlert`, `Respond`,
  `ClientGivesUp`. A single event is a batch of one, whose steps are the same.
  **EventLog** is the abstract promise.
* **AlertResponse** - runs of the response graph, the review graph and the resolve
  route over the alerts, the policies (created, deactivated, updated; a list in the
  order of their creation) and the audit trail. A node's exception is a route through the graph: `LoadFails`,
  `FindFails`, `ResolveFails`, `RecordFails`.
* **Drift** - events are a set of what an analysis sees of them, with a number for
  those that look alike; `compute_baseline` in three statements, `analyze` by the route
  (without sentinel service, as its dependency provider builds it) and by the
  workflow (with one or without: `watched` names the calls that have one). A finding
  follows from the severity alone, so that without a sentinel service it is recorded
  and nothing is alerted. An agent stands for a tenant with an agent. `Distance` is the
  exact score; the code divides and adds floats, which may put a score that is a
  threshold just below it (counts of 7 and 3 against 1 and 1: 0.19999999999999998).
  `SeveritiesOf` therefore allows either severity at a threshold. Elsewhere scores are
  farther from a threshold than floats err, for up to a million events
  (`PrecisionAssumption`).
* **Webhooks** - endpoints, dispatches with the endpoints they still have to post to
  (a set, taken in the order of `list_webhooks`, `Newest`) and the values they loaded. `last_delivered_at`, bodies and signatures are left out.
  **FanOut** is the abstract promise.
* **Accounts** - tenants, users and agent profiles are one table of rows by their
  unique name (slug, e-mail address, tenant and agent id). `Call` ... `Conflict`,
  `Build`, `Insert`, `InsertRefused`, `Missing`, `Get`, `Load`, `Commit` are the
  statements of the three services, which share one shape; `TenantCalls`,
  `UserCalls` and `AgentCalls` say what differs. `Changed` is the column set of the
  UPDATE. `ReadsRow` names the routes that answer with the whole object: after an
  UPDATE its `updated_at` is unknown to the session (`onupdate=func.now()`, no
  eager fetch), so reading it raises and the answer is `unread`. `held` is what
  the assignments made so far should have left, `inserts` and `raced` are history.
* **Access** - EXTENDS Accounts with what stands in front of it: `Login`,
  `Authenticate`, `CreateToken` of the auth service and `Admit`, the gateway's
  check of a token's expiry and role. A user that is an administrator is there at
  the start, since no route can create the first one. `standing` is history.
* **EventReads** - the events of a session from `EventBuilder._build` (`Build`), past
  the quota (`Pass`: a check returned) to the table (`Store`, in any order or never), and its
  readers: pages and totals of the event and audit lists (`ListPage`,
  `CountTotal`, `ScanFails`; `BeginScan` and `NextPage` are the caller), the replay
  graph (`LoadEvents`, `ReplayEvents`, `Summarize`) and the verification of hashes
  (`Verify`). Every SELECT is a step. Rows of one time come in any order.
* **Reports** - EXTENDS EventReads with alerts, policies and the tenant's count: the
  compliance report in its four reads (`SummarizeEvents` ... `SummarizePolicies`) and
  `Evaluate`. Of the quota row it keeps the daily half: a check reads the count
  (`ReadCount`) and writes what it read and one more (`CommitCount`), so that
  overlapping checks lose counts; `ResetCount` zeroes it (`reset_daily`, or a new day),
  `Provision` changes the limit, and `daily_remaining` is never below zero, as in
  `_to_status`. `doubtful` is history: the events whose check overlapped another, or
  came before a reset. Module Quota has the whole row.
* **Lifecycle** - the connections of DoxClient and of the Redis event bus, both opened
  by their first use (`Ensure`) and closed by an awaited close that then forgets
  whichever is current (`Closed`); `init_db`, the adapter registry, requests and the
  end of the ingestion application's lifespan, over restarts in one process, with a
  start or stop that may raise anywhere. That requests end before the lifespan
  resumes is the server's doing.
* **QuotaProofs**, **IngestionProofs**, **AlertResponseProofs**, **DriftProofs**,
  **WebhooksProofs**, **AccessProofs** (with Accounts), **ReportsProofs** (with
  EventReads) and **LifecycleProofs** - theorems about the module they are named
  after. **MC...** modules instantiate the others for TLC.

Definitions that begin with the comment "Variant:" are deviations of the
definition that follows them, one for each property. They are part of no
specification; they record which change of the code each property would notice.

## Runs

| Run | Bounds | Shows |
|---|---|---|
| `quota_concurrent` | 2 requests at a time, 5 calls, 2 tiers, 2 days | types; tier and limits belong together; counters never exceed the limits of the tiers the tenant had, whatever overlaps |
| `quota_serial` | 1 request at a time, 7 calls, 3 days, the last in a new month | counters are exact, the day never exceeds the month, QuotaMeter is implemented (nobody is refused for a day or month that is over), with failures, lost acknowledgements and midnights inside calls |
| `quota_overrun` | 2 requests, 3 calls | violated: more events are admitted than the limit |
| `ingestion_pipeline` | 2 requests, 2 days, batches of one, two, a repeated event, one too long | accepted is complete, stored is paid for, EventLog is implemented, every request is answered |
| `alerts_runs` | 2 runs at a time on one alert, 1 policy of 2 types and 2 actions that changes | the trail is true, responses follow policy, decisions were requested, every run ends |
| `alerts_unaudited` | 1 run, 1 policy | violated: an alert is resolved by a response that leaves no entry |
| `drift_requests` | 2 requests, 2 agents, 2 event types, 5 events (of one agent beyond 3), 2 hours | one active baseline without overlap; the severity is that of the score, either one at a threshold (scores of exactly 0.2, 0.4 and 0.6 occur); findings of watched analyses have their alert |
| `webhooks_dispatch` | 2 dispatches, 2 endpoints (one wildcard), 2 tenants | failure counts, result, FanOut, every dispatch ends |
| `access_accounts` | 2 requests, 1 tenant, user and agent, 2 tiers, roles and passwords, 3 calls, 4 moments, tokens valid for 1 | one row per name, columns hold what they were set to, admission is earned |
| `accounts_unread` | the same, 2 moments | violated: an update is stored and answered with an error |
| `reports_reads` | 3 rows, 2 times, pages of 1, replays of 2, verifications of 1; limits of 1 and 3, 2 checks at a time; 2 severities and actions; one of the three at a time (`MCOneAtATime`) | pages miss nothing, replays are in order, alterations stay visible; what a report shows as room and as events balances although counts are lost, reset and limits changed; evaluation is monotone |
| `lifecycle_restarts` | 2 tasks, 2 requests, 3 connections, 3 starts | connections have an owner, requests work on what is open, a stop releases all |

The bounds are the smallest at which the interesting cases meet: two requests
make every pairwise interleaving; limits of 1 to 3 are reached and passed within
the calls; a tier can be raised and lowered; a batch can be refused or fail in its
middle; a second request can repeat the first; a list has three pages, a session is
longer than a replay and a table longer than a verification; a token expires before
the last moment; a close can meet another close and an emit. Symmetry is used only where
clients, agents, tasks and event types are interchangeable and only for safety. Each
`MaxCalls`, `MaxRuns`, `MaxEvents`, `MaxPolicies`, `MaxRequests`, `MaxDispatches`,
`MaxRows`, `MaxChecks`, `MaxConnections`, `MaxStarts`, `LastDay`, `LastHour` and `LastTime` is a bound on how long a behaviour is explored and
nothing in the code; behaviours stop when it is reached, so deadlock is not
checked. Two runs have a CONSTRAINT besides. `MCManyOfOneAgent` leaves out the fourth and
fifth event of a second agent. `MCOneAtATime` explores three parts of Reports each with
the others at rest, since their product is out of reach: the readers over sessions of any
events, whose checks follow one another; the count with its overlapping checks, and the
reports, over events that are alike; and the policies. The proofs are about the product.

What the violated runs show is a disagreement of the code with a line of the
repository, quoted in `PROJECT.json` under `findings`:

* overlapping `check_and_increment` calls admit more events than the limit;
* a response that resolved its alert ends without the audit entry its graph
  promises when `record_outcome` raises;
* an update of a user, tenant or agent profile is committed and answered with an
  error, because the answer reads the `updated_at` that the UPDATE expired.

The passing runs state what does hold, and where it ends: counters (though not the
number of admissions) stay within the limits under every interleaving, and
everything is exact while requests do not overlap; a `reset_daily` that overlaps a
check may leave or bring back a count, which `CounterWithinGrant` still bounds. Two
overlapping `compute_baseline` calls may leave two active baselines:
`OneActiveWithoutOverlap` exempts exactly the agents whose computations overlapped.
A stored event whose publish failed is never published: EventLog promises at most
one publish, after the store. Two closes of one DoxClient that overlap may lose a
connection that an emit opened between them: `ConnectionsAreOwned` exempts them.
A report may show more events than were counted, once checks overlapped or the count
was reset: `ReportOwesNothing` leaves those events out and no others. A drift is
recorded without an alert when no sentinel service watches: `FindingsWereAlerted` is
about the analyses that one does.
A verification with a limit may lose sight of an alteration when events with
earlier times are stored, by as many as its limit (`DirtStaysVisible`).

**Fairness.** Weak fairness of a request's own steps (`Work`, `Step`, `Respond`): the
event loop resumes a coroutine when its await completes, every database statement
and publish completes or raises, and a webhook post ends at its timeout of ten
seconds. Nothing is assumed of when requests arrive, of midnight, of failures as
opposed to successes, or of processes not stopping: a stopped run counts as ended.

## Proofs

Every safety property of a passing run, and every refinement, is also a theorem: it
holds for every value of the constants that the named assumptions of the modules allow
- any number of clients, requests, tenants, endpoints, policies, events and rows, any
limits, page sizes and bounds - and for every interleaving. Each proof module has an
inductive invariant `IInv` (`Init => IInv`, every step keeps it, it implies the
property). What an invariant says of rows, results and trails is seldom inductive,
because a step writes what a request computed several awaits earlier; what the
invariants add is what such a request knows, and why others cannot make it untrue.

| Module | Proved | The argument |
|---|---|---|
| QuotaProofs | `TypeOK`, `LimitsMatchTier`, `CounterWithinGrant` under every interleaving | `Held`: what a request loaded and holds carries the limits of its own tier and counters within tiers granted by then; `granted` only grows, so it stays true while others commit. An UPDATE mixes columns of the row with columns of the object, and tier and limits still match because no two tiers share a limit (`FlushMatches`). |
| QuotaProofs | `CountsAreExact`, `DayWithinMonth`, `ImplementsMeter` when requests come one after the other | `Sound`: a row counts what was admitted in its windows, nothing was admitted after them, and the month's window is not older than the day's unless the day counts nothing; `Pending`: the commit under way makes it so again. A limit is reached in the object after its windows were reset by the clock, so a refusal is for the use of the present day or month; each step is a step of QuotaMeter or none. |
| QuotaProofs | `NoOverAdmission`, `NoOverAdmissionInMonth` under the same condition | `Limited`: what was admitted in a window is within the best limit granted by then. An admission adds to an exact count that was just compared with a granted limit; the other steps admit nothing and `granted` only grows. With overlap `quota_overrun` refutes it. |
| IngestionProofs | `TypeOK`, `AcceptedIsComplete`, `StoredIsPaidFor`, `ImplementsEventLog`, and `Spec => Q!Spec` | `Progress`: how far a request's loop has come tells which of its events are published and alerted; `OwnersInv`: two requests past their store share no event. `PaidInv`: the admissions of a tenant cover what it has stored and the checks its requests have passed for what they may store yet. |
| IngestionProofs | of the quota inside the pipeline: `QuotaHoldsInPipeline`, and `SerialPipelineIsMetered` while one request is in flight | The pipeline's quota steps are steps of Quota (`SameQuota`), so what QuotaProofs proves holds of the pipeline too: `Proved` is QuotaProofs with the requests as clients, its assumptions follow from those of Ingestion (`QuotaTheoremsApply`). |
| AlertResponseProofs | `TypeOK`, `TrailIsTrue`, `ResponseFollowsPolicy`, `DecisionsWereRequested` | `RunOf`: a run that resolved its alert did commit the action it is about to record, and what a response holds was commanded for the alert's type at some time. `ReviewsInv`: completed reviews and those that may complete yet are no more than those requested. |
| DriftProofs | `TypeOK`, `OneActiveWithoutOverlap`, `FindingsWereAlerted` | `JobsInv`: a request about to commit has a `computed_at` to itself and, unless its agent's computations overlapped, read every baseline that is active now. `FindingsInv`: a request on its way to a finding has alerted its own call (`Accounted`) if a sentinel service watches it. |
| DriftProofs | `SeverityIsOfVariation` | Sums over the event types are linear (`SumLinear`), and split into a part and its rest (`SumPart`). The differences of shares add up to nothing, so the distance `_compute_tvd` adds up is twice the sum of the positive ones, which is the largest difference any set of types shows (`VariationFacts`). `ScoredInv`: an analysis keeps a severity that the score of its baseline and events allows (`SeverityOfVariation`: the thresholds separate the severities above them from those below). |
| WebhooksProofs | `TypeOK`, `FailureCountIsExact`, `FailuresAreReal`, `ResultIsTrue`, `ImplementsFanOut` | `ResultInv`: what a dispatch counted and what it has left add up to its targets. `CountsInv`: a dispatch holds the count the table holds unless another held the endpoint too. |
| AccessProofs | `TypeOK`, `CreatedOnce`, `WritesHold`, `AccessIsEarned` | `Loaded`: a row is as its request loaded it in every column that nobody else assigned since, so the columns an UPDATE leaves out lose nothing. `LoginsInv`, `TokensInv`: a login that has found its user, a token and an admission each point to a moment at which the user stood. |
| ReportsProofs | `TypeOK`, `ScanMissesNothing`, `ReplayFollowsSession`, `DirtStaysVisible`, `ReportOwesNothing`, `EvaluationIsMonotone` | `Grow`: tables only get rows. `ScanInv`: a row not seen yet comes after the pages that were read, and what is stored meanwhile only moves it further. `Loaded`, `Flagged`: what a replay loaded, and in which order it shows it. `QuotaOK`: the events that are not in doubt (`Clean`) are in the count, and in what each check under way will write back, since while two are under way the events of both are in doubt. `Counted`, `Balanced`: an event passes the quota before it is stored and the report reads events before the quota, so the count it reads covers the clean events it shows, and more doubt later only helps. The winning action is a strongest one of those matched (`WinnerFacts`), and a severer request matches no fewer policies. |
| LifecycleProofs | `TypeOK`, `ConnectionsAreOwned`, `RequestsAreServed`, `StopReleasesAll` | `OneCloser`: while no closes overlapped, the one that is awaited closes the connection the client still refers to. `EngineInv`, `BusInv`: the engine and the bus of a serving application are open and are those its requests use; what is leaked is counted by the failures of starts and stops (`LostEngines`, `LostConns`). |

The assumptions are those the code satisfies: `DistinctLimitsAssumption` (no two tiers
of `_TIER_LIMITS` share a limit; with equal limits a column would not be written when
the tier changes), positive limits, a month that starts on or before its days
(`MonthAssumption`), finitely many event types (`TypesAssumption`: `EventType` is an
enumeration), at most a million events and a hundred types where scores are compared
(`PrecisionAssumption`), batches that are not empty, tenants, users and agents with names of
their own, an SDK client and an application that are different programs
(`ProcessesAssumption`), and markers for "no row" and "none" that are no values.
`QuotaTheoremsAssumption` repeats for the pipeline those of them that Quota's proofs
use. The serial theorems of Quota state their condition, `OneAtATime`, in the theorem:
overlapping requests lose counts, as `quota_overrun` shows. What is proved of a report
holds with overlap too.

`StoredIsPaidFor` counts admissions as a set (`Admissions`) and `StoredOf` likewise,
so that one admission can be matched with one event.

What a sum amounts to for every finite set of types needs induction. It is done
without an induction scheme: of the subsets for which the claim fails one is smallest
(`SubsetInduction`, from the well-foundedness of strict inclusion), and removing an
element from it gives a contradiction.

Only model-checked: the liveness properties (`EveryRequestIsAnswered`,
`EveryRunEnds`, `EveryDispatchEnds`), since fairness and ENABLED are outside what the
proof system handles; and, as violated, what the code does not keep: `NoOverAdmission`
when requests overlap, `ResponseIsAudited` and `UpdateIsAnswered`.

## Not modelled

* Metrics, tracing, logging, signatures, hashing, migrations, seed data and the YAML
  policy files: no property of the system's state depends on them. The object and
  secret stores are used by no service.
* Field validation, and the pages of the lists of tenants, users, agents, alerts
  and baselines, whose `total` is the length of the page that is answered.
* `common/auth/deps.py`, which no route uses.
* The composed application `app/main.py` has no lifespan and never calls `init_db`:
  started as it stands, `get_session` raises for every request. Its services are
  modelled as they work with a session; Lifecycle models the ingestion application,
  which has one.

The database is taken to run statements atomically at its default isolation, each
UPDATE on the newest committed row.

## Open

Left to compose: the policies of Reports with the responses of AlertResponse, and the
requests of Lifecycle with those of Ingestion.
