----------------------------- MODULE EventReads -----------------------------
(***************************************************************************)
(* The events of one agent session, from the builder that makes them       *)
(* (dox_sdk/builder.py) to those who read them back: the pages of          *)
(* GET /v1/events and of the audit log, the replay of the session          *)
(* (langgraph_workflows/replay) and the verification of the payload hashes *)
(* (common/audit/integrity.py).                                            *)
(*                                                                         *)
(* Every SELECT is a step, and events and audit entries are stored between *)
(* any two of them.  Rows are ordered by a time that the database did not  *)
(* give them: an event has the time of the sender's clock, which may stand *)
(* still or step back, and events arrive in any order or not at all.  A    *)
(* query may return rows with one time in either order.                    *)
(***************************************************************************)
EXTENDS Integers, FiniteSets, Sequences, SequencesExt

CONSTANTS
    EventTypes,     \* EventType
    Times,          \* what a clock shows
    Hashes,         \* what senders supply as a payload_hash
    MaxRows,        \* bound: the rows that are written in a behaviour
    PageLimit,      \* the `limit' of a page
    ReplayLimit,    \* the limit of load_events, 500
    VerifyLimit     \* the `limit' of verify_integrity

ASSUME BoundsAssumption == MaxRows \in Nat

ASSUME TimesAssumption == Times \subseteq Int

\* None, that of the payload, or another one.
ASSUME HashesAssumption == Hashes \subseteq {"absent", "right", "wrong"}

ASSUME LimitsAssumption ==
    PageLimit \in Nat \ {0} /\ ReplayLimit \in Nat \ {0} /\ VerifyLimit \in Nat \ {0}

\* What a CanonicalEvent is to its readers.
Event == [event_type : EventTypes, timestamp : Times, payload_hash : Hashes]

VARIABLES
    built,      \* the events of the session; _sequence is its length
    charged,    \* the events that the quota has let pass
    events,     \* the table events, by sequence_number
    entries,    \* the created_at of the audit entries
    rows,       \* events built and other rows written so far
    task,       \* what the reader does, or has just done
    dirty       \* history: events that a verification found to be altered

storeVars == <<built, charged, events, entries, rows>>
readVars == <<storeVars, task, dirty>>

\* The fields of a task; `present' are the rows of its table when
\* a scan began, or a replay read it.
NoTask ==
    [ op |-> "none", stage |-> "done", source |-> "events", offset |-> 0,
      total |-> 0, seen |-> {}, list |-> <<>>, present |-> {},
      started |-> FALSE, completed |-> FALSE, error |-> FALSE ]

EventsInit ==
    /\ built = <<>>
    /\ charged = {}
    /\ events = <<>>
    /\ entries = <<>>
    /\ rows = 0
    /\ task = NoTask
    /\ dirty = {}

AtRest == task.stage = "done"

\* What the reader has done is forgotten when the store changes.
Forget == task' = (IF AtRest THEN NoTask ELSE task) /\ UNCHANGED dirty

AddRow == rows < MaxRows /\ rows' = rows + 1

----------------------------------------------------------------------------
\* EventBuilder._build: the next number and the time of the sender's clock.
\* Another sender supplies a payload_hash of its own.
Build(e) ==
    /\ AddRow
    /\ built' = Append(built, e)
    /\ Forget
    /\ UNCHANGED <<charged, events, entries>>

\* A call of check_and_increment returns (module Quota; its count, module Reports):
\* the event goes on to be stored.
Pass(n) ==
    /\ n \in DOMAIN built
    /\ charged' = charged \cup {n}
    /\ Forget
    /\ UNCHANGED <<built, events, entries, rows>>

\* Variant: an absent hash stays absent.
RecordAsSent(e) == e

\* EventRecord.from_canonical: a hash that is absent is computed.
RecordOf(e) ==
    [e EXCEPT !.payload_hash = IF @ = "absent" THEN "right" ELSE @]

Stored == DOMAIN events

\* Variant: an event is stored before the quota has counted it.
StoreUncharged(n) ==
    /\ n \in DOMAIN built \ Stored
    /\ events' = [m \in Stored \cup {n} |->
                     IF m = n THEN RecordOf(built[n]) ELSE events[m]]
    /\ Forget
    /\ UNCHANGED <<built, charged, entries, rows>>

\* The row is committed.
Store(n) ==
    /\ n \in charged \ Stored
    /\ events' = [m \in Stored \cup {n} |->
                     IF m = n THEN RecordOf(built[n]) ELSE events[m]]
    /\ Forget
    /\ UNCHANGED <<built, charged, entries, rows>>

\* AuditService.record.  created_at is the start of the transaction: entries
\* may be committed in another order.
RecordEntry(time) ==
    /\ AddRow
    /\ entries' = Append(entries, time)
    /\ UNCHANGED <<built, charged, events>>

----------------------------------------------------------------------------
RowsIn(source) == IF source = "events" THEN Stored ELSE DOMAIN entries

TimeOf(source, n) == IF source = "events" THEN events[n].timestamp ELSE entries[n]

\* Variant: the rows are not ordered.
Unordered(source) == SetToSeqs(RowsIn(source))

\* ORDER BY the time, descending: any order of the rows with one time.
NewestFirst(source) ==
    { q \in SetToSeqs(RowsIn(source)) :
          \A i, j \in DOMAIN q : i < j => TimeOf(source, q[i]) >= TimeOf(source, q[j]) }

\* ORDER BY the time, ascending.
OldestFirst(source) == {Reverse(q) : q \in NewestFirst(source)}

\* LIMIT and OFFSET.
Page(q, limit, offset) == SubSeq(q, offset + 1, Min({offset + limit, Len(q)}))

Begin(op, source, stage) ==
    /\ AtRest
    /\ task' = [NoTask EXCEPT !.op = op, !.source = source, !.stage = stage,
                              !.present = IF op = "scan" THEN RowsIn(source) ELSE {}]
    /\ UNCHANGED <<storeVars, dirty>>

Goto(t) == task' = t /\ UNCHANGED <<storeVars, dirty>>

\* A reader starts to read a list, page by page.
BeginScan(source) == Begin("scan", source, "list")

\* The first SELECT of the route: the rows of the page.
ListPage ==
    /\ task.op = "scan" /\ task.stage = "list"
    /\ \E q \in NewestFirst(task.source) :
           Goto([task EXCEPT !.stage = "count",
                             !.seen = @ \cup Range(Page(q, PageLimit, task.offset))])

\* The second SELECT: the total.
CountTotal ==
    /\ task.op = "scan" /\ task.stage = "count"
    /\ Goto([task EXCEPT !.stage = "answered", !.total = Cardinality(RowsIn(task.source))])

\* The reader asks for the next page while the total is beyond this one.
NextPage ==
    /\ task.op = "scan" /\ task.stage = "answered"
    /\ IF task.offset + PageLimit < task.total
       THEN Goto([task EXCEPT !.stage = "list", !.offset = @ + PageLimit])
       ELSE Goto([task EXCEPT !.stage = "done"])

\* The audit log's route gathers its two statements on one session: while the
\* connection is still being opened the second one raises; later it waits for
\* the first.  Any statement may fail.
ScanFails ==
    /\ task.op = "scan" /\ task.stage \in {"list", "count"}
    /\ Goto([task EXCEPT !.stage = "done", !.error = TRUE])

----------------------------------------------------------------------------
BeginReplay == Begin("replay", "events", "load")

\* Variant: the events stay as the query returned them.
Unsorted(q) == q

\* sorted(records, key=timestamp), which keeps the order of equal times.
Sorted(q) ==
    LET Before(i, j) ==
            \/ events[q[i]].timestamp < events[q[j]].timestamp
            \/ events[q[i]].timestamp = events[q[j]].timestamp /\ i < j
        Place(i) == 1 + Cardinality({j \in DOMAIN q : Before(j, i)})
    IN  [k \in DOMAIN q |-> q[CHOOSE i \in DOMAIN q : Place(i) = k]]

\* load_events.  No events: the graph ends.
LoadEvents ==
    /\ task.op = "replay" /\ task.stage = "load"
    /\ \E q \in NewestFirst("events") :
           Goto([task EXCEPT !.list = Sorted(Page(q, ReplayLimit, 0)),
                             !.present = Stored,
                             !.stage = IF Stored = {} THEN "done" ELSE "replay"])

LoadFails ==
    /\ task.op = "replay" /\ task.stage = "load"
    /\ Goto([task EXCEPT !.stage = "done", !.error = TRUE])

\* validate_events and replay_events, which await nothing.
ReplayEvents ==
    LET types == {events[n].event_type : n \in Range(task.list)}
    IN  /\ task.op = "replay" /\ task.stage = "replay"
        /\ Goto([task EXCEPT !.stage = "summarize",
                             !.started = "agent_started" \in types,
                             !.completed = types \cap {"agent_completed",
                                                       "agent_failed"} # {}])

\* summarize: the entry is written, or it is not and nobody hears of it.
Summarize ==
    /\ task.op = "replay" /\ task.stage = "summarize"
    /\ task' = [task EXCEPT !.stage = "done"]
    /\ \/ \E time \in Times : RecordEntry(time)
       \/ UNCHANGED storeVars
    /\ UNCHANGED dirty

----------------------------------------------------------------------------
BeginVerify == Begin("verify", "events", "verify")

\* check_record
Altered(n) == events[n].payload_hash # "right"

\* Variant: the newest records are checked.
VerifyOrderNewest == NewestFirst("events")

\* verify_integrity checks the oldest records.
VerifyOrder == OldestFirst("events")

\* verify_tenant_integrity: `seen' are the records that failed.
Verify ==
    /\ task.op = "verify" /\ task.stage = "verify"
    /\ \E q \in VerifyOrder :
           LET failed == {n \in Range(Page(q, VerifyLimit, 0)) : Altered(n)}
           IN  /\ task' = [task EXCEPT !.seen = failed, !.stage = "done"]
               /\ dirty' = dirty \cup failed
    /\ UNCHANGED storeVars

\* The steps of the session and its readers; Pass belongs to a step of the quota.
EventsNext ==
    \/ \E e \in Event : Build(e)
    \/ \E n \in DOMAIN built : Store(n)
    \/ \E time \in Times : RecordEntry(time) /\ Forget
    \/ \E source \in {"events", "audit"} : BeginScan(source)
    \/ ListPage \/ CountTotal \/ NextPage \/ ScanFails
    \/ BeginReplay \/ LoadEvents \/ LoadFails \/ ReplayEvents \/ Summarize
    \/ BeginVerify \/ Verify

----------------------------------------------------------------------------
EventsTypeOK ==
    /\ built \in Seq(Event)
    /\ Stored \subseteq charged /\ charged \subseteq DOMAIN built
    /\ \A n \in Stored : events[n].payload_hash # "absent"
    /\ entries \in Seq(Times)
    /\ rows \in 0 .. MaxRows
    /\ task.seen \subseteq RowsIn(task.source)
    /\ dirty \subseteq Stored

\* Rows with a time of their own in their table.
Untied(source) ==
    {n \in RowsIn(source) : \A m \in RowsIn(source) \ {n} :
                                TimeOf(source, m) # TimeOf(source, n)}

\* Who reads a list page by page, until the total is reached, sees every row
\* that was there at the start and shares its time with no other, whatever is
\* stored between and inside its requests (list_events, count_events,
\* list_for_tenant, count_for_tenant).
ScanMissesNothing ==
    task.op = "scan" /\ task.stage = "done" /\ ~task.error =>
        task.present \cap Untied(task.source) \subseteq task.seen

\* A sender whose clock never stands still or steps back.
ClockAdvanced == \A m, n \in DOMAIN built : m < n => built[m].timestamp < built[n].timestamp

\* A replay shows the session in the order it was built when the sender's clock
\* advanced, and by the clock otherwise, although events arrived in any order.
\* It is the whole of what was stored when it fits the limit, and its newest
\* part otherwise; its flags are about what it shows (build_replay_graph).
ReplayFollowsSession ==
    task.op = "replay" /\ task.stage \in {"summarize", "done"} /\ ~task.error =>
        LET shown == Range(task.list)
            left == task.present \ shown
            At(n) == events[n].timestamp
            Shows(type) == \E n \in shown : built[n].event_type = type
        IN  /\ \A i, j \in DOMAIN task.list : i < j =>
                   /\ At(task.list[i]) <= At(task.list[j])
                   /\ ClockAdvanced => task.list[i] < task.list[j]
            /\ left # {} => Cardinality(shown) = ReplayLimit
            /\ \A m \in left, n \in shown : At(m) <= At(n)
            /\ task.started = Shows("agent_started")
            /\ task.completed = (Shows("agent_completed") \/ Shows("agent_failed"))

\* Once a verification has reported an altered event, a later one with the same
\* limit reports it too, unless as many events that are no newer have been
\* stored as the limit lets it check (verify_integrity).
DirtStaysVisible ==
    task.op = "verify" /\ task.stage = "done" =>
        \A n \in dirty \ task.seen :
            Cardinality({m \in Stored \ {n} : events[m].timestamp <= events[n].timestamp})
                >= VerifyLimit

=============================================================================
