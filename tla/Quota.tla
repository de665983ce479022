------------------------------- MODULE Quota -------------------------------
(***************************************************************************)
(* The quota service (services/quota): one row per tenant counts the       *)
(* events of the current day and month against the limits of the tenant's  *)
(* subscription tier.                                                      *)
(*                                                                         *)
(* A client is one HTTP request of a process: it has its own AsyncSession  *)
(* and a call is a coroutine that gives way at every `await'.  The SELECT, *)
(* the INSERT and the COMMIT are separate steps, and so is the code that   *)
(* runs on the loaded object between two awaits.  Nothing locks the row    *)
(* and it has no version column: the session holds the loaded column       *)
(* values, and its COMMIT is an UPDATE that sets the columns whose value   *)
(* changed, to absolute values.                                            *)
(*                                                                         *)
(* Time is a day number; `now' is the day on which a piece of code runs.   *)
(***************************************************************************)
EXTENDS Integers

CONSTANTS
    Clients,        \* requests that can be in flight at the same time
    Tenants,
    Operations,     \* the service methods the clients call
    Tiers,          \* SubscriptionTier
    Starter,        \* SubscriptionTier.starter
    DailyLimit,     \* _TIER_LIMITS[tier][0]
    MonthlyLimit,   \* _TIER_LIMITS[tier][1]
    LastDay,        \* bound: the days that are explored
    MonthStart,     \* the first day of the month a day lies in
    MaxCalls,       \* bound: the calls made in a behaviour
    NoRow           \* scalar_one_or_none() returned None

Days == 0 .. LastDay

ASSUME LastDayAssumption == LastDay \in Nat

ASSUME MaxCallsAssumption == MaxCalls \in Nat

ASSUME OperationsAssumption ==
    Operations \subseteq {"check_and_increment", "get_status",
                          "reset_daily", "provision"}

ASSUME TierAssumption ==
    /\ Starter \in Tiers
    /\ DailyLimit \in [Tiers -> Nat \ {0}]
    /\ MonthlyLimit \in [Tiers -> Nat \ {0}]

\* No two tiers share a daily or a monthly limit.
ASSUME DistinctLimitsAssumption ==
    \A s, t \in Tiers : s # t => /\ DailyLimit[s] # DailyLimit[t]
                                 /\ MonthlyLimit[s] # MonthlyLimit[t]

ASSUME MonthAssumption ==
    /\ MonthStart \in [Days -> Days]
    /\ \A d \in Days : /\ MonthStart[d] <= d
                       /\ MonthStart[MonthStart[d]] = MonthStart[d]
    /\ \A d, e \in Days : d <= e => MonthStart[d] <= MonthStart[e]

\* TenantQuota, without its primary key.
Row == [ subscription_tier  : Tiers,
         daily_limit        : Nat,
         monthly_limit      : Nat,
         events_today       : Nat,
         events_this_month  : Nat,
         day_window_start   : Days,
         month_window_start : Days ]

ASSUME NoRowAssumption == NoRow \notin Row \cup Tiers

Stages == {"idle", "select", "insert", "modify", "commit"}
Answers == {"ok", "refused", "error"}

VARIABLES
    clock,            \* the current day
    quota,            \* the table tenant_quotas, by tenant_id
    pc,               \* where a client's coroutine is, or how it answered
    call,             \* what the client called and for which tenant
    loaded,           \* the column values the client's session loaded
    object,           \* the client's TenantQuota instance
    calls,            \* calls made so far
    granted,          \* history: the tiers a tenant's row has had
    admitted,         \* history: events admitted on a day, since its last reset
    admittedInMonth   \* history: events admitted in a month, by its first day

clients == <<pc, call, loaded, object>>
history == <<granted, admitted, admittedInMonth>>
vars == <<clock, quota, clients, calls, history>>

\* TenantQuota.__init__ with the limits of a tier.
NewRow(tier, now) ==
    [ subscription_tier  |-> tier,
      daily_limit        |-> DailyLimit[tier],
      monthly_limit      |-> MonthlyLimit[tier],
      events_today       |-> 0,
      events_this_month  |-> 0,
      day_window_start   |-> now,
      month_window_start |-> now ]

AnyRow == NewRow(Starter, 0)

\* What a client asks: `tier' is the tier that a missing row is created with,
\* the requested one for provision and starter for every other method; `day' is
\* a history of when it was asked.
Calls == { k \in [op : Operations, tenant : Tenants, tier : Tiers, day : Days] :
               k.op # "provision" => k.tier = Starter }

NoCall == [op |-> "none", tenant |-> CHOOSE t \in Tenants : TRUE, tier |-> Starter,
           day |-> 0]

Init ==
    /\ clock = 0
    /\ quota = [t \in Tenants |-> NoRow]
    /\ pc = [c \in Clients |-> "idle"]
    /\ call = [c \in Clients |-> NoCall]
    /\ loaded = [c \in Clients |-> AnyRow]
    /\ object = [c \in Clients |-> AnyRow]
    /\ calls = 0
    /\ granted = [t \in Tenants |-> {}]
    /\ admitted = [t \in Tenants |-> [d \in Days |-> 0]]
    /\ admittedInMonth = [t \in Tenants |-> [d \in Days |-> 0]]

----------------------------------------------------------------------------
\* The code between two awaits, as functions on the loaded object.

\* Variant: the day's reset does not clear the counter.
ResetWindowsKeepsDay(q, now) ==
    [q EXCEPT !.day_window_start = IF @ < now THEN now ELSE @,
              !.events_this_month =
                  IF q.month_window_start < MonthStart[now] THEN 0 ELSE @,
              !.month_window_start = IF @ < MonthStart[now] THEN now ELSE @]

\* Variant: a new month is tested first and a new day only otherwise.
ResetWindowsOneOf(q, now) ==
    IF q.month_window_start < MonthStart[now]
    THEN [q EXCEPT !.events_this_month = 0, !.month_window_start = now]
    ELSE IF q.day_window_start < now
    THEN [q EXCEPT !.events_today = 0, !.day_window_start = now]
    ELSE q

\* _maybe_reset_windows
ResetWindows(q, now) ==
    LET newDay == q.day_window_start < now
        newMonth == q.month_window_start < MonthStart[now]
    IN  [q EXCEPT !.events_today = IF newDay THEN 0 ELSE @,
                  !.day_window_start = IF newDay THEN now ELSE @,
                  !.events_this_month = IF newMonth THEN 0 ELSE @,
                  !.month_window_start = IF newMonth THEN now ELSE @]

\* Variant: the limit itself may be passed by one.
OverLimitByOne(q) ==
    q.events_today > q.daily_limit \/ q.events_this_month > q.monthly_limit

\* The two guards of check_and_increment.
OverLimit(q) ==
    \/ q.events_today >= q.daily_limit
    \/ q.events_this_month >= q.monthly_limit

\* The two increments of check_and_increment.
CountEvent(q) ==
    [q EXCEPT !.events_today = @ + 1, !.events_this_month = @ + 1]

\* reset_daily
RestartDay(q, now) ==
    [q EXCEPT !.events_today = 0, !.day_window_start = now]

\* Variant: the monthly limit of the old tier stays.
ChangeTierOnly(q, tier) ==
    [q EXCEPT !.subscription_tier = tier, !.daily_limit = DailyLimit[tier]]

\* provision, on a row that exists
ChangeTier(q, tier) ==
    [q EXCEPT !.subscription_tier = tier,
              !.daily_limit = DailyLimit[tier],
              !.monthly_limit = MonthlyLimit[tier]]

\* The UPDATE of a flush: a column is set when the object's value differs from
\* the loaded one.  reset_daily assigns a fresh timestamp, which differs from
\* the loaded one on the same day too.
Flush(row, old, new, op) ==
    LET Column(f) == IF new[f] # old[f] THEN new[f] ELSE row[f]
    IN  [ subscription_tier  |-> Column("subscription_tier"),
          daily_limit        |-> Column("daily_limit"),
          monthly_limit      |-> Column("monthly_limit"),
          events_today       |-> Column("events_today"),
          events_this_month  |-> Column("events_this_month"),
          day_window_start   |-> IF op = "reset_daily"
                                 THEN new.day_window_start
                                 ELSE Column("day_window_start"),
          month_window_start |-> Column("month_window_start") ]

----------------------------------------------------------------------------
\* The call is answered, and what it held is dropped with it.
Answer(c, a) ==
    /\ pc' = [pc EXCEPT ![c] = a]
    /\ call' = [call EXCEPT ![c] = NoCall]
    /\ loaded' = [loaded EXCEPT ![c] = AnyRow]
    /\ object' = [object EXCEPT ![c] = AnyRow]

\* The answer after a commit, whose acknowledgement may be lost.
AnswerCommitted(c) == \E a \in {"ok", "error"} : Answer(c, a)

\* A request arrives and the route calls the service.
Call(c, k) ==
    /\ pc[c] \in {"idle"} \cup Answers
    /\ k.day = clock
    /\ calls < MaxCalls
    /\ calls' = calls + 1
    /\ pc' = [pc EXCEPT ![c] = "select"]
    /\ call' = [call EXCEPT ![c] = k]
    /\ UNCHANGED <<clock, quota, loaded, object, history>>

\* Variant: a missing row is not built.
SelectNoCreate(c) ==
    /\ pc[c] = "select"
    /\ pc' = [pc EXCEPT ![c] = "modify"]
    /\ loaded' = [loaded EXCEPT ![c] = quota[call[c].tenant]]
    /\ object' = [object EXCEPT ![c] = quota[call[c].tenant]]
    /\ UNCHANGED <<clock, quota, call, calls, history>>

\* SELECT the tenant's row; when there is none, build it.
Select(c) ==
    LET row == quota[call[c].tenant]
        q == IF row = NoRow THEN NewRow(call[c].tier, clock) ELSE row
    IN  /\ pc[c] = "select"
        /\ pc' = [pc EXCEPT ![c] = IF row = NoRow THEN "insert" ELSE "modify"]
        /\ loaded' = [loaded EXCEPT ![c] = q]
        /\ object' = [object EXCEPT ![c] = q]
        /\ UNCHANGED <<clock, quota, call, calls, history>>

\* INSERT and COMMIT of the new row.  provision answers; _get_or_create returns
\* the object to its caller.
Insert(c) ==
    LET t == call[c].tenant
    IN  /\ pc[c] = "insert"
        /\ quota[t] = NoRow
        /\ quota' = [quota EXCEPT ![t] = object[c]]
        /\ granted' = [granted EXCEPT ![t] = @ \cup {object[c].subscription_tier}]
        /\ \/ call[c].op = "provision" /\ AnswerCommitted(c)
           \/ call[c].op # "provision" /\ Answer(c, "error")
           \/ /\ call[c].op # "provision"
              /\ pc' = [pc EXCEPT ![c] = "modify"]
              /\ UNCHANGED <<call, loaded, object>>
        /\ UNCHANGED <<clock, calls, admitted, admittedInMonth>>

\* The unique constraint on tenant_id refuses a second row: the IntegrityError
\* is not caught.
InsertConflict(c) ==
    /\ pc[c] = "insert"
    /\ quota[call[c].tenant] # NoRow
    /\ Answer(c, "error")
    /\ UNCHANGED <<clock, quota, calls, history>>

\* Assign to the object and await the commit.
Modify(c, q) ==
    /\ object' = [object EXCEPT ![c] = q]
    /\ pc' = [pc EXCEPT ![c] = "commit"]
    /\ UNCHANGED <<clock, quota, call, loaded, calls, history>>

\* Variant: the limits are compared before the windows are reset.
RefuseBeforeReset(c) ==
    /\ pc[c] = "modify" /\ call[c].op = "check_and_increment"
    /\ OverLimit(loaded[c])
    /\ Answer(c, "refused")
    /\ UNCHANGED <<clock, quota, calls, history>>

\* check_and_increment: raise QuotaExceededError; the session is closed without
\* a commit and the reset of the windows is dropped with it.
Refuse(c) ==
    /\ pc[c] = "modify" /\ call[c].op = "check_and_increment"
    /\ OverLimit(ResetWindows(loaded[c], clock))
    /\ Answer(c, "refused")
    /\ UNCHANGED <<clock, quota, calls, history>>

Count(c) ==
    /\ pc[c] = "modify" /\ call[c].op = "check_and_increment"
    /\ ~OverLimit(ResetWindows(loaded[c], clock))
    /\ Modify(c, CountEvent(ResetWindows(loaded[c], clock)))

GetStatus(c) ==
    /\ pc[c] = "modify" /\ call[c].op = "get_status"
    /\ Modify(c, ResetWindows(loaded[c], clock))

ResetDaily(c) ==
    /\ pc[c] = "modify" /\ call[c].op = "reset_daily"
    /\ Modify(c, RestartDay(loaded[c], clock))

Provision(c) ==
    /\ pc[c] = "modify" /\ call[c].op = "provision"
    /\ Modify(c, ChangeTier(loaded[c], call[c].tier))

\* COMMIT: one UPDATE, then the answer.  The day and the month an event counts
\* in are those of the object's windows.
Commit(c) ==
    LET t == call[c].tenant
        d == object[c].day_window_start
        m == MonthStart[d]
        row == Flush(quota[t], loaded[c], object[c], call[c].op)
    IN  /\ pc[c] = "commit"
        /\ quota' = [quota EXCEPT ![t] = row]
        /\ granted' = [granted EXCEPT ![t] = @ \cup {row.subscription_tier}]
        /\ admitted' = [admitted EXCEPT ![t][d] =
               CASE call[c].op = "check_and_increment" -> @ + 1
                 [] call[c].op = "reset_daily" -> 0
                 [] OTHER -> @]
        /\ admittedInMonth' = [admittedInMonth EXCEPT ![t][m] =
               IF call[c].op = "check_and_increment" THEN @ + 1 ELSE @]
        /\ AnswerCommitted(c)
        /\ UNCHANGED <<clock, calls>>

\* The statement that is awaited fails: a lost connection, a client that went
\* away, a process that stops.  Nothing of the open transaction is written (Insert
\* and Commit have the failures that come too late for that).
Abort(c) ==
    /\ pc[c] \in {"select", "insert", "commit"}
    /\ Answer(c, "error")
    /\ UNCHANGED <<clock, quota, calls, history>>

Midnight ==
    /\ clock < LastDay
    /\ clock' = clock + 1
    /\ UNCHANGED <<quota, clients, calls, history>>

\* The steps of a call that has been made.
Step(c) ==
    \/ Select(c) \/ Insert(c) \/ InsertConflict(c)
    \/ Refuse(c) \/ Count(c) \/ GetStatus(c) \/ ResetDaily(c) \/ Provision(c)
    \/ Commit(c)

Next ==
    \/ \E c \in Clients : \/ \E k \in Calls : Call(c, k)
                          \/ Step(c)
                          \/ Abort(c)
    \/ Midnight

Spec == Init /\ [][Next]_vars

----------------------------------------------------------------------------
TypeOK ==
    /\ clock \in Days
    /\ quota \in [Tenants -> Row \cup {NoRow}]
    /\ pc \in [Clients -> Stages \cup Answers]
    /\ call \in [Clients -> Calls \cup {NoCall}]
    /\ loaded \in [Clients -> Row]
    /\ object \in [Clients -> Row]
    /\ calls \in 0 .. MaxCalls
    /\ granted \in [Tenants -> SUBSET Tiers]
    /\ admitted \in [Tenants -> [Days -> Nat]]
    /\ admittedInMonth \in [Tenants -> [Days -> Nat]]

Rows == {t \in Tenants : quota[t] # NoRow}

\* The tier and the two limits of a row always belong together, although
\* provision writes them as three columns and only those that changed, from a
\* row that another request may have changed meanwhile (provision).
LimitsMatchTier ==
    \A t \in Rows :
        /\ quota[t].daily_limit = DailyLimit[quota[t].subscription_tier]
        /\ quota[t].monthly_limit = MonthlyLimit[quota[t].subscription_tier]

\* However requests interleave, and however tiers change under them, a counter
\* never passes the limit of every tier the tenant has had: what
\* check_and_increment writes is one more than a count it saw below the limit.
CounterWithinGrant ==
    \A t \in Rows :
        /\ \E tier \in granted[t] : quota[t].events_today <= DailyLimit[tier]
        /\ \E tier \in granted[t] : quota[t].events_this_month <= MonthlyLimit[tier]

\* Requests one after the other: the counters are the number of events admitted
\* since the window began, whatever aborts, resets and midnights fall between
\* and inside calls (check_and_increment, _maybe_reset_windows, reset_daily).
CountsAreExact ==
    \A t \in Rows :
        /\ quota[t].events_today = admitted[t][quota[t].day_window_start]
        /\ quota[t].events_this_month =
               admittedInMonth[t][MonthStart[quota[t].month_window_start]]

\* Requests one after the other: the daily counter never exceeds the monthly
\* one, so the month's reset never forgets events that the day still counts.
DayWithinMonth ==
    \A t \in Rows : quota[t].events_today <= quota[t].events_this_month

\* check_and_increment admits no more events on a day than the largest daily
\* limit the tenant has had ("Raise QuotaExceededError if the tenant is over
\* limit"): true of requests one after the other, not of overlapping ones.
NoOverAdmission ==
    \A t \in Tenants, d \in Days :
        admitted[t][d] > 0 => \E tier \in granted[t] : admitted[t][d] <= DailyLimit[tier]

\* Requests one after the other implement the meter: every call takes effect as
\* QuotaMeter allows on a day on which it was under way, and a tenant is refused
\* for what it used on this day or in this month and for nothing older
\* (check_and_increment, _maybe_reset_windows, reset_daily, provision).
Meter == INSTANCE QuotaMeter WITH
    today <- clock,
    tier <- [t \in Tenants |->
                IF quota[t] = NoRow THEN NoRow ELSE quota[t].subscription_tier],
    used <- admitted,
    usedInMonth <- admittedInMonth,
    refused <- {c \in Clients : pc[c] = "refused"},
    NoTier <- NoRow

ImplementsMeter == Meter!Spec

=============================================================================
