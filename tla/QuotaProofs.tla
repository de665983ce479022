---------------------------- MODULE QuotaProofs ----------------------------
(***************************************************************************)
(* What the quota service guarantees however its requests interleave, for  *)
(* every set of clients and tenants and every table of tier limits; and    *)
(* what it guarantees besides when requests come one after the other: that *)
(* its counters are exact and that it implements QuotaMeter.               *)
(***************************************************************************)
EXTENDS Quota, TLAPS

USE LastDayAssumption, TierAssumption, MonthAssumption, NoRowAssumption DEF Days

Matches(q) ==
    /\ q.daily_limit = DailyLimit[q.subscription_tier]
    /\ q.monthly_limit = MonthlyLimit[q.subscription_tier]

\* The counters of a row are within the limits of a set of tiers.
Within(q, tiers) ==
    /\ \E tier \in tiers : q.events_today <= DailyLimit[tier]
    /\ \E tier \in tiers : q.events_this_month <= MonthlyLimit[tier]

\* A row that is built carries the limits of its tier and has counted nothing.
LEMMA NewRowFacts ==
    ASSUME NEW tier \in Tiers, NEW now \in Days
    PROVE  /\ NewRow(tier, now) \in Row
           /\ Matches(NewRow(tier, now))
           /\ NewRow(tier, now).subscription_tier = tier
           /\ NewRow(tier, now).events_today = 0
           /\ NewRow(tier, now).events_this_month = 0
BY DEF NewRow, Row, Matches

\* _maybe_reset_windows clears counters and leaves the tier and its limits.
LEMMA ResetWindowsFacts ==
    ASSUME NEW q \in Row, NEW now \in Days
    PROVE  LET r == ResetWindows(q, now)
           IN  /\ r \in Row
               /\ r.subscription_tier = q.subscription_tier
               /\ r.daily_limit = q.daily_limit
               /\ r.monthly_limit = q.monthly_limit
               /\ r.events_today \in {0, q.events_today}
               /\ r.events_this_month \in {0, q.events_this_month}
BY DEF ResetWindows, Row

\* reset_daily clears the day's counter only.
LEMMA RestartDayFacts ==
    ASSUME NEW q \in Row, NEW now \in Days
    PROVE  /\ RestartDay(q, now) \in Row
           /\ RestartDay(q, now).subscription_tier = q.subscription_tier
           /\ RestartDay(q, now).daily_limit = q.daily_limit
           /\ RestartDay(q, now).monthly_limit = q.monthly_limit
           /\ RestartDay(q, now).events_today = 0
           /\ RestartDay(q, now).events_this_month = q.events_this_month
BY DEF RestartDay, Row

\* provision changes the tier and its two limits, and no counter.
LEMMA ChangeTierFacts ==
    ASSUME NEW q \in Row, NEW tier \in Tiers
    PROVE  /\ ChangeTier(q, tier) \in Row
           /\ Matches(ChangeTier(q, tier))
           /\ ChangeTier(q, tier).events_today = q.events_today
           /\ ChangeTier(q, tier).events_this_month = q.events_this_month
BY DEF ChangeTier, Row, Matches

\* A flush takes every column from the row or from the object.
LEMMA FlushFacts ==
    ASSUME NEW row \in Row, NEW old \in Row, NEW new \in Row, NEW op
    PROVE  LET r == Flush(row, old, new, op)
           IN  /\ r \in Row
               /\ r.events_today \in {row.events_today, new.events_today}
               /\ r.events_this_month \in {row.events_this_month, new.events_this_month}
               /\ r.subscription_tier = IF new.subscription_tier # old.subscription_tier
                                        THEN new.subscription_tier
                                        ELSE row.subscription_tier
               /\ r.daily_limit = IF new.daily_limit # old.daily_limit
                                  THEN new.daily_limit ELSE row.daily_limit
               /\ r.monthly_limit = IF new.monthly_limit # old.monthly_limit
                                    THEN new.monthly_limit ELSE row.monthly_limit
BY DEF Flush, Row

\* The tier and its limits stay together through a flush: no two tiers share a
\* limit, so the three columns are written together or not at all.
LEMMA FlushMatches ==
    ASSUME NEW row \in Row, NEW old \in Row, NEW new \in Row, NEW op,
           Matches(row), Matches(old), Matches(new)
    PROVE  Matches(Flush(row, old, new, op))
<1>1. /\ old.subscription_tier \in Tiers
      /\ new.subscription_tier \in Tiers
  BY DEF Row
<1>2. CASE new.subscription_tier = old.subscription_tier
  <2>1. new.daily_limit = old.daily_limit /\ new.monthly_limit = old.monthly_limit
    BY <1>2 DEF Matches
  <2>2. QED  BY <1>2, <2>1, FlushFacts DEF Matches
<1>3. CASE new.subscription_tier # old.subscription_tier
  <2>1. new.daily_limit # old.daily_limit /\ new.monthly_limit # old.monthly_limit
    BY <1>1, <1>3, DistinctLimitsAssumption DEF Matches
  <2>2. QED  BY <1>3, <2>1, FlushFacts DEF Matches
<1>4. QED  BY <1>2, <1>3

----------------------------------------------------------------------------
\* A call that is under way is one of Calls.
CallsInv ==
    \A c \in Clients : pc[c] \in {"select", "insert", "modify", "commit"} => call[c] \in Calls

\* What a client holds of the row, as a function of how far its call is.
Held(c) ==
    LET t == call[c].tenant
    IN  /\ Matches(loaded[c])
        /\ Matches(object[c])
        /\ pc[c] = "insert" => /\ loaded[c] = object[c]
                               /\ object[c].events_today = 0
                               /\ object[c].events_this_month = 0
        /\ pc[c] \in {"modify", "commit"} =>
               /\ quota[t] # NoRow
               /\ loaded[c].subscription_tier \in granted[t]
        /\ pc[c] = "modify" => Within(loaded[c], granted[t])
        /\ pc[c] = "commit" => Within(object[c], granted[t])

HeldInv == \A c \in Clients : Held(c)

RowOK(t) ==
    /\ Matches(quota[t])
    /\ Within(quota[t], granted[t])
    /\ quota[t].subscription_tier \in granted[t]

RowsInv == \A t \in Rows : RowOK(t)

IInv == TypeOK /\ CallsInv /\ HeldInv /\ RowsInv

\* A table of counts stays one when an entry is replaced.
LEMMA CountTable ==
    ASSUME NEW f \in [Tenants -> [Days -> Nat]],
           NEW t \in Tenants, NEW d \in Days, NEW n \in Nat
    PROVE  [f EXCEPT ![t][d] = n] \in [Tenants -> [Days -> Nat]]
OBVIOUS

\* Granting more tiers keeps a row within them.
LEMMA WithinMonotone ==
    ASSUME NEW q, NEW S, NEW T, S \subseteq T, Within(q, S)
    PROVE  Within(q, T)
BY DEF Within

\* The types of what a call under way works with.
LEMMA InFlight ==
    ASSUME IInv, NEW c \in Clients, pc[c] \in {"select", "insert", "modify", "commit"}
    PROVE  /\ call[c] \in Calls
           /\ call[c].tenant \in Tenants
           /\ call[c].tier \in Tiers
           /\ loaded[c] \in Row /\ object[c] \in Row
           /\ quota[call[c].tenant] \in Row \cup {NoRow}
           /\ clock \in Days
BY DEF IInv, TypeOK, CallsInv, Calls

\* What a client holds that has no call.
LEMMA AnyRowFacts == AnyRow \in Row /\ Matches(AnyRow)
BY NewRowFacts DEF AnyRow

\* An answer concerns one client and drops what it held.
LEMMA AnswerFacts ==
    ASSUME IInv, NEW c \in Clients, NEW a \in Answers, Answer(c, a)
    PROVE  /\ pc' \in [Clients -> Stages \cup Answers]
           /\ call' \in [Clients -> Calls \cup {NoCall}]
           /\ loaded' \in [Clients -> Row] /\ object' \in [Clients -> Row]
           /\ pc'[c] = a /\ Matches(loaded'[c]) /\ Matches(object'[c])
           /\ \A b \in Clients :
                  b # c => /\ pc'[b] = pc[b] /\ call'[b] = call[b]
                           /\ loaded'[b] = loaded[b] /\ object'[b] = object[b]
           /\ CallsInv'
<1>1. /\ pc' = [pc EXCEPT ![c] = a]
      /\ call' = [call EXCEPT ![c] = NoCall]
      /\ loaded' = [loaded EXCEPT ![c] = AnyRow]
      /\ object' = [object EXCEPT ![c] = AnyRow]
  BY DEF Answer
<1>2. QED  BY <1>1, AnyRowFacts DEF IInv, TypeOK, CallsInv, Answers

LEMMA InitIInv == Init => IInv
<1> SUFFICES ASSUME Init PROVE IInv
  OBVIOUS
<1>1. AnyRow \in Row /\ Matches(AnyRow)
  BY AnyRowFacts
<1>2. TypeOK
  BY <1>1, MaxCallsAssumption DEF Init, TypeOK, Stages
<1>3. CallsInv
  BY DEF Init, CallsInv
<1>4. HeldInv
  BY <1>1 DEF Init, HeldInv, Held, Stages
<1>5. RowsInv
  BY DEF Init, RowsInv, Rows
<1>6. QED  BY <1>2, <1>3, <1>4, <1>5 DEF IInv

----------------------------------------------------------------------------
\* One lemma per action: each preserves the invariant.

LEMMA CallStep ==
    ASSUME IInv, NEW c \in Clients, NEW k \in Calls, Call(c, k)
    PROVE  IInv'
<1>1. TypeOK'
  BY MaxCallsAssumption DEF IInv, TypeOK, Call, Stages, history
<1>2. CallsInv'
  BY DEF IInv, TypeOK, CallsInv, Call
<1>3. HeldInv'
  BY DEF IInv, TypeOK, HeldInv, Held, Call, history
<1>4. RowsInv'
  BY DEF IInv, RowsInv, RowOK, Rows, Call, history
<1>5. QED  BY <1>1, <1>2, <1>3, <1>4 DEF IInv

LEMMA SelectStep ==
    ASSUME IInv, NEW c \in Clients, Select(c)
    PROVE  IInv'
<1> DEFINE t == call[c].tenant
           row == quota[t]
           q == IF row = NoRow THEN NewRow(call[c].tier, clock) ELSE row
<1>1. pc[c] = "select"
  BY DEF Select
<1>2. /\ t \in Tenants /\ call[c].tier \in Tiers
      /\ row \in Row \cup {NoRow} /\ clock \in Days
  BY <1>1, InFlight
<1>3. row # NoRow => /\ Matches(row) /\ Within(row, granted[t])
                     /\ row.subscription_tier \in granted[t]
  BY <1>2 DEF IInv, RowsInv, RowOK, Rows
<1>4. /\ q \in Row /\ Matches(q)
      /\ row = NoRow => q.events_today = 0 /\ q.events_this_month = 0
  BY <1>2, <1>3, NewRowFacts
<1>5. /\ loaded' = [loaded EXCEPT ![c] = q]
      /\ object' = [object EXCEPT ![c] = q]
      /\ pc' = [pc EXCEPT ![c] = IF row = NoRow THEN "insert" ELSE "modify"]
      /\ UNCHANGED <<clock, quota, call, calls, granted, admitted, admittedInMonth>>
  BY DEF Select, history
<1> HIDE DEF q
<1>6. TypeOK'
  BY <1>4, <1>5 DEF IInv, TypeOK, Stages
<1>7. CallsInv'
  BY <1>1, <1>5 DEF IInv, TypeOK, CallsInv
<1>8. HeldInv'
  <2>1. q = row \/ row = NoRow
    BY DEF q
  <2>2. QED  BY <1>3, <1>4, <1>5, <2>1 DEF IInv, TypeOK, HeldInv, Held
<1>9. RowsInv'
  BY <1>5 DEF IInv, RowsInv, RowOK, Rows
<1>10. QED  BY <1>6, <1>7, <1>8, <1>9 DEF IInv

LEMMA InsertStep ==
    ASSUME IInv, NEW c \in Clients, Insert(c)
    PROVE  IInv'
<1> DEFINE t == call[c].tenant
           q == object[c]
<1>1. /\ pc[c] = "insert" /\ quota[t] = NoRow
      /\ quota' = [quota EXCEPT ![t] = q]
      /\ granted' = [granted EXCEPT ![t] = @ \cup {q.subscription_tier}]
      /\ \/ \E a \in Answers : Answer(c, a)
         \/ /\ pc' = [pc EXCEPT ![c] = "modify"]
            /\ UNCHANGED <<call, loaded, object>>
      /\ UNCHANGED <<clock, calls, admitted, admittedInMonth>>
  BY DEF Insert, AnswerCommitted, Answers
<1>2. t \in Tenants /\ q \in Row
  BY <1>1, InFlight
<1>3. /\ Matches(q) /\ loaded[c] = q
      /\ q.events_today = 0 /\ q.events_this_month = 0
  BY <1>1 DEF IInv, HeldInv, Held
<1>4. q.subscription_tier \in Tiers
  BY <1>2 DEF Row
<1>5. Within(q, granted'[t])
  <2>1. q.subscription_tier \in granted'[t]
    BY <1>1, <1>2 DEF IInv, TypeOK
  <2>2. QED  BY <1>3, <1>4, <2>1 DEF Within
<1>6. \A u \in Tenants : granted[u] \subseteq granted'[u]
  BY <1>1 DEF IInv, TypeOK
<1> HIDE DEF t, q
<1>12. /\ pc' \in [Clients -> Stages \cup Answers]
       /\ call' \in [Clients -> Calls \cup {NoCall}]
       /\ loaded' \in [Clients -> Row] /\ object' \in [Clients -> Row]
       /\ \A b \in Clients :
              b # c => /\ pc'[b] = pc[b] /\ call'[b] = call[b]
                       /\ loaded'[b] = loaded[b] /\ object'[b] = object[b]
       /\ CallsInv'
  <2>1. CASE \E a \in Answers : Answer(c, a)
    BY <2>1, AnswerFacts
  <2>2. CASE /\ pc' = [pc EXCEPT ![c] = "modify"]
             /\ UNCHANGED <<call, loaded, object>>
    BY <1>1, <2>2 DEF IInv, TypeOK, Stages, CallsInv
  <2>3. QED  BY <1>1, <2>1, <2>2
<1>7. TypeOK'
  BY <1>1, <1>2, <1>4, <1>12 DEF IInv, TypeOK
<1>8. CallsInv'
  BY <1>12
<1>9. HeldInv'
  <2> SUFFICES ASSUME NEW d \in Clients
               PROVE  Held(d)'
    BY DEF HeldInv
  <2>1. CASE d = c /\ \E a \in Answers : Answer(c, a)
    <3>1. PICK a \in Answers : Answer(c, a)
      BY <2>1
    <3>2. QED  BY <2>1, <3>1, AnswerFacts DEF Held, Answers
  <2>4. CASE /\ d = c
             /\ pc' = [pc EXCEPT ![c] = "modify"]
             /\ UNCHANGED <<call, loaded, object>>
    BY <1>1, <1>2, <1>3, <1>5, <2>4, NoRowAssumption DEF IInv, TypeOK, Held, t, q
  <2>2. CASE d # c
    <3>1. /\ pc'[d] = pc[d] /\ call'[d] = call[d]
          /\ loaded'[d] = loaded[d] /\ object'[d] = object[d]
      BY <1>12, <2>2
    <3>2. Held(d)
      BY DEF IInv, HeldInv, Held
    <3>3. pc[d] \in {"modify", "commit"} =>
              /\ call[d].tenant \in Tenants
              /\ quota'[call[d].tenant] # NoRow
      BY <1>1, <1>2, <3>2, InFlight, NoRowAssumption DEF Held, IInv, TypeOK
    <3>4. QED  BY <1>1, <1>6, <3>1, <3>2, <3>3, WithinMonotone DEF Held
  <2>3. QED  BY <1>1, <2>1, <2>2, <2>4
<1>10. RowsInv'
  <2> SUFFICES ASSUME NEW u \in Rows'
               PROVE  RowOK(u)'
    BY DEF RowsInv
  <2>1. CASE u = t
    BY <1>1, <1>2, <1>3, <1>5, <2>1 DEF IInv, TypeOK, RowOK
  <2>2. CASE u # t
    <3>1. u \in Rows /\ quota'[u] = quota[u]
      BY <1>1, <2>2 DEF IInv, TypeOK, Rows
    <3>2. QED  BY <1>6, <3>1, WithinMonotone DEF IInv, RowsInv, RowOK, Rows
  <2>3. QED  BY <2>1, <2>2
<1>11. QED  BY <1>7, <1>8, <1>9, <1>10 DEF IInv

\* A step that answers one client and writes nothing.
LEMMA AnswerStep ==
    ASSUME IInv, NEW c \in Clients, NEW a \in Answers, Answer(c, a),
           UNCHANGED <<clock, quota, calls, history>>
    PROVE  IInv'
<1>1. TypeOK'
  BY AnswerFacts DEF IInv, TypeOK, history
<1>2. CallsInv'
  BY AnswerFacts
<1>3. HeldInv'
  <2> SUFFICES ASSUME NEW b \in Clients
               PROVE  Held(b)'
    BY DEF HeldInv
  <2>1. CASE b = c
    BY <2>1, AnswerFacts DEF Held, Answers
  <2>2. CASE b # c
    <3>1. /\ pc'[b] = pc[b] /\ call'[b] = call[b]
          /\ loaded'[b] = loaded[b] /\ object'[b] = object[b]
      BY <2>2, AnswerFacts
    <3>2. Held(b) /\ UNCHANGED <<quota, granted>>
      BY DEF IInv, HeldInv, history
    <3>3. QED  BY <3>1, <3>2 DEF Held
  <2>3. QED  BY <2>1, <2>2
<1>4. RowsInv'
  BY DEF IInv, RowsInv, RowOK, Rows, history
<1>5. QED  BY <1>1, <1>2, <1>3, <1>4 DEF IInv

\* An assignment to the object that keeps it consistent and within the grants.
LEMMA ModifyStep ==
    ASSUME IInv, NEW c \in Clients, NEW q \in Row, pc[c] = "modify", Modify(c, q),
           Matches(q), Within(q, granted[call[c].tenant])
    PROVE  IInv'
<1>1. TypeOK'
  BY DEF IInv, TypeOK, Modify, history, Stages
<1>2. CallsInv'
  BY DEF IInv, TypeOK, CallsInv, Modify
<1>3. HeldInv'
  BY DEF IInv, TypeOK, HeldInv, Held, Modify, history
<1>4. RowsInv'
  BY DEF IInv, RowsInv, RowOK, Rows, Modify, history
<1>5. QED  BY <1>1, <1>2, <1>3, <1>4 DEF IInv

\* The event that is counted was seen below both limits.
LEMMA CountFacts ==
    ASSUME NEW q \in Row, NEW tiers, Matches(q), q.subscription_tier \in tiers,
           ~OverLimit(q)
    PROVE  /\ CountEvent(q) \in Row
           /\ Matches(CountEvent(q))
           /\ Within(CountEvent(q), tiers)
<1>1. /\ CountEvent(q) \in Row
      /\ CountEvent(q).subscription_tier = q.subscription_tier
      /\ CountEvent(q).daily_limit = q.daily_limit
      /\ CountEvent(q).monthly_limit = q.monthly_limit
      /\ CountEvent(q).events_today = q.events_today + 1
      /\ CountEvent(q).events_this_month = q.events_this_month + 1
  <2>1. q.events_today + 1 \in Nat /\ q.events_this_month + 1 \in Nat
    BY DEF Row
  <2>2. QED  BY <2>1, Zenon DEF CountEvent, Row
<1>2. /\ q.events_today + 1 <= q.daily_limit
      /\ q.events_this_month + 1 <= q.monthly_limit
  BY DEF OverLimit, Row
<1>3. QED  BY <1>1, <1>2 DEF Matches, Within

\* Clearing counters keeps a row within the grants.
LEMMA ClearedWithin ==
    ASSUME NEW q \in Row, NEW r \in Row, NEW tiers \in SUBSET Tiers,
           Matches(q), Within(q, tiers),
           r.subscription_tier = q.subscription_tier,
           r.daily_limit = q.daily_limit, r.monthly_limit = q.monthly_limit,
           r.events_today \in {0, q.events_today},
           r.events_this_month \in {0, q.events_this_month}
    PROVE  Matches(r) /\ Within(r, tiers)
<1>1. Matches(r)
  BY DEF Matches
<1>2. PICK a \in tiers : q.events_today <= DailyLimit[a]
  BY DEF Within
<1>3. PICK b \in tiers : q.events_this_month <= MonthlyLimit[b]
  BY DEF Within
<1>4. DailyLimit[a] \in Nat /\ MonthlyLimit[b] \in Nat
  BY <1>2, <1>3
<1>5. r.events_today <= DailyLimit[a] /\ r.events_this_month <= MonthlyLimit[b]
  BY <1>2, <1>3, <1>4
<1>6. QED  BY <1>1, <1>2, <1>3, <1>5 DEF Within

LEMMA InsertConflictStep ==
    ASSUME IInv, NEW c \in Clients, InsertConflict(c)
    PROVE  IInv'
BY AnswerStep DEF InsertConflict, Answers

LEMMA RefuseStep ==
    ASSUME IInv, NEW c \in Clients, Refuse(c)
    PROVE  IInv'
BY AnswerStep DEF Refuse, Answers

LEMMA AbortStep ==
    ASSUME IInv, NEW c \in Clients, Abort(c)
    PROVE  IInv'
BY AnswerStep DEF Abort, Answers

\* What a client holds when it runs the code of its method.
LEMMA AtModify ==
    ASSUME IInv, NEW c \in Clients, pc[c] = "modify"
    PROVE  /\ loaded[c] \in Row /\ Matches(loaded[c])
           /\ granted[call[c].tenant] \in SUBSET Tiers
           /\ loaded[c].subscription_tier \in granted[call[c].tenant]
           /\ Within(loaded[c], granted[call[c].tenant])
           /\ clock \in Days /\ call[c].tier \in Tiers
BY InFlight DEF IInv, TypeOK, HeldInv, Held

LEMMA CountStep ==
    ASSUME IInv, NEW c \in Clients, Count(c)
    PROVE  IInv'
<1> DEFINE q == loaded[c]
           r == ResetWindows(q, clock)
           tiers == granted[call[c].tenant]
<1>1. pc[c] = "modify" /\ ~OverLimit(r) /\ Modify(c, CountEvent(r))
  BY DEF Count
<1>2. r \in Row /\ Matches(r) /\ r.subscription_tier \in tiers
  <2>1. q \in Row /\ Matches(q) /\ q.subscription_tier \in tiers /\ clock \in Days
    BY <1>1, AtModify
  <2> HIDE DEF q, tiers
  <2>2. /\ r \in Row /\ r.subscription_tier = q.subscription_tier
        /\ r.daily_limit = q.daily_limit /\ r.monthly_limit = q.monthly_limit
    BY <2>1, ResetWindowsFacts
  <2> HIDE DEF r
  <2>3. QED  BY <2>1, <2>2 DEF Matches
<1> HIDE DEF r
<1>3. /\ CountEvent(r) \in Row /\ Matches(CountEvent(r))
      /\ Within(CountEvent(r), tiers)
  BY <1>1, <1>2, CountFacts
<1>4. QED  BY <1>1, <1>3, ModifyStep

LEMMA GetStatusStep ==
    ASSUME IInv, NEW c \in Clients, GetStatus(c)
    PROVE  IInv'
<1> DEFINE q == loaded[c]
           r == ResetWindows(q, clock)
<1>1. pc[c] = "modify" /\ Modify(c, r)
  BY DEF GetStatus
<1>2. /\ r \in Row
      /\ r.subscription_tier = q.subscription_tier
      /\ r.daily_limit = q.daily_limit /\ r.monthly_limit = q.monthly_limit
      /\ r.events_today \in {0, q.events_today}
      /\ r.events_this_month \in {0, q.events_this_month}
  BY <1>1, AtModify, ResetWindowsFacts
<1> HIDE DEF r
<1>3. Matches(r) /\ Within(r, granted[call[c].tenant])
  <2> DEFINE tiers == granted[call[c].tenant]
  <2>1. q \in Row /\ tiers \in SUBSET Tiers /\ Matches(q) /\ Within(q, tiers)
    BY <1>1, AtModify
  <2> HIDE DEF tiers, q
  <2>2. QED  BY <1>2, <2>1, ClearedWithin DEF q, tiers
<1>4. QED  BY <1>1, <1>2, <1>3, ModifyStep

LEMMA ResetDailyStep ==
    ASSUME IInv, NEW c \in Clients, ResetDaily(c)
    PROVE  IInv'
<1> DEFINE q == loaded[c]
           r == RestartDay(q, clock)
<1>1. pc[c] = "modify" /\ Modify(c, r)
  BY DEF ResetDaily
<1>2. /\ r \in Row
      /\ r.subscription_tier = q.subscription_tier
      /\ r.daily_limit = q.daily_limit /\ r.monthly_limit = q.monthly_limit
      /\ r.events_today \in {0, q.events_today}
      /\ r.events_this_month \in {0, q.events_this_month}
  BY <1>1, AtModify, RestartDayFacts
<1> HIDE DEF r
<1>3. Matches(r) /\ Within(r, granted[call[c].tenant])
  <2> DEFINE tiers == granted[call[c].tenant]
  <2>1. q \in Row /\ tiers \in SUBSET Tiers /\ Matches(q) /\ Within(q, tiers)
    BY <1>1, AtModify
  <2> HIDE DEF tiers, q
  <2>2. QED  BY <1>2, <2>1, ClearedWithin DEF q, tiers
<1>4. QED  BY <1>1, <1>2, <1>3, ModifyStep

LEMMA ProvisionStep ==
    ASSUME IInv, NEW c \in Clients, Provision(c)
    PROVE  IInv'
<1> DEFINE q == loaded[c]
           r == ChangeTier(q, call[c].tier)
<1>1. pc[c] = "modify" /\ Modify(c, r)
  BY DEF Provision
<1>2. /\ r \in Row /\ Matches(r)
      /\ r.events_today = q.events_today
      /\ r.events_this_month = q.events_this_month
  BY <1>1, AtModify, ChangeTierFacts
<1> HIDE DEF r
<1>3. Within(r, granted[call[c].tenant])
  BY <1>1, <1>2, AtModify DEF Within
<1>4. QED  BY <1>1, <1>2, <1>3, ModifyStep

LEMMA MidnightStep ==
    ASSUME IInv, Midnight
    PROVE  IInv'
<1>1. TypeOK'
  BY DEF IInv, TypeOK, Midnight, clients, history
<1>2. CallsInv' /\ HeldInv' /\ RowsInv'
  BY DEF IInv, CallsInv, HeldInv, Held, RowsInv, RowOK, Rows, Midnight, clients, history
<1>3. QED  BY <1>1, <1>2 DEF IInv

LEMMA CommitStep ==
    ASSUME IInv, NEW c \in Clients, Commit(c)
    PROVE  IInv'
<1> DEFINE t == call[c].tenant
           d == object[c].day_window_start
           row == Flush(quota[t], loaded[c], object[c], call[c].op)
<1>0. PICK a \in {"ok", "error"} : Answer(c, a)
  BY DEF Commit, AnswerCommitted
<1>1. /\ pc[c] = "commit"
      /\ quota' = [quota EXCEPT ![t] = row]
      /\ granted' = [granted EXCEPT ![t] = @ \cup {row.subscription_tier}]
      /\ Answer(c, a) /\ a \in Answers
      /\ UNCHANGED <<clock, calls>>
  BY <1>0 DEF Commit, Answers
<1>2. /\ t \in Tenants /\ loaded[c] \in Row /\ object[c] \in Row /\ d \in Days
      /\ quota[t] \in Row /\ t \in Rows
  BY <1>1, InFlight DEF IInv, HeldInv, Held, Row, Rows
<1>3. /\ Matches(quota[t]) /\ Within(quota[t], granted[t])
      /\ Matches(loaded[c]) /\ Matches(object[c])
      /\ Within(object[c], granted[t])
  BY <1>1, <1>2 DEF IInv, RowsInv, RowOK, HeldInv, Held
<1>4. /\ row \in Row /\ Matches(row) /\ row.subscription_tier \in Tiers
      /\ row.events_today \in {quota[t].events_today, object[c].events_today}
      /\ row.events_this_month \in
             {quota[t].events_this_month, object[c].events_this_month}
  <2> DEFINE old == quota[t]
             l == loaded[c]
             o == object[c]
             op == call[c].op
  <2> HIDE DEF old, l, o, op
  <2>1. /\ old \in Row /\ l \in Row /\ o \in Row
        /\ Matches(old) /\ Matches(l) /\ Matches(o)
    BY <1>2, <1>3 DEF old, l, o
  <2>2. /\ Flush(old, l, o, op) \in Row
        /\ Flush(old, l, o, op).events_today \in {old.events_today, o.events_today}
        /\ Flush(old, l, o, op).events_this_month \in
               {old.events_this_month, o.events_this_month}
    BY <2>1, FlushFacts
  <2>3. Matches(Flush(old, l, o, op))
    BY <2>1, FlushMatches
  <2>4. Flush(old, l, o, op).subscription_tier \in Tiers
    BY <2>2 DEF Row
  <2>5. QED  BY <2>2, <2>3, <2>4 DEF old, l, o, op
<1> HIDE DEF row
<1>5. \A u \in Tenants : granted[u] \subseteq granted'[u]
  BY <1>1 DEF IInv, TypeOK
<1>6. Within(row, granted'[t])
  <2>1. Within(row, granted[t])
    BY <1>3, <1>4 DEF Within
  <2>2. QED  BY <1>2, <1>5, <2>1, WithinMonotone
<1>7. TypeOK'
  <2>1. admitted' \in [Tenants -> [Days -> Nat]]
    <3> DEFINE n == CASE call[c].op = "check_and_increment" -> admitted[t][d] + 1
                      [] call[c].op = "reset_daily" -> 0
                      [] OTHER -> admitted[t][d]
    <3>1. admitted[t][d] \in Nat
      <4>1. admitted \in [Tenants -> [Days -> Nat]]
        BY DEF IInv, TypeOK
      <4>2. QED  BY <1>2, <4>1
    <3>2. n \in Nat
      BY <3>1
    <3>3. admitted' = [admitted EXCEPT ![t][d] = n]
      BY DEF Commit
    <3> HIDE DEF n
    <3>4. QED  BY <1>2, <3>2, <3>3, CountTable DEF IInv, TypeOK
  <2>2. admittedInMonth' \in [Tenants -> [Days -> Nat]]
    <3> DEFINE m == MonthStart[d]
    <3>1. m \in Days
      BY <1>2
    <3> HIDE DEF m
    <3>2. admittedInMonth[t][m] \in Nat
      BY <1>2, <3>1 DEF IInv, TypeOK
    <3> DEFINE n == IF call[c].op = "check_and_increment"
                    THEN admittedInMonth[t][m] + 1 ELSE admittedInMonth[t][m]
    <3>3. n \in Nat
      BY <3>2
    <3>4. admittedInMonth' = [admittedInMonth EXCEPT ![t][m] = n]
      BY DEF Commit, m
    <3> HIDE DEF n
    <3>5. QED  BY <1>2, <3>1, <3>3, <3>4, CountTable DEF IInv, TypeOK
  <2>3. quota' \in [Tenants -> Row \cup {NoRow}]
    BY <1>1, <1>4 DEF IInv, TypeOK
  <2>4. granted' \in [Tenants -> SUBSET Tiers]
    BY <1>1, <1>4 DEF IInv, TypeOK
  <2>5. /\ pc' \in [Clients -> Stages \cup Answers]
        /\ call' \in [Clients -> Calls \cup {NoCall}]
        /\ loaded' \in [Clients -> Row] /\ object' \in [Clients -> Row]
    BY <1>1, AnswerFacts
  <2>6. QED  BY <1>1, <2>1, <2>2, <2>3, <2>4, <2>5 DEF IInv, TypeOK
<1>8. CallsInv'
  BY <1>1, AnswerFacts
<1>9. HeldInv'
  <2> SUFFICES ASSUME NEW b \in Clients
               PROVE  Held(b)'
    BY DEF HeldInv
  <2>1. Held(b)
    BY DEF IInv, HeldInv
  <2>2. CASE b = c
    BY <1>0, <1>1, <2>2, AnswerFacts DEF Held
  <2>3. CASE b # c
    <3>1. /\ pc'[b] = pc[b] /\ call'[b] = call[b]
          /\ loaded'[b] = loaded[b] /\ object'[b] = object[b]
      BY <1>1, <2>3, AnswerFacts
    <3>2. pc[b] \in {"modify", "commit"} =>
              /\ call[b].tenant \in Tenants
              /\ quota'[call[b].tenant] # NoRow
      BY <1>1, <1>2, <1>4, <2>1, InFlight, NoRowAssumption DEF Held, IInv, TypeOK
    <3>3. QED  BY <1>1, <1>5, <2>1, <3>1, <3>2, WithinMonotone DEF Held
  <2>4. QED  BY <2>2, <2>3
<1>10. RowsInv'
  <2> SUFFICES ASSUME NEW u \in Rows'
               PROVE  RowOK(u)'
    BY DEF RowsInv
  <2>1. CASE u = t
    BY <1>1, <1>2, <1>4, <1>6, <2>1 DEF IInv, TypeOK, RowOK
  <2>2. CASE u # t
    <3>1. u \in Rows /\ quota'[u] = quota[u]
      BY <1>1, <2>2 DEF IInv, TypeOK, Rows
    <3>2. QED  BY <1>5, <3>1, WithinMonotone DEF IInv, RowsInv, RowOK, Rows
  <2>3. QED  BY <2>1, <2>2
<1>11. QED  BY <1>7, <1>8, <1>9, <1>10 DEF IInv

LEMMA StutterStep ==
    ASSUME IInv, UNCHANGED vars
    PROVE  IInv'
BY DEF IInv, TypeOK, CallsInv, HeldInv, Held, RowsInv, RowOK, Rows, vars, clients, history

----------------------------------------------------------------------------
\* The inductive invariant holds however the requests interleave.
THEOREM Invariance == Spec => []IInv
<1>1. Init => IInv
  BY InitIInv
<1>2. IInv /\ [Next]_vars => IInv'
  <2> SUFFICES ASSUME IInv, [Next]_vars
               PROVE  IInv'
    OBVIOUS
  <2>1. CASE UNCHANGED vars
    BY <2>1, StutterStep
  <2>2. CASE Midnight
    BY <2>2, MidnightStep
  <2>3. ASSUME NEW c \in Clients, NEW k \in Calls, Call(c, k)
        PROVE  IInv'
    BY <2>3, CallStep
  <2>4. ASSUME NEW c \in Clients, Abort(c)
        PROVE  IInv'
    BY <2>4, AbortStep
  <2>5. ASSUME NEW c \in Clients, Step(c)
        PROVE  IInv'
    BY <2>5, SelectStep, InsertStep, InsertConflictStep, RefuseStep, CountStep,
       GetStatusStep, ResetDailyStep, ProvisionStep, CommitStep DEF Step
  <2>6. QED  BY <2>1, <2>2, <2>3, <2>4, <2>5 DEF Next
<1>3. QED  BY <1>1, <1>2, PTL DEF Spec

\* Type correctness of the quota service.
THEOREM TypeCorrect == Spec => []TypeOK
<1>1. IInv => TypeOK
  BY DEF IInv
<1>2. QED  BY <1>1, Invariance, PTL

\* A tier and its two limits are never mixed with those of another tier, however
\* provisions, counts and resets overlap (provision, check_and_increment).
THEOREM TiersAreWhole == Spec => []LimitsMatchTier
<1>1. IInv => LimitsMatchTier
  BY DEF IInv, RowsInv, RowOK, Matches, LimitsMatchTier
<1>2. QED  BY <1>1, Invariance, PTL

\* The stored counters stay within the largest limits the tenant was granted,
\* for any number of overlapping requests and any tier table
\* (check_and_increment).
THEOREM CountersAreBounded == Spec => []CounterWithinGrant
<1>1. IInv => CounterWithinGrant
  BY DEF IInv, RowsInv, RowOK, Within, CounterWithinGrant
<1>2. QED  BY <1>1, Invariance, PTL

----------------------------------------------------------------------------
(***************************************************************************)
(* Requests one after the other: what the counters are exactly.            *)
(***************************************************************************)

\* At most one request is in flight.
OneAtATime == \A b, c \in Clients : b = c

\* The counters of a row are what was admitted in its windows; `day' and `month'
\* are what the tenant was admitted by day and by month.
Exact(q, day, month) ==
    /\ q.events_today = day[q.day_window_start]
    /\ q.events_this_month = month[MonthStart[q.month_window_start]]

\* The windows began before now, and nothing was admitted after them.
Past(q, day, month, now) ==
    /\ q.day_window_start <= now /\ q.month_window_start <= now
    /\ \A d \in Days : d > q.day_window_start => day[d] = 0
    /\ \A d \in Days : d > MonthStart[q.month_window_start] => month[d] = 0

\* What the day counts, the month counts, too, and the month's window is not
\* older than the day's unless the day counts nothing (reset_daily moves the
\* day's window alone).
Ordered(q) ==
    /\ q.events_today <= q.events_this_month
    /\ q.events_today > 0 =>
           MonthStart[q.day_window_start] <= MonthStart[q.month_window_start]

Sound(q, day, month, now) == Exact(q, day, month) /\ Past(q, day, month, now) /\ Ordered(q)

\* What the commit of a request will write.
Pending(op, l, o, day, month, now) ==
    /\ Past(o, day, month, now) /\ Ordered(o)
    /\ op = "check_and_increment" =>
           /\ MonthStart[o.day_window_start] = MonthStart[o.month_window_start]
           /\ o.events_today = day[o.day_window_start] + 1
           /\ o.events_this_month = month[MonthStart[o.month_window_start]] + 1
           /\ o.subscription_tier = l.subscription_tier
           /\ day[o.day_window_start] < l.daily_limit
           /\ month[MonthStart[o.month_window_start]] < l.monthly_limit
    /\ op = "reset_daily" =>
           /\ o.events_today = 0 /\ o.subscription_tier = l.subscription_tier
           /\ o.events_this_month = month[MonthStart[o.month_window_start]]
    /\ op = "get_status" => o.subscription_tier = l.subscription_tier
    /\ op \in {"get_status", "provision"} => Exact(o, day, month)

\* What the one request in flight holds is the row as it is.
HeldSerially(c) ==
    LET t == call[c].tenant
    IN  /\ pc[c] = "insert" => object[c].day_window_start <= clock
                               /\ object[c].month_window_start <= clock
        /\ pc[c] \in {"modify", "commit"} => loaded[c] = quota[t]
        /\ pc[c] = "commit" => Pending(call[c].op, loaded[c], object[c],
                                       admitted[t], admittedInMonth[t], clock)

Unused(t) == \A d \in Days : admitted[t][d] = 0 /\ admittedInMonth[t][d] = 0

SerialInv ==
    /\ \A t \in Rows : Sound(quota[t], admitted[t], admittedInMonth[t], clock)
    /\ \A t \in Tenants : quota[t] = NoRow => Unused(t)
    /\ \A c \in Clients : HeldSerially(c)

\* The months of days in order.
LEMMA MonthFacts ==
    /\ \A d \in Days : MonthStart[d] \in Days /\ MonthStart[d] <= d
    /\ \A d, e \in Days : d <= e => MonthStart[d] <= MonthStart[e]
    /\ \A d, e \in Days : MonthStart[e] <= d /\ d <= e => MonthStart[d] = MonthStart[e]
<1>1. \A d \in Days : MonthStart[d] \in Days /\ MonthStart[d] <= d
  OBVIOUS
<1>2. \A d, e \in Days : d <= e => MonthStart[d] <= MonthStart[e]
  OBVIOUS
<1>3. ASSUME NEW d \in Days, NEW e \in Days, MonthStart[e] <= d, d <= e
      PROVE  MonthStart[d] = MonthStart[e]
  <2>1. MonthStart[d] \in Int /\ MonthStart[e] \in Days /\ MonthStart[e] \in Int
    BY <1>1
  <2>2. MonthStart[d] <= MonthStart[e]
    BY <1>2, <1>3
  <2>3. MonthStart[MonthStart[e]] <= MonthStart[d]
    BY <1>2, <1>3, <2>1
  <2>4. MonthStart[MonthStart[e]] = MonthStart[e]
    BY <1>3
  <2>5. QED  BY <2>1, <2>2, <2>3, <2>4
<1>4. QED  BY <1>1, <1>2, <1>3

LEMMA ZeroIsLeast ==
    ASSUME NEW k \in Nat, NEW m, NEW n, m = 0, n \in {0, k}
    PROVE  m <= n
OBVIOUS

\* After the reset the windows are those of today, and the counters are what was
\* admitted in them (_maybe_reset_windows).
LEMMA ResetIsSound ==
    ASSUME NEW q \in Row, NEW now \in Days, NEW day \in [Days -> Nat],
           NEW month \in [Days -> Nat], Sound(q, day, month, now)
    PROVE  LET r == ResetWindows(q, now)
           IN  /\ Sound(r, day, month, now)
               /\ r.day_window_start = now
               /\ MonthStart[r.month_window_start] = MonthStart[now]
<1> DEFINE r == ResetWindows(q, now)
           newDay == q.day_window_start < now
           newMonth == q.month_window_start < MonthStart[now]
<1>1. /\ q.events_today \in Nat /\ q.events_this_month \in Nat
      /\ q.day_window_start \in Days /\ q.month_window_start \in Days
      /\ q.day_window_start \in Int /\ q.month_window_start \in Int /\ now \in Int
  BY DEF Row
<1>2. q.day_window_start <= now /\ q.month_window_start <= now
  BY DEF Sound, Past
<1>3. /\ newDay => r.events_today = 0 /\ r.day_window_start = now
      /\ ~newDay => /\ r.events_today = q.events_today
                    /\ r.day_window_start = q.day_window_start
      /\ newMonth => r.events_this_month = 0 /\ r.month_window_start = now
      /\ ~newMonth => /\ r.events_this_month = q.events_this_month
                      /\ r.month_window_start = q.month_window_start
  BY DEF ResetWindows, Row
<1>4. /\ MonthStart[now] \in Days /\ MonthStart[now] \in Int
      /\ MonthStart[q.month_window_start] \in Int
      /\ MonthStart[q.month_window_start] <= q.month_window_start
      /\ MonthStart[q.month_window_start] <= MonthStart[now]
  <2>1. PICK w \in Days : w = q.month_window_start /\ w \in Int /\ w <= now
    BY <1>1, <1>2
  <2>2. MonthStart[now] \in Days /\ MonthStart[w] \in Days /\ MonthStart[w] <= w
    BY <2>1, MonthFacts
  <2>3. MonthStart[w] <= MonthStart[now]
    BY <2>1, MonthFacts
  <2>4. MonthStart[now] \in Int /\ MonthStart[w] \in Int
    BY <2>2, LastDayAssumption DEF Days
  <2>5. QED  BY <2>1, <2>2, <2>3, <2>4
<1>5. ~newDay => q.day_window_start = now
  BY <1>1, <1>2 DEF Row
<1>6. ASSUME newMonth PROVE MonthStart[now] > MonthStart[q.month_window_start]
  <2>1. PICK a \in Int, b \in Int, w \in Int :
            a = MonthStart[now] /\ b = MonthStart[q.month_window_start]
            /\ w = q.month_window_start
    BY <1>1, <1>4
  <2>2. w < a /\ b <= w
    BY <1>4, <1>6, <2>1
  <2>3. a > b
    BY <2>2
  <2>4. QED  BY <2>1, <2>3
<1>7. ~newMonth => MonthStart[q.month_window_start] = MonthStart[now]
  <2> SUFFICES ASSUME ~newMonth
               PROVE  MonthStart[q.month_window_start] = MonthStart[now]
    OBVIOUS
  <2>1. PICK a \in Days, w \in Days : a = MonthStart[now] /\ w = q.month_window_start
    BY <1>1, <1>4
  <2>2. a \in Int /\ w \in Int /\ ~(w < a)
    BY <1>1, <1>4, <2>1
  <2>3. a <= w /\ w <= now
    <3>1. a <= w
      BY <2>2
    <3>2. QED  BY <1>2, <2>1, <3>1
  <2>4. QED  BY <2>1, <2>3, MonthFacts
<1> HIDE DEF r, newDay, newMonth
<1>8. r.day_window_start = now /\ MonthStart[r.month_window_start] = MonthStart[now]
  BY <1>3, <1>5, <1>7
<1>9. Exact(r, day, month)
  <2>1. newDay => day[now] = 0
    BY <1>1 DEF Sound, Past, newDay
  <2>2. newMonth => month[MonthStart[now]] = 0
    BY <1>4, <1>6 DEF Sound, Past
  <2>3. /\ ~newDay => q.events_today = day[now]
        /\ ~newMonth => q.events_this_month = month[MonthStart[now]]
    BY <1>5, <1>7 DEF Sound, Exact
  <2>4. QED  BY <1>3, <1>8, <2>1, <2>2, <2>3 DEF Exact
<1>10. Past(r, day, month, now)
  <2>1. r.month_window_start <= now
    <3>1. CASE newMonth
      BY <1>1, <1>3, <3>1
    <3>2. CASE ~newMonth
      BY <1>2, <1>3, <3>2
    <3>3. QED  BY <3>1, <3>2
  <2>2. ASSUME NEW d \in Days, d > now PROVE day[d] = 0
    <3>1. d > q.day_window_start
      BY <1>1, <1>2, <2>2 DEF Row
    <3>2. QED  BY <3>1 DEF Sound, Past
  <2>3. ASSUME NEW d \in Days, d > MonthStart[now] PROVE month[d] = 0
    <3>1. d > MonthStart[q.month_window_start]
      BY <1>4, <2>3 DEF Row
    <3>2. QED  BY <3>1 DEF Sound, Past
  <2>4. r.day_window_start <= now
    BY <1>1, <1>8
  <2>5. QED  BY <1>8, <2>1, <2>2, <2>3, <2>4 DEF Past
<1>11. Ordered(r)
  <2>1. r.events_today <= r.events_this_month
    <3>1. CASE newDay
      <4>1. r.events_today = 0 /\ r.events_this_month \in {0, q.events_this_month}
        BY <1>3, <3>1
      <4>2. QED  BY <1>1, <4>1, ZeroIsLeast
    <3>2. CASE ~newDay /\ ~newMonth
      BY <1>3, <3>2 DEF Sound, Ordered
    <3>3. CASE ~newDay /\ newMonth
      <4>1. MonthStart[q.day_window_start] = MonthStart[now]
        BY <1>5, <3>3
      <4>2. ~(MonthStart[q.day_window_start] <= MonthStart[q.month_window_start])
        BY <1>4, <1>6, <3>3, <4>1 DEF Row
      <4>3. ~(q.events_today > 0)
        BY <4>2 DEF Sound, Ordered
      <4>4. q.events_today = 0
        BY <1>1, <4>3 DEF Row
      <4>5. r.events_today = 0 /\ r.events_this_month \in {0, q.events_this_month}
        BY <1>3, <3>3, <4>4
      <4>6. QED  BY <1>1, <4>5, ZeroIsLeast
    <3>4. QED  BY <3>1, <3>2, <3>3
  <2>2. MonthStart[r.day_window_start] <= MonthStart[r.month_window_start]
    BY <1>4, <1>8
  <2>3. QED  BY <2>1, <2>2 DEF Ordered
<1>12. QED  BY <1>8, <1>9, <1>10, <1>11 DEF Sound, r

LEMMA Below == ASSUME NEW m \in Nat, NEW n \in Nat, ~(m >= n) PROVE m < n
OBVIOUS

\* A count below both limits may be committed (check_and_increment).
LEMMA CountIsPending ==
    ASSUME NEW q \in Row, NEW l \in Row, NEW now \in Days,
           NEW day \in [Days -> Nat], NEW month \in [Days -> Nat],
           Sound(q, day, month, now), ~OverLimit(q),
           MonthStart[q.day_window_start] = MonthStart[q.month_window_start],
           q.daily_limit = l.daily_limit, q.monthly_limit = l.monthly_limit,
           q.subscription_tier = l.subscription_tier
    PROVE  Pending("check_and_increment", l, CountEvent(q), day, month, now)
<1> DEFINE o == CountEvent(q)
<1>1. /\ o.events_today = q.events_today + 1
      /\ o.events_this_month = q.events_this_month + 1
      /\ o.day_window_start = q.day_window_start
      /\ o.month_window_start = q.month_window_start
      /\ o.subscription_tier = q.subscription_tier
  BY DEF CountEvent, Row
<1>2. /\ q.events_today = day[q.day_window_start]
      /\ q.events_this_month = month[MonthStart[q.month_window_start]]
  BY DEF Sound, Exact
<1>3. q.events_today < l.daily_limit /\ q.events_this_month < l.monthly_limit
  <2>1. /\ ~(q.events_today >= q.daily_limit)
        /\ ~(q.events_this_month >= q.monthly_limit)
    BY DEF OverLimit
  <2>2. q.events_today < q.daily_limit /\ q.events_this_month < q.monthly_limit
    BY <2>1, Below DEF Row
  <2>3. QED  BY <2>2
<1>4. q.events_today + 1 <= q.events_this_month + 1
  BY DEF Sound, Ordered, Row
<1>5. /\ MonthStart[q.day_window_start] <= MonthStart[q.month_window_start]
      /\ MonthStart[q.day_window_start] \in Int
  BY MonthFacts DEF Row
<1> HIDE DEF o
<1>6. Past(o, day, month, now)
  BY <1>1 DEF Sound, Past
<1>7. Ordered(o)
  BY <1>1, <1>4, <1>5 DEF Ordered
<1>8. QED  BY <1>1, <1>2, <1>3, <1>6, <1>7, Zenon DEF Pending, o

\* So may the reset of the day (reset_daily).
LEMMA RestartIsPending ==
    ASSUME NEW q \in Row, NEW now \in Days,
           NEW day \in [Days -> Nat], NEW month \in [Days -> Nat],
           Sound(q, day, month, now)
    PROVE  Pending("reset_daily", q, RestartDay(q, now), day, month, now)
<1> DEFINE o == RestartDay(q, now)
<1>1. /\ o.events_today = 0
      /\ o.events_this_month = q.events_this_month
      /\ o.day_window_start = now
      /\ o.month_window_start = q.month_window_start
      /\ o.subscription_tier = q.subscription_tier
  BY DEF RestartDay, Row
<1>2. q.events_this_month = month[MonthStart[q.month_window_start]]
  BY DEF Sound, Exact
<1>3. /\ now <= now /\ q.month_window_start <= now
      /\ q.events_this_month \in Nat
  BY DEF Sound, Past, Row
<1>4. ASSUME NEW d \in Days, d > now PROVE day[d] = 0
  <2>1. d > q.day_window_start
    BY <1>4 DEF Sound, Past, Row
  <2>2. QED  BY <2>1 DEF Sound, Past
<1> HIDE DEF o
<1>5. Past(o, day, month, now)
  BY <1>1, <1>3, <1>4 DEF Sound, Past
<1>6. Ordered(o)
  BY <1>1, <1>3 DEF Ordered
<1>7. QED  BY <1>1, <1>2, <1>5, <1>6, Zenon DEF Pending, o

\* So may the windows' reset alone (get_status) and a change of tier (provision):
\* neither touches what is counted in the windows.
LEMMA StatusIsPending ==
    ASSUME NEW q \in Row, NEW l \in Row, NEW now \in Days, NEW day, NEW month,
           Sound(q, day, month, now), q.subscription_tier = l.subscription_tier
    PROVE  Pending("get_status", l, q, day, month, now)
BY DEF Pending, Sound

LEMMA TierIsPending ==
    ASSUME NEW q \in Row, NEW tier \in Tiers, NEW now \in Days, NEW day, NEW month,
           Sound(q, day, month, now)
    PROVE  Pending("provision", q, ChangeTier(q, tier), day, month, now)
<1> DEFINE o == ChangeTier(q, tier)
<1>1. /\ o.events_today = q.events_today
      /\ o.events_this_month = q.events_this_month
      /\ o.day_window_start = q.day_window_start
      /\ o.month_window_start = q.month_window_start
  BY DEF ChangeTier, Row
<1> HIDE DEF o
<1>2. Exact(o, day, month) /\ Past(o, day, month, now) /\ Ordered(o)
  BY <1>1 DEF Sound, Exact, Past, Ordered
<1>3. QED  BY <1>2, Zenon DEF Pending, o

\* A request that is alone writes the columns of its object.
LEMMA FlushAlone ==
    ASSUME NEW row \in Row, NEW new \in Row, NEW op
    PROVE  Flush(row, row, new, op) = new
BY DEF Flush, Row

\* What was true of the windows on one day is true on a later one.
LEMMA PastMonotone ==
    ASSUME NEW q \in Row, NEW day, NEW month, NEW now \in Days, NEW later \in Days,
           now <= later, Past(q, day, month, now)
    PROVE  Past(q, day, month, later)
<1>1. /\ q.day_window_start \in Int /\ q.month_window_start \in Int
      /\ now \in Int /\ later \in Int
  BY DEF Row
<1>2. q.day_window_start <= later /\ q.month_window_start <= later
  BY <1>1 DEF Past
<1>3. QED  BY <1>2 DEF Past

\* What a commit makes of the counts of its tenant.
DayAfter(op, day, d) ==
    [day EXCEPT ![d] = CASE op = "check_and_increment" -> @ + 1
                         [] op = "reset_daily" -> 0
                         [] OTHER -> @]

MonthAfter(op, month, m) ==
    [month EXCEPT ![m] = IF op = "check_and_increment" THEN @ + 1 ELSE @]

\* A row that may be committed is sound once it is.
LEMMA PendingIsSound ==
    ASSUME NEW o \in Row, NEW l \in Row, NEW now \in Days, NEW op \in Operations,
           NEW day \in [Days -> Nat], NEW month \in [Days -> Nat],
           Pending(op, l, o, day, month, now)
    PROVE  Sound(o, DayAfter(op, day, o.day_window_start),
                 MonthAfter(op, month, MonthStart[o.day_window_start]), now)
<1> DEFINE d == o.day_window_start
           m == MonthStart[d]
           day2 == DayAfter(op, day, d)
           month2 == MonthAfter(op, month, m)
<1>0. d = o.day_window_start /\ m = MonthStart[d]
  OBVIOUS
<1>1. /\ d \in Days /\ m \in Days /\ MonthStart[o.month_window_start] \in Days
      /\ d \in Int /\ m \in Int
  <2>1. o.day_window_start \in Days /\ o.month_window_start \in Days
    BY DEF Row
  <2>2. MonthStart[o.day_window_start] \in Days /\ MonthStart[o.month_window_start] \in Days
    BY <2>1, MonthFacts, Zenon
  <2>3. \A e \in Days : e \in Int
    OBVIOUS
  <2>4. QED  BY <2>1, <2>2, <2>3, Zenon
<1>2. Past(o, day, month, now) /\ Ordered(o)
  BY DEF Pending
<1> HIDE DEF d, m
<1>3. CASE op = "check_and_increment"
  <2>1. day2 = [day EXCEPT ![d] = day[d] + 1]
    BY <1>3 DEF DayAfter
  <2>2. month2 = [month EXCEPT ![m] = month[m] + 1]
    BY <1>3 DEF MonthAfter
  <2>3. /\ m = MonthStart[o.month_window_start]
        /\ o.events_today = day[d] + 1 /\ o.events_this_month = month[m] + 1
    BY <1>0, <1>3 DEF Pending
  <2> HIDE DEF day2, month2
  <2>4. /\ day2[d] = day[d] + 1 /\ month2[m] = month[m] + 1
        /\ \A e \in Days : e # d => day2[e] = day[e]
        /\ \A e \in Days : e # m => month2[e] = month[e]
    BY <1>1, <2>1, <2>2
  <2>5. Exact(o, day2, month2)
    BY <1>0, <2>3, <2>4 DEF Exact
  <2>6. ASSUME NEW e \in Days
        PROVE  (e > d => e # d) /\ (e > m => e # m)
    <3>1. e > d => e # d
      BY <1>1
    <3>2. e > m => e # m
      BY <1>1
    <3>3. QED  BY <3>1, <3>2
  <2>7. Past(o, day2, month2, now)
    BY <1>2, <2>3, <2>4, <2>6, <1>0, Zenon DEF Past
  <2>8. QED  BY <1>2, <2>5, <2>7, Zenon DEF Sound, day2, month2, d, m
<1>4. CASE op = "reset_daily"
  <2>1. day2 = [day EXCEPT ![d] = 0]
    BY <1>4 DEF DayAfter
  <2>2. month2 = month
    BY <1>1, <1>4 DEF MonthAfter
  <2>3. o.events_today = 0 /\ o.events_this_month = month[MonthStart[o.month_window_start]]
    BY <1>4 DEF Pending
  <2> HIDE DEF day2, month2
  <2>4. /\ day2[d] = 0
        /\ \A e \in Days : e # d => day2[e] = day[e]
    BY <1>1, <2>1
  <2>5. Exact(o, day2, month2)
    BY <1>0, <2>2, <2>3, <2>4 DEF Exact
  <2>6. ASSUME NEW e \in Days
        PROVE  e > d => e # d
    BY <1>1
  <2>7. Past(o, day2, month2, now)
    BY <1>2, <2>2, <2>4, <2>6, <1>0, Zenon DEF Past
  <2>8. QED  BY <1>2, <2>5, <2>7, Zenon DEF Sound, day2, month2, d, m
<1>5. CASE op \in {"get_status", "provision"}
  <2>1. day2 = day
    BY <1>1, <1>5 DEF DayAfter
  <2>2. month2 = month
    BY <1>1, <1>5 DEF MonthAfter
  <2>3. Exact(o, day, month)
    BY <1>5 DEF Pending
  <2> HIDE DEF day2, month2
  <2>4. QED  BY <1>2, <2>1, <2>2, <2>3, Zenon DEF Sound, day2, month2, d, m
<1>6. QED  BY <1>3, <1>4, <1>5, OperationsAssumption

----------------------------------------------------------------------------
\* What the request in flight works with.
LEMMA HeldAlone ==
    ASSUME IInv, SerialInv, NEW c \in Clients, pc[c] \in {"modify", "commit"}
    PROVE  LET t == call[c].tenant
           IN  /\ t \in Tenants /\ t \in Rows
               /\ quota[t] \in Row /\ loaded[c] = quota[t] /\ object[c] \in Row
               /\ admitted[t] \in [Days -> Nat] /\ admittedInMonth[t] \in [Days -> Nat]
               /\ Sound(loaded[c], admitted[t], admittedInMonth[t], clock)
               /\ clock \in Days /\ call[c].op \in Operations /\ call[c].tier \in Tiers
<1>1. /\ call[c] \in Calls /\ call[c].tenant \in Tenants /\ call[c].tier \in Tiers
      /\ clock \in Days /\ loaded[c] \in Row /\ object[c] \in Row
  BY InFlight
<1>2. quota[call[c].tenant] # NoRow /\ loaded[c] = quota[call[c].tenant]
  BY DEF IInv, HeldInv, Held, SerialInv, HeldSerially
<1>3. call[c].op \in Operations
  BY <1>1 DEF Calls
<1>4. /\ admitted[call[c].tenant] \in [Days -> Nat]
      /\ admittedInMonth[call[c].tenant] \in [Days -> Nat]
  BY <1>1 DEF IInv, TypeOK
<1>5. call[c].tenant \in Rows
  BY <1>1, <1>2 DEF Rows
<1>6. Sound(loaded[c], admitted[call[c].tenant], admittedInMonth[call[c].tenant], clock)
  BY <1>2, <1>5 DEF SerialInv
<1>7. QED  BY <1>1, <1>2, <1>3, <1>4, <1>5, <1>6

LEMMA SerialInit == Init => SerialInv
BY AnyRowFacts DEF Init, SerialInv, Rows, Unused, HeldSerially

\* A step that writes no row keeps the rows sound.
LEMMA RowsStay ==
    ASSUME SerialInv, UNCHANGED <<clock, quota, history>>
    PROVE  /\ (\A t \in Rows : Sound(quota[t], admitted[t], admittedInMonth[t], clock))'
           /\ (\A t \in Tenants : quota[t] = NoRow => Unused(t))'
BY DEF SerialInv, Rows, Unused, history

LEMMA SerialCall ==
    ASSUME OneAtATime, IInv, SerialInv, NEW c \in Clients, NEW k \in Calls, Call(c, k)
    PROVE  SerialInv'
<1>1. UNCHANGED <<clock, quota, history>> /\ pc'[c] = "select"
  BY DEF Call, IInv, TypeOK
<1>2. \A b \in Clients : HeldSerially(b)'
  BY <1>1 DEF OneAtATime, HeldSerially
<1>3. QED  BY <1>1, <1>2, RowsStay DEF SerialInv

LEMMA SerialSelect ==
    ASSUME OneAtATime, IInv, SerialInv, NEW c \in Clients, Select(c)
    PROVE  SerialInv'
<1> DEFINE t == call[c].tenant
<1>1. /\ UNCHANGED <<clock, quota, call, history>> /\ pc[c] = "select"
  BY DEF Select
<1>2. /\ t \in Tenants /\ quota[t] \in Row \cup {NoRow} /\ clock \in Days
      /\ call[c].tier \in Tiers
  BY <1>1, InFlight
<1>3. CASE quota[t] = NoRow
  <2> DEFINE q == NewRow(call[c].tier, clock)
  <2>1. pc'[c] = "insert" /\ object'[c] = q
    BY <1>3 DEF Select, IInv, TypeOK
  <2>2. q.day_window_start = clock /\ q.month_window_start = clock /\ clock <= clock
    BY <1>2 DEF NewRow
  <2> HIDE DEF q
  <2>3. \A b \in Clients : HeldSerially(b)'
    BY <1>1, <2>1, <2>2 DEF OneAtATime, HeldSerially
  <2>4. QED  BY <1>1, <2>3, RowsStay DEF SerialInv
<1>4. CASE quota[t] # NoRow
  <2>1. pc'[c] = "modify" /\ loaded'[c] = quota[t]
    BY <1>4 DEF Select, IInv, TypeOK
  <2>2. \A b \in Clients : HeldSerially(b)'
    BY <1>1, <2>1 DEF OneAtATime, HeldSerially
  <2>3. QED  BY <1>1, <2>2, RowsStay DEF SerialInv
<1>5. QED  BY <1>3, <1>4

\* A step that answers the request and writes nothing.
LEMMA SerialAnswer ==
    ASSUME OneAtATime, IInv, SerialInv, NEW c \in Clients, NEW a \in Answers, Answer(c, a),
           UNCHANGED <<clock, quota, history>>
    PROVE  SerialInv'
<1>1. \A b \in Clients : HeldSerially(b)'
  BY AnswerFacts DEF OneAtATime, HeldSerially, Answers
<1>2. QED  BY <1>1, RowsStay DEF SerialInv

\* An assignment to the object that may be committed.
LEMMA SerialModify ==
    ASSUME OneAtATime, IInv, SerialInv, NEW c \in Clients, NEW q, pc[c] = "modify",
           Modify(c, q),
           Pending(call[c].op, loaded[c], q, admitted[call[c].tenant],
                   admittedInMonth[call[c].tenant], clock)
    PROVE  SerialInv'
<1>1. /\ UNCHANGED <<clock, quota, call, loaded, history, admitted, admittedInMonth>>
      /\ pc'[c] = "commit" /\ object'[c] = q
  BY DEF Modify, IInv, TypeOK, history
<1>2. loaded[c] = quota[call[c].tenant]
  BY DEF SerialInv, HeldSerially
<1>3. \A b \in Clients : HeldSerially(b)'
  BY <1>1, <1>2 DEF OneAtATime, HeldSerially
<1>4. QED  BY <1>1, <1>3, RowsStay DEF SerialInv

LEMMA SerialRefuse ==
    ASSUME OneAtATime, IInv, SerialInv, NEW c \in Clients, Refuse(c)
    PROVE  SerialInv'
BY SerialAnswer DEF Refuse, Answers

LEMMA SerialAbort ==
    ASSUME OneAtATime, IInv, SerialInv, NEW c \in Clients, Abort(c) \/ InsertConflict(c)
    PROVE  SerialInv'
BY SerialAnswer DEF Abort, InsertConflict, Answers

\* The windows that a check and a status reset are today's.
LEMMA ResetAlone ==
    ASSUME IInv, SerialInv, NEW c \in Clients, pc[c] = "modify"
    PROVE  LET r == ResetWindows(loaded[c], clock)
               t == call[c].tenant
           IN  /\ r \in Row /\ loaded[c] \in Row /\ clock \in Days
               /\ admitted[t] \in [Days -> Nat] /\ admittedInMonth[t] \in [Days -> Nat]
               /\ Sound(r, admitted[t], admittedInMonth[t], clock)
               /\ r.day_window_start = clock
               /\ MonthStart[r.month_window_start] = MonthStart[clock]
               /\ r.subscription_tier = loaded[c].subscription_tier
               /\ r.daily_limit = loaded[c].daily_limit
               /\ r.monthly_limit = loaded[c].monthly_limit
<1> DEFINE l == loaded[c]
           day == admitted[call[c].tenant]
           month == admittedInMonth[call[c].tenant]
           r == ResetWindows(l, clock)
<1>1. /\ l \in Row /\ clock \in Days
      /\ day \in [Days -> Nat] /\ month \in [Days -> Nat]
      /\ Sound(l, day, month, clock)
  BY HeldAlone
<1> HIDE DEF l, day, month
<1>2. /\ Sound(r, day, month, clock)
      /\ r.day_window_start = clock
      /\ MonthStart[r.month_window_start] = MonthStart[clock]
  BY <1>1, ResetIsSound
<1>3. /\ r \in Row /\ r.subscription_tier = l.subscription_tier
      /\ r.daily_limit = l.daily_limit /\ r.monthly_limit = l.monthly_limit
  BY <1>1, ResetWindowsFacts
<1> HIDE DEF r
<1>4. QED  BY <1>1, <1>2, <1>3 DEF r, l, day, month

LEMMA SerialCount ==
    ASSUME OneAtATime, IInv, SerialInv, NEW c \in Clients, Count(c)
    PROVE  SerialInv'
<1> DEFINE r == ResetWindows(loaded[c], clock)
<1>1. /\ pc[c] = "modify" /\ call[c].op = "check_and_increment"
      /\ ~OverLimit(r) /\ Modify(c, CountEvent(r))
  BY DEF Count
<1>2. /\ r \in Row /\ loaded[c] \in Row /\ clock \in Days
      /\ admitted[call[c].tenant] \in [Days -> Nat]
      /\ admittedInMonth[call[c].tenant] \in [Days -> Nat]
      /\ Sound(r, admitted[call[c].tenant], admittedInMonth[call[c].tenant], clock)
      /\ MonthStart[r.day_window_start] = MonthStart[r.month_window_start]
      /\ r.subscription_tier = loaded[c].subscription_tier
      /\ r.daily_limit = loaded[c].daily_limit
      /\ r.monthly_limit = loaded[c].monthly_limit
  BY <1>1, ResetAlone
<1> HIDE DEF r
<1>3. Pending("check_and_increment", loaded[c], CountEvent(r), admitted[call[c].tenant],
              admittedInMonth[call[c].tenant], clock)
  BY <1>1, <1>2, CountIsPending
<1>4. QED  BY <1>1, <1>3, SerialModify

LEMMA SerialStatus ==
    ASSUME OneAtATime, IInv, SerialInv, NEW c \in Clients, GetStatus(c)
    PROVE  SerialInv'
<1> DEFINE r == ResetWindows(loaded[c], clock)
<1>1. pc[c] = "modify" /\ call[c].op = "get_status" /\ Modify(c, r)
  BY DEF GetStatus
<1>2. /\ r \in Row /\ loaded[c] \in Row /\ clock \in Days
      /\ Sound(r, admitted[call[c].tenant], admittedInMonth[call[c].tenant], clock)
      /\ r.subscription_tier = loaded[c].subscription_tier
  BY <1>1, ResetAlone
<1> HIDE DEF r
<1>3. Pending("get_status", loaded[c], r, admitted[call[c].tenant],
              admittedInMonth[call[c].tenant], clock)
  BY <1>2, StatusIsPending
<1>4. QED  BY <1>1, <1>3, SerialModify

LEMMA SerialReset ==
    ASSUME OneAtATime, IInv, SerialInv, NEW c \in Clients, ResetDaily(c)
    PROVE  SerialInv'
<1>1. /\ pc[c] = "modify" /\ call[c].op = "reset_daily"
      /\ Modify(c, RestartDay(loaded[c], clock))
  BY DEF ResetDaily
<1>2. Pending("reset_daily", loaded[c], RestartDay(loaded[c], clock),
              admitted[call[c].tenant], admittedInMonth[call[c].tenant], clock)
  BY <1>1, HeldAlone, RestartIsPending
<1>3. QED  BY <1>1, <1>2, SerialModify

LEMMA SerialProvision ==
    ASSUME OneAtATime, IInv, SerialInv, NEW c \in Clients, Provision(c)
    PROVE  SerialInv'
<1>1. /\ pc[c] = "modify" /\ call[c].op = "provision"
      /\ Modify(c, ChangeTier(loaded[c], call[c].tier))
  BY DEF Provision
<1>2. Pending("provision", loaded[c], ChangeTier(loaded[c], call[c].tier),
              admitted[call[c].tenant], admittedInMonth[call[c].tenant], clock)
  BY <1>1, HeldAlone, TierIsPending
<1>3. QED  BY <1>1, <1>2, SerialModify

\* The new row counts nothing, and nothing was admitted for its tenant.
LEMMA SerialInsert ==
    ASSUME OneAtATime, IInv, SerialInv, NEW c \in Clients, Insert(c)
    PROVE  SerialInv'
<1> DEFINE t == call[c].tenant
           q == object[c]
<1>1. /\ pc[c] = "insert" /\ quota[t] = NoRow
      /\ quota' = [quota EXCEPT ![t] = q]
      /\ \/ \E a \in Answers : Answer(c, a)
         \/ pc'[c] = "modify" /\ UNCHANGED <<call, loaded, object>>
      /\ UNCHANGED <<clock, admitted, admittedInMonth>>
  BY DEF Insert, AnswerCommitted, Answers, IInv, TypeOK
<1>2. t \in Tenants /\ q \in Row /\ loaded[c] = q
  BY <1>1, InFlight DEF IInv, HeldInv, Held
<1>3. /\ q.events_today = 0 /\ q.events_this_month = 0
      /\ q.day_window_start <= clock /\ q.month_window_start <= clock
  BY <1>1 DEF IInv, HeldInv, Held, SerialInv, HeldSerially
<1>4. Unused(t)
  BY <1>1, <1>2 DEF SerialInv
<1>5. Sound(q, admitted[t], admittedInMonth[t], clock)
  <2>1. /\ q.day_window_start \in Days /\ MonthStart[q.month_window_start] \in Days
    BY <1>2 DEF Row
  <2>2. Exact(q, admitted[t], admittedInMonth[t])
    BY <1>3, <1>4, <2>1 DEF Exact, Unused
  <2>3. Past(q, admitted[t], admittedInMonth[t], clock)
    BY <1>3, <1>4 DEF Past, Unused
  <2>4. Ordered(q)
    BY <1>3 DEF Ordered
  <2>5. QED  BY <2>2, <2>3, <2>4 DEF Sound
<1>6. \A u \in Rows' : Sound(quota'[u], admitted'[u], admittedInMonth'[u], clock')
  <2>1. quota'[t] = q /\ \A u \in Tenants \ {t} : quota'[u] = quota[u]
    BY <1>1, <1>2 DEF IInv, TypeOK
  <2>2. \A u \in Rows : Sound(quota[u], admitted[u], admittedInMonth[u], clock)
    BY DEF SerialInv
  <2>3. ASSUME NEW u \in Rows'
        PROVE  Sound(quota'[u], admitted'[u], admittedInMonth'[u], clock')
    <3>1. CASE u = t
      BY <1>1, <1>5, <2>1, <3>1
    <3>2. CASE u # t
      <4>1. u \in Rows /\ quota'[u] = quota[u]
        BY <2>1, <3>2 DEF Rows
      <4>2. QED  BY <1>1, <2>2, <4>1
    <3>3. QED  BY <3>1, <3>2
  <2>4. QED  BY <2>3
<1>7. \A u \in Tenants : quota'[u] = NoRow => Unused(u)'
  BY <1>1, <1>2, NoRowAssumption, SMTT(30) DEF SerialInv, Unused, IInv, TypeOK
<1>8. HeldSerially(c)'
  <2>1. CASE \E a \in Answers : Answer(c, a)
    BY <2>1, AnswerFacts DEF HeldSerially, Answers
  <2>2. CASE pc'[c] = "modify" /\ UNCHANGED <<call, loaded, object>>
    <3>1. quota'[t] = q
      BY <1>1, <1>2 DEF IInv, TypeOK
    <3>2. QED  BY <1>2, <2>2, <3>1 DEF HeldSerially
  <2>3. QED  BY <1>1, <2>1, <2>2
<1>9. \A b \in Clients : HeldSerially(b)'
  BY <1>8 DEF OneAtATime
<1>10. QED  BY <1>6, <1>7, <1>9 DEF SerialInv

\* The counters a commit leaves are those of the events admitted by then.
LEMMA SerialCommit ==
    ASSUME OneAtATime, IInv, SerialInv, NEW c \in Clients, Commit(c)
    PROVE  SerialInv'
<1> DEFINE t == call[c].tenant
           o == object[c]
           op == call[c].op
           d == o.day_window_start
           day == admitted[t]
           month == admittedInMonth[t]
<1>1. PICK a \in {"ok", "error"} : Answer(c, a)
  BY DEF Commit, AnswerCommitted
<1>2. pc[c] = "commit"
  BY DEF Commit
<1>3. /\ t \in Tenants /\ quota[t] \in Row /\ loaded[c] = quota[t] /\ o \in Row
      /\ day \in [Days -> Nat] /\ month \in [Days -> Nat]
      /\ clock \in Days /\ op \in Operations
  BY <1>2, HeldAlone
<1>4. Pending(op, loaded[c], o, day, month, clock)
  BY <1>2 DEF SerialInv, HeldSerially
<1>5. /\ quota' = [quota EXCEPT ![t] = Flush(quota[t], loaded[c], o, op)]
      /\ admitted' = [admitted EXCEPT ![t] = DayAfter(op, day, d)]
      /\ admittedInMonth' =
             [admittedInMonth EXCEPT ![t] = MonthAfter(op, month, MonthStart[d])]
      /\ clock' = clock
  BY DEF Commit, DayAfter, MonthAfter
<1>6. Flush(quota[t], loaded[c], o, op) = o
  BY <1>3, FlushAlone
<1>7. Sound(o, DayAfter(op, day, d), MonthAfter(op, month, MonthStart[d]), clock)
  BY <1>3, <1>4, PendingIsSound
<1>8. /\ quota'[t] = o /\ admitted'[t] = DayAfter(op, day, d)
      /\ admittedInMonth'[t] = MonthAfter(op, month, MonthStart[d])
      /\ \A u \in Tenants : u # t => /\ quota'[u] = quota[u]
                                     /\ admitted'[u] = admitted[u]
                                     /\ admittedInMonth'[u] = admittedInMonth[u]
  BY <1>3, <1>5, <1>6 DEF IInv, TypeOK
<1> HIDE DEF t, o, op, d, day, month
<1>9. ASSUME NEW u \in Rows'
      PROVE  Sound(quota'[u], admitted'[u], admittedInMonth'[u], clock')
  <2>1. CASE u = t
    BY <1>5, <1>7, <1>8, <2>1
  <2>2. CASE u # t
    BY <1>5, <1>8, <2>2 DEF SerialInv, Rows
  <2>3. QED  BY <2>1, <2>2
<1>10. ASSUME NEW u \in Tenants, quota'[u] = NoRow
       PROVE  Unused(u)'
  <2>1. u # t
    BY <1>3, <1>8, <1>10, NoRowAssumption
  <2>2. Unused(u)
    BY <1>8, <1>10, <2>1 DEF SerialInv
  <2>3. admitted'[u] = admitted[u] /\ admittedInMonth'[u] = admittedInMonth[u]
    BY <1>8, <2>1
  <2>4. QED  BY <2>2, <2>3 DEF Unused
<1>11. \A b \in Clients : HeldSerially(b)'
  <2>1. pc'[c] = a
    BY <1>1, AnswerFacts DEF Answers
  <2>2. QED  BY <2>1 DEF OneAtATime, HeldSerially
<1>12. QED  BY <1>9, <1>10, <1>11 DEF SerialInv

\* A midnight inside a call leaves what is pending as it is.
LEMMA SerialMidnight ==
    ASSUME OneAtATime, IInv, SerialInv, Midnight
    PROVE  SerialInv'
<1>1. /\ UNCHANGED <<quota, pc, call, loaded, object, admitted, admittedInMonth>>
      /\ clock' = clock + 1 /\ clock < LastDay
  BY DEF Midnight, clients, history
<1>2. clock \in Days /\ clock' \in Days /\ clock <= clock'
  BY <1>1 DEF IInv, TypeOK
<1>3. ASSUME NEW t \in Rows
      PROVE  Sound(quota[t], admitted[t], admittedInMonth[t], clock')
  <2>1. Sound(quota[t], admitted[t], admittedInMonth[t], clock) /\ quota[t] \in Row
    BY DEF SerialInv, Rows, IInv, TypeOK
  <2>2. QED  BY <1>2, <2>1, PastMonotone DEF Sound
<1>4. ASSUME NEW c \in Clients
      PROVE  HeldSerially(c)'
  <2>1. HeldSerially(c)
    BY DEF SerialInv
  <2>2. object[c] \in Row
    BY DEF IInv, TypeOK
  <2>3. pc[c] = "insert" => object[c].day_window_start <= clock'
                            /\ object[c].month_window_start <= clock'
    <3>1. ASSUME NEW q \in Row, q.day_window_start <= clock, q.month_window_start <= clock
          PROVE  q.day_window_start <= clock' /\ q.month_window_start <= clock'
      <4>1. ASSUME NEW d \in Days, NEW m \in Days, NEW n \in Days, d <= m, m <= n
            PROVE  d <= n
        BY <4>1
      <4>2. q.day_window_start \in Days /\ q.month_window_start \in Days
        BY DEF Row
      <4>3. QED  BY <1>2, <3>1, <4>1, <4>2, Zenon
    <3>2. QED  BY <2>1, <2>2, <3>1 DEF HeldSerially
  <2>4. ASSUME pc[c] = "commit"
        PROVE  Pending(call[c].op, loaded[c], object[c], admitted[call[c].tenant],
                       admittedInMonth[call[c].tenant], clock')
    <3> DEFINE day == admitted[call[c].tenant]
               month == admittedInMonth[call[c].tenant]
    <3>1. Pending(call[c].op, loaded[c], object[c], day, month, clock)
      BY <2>1, <2>4 DEF HeldSerially
    <3> HIDE DEF day, month
    <3>2. Past(object[c], day, month, clock')
      BY <1>2, <2>2, <3>1, PastMonotone DEF Pending
    <3>3. QED  BY <3>1, <3>2, Zenon DEF Pending, day, month
  <2>5. QED  BY <1>1, <2>1, <2>3, <2>4 DEF HeldSerially
<1>5. QED  BY <1>1, <1>3, <1>4 DEF SerialInv, Rows, Unused

LEMMA SerialStutter ==
    ASSUME SerialInv, UNCHANGED vars
    PROVE  SerialInv'
BY DEF SerialInv, HeldSerially, Rows, Unused, vars, clients, history

LEMMA SerialStep ==
    ASSUME OneAtATime, IInv, SerialInv, [Next]_vars
    PROVE  SerialInv'
<1>1. CASE UNCHANGED vars
  BY <1>1, SerialStutter
<1>2. CASE Midnight
  BY <1>2, SerialMidnight
<1>3. ASSUME NEW c \in Clients, NEW k \in Calls, Call(c, k)
      PROVE  SerialInv'
  BY <1>3, SerialCall
<1>4. ASSUME NEW c \in Clients, Abort(c)
      PROVE  SerialInv'
  BY <1>4, SerialAbort
<1>5. ASSUME NEW c \in Clients, Step(c)
      PROVE  SerialInv'
  BY <1>5, SerialSelect, SerialInsert, SerialAbort, SerialRefuse, SerialCount,
     SerialStatus, SerialReset, SerialProvision, SerialCommit DEF Step
<1>6. QED  BY <1>1, <1>2, <1>3, <1>4, <1>5 DEF Next

\* One request after the other: the rows are sound between any two steps.
THEOREM SerialInvariance == OneAtATime => (Spec => []SerialInv)
<1> SUFFICES ASSUME OneAtATime PROVE Spec => []SerialInv
  OBVIOUS
<1>1. Init => SerialInv
  BY SerialInit
<1>2. IInv /\ SerialInv /\ [Next]_vars => SerialInv'
  BY SerialStep
<1>3. QED  BY <1>1, <1>2, Invariance, PTL DEF Spec

\* One request after the other: the counters are the events admitted since the
\* window began, whatever aborts, resets and midnights fall between and inside
\* calls, for every calendar (check_and_increment, _maybe_reset_windows,
\* reset_daily).
THEOREM CountersAreExact == OneAtATime => (Spec => []CountsAreExact)
<1> SUFFICES ASSUME OneAtATime PROVE Spec => []CountsAreExact
  OBVIOUS
<1>1. SerialInv => CountsAreExact
  BY DEF SerialInv, Sound, Exact, CountsAreExact
<1>2. QED  BY <1>1, SerialInvariance, PTL

\* One request after the other: the month counts whatever the day still counts.
THEOREM DaysAreWithinMonths == OneAtATime => (Spec => []DayWithinMonth)
<1> SUFFICES ASSUME OneAtATime PROVE Spec => []DayWithinMonth
  OBVIOUS
<1>1. SerialInv => DayWithinMonth
  BY DEF SerialInv, Sound, Ordered, DayWithinMonth
<1>2. QED  BY <1>1, SerialInvariance, PTL

----------------------------------------------------------------------------
(***************************************************************************)
(* Requests one after the other implement the meter: each step is a step   *)
(* of QuotaMeter or none.                                                  *)
(***************************************************************************)

\* The variables of the meter that are not those of the service.
TierOf ==
    [t \in Tenants |-> IF quota[t] = NoRow THEN NoRow ELSE quota[t].subscription_tier]

RefusedCalls == {c \in Clients : pc[c] = "refused"}

LEMMA TierOfRow ==
    ASSUME IInv, NEW t \in Rows
    PROVE  /\ t \in Tenants /\ TierOf[t] = quota[t].subscription_tier
           /\ TierOf[t] \in Tiers /\ TierOf[t] # NoRow
           /\ quota[t].daily_limit = DailyLimit[TierOf[t]]
           /\ quota[t].monthly_limit = MonthlyLimit[TierOf[t]]
<1>1. t \in Tenants /\ quota[t] \in Row /\ quota[t] # NoRow
  BY DEF Rows, IInv, TypeOK
<1>2. quota[t].subscription_tier \in Tiers
  BY <1>1 DEF Row
<1>3. Matches(quota[t])
  BY DEF IInv, RowsInv, RowOK
<1>4. TierOf[t] = quota[t].subscription_tier
  BY <1>1 DEF TierOf
<1>5. QED  BY <1>1, <1>2, <1>3, <1>4, NoRowAssumption DEF Matches

\* What the meter knows of a call, however requests interleave: a client that was
\* answered has none, a call is not older than the clock, and what it is about to
\* write is of the tier it asks for and of a day on which it was under way.
CallOK(c) ==
    /\ pc[c] \in {"idle"} \cup Answers => call[c] = NoCall
    /\ pc[c] \notin {"idle"} \cup Answers => call[c].day <= clock
    /\ pc[c] = "insert" => object[c].subscription_tier = call[c].tier
    /\ pc[c] = "commit" =>
           /\ call[c].op = "provision" => object[c].subscription_tier = call[c].tier
           /\ call[c].op \in {"check_and_increment", "reset_daily"} =>
                  call[c].day <= object[c].day_window_start

CallInv == \A c \in Clients : CallOK(c)

\* A step of one client that leaves the clock alone.
LEMMA OthersStay ==
    ASSUME IInv, CallInv, NEW c \in Clients, clock' = clock,
           \A b \in Clients : b # c => /\ pc'[b] = pc[b] /\ call'[b] = call[b]
                                       /\ object'[b] = object[b],
           CallOK(c)'
    PROVE  CallInv'
<1> SUFFICES ASSUME NEW b \in Clients PROVE CallOK(b)'
  BY DEF CallInv
<1>1. CASE b # c
  BY <1>1 DEF CallInv, CallOK
<1>2. QED  BY <1>1

LEMMA AnswerEnds ==
    ASSUME IInv, CallInv, NEW c \in Clients, NEW a \in Answers, Answer(c, a), clock' = clock
    PROVE  CallInv'
<1>1. pc'[c] = a /\ call'[c] = NoCall
  BY DEF Answer, IInv, TypeOK
<1>2. CallOK(c)'
  BY <1>1 DEF CallOK, Answers
<1>3. QED  BY <1>2, OthersStay, AnswerFacts

LEMMA CallBegins ==
    ASSUME IInv, CallInv, NEW c \in Clients, NEW k \in Calls, Call(c, k)
    PROVE  CallInv'
<1>1. /\ pc'[c] = "select" /\ call'[c] = k /\ k.day = clock /\ clock' = clock
      /\ clock \in Int
  BY DEF Call, IInv, TypeOK
<1>2. CallOK(c)'
  BY <1>1 DEF CallOK, Answers
<1>3. QED  BY <1>1, <1>2, OthersStay DEF Call, IInv, TypeOK

LEMMA SelectKeepsCall ==
    ASSUME IInv, CallInv, NEW c \in Clients, Select(c)
    PROVE  CallInv'
<1> DEFINE row == quota[call[c].tenant]
<1>1. /\ pc[c] = "select" /\ clock' = clock /\ call' = call
      /\ pc'[c] = IF row = NoRow THEN "insert" ELSE "modify"
      /\ row = NoRow => object'[c] = NewRow(call[c].tier, clock)
      /\ clock \in Days /\ call[c].tier \in Tiers
  BY InFlight DEF Select, IInv, TypeOK
<1>2. call[c].day <= clock
  BY <1>1 DEF CallInv, CallOK, Answers
<1>3. CallOK(c)'
  <2>1. CASE row = NoRow
    <3>1. object'[c].subscription_tier = call[c].tier
      BY <1>1, <2>1, NewRowFacts
    <3>2. QED  BY <1>1, <1>2, <2>1, <3>1 DEF CallOK, Answers
  <2>2. CASE row # NoRow
    BY <1>1, <1>2, <2>2 DEF CallOK, Answers
  <2>3. QED  BY <2>1, <2>2
<1>4. QED  BY <1>1, <1>3, OthersStay DEF Select, IInv, TypeOK

LEMMA InsertKeepsCall ==
    ASSUME IInv, CallInv, NEW c \in Clients, Insert(c)
    PROVE  CallInv'
<1>1. pc[c] = "insert" /\ clock' = clock
  BY DEF Insert
<1>2. CASE \E a \in Answers : Answer(c, a)
  BY <1>1, <1>2, AnswerEnds
<1>3. CASE pc' = [pc EXCEPT ![c] = "modify"] /\ UNCHANGED <<call, loaded, object>>
  <2>1. pc'[c] = "modify" /\ call' = call
    BY <1>3 DEF IInv, TypeOK
  <2>2. CallOK(c)'
    BY <1>1, <2>1 DEF CallInv, CallOK, Answers
  <2>3. QED  BY <1>1, <1>3, <2>2, OthersStay DEF IInv, TypeOK
<1>4. QED  BY <1>2, <1>3 DEF Insert, AnswerCommitted, Answers

\* An assignment that is of the tier and of a day of the call.
LEMMA ModifyKeepsCall ==
    ASSUME IInv, CallInv, NEW c \in Clients, NEW q, pc[c] = "modify", Modify(c, q),
           call[c].op = "provision" => q.subscription_tier = call[c].tier,
           call[c].op \in {"check_and_increment", "reset_daily"} =>
               call[c].day <= q.day_window_start
    PROVE  CallInv'
<1>1. pc'[c] = "commit" /\ call' = call /\ object'[c] = q /\ clock' = clock
  BY DEF Modify, IInv, TypeOK
<1>2. CallOK(c)'
  BY <1>1 DEF CallInv, CallOK, Answers
<1>3. QED  BY <1>1, <1>2, OthersStay DEF Modify, IInv, TypeOK

LEMMA MethodKeepsCall ==
    ASSUME IInv, CallInv, NEW c \in Clients,
           Count(c) \/ GetStatus(c) \/ ResetDaily(c) \/ Provision(c)
    PROVE  CallInv'
<1>1. /\ pc[c] = "modify" /\ loaded[c] \in Row /\ clock \in Days
      /\ call[c] \in Calls /\ call[c].day \in Days
  BY InFlight DEF Count, GetStatus, ResetDaily, Provision, Calls
<1>2. call[c].day <= clock
  BY <1>1 DEF CallInv, CallOK, Answers
<1>3. CASE Count(c)
  <2> DEFINE r == ResetWindows(loaded[c], clock)
  <2>1. /\ CountEvent(r).day_window_start = r.day_window_start
        /\ r.day_window_start \in Days /\ clock <= r.day_window_start
    BY <1>1 DEF CountEvent, ResetWindows, Row
  <2>2. call[c].day <= CountEvent(r).day_window_start
    BY <1>1, <1>2, <2>1
  <2> HIDE DEF r
  <2>3. call[c].op = "check_and_increment" /\ Modify(c, CountEvent(r))
    BY <1>3 DEF Count, r
  <2>4. QED  BY <1>1, <2>2, <2>3, ModifyKeepsCall
<1>4. CASE GetStatus(c)
  BY <1>1, <1>4, ModifyKeepsCall DEF GetStatus
<1>5. CASE ResetDaily(c)
  <2>1. RestartDay(loaded[c], clock).day_window_start = clock
    BY <1>1 DEF RestartDay, Row
  <2>2. QED  BY <1>1, <1>2, <1>5, <2>1, ModifyKeepsCall DEF ResetDaily
<1>6. CASE Provision(c)
  <2>1. ChangeTier(loaded[c], call[c].tier).subscription_tier = call[c].tier
    BY <1>1 DEF ChangeTier, Row
  <2>2. QED  BY <1>1, <1>6, <2>1, ModifyKeepsCall DEF Provision
<1>7. QED  BY <1>3, <1>4, <1>5, <1>6

LEMMA CallInvariance == Spec => []CallInv
<1>1. Init => CallInv
  BY DEF Init, CallInv, CallOK, Answers
<1>2. IInv /\ CallInv /\ [Next]_vars => CallInv'
  <2> SUFFICES ASSUME IInv, CallInv, [Next]_vars PROVE CallInv'
    OBVIOUS
  <2>1. CASE UNCHANGED vars
    BY <2>1 DEF CallInv, CallOK, vars, clients
  <2>2. CASE Midnight
    <3>1. clock' = clock + 1 /\ clock \in Int /\ UNCHANGED <<pc, call, object>>
      BY <2>2 DEF Midnight, clients, IInv, TypeOK
    <3>2. ASSUME NEW c \in Clients, pc[c] \notin {"idle"} \cup Answers
          PROVE  call[c].day \in Int
      <4>1. call[c] \in Calls
        BY <3>2 DEF IInv, TypeOK, CallsInv, Stages
      <4>2. QED  BY <4>1 DEF Calls
    <3>3. ASSUME NEW c \in Clients PROVE CallOK(c)'
      <4>1. CallOK(c)
        BY DEF CallInv
      <4>2. pc[c] \notin {"idle"} \cup Answers => call[c].day <= clock + 1
        BY <3>1, <3>2, <4>1 DEF CallOK
      <4>3. QED  BY <3>1, <4>1, <4>2 DEF CallOK
    <3>4. QED  BY <3>3 DEF CallInv
  <2>3. ASSUME NEW c \in Clients, NEW k \in Calls, Call(c, k)
        PROVE  CallInv'
    BY <2>3, CallBegins
  <2>4. ASSUME NEW c \in Clients, Abort(c) \/ InsertConflict(c) \/ Refuse(c) \/ Commit(c)
        PROVE  CallInv'
    BY <2>4, AnswerEnds
       DEF Abort, InsertConflict, Refuse, Commit, AnswerCommitted, Answers
  <2>5. ASSUME NEW c \in Clients, Step(c) PROVE CallInv'
    BY <2>4, <2>5, SelectKeepsCall, InsertKeepsCall, MethodKeepsCall DEF Step
  <2>6. QED  BY <2>1, <2>2, <2>3, <2>4, <2>5 DEF Next
<1>3. QED  BY <1>1, <1>2, Invariance, PTL DEF Spec

\* A step of one request that is neither refused before nor after it.
LEMMA RefusedStay ==
    ASSUME IInv, NEW c \in Clients, NEW s, s # "refused", pc[c] # "refused",
           pc' = [pc EXCEPT ![c] = s]
    PROVE  RefusedCalls' = RefusedCalls
BY DEF RefusedCalls, IInv, TypeOK

\* A step that changes no row, no count, no call and no day, and refuses nobody.
LEMMA MeterStays ==
    ASSUME UNCHANGED <<clock, quota, call, admitted, admittedInMonth>>,
           RefusedCalls' = RefusedCalls
    PROVE  UNCHANGED Meter!vars
BY DEF Meter!vars, RefusedCalls

\* A row that is written has one tier, and the others keep theirs.
LEMMA TierWritten ==
    ASSUME IInv, NEW t \in Tenants, NEW q \in Row, quota' = [quota EXCEPT ![t] = q]
    PROVE  TierOf' = [TierOf EXCEPT ![t] = q.subscription_tier]
<1>1. quota'[t] = q /\ q # NoRow
  BY NoRowAssumption DEF IInv, TypeOK
<1>2. \A u \in Tenants : u # t => quota'[u] = quota[u]
  BY DEF IInv, TypeOK
<1>3. \A u \in Tenants : TierOf'[u] = IF u = t THEN q.subscription_tier ELSE TierOf[u]
  BY <1>1, <1>2 DEF TierOf
<1>4. TierOf' = [u \in Tenants |-> TierOf'[u]]
  BY DEF TierOf
<1>5. [TierOf EXCEPT ![t] = q.subscription_tier]
          = [u \in Tenants |-> IF u = t THEN q.subscription_tier ELSE TierOf[u]]
  BY DEF TierOf
<1>6. QED  BY <1>3, <1>4, <1>5, Zenon

\* A client that was answered, or never called, asks on the day of the clock.
LEMMA MeterCall ==
    ASSUME IInv, CallInv, NEW c \in Clients, NEW k \in Calls, Call(c, k)
    PROVE  Meter!Ask(c, k)
<1>1. RefusedCalls' = RefusedCalls \ {c}
  BY DEF RefusedCalls, Call, IInv, TypeOK
<1>2. call[c] = NoCall
  BY DEF CallInv, CallOK, Call
<1>3. QED  BY <1>1, <1>2 DEF Call, history, Meter!Ask, RefusedCalls

\* The row of a tenant that has none is built with the tier of the call, which is
\* answered or goes on.
LEMMA MeterInsert ==
    ASSUME IInv, CallInv, NEW c \in Clients, Insert(c)
    PROVE  Meter!SetTier(c)
<1> DEFINE t == call[c].tenant
           q == object[c]
<1>1. /\ pc[c] = "insert" /\ quota' = [quota EXCEPT ![t] = q] /\ quota[t] = NoRow
      /\ UNCHANGED <<clock, admitted, admittedInMonth>>
      /\ \E s \in {"ok", "error", "modify"} : pc' = [pc EXCEPT ![c] = s]
  BY DEF Insert, AnswerCommitted, Answer
<1>2. /\ t \in Tenants /\ q \in Row /\ call[c] \in Calls
      /\ q.subscription_tier = call[c].tier
  BY <1>1, InFlight DEF CallInv, CallOK
<1>3. call[c] # NoCall
  BY <1>2, OperationsAssumption DEF Calls, NoCall
<1>4. TierOf' = [TierOf EXCEPT ![t] = call[c].tier] /\ TierOf[t] = NoRow
  <2>1. TierOf' = [TierOf EXCEPT ![t] = q.subscription_tier]
    BY <1>1, <1>2, TierWritten
  <2>2. QED  BY <1>1, <1>2, <2>1 DEF TierOf
<1>5. RefusedCalls' = RefusedCalls
  BY <1>1, RefusedStay
<1>6. \/ call[c].op = "provision" /\ Meter!Answer(c)
      \/ call[c].op # "provision" /\ (Meter!Answer(c) \/ UNCHANGED call)
  BY DEF Insert, AnswerCommitted, Answer, Meter!Answer
<1>7. QED  BY <1>1, <1>3, <1>4, <1>5, <1>6 DEF Meter!SetTier, TierOf, RefusedCalls

\* A refusal finds the day's or the month's limit used up by what was admitted.
LEMMA MeterRefuse ==
    ASSUME IInv, SerialInv, NEW c \in Clients, Refuse(c)
    PROVE  Meter!Refuse(c)
<1> DEFINE t == call[c].tenant
           r == ResetWindows(loaded[c], clock)
<1>1. /\ pc[c] = "modify" /\ OverLimit(r) /\ pc' = [pc EXCEPT ![c] = "refused"]
      /\ call[c].op = "check_and_increment" /\ Meter!Answer(c)
      /\ UNCHANGED <<clock, quota, admitted, admittedInMonth>>
  BY DEF Refuse, Answer, history, Meter!Answer
<1>2. /\ Sound(r, admitted[t], admittedInMonth[t], clock)
      /\ r.day_window_start = clock
      /\ MonthStart[r.month_window_start] = MonthStart[clock]
      /\ r.daily_limit = loaded[c].daily_limit
      /\ r.monthly_limit = loaded[c].monthly_limit
  BY <1>1, ResetAlone
<1>3. t \in Rows /\ loaded[c] = quota[t]
  BY <1>1, HeldAlone
<1>4. /\ loaded[c].daily_limit = DailyLimit[TierOf[t]]
      /\ loaded[c].monthly_limit = MonthlyLimit[TierOf[t]]
      /\ TierOf[t] # NoRow
  BY <1>3, TierOfRow
<1> HIDE DEF r
<1>5. \/ admitted[t][clock] >= DailyLimit[TierOf[t]]
      \/ admittedInMonth[t][MonthStart[clock]] >= MonthlyLimit[TierOf[t]]
  BY <1>1, <1>2, <1>4 DEF OverLimit, Sound, Exact
<1>6. RefusedCalls' = RefusedCalls \cup {c}
  BY <1>1 DEF RefusedCalls, IInv, TypeOK
<1>7. QED  BY <1>1, <1>4, <1>5, <1>6
           DEF Meter!Refuse, Meter!UsedUp, TierOf, RefusedCalls

\* A commit admits an event that both limits had room for, forgives a day, or
\* changes the tier; a status changes nothing.
LEMMA MeterCommit ==
    ASSUME IInv, SerialInv, CallInv, NEW c \in Clients, Commit(c)
    PROVE  \/ \E d \in Days : Meter!Admit(c, d) \/ Meter!Forgive(c, d)
           \/ Meter!SetTier(c) \/ Meter!End(c)
<1> DEFINE t == call[c].tenant
           o == object[c]
           l == loaded[c]
           op == call[c].op
           d == o.day_window_start
           m == MonthStart[d]
<1>1. /\ pc[c] = "commit"
      /\ \E a \in {"ok", "error"} : pc' = [pc EXCEPT ![c] = a]
      /\ clock' = clock /\ Meter!Answer(c)
  BY DEF Commit, AnswerCommitted, Answer, Meter!Answer
<1>2. /\ t \in Tenants /\ t \in Rows /\ quota[t] \in Row /\ l = quota[t] /\ o \in Row
      /\ admitted[t] \in [Days -> Nat] /\ admittedInMonth[t] \in [Days -> Nat]
      /\ op \in Operations
  BY <1>1, HeldAlone
<1>3. Pending(op, l, o, admitted[t], admittedInMonth[t], clock)
  BY <1>1 DEF SerialInv, HeldSerially
<1>4. RefusedCalls' = RefusedCalls
  BY <1>1, RefusedStay
<1>5. quota' = [quota EXCEPT ![t] = o]
  <2>1. Flush(quota[t], l, o, op) = o
    BY <1>2, FlushAlone
  <2>2. quota' = [quota EXCEPT ![t] = Flush(quota[t], l, o, op)]
    BY DEF Commit
  <2>3. QED  BY <2>1, <2>2
<1>6. TierOf' = [TierOf EXCEPT ![t] = o.subscription_tier]
  BY <1>2, <1>5, TierWritten
<1>7. d \in Days /\ m \in Days /\ o.subscription_tier \in Tiers
  BY <1>2, MonthFacts DEF Row
<1>8. /\ TierOf[t] = l.subscription_tier /\ TierOf[t] # NoRow
      /\ l.daily_limit = DailyLimit[TierOf[t]]
      /\ l.monthly_limit = MonthlyLimit[TierOf[t]]
  BY <1>2, TierOfRow
<1>9. ASSUME o.subscription_tier = l.subscription_tier PROVE TierOf' = TierOf
  <2>1. TierOf' = [TierOf EXCEPT ![t] = TierOf[t]]
    BY <1>6, <1>8, <1>9
  <2>2. TierOf = [u \in Tenants |-> TierOf[u]]
    BY DEF TierOf
  <2>3. QED  BY <1>2, <2>1, <2>2
<1>10. op \in {"check_and_increment", "reset_daily"} => d \in Meter!DaysOf(c)
  <2>1. call[c].day \in Int /\ d \in Int /\ clock \in Int
    BY <1>1, <1>7, InFlight DEF Calls
  <2>2. d <= clock
    BY <1>3 DEF Pending, Past
  <2>3. op \in {"check_and_increment", "reset_daily"} => call[c].day <= d
    BY <1>1 DEF CallInv, CallOK
  <2>4. QED  BY <2>1, <2>2, <2>3 DEF Meter!DaysOf
<1>11. CASE op = "check_and_increment"
  <2>1. /\ MonthStart[o.month_window_start] = m
        /\ o.subscription_tier = l.subscription_tier
        /\ admitted[t][d] < l.daily_limit
        /\ admittedInMonth[t][MonthStart[o.month_window_start]] < l.monthly_limit
    BY <1>3, <1>11 DEF Pending
  <2>2. /\ admitted[t][d] \in Nat /\ admittedInMonth[t][m] \in Nat
        /\ l.daily_limit \in Nat /\ l.monthly_limit \in Nat
    BY <1>2, <1>7 DEF Row
  <2>3. /\ ~(admitted[t][d] >= l.daily_limit)
        /\ ~(admittedInMonth[t][m] >= l.monthly_limit)
    <3>1. PICK a \in Nat, b \in Nat, x \in Nat, y \in Nat :
              /\ a = admitted[t][d] /\ b = admittedInMonth[t][m]
              /\ x = l.daily_limit /\ y = l.monthly_limit
      BY <2>2
    <3>2. a < x /\ b < y
      BY <2>1, <3>1
    <3>3. ~(a >= x) /\ ~(b >= y)
      BY <3>2
    <3>4. QED  BY <3>1, <3>3
  <2>4. /\ admitted' = [admitted EXCEPT ![t][d] = @ + 1]
        /\ admittedInMonth' = [admittedInMonth EXCEPT ![t][m] = @ + 1]
    BY <1>11 DEF Commit
  <2>5. Meter!Admit(c, d)
    BY <1>1, <1>4, <1>8, <1>9, <1>11, <1>10, <2>1, <2>3, <2>4
       DEF Meter!Admit, Meter!UsedUp, TierOf, RefusedCalls
  <2>6. QED  BY <1>7, <2>5
<1>12. CASE op = "reset_daily"
  <2>1. o.subscription_tier = l.subscription_tier
    BY <1>3, <1>12 DEF Pending
  <2>2. /\ admitted' = [admitted EXCEPT ![t][d] = 0]
        /\ admittedInMonth' = admittedInMonth
    <3>1. admitted' = [admitted EXCEPT ![t][d] = 0]
      BY <1>12 DEF Commit
    <3>2. admittedInMonth' = admittedInMonth
      BY <1>12 DEF Commit, IInv, TypeOK
    <3>3. QED  BY <3>1, <3>2
  <2>3. Meter!Forgive(c, d)
    BY <1>1, <1>4, <1>9, <1>12, <1>10, <2>1, <2>2
       DEF Meter!Forgive, TierOf, RefusedCalls
  <2>4. QED  BY <1>7, <2>3
<1>13. CASE op \in {"get_status", "provision"}
  <2>1. admitted' = admitted /\ admittedInMonth' = admittedInMonth
    BY <1>13 DEF Commit, IInv, TypeOK
  <2>2. CASE op = "get_status"
    <3>1. o.subscription_tier = l.subscription_tier
      BY <1>3, <2>2 DEF Pending
    <3>2. QED  BY <1>1, <1>4, <1>9, <2>1, <3>1 DEF Meter!End, TierOf, RefusedCalls
  <2>3. CASE op = "provision"
    <3>1. o.subscription_tier = call[c].tier
      BY <1>1, <2>3 DEF CallInv, CallOK
    <3>2. call[c] # NoCall
      BY <2>3 DEF NoCall
    <3>3. QED  BY <1>1, <1>4, <1>6, <2>1, <2>3, <3>1, <3>2
               DEF Meter!SetTier, TierOf, RefusedCalls
  <2>4. QED  BY <1>13, <2>2, <2>3
<1>14. QED  BY <1>2, <1>11, <1>12, <1>13, OperationsAssumption

\* Every other step ends the call with nothing done or is none of the meter's.
LEMMA MeterRest ==
    ASSUME IInv, NEW c \in Clients,
           \/ Select(c) \/ InsertConflict(c) \/ Abort(c)
           \/ Count(c) \/ GetStatus(c) \/ ResetDaily(c) \/ Provision(c)
    PROVE  Meter!End(c) \/ UNCHANGED Meter!vars
<1>1. UNCHANGED <<clock, quota, admitted, admittedInMonth>>
  BY DEF Select, InsertConflict, Abort, Count, GetStatus, ResetDaily, Provision, Modify,
         history
<1>2. /\ pc[c] # "refused"
      /\ \E s \in {"insert", "modify", "commit", "error"} : pc' = [pc EXCEPT ![c] = s]
  BY DEF Select, InsertConflict, Abort, Count, GetStatus, ResetDaily, Provision, Modify,
         Answer
<1>3. RefusedCalls' = RefusedCalls
  BY <1>2, RefusedStay
<1>4. CASE UNCHANGED call
  BY <1>1, <1>3, <1>4, MeterStays
<1>5. CASE InsertConflict(c) \/ Abort(c)
  <2>1. Meter!Answer(c)
    BY <1>5 DEF InsertConflict, Abort, Answer, Meter!Answer
  <2>2. QED  BY <1>1, <1>3, <2>1 DEF Meter!End, RefusedCalls
<1>6. QED  BY <1>4, <1>5 DEF Select, Count, GetStatus, ResetDaily, Provision, Modify

\* One request after the other, the service implements the meter: an event is
\* admitted on a day on which its call was under way, and only while the use of
\* that day and month is below the limits of the tier; it is refused only when the
\* use of the day and month of the refusal has reached one, however long the row
\* lay untouched, for every calendar and every table of limits
\* (check_and_increment, _maybe_reset_windows, reset_daily, provision).
THEOREM MeterIsImplemented == OneAtATime => (Spec => ImplementsMeter)
<1> SUFFICES ASSUME OneAtATime PROVE Spec => ImplementsMeter
  OBVIOUS
<1>1. Init => Meter!Init
  BY DEF Init, Meter!Init
<1>2. IInv /\ SerialInv /\ CallInv /\ [Next]_vars => [Meter!Next]_Meter!vars
  <2> SUFFICES ASSUME IInv, SerialInv, CallInv, [Next]_vars
               PROVE  [Meter!Next]_Meter!vars
    OBVIOUS
  <2>1. CASE UNCHANGED vars
    BY <2>1 DEF vars, clients, history, Meter!vars
  <2>2. CASE Midnight
    <3>1. clock + 1 \in Days
      BY <2>2 DEF Midnight, IInv, TypeOK
    <3>2. Meter!Midnight
      BY <2>2, <3>1 DEF Midnight, clients, history, Meter!Midnight
    <3>3. QED  BY <3>2 DEF Meter!Next
  <2>3. ASSUME NEW c \in Clients, NEW k \in Calls, Call(c, k)
        PROVE  Meter!Next
    BY <2>3, MeterCall DEF Meter!Next
  <2>4. ASSUME NEW c \in Clients, Insert(c)
        PROVE  Meter!Next
    BY <2>4, MeterInsert DEF Meter!Next
  <2>5. ASSUME NEW c \in Clients, Refuse(c)
        PROVE  Meter!Next
    BY <2>5, MeterRefuse DEF Meter!Next
  <2>6. ASSUME NEW c \in Clients, Commit(c)
        PROVE  Meter!Next
    BY <2>6, MeterCommit DEF Meter!Next
  <2>7. ASSUME NEW c \in Clients, Abort(c) \/ Step(c), ~Insert(c), ~Refuse(c), ~Commit(c)
        PROVE  Meter!Next \/ UNCHANGED Meter!vars
    BY <2>7, MeterRest DEF Step, Meter!Next
  <2>8. QED  BY <2>1, <2>2, <2>3, <2>4, <2>5, <2>6, <2>7 DEF Next, Step
<1>3. QED  BY <1>1, <1>2, Invariance, SerialInvariance, CallInvariance, PTL
           DEF Spec, ImplementsMeter, Meter!Spec

----------------------------------------------------------------------------
(***************************************************************************)
(* Requests one after the other never admit more than a limit.  Requests   *)
(* that overlap do (run quota_overrun).                                    *)
(***************************************************************************)

WithinSome(n, limits, tiers) == n > 0 => \E tier \in tiers : n <= limits[tier]

\* What a tenant was admitted in a month is within a monthly limit it had.
NoOverAdmissionInMonth ==
    \A t \in Tenants, d \in Days : WithinSome(admittedInMonth[t][d], MonthlyLimit, granted[t])

Limited ==
    /\ \A t \in Tenants, d \in Days : WithinSome(admitted[t][d], DailyLimit, granted[t])
    /\ NoOverAdmissionInMonth

\* An event is admitted under the limits of the tier that the row had.
LEMMA LimitedCommit ==
    ASSUME IInv, SerialInv, Limited, NEW c \in Clients, Commit(c)
    PROVE  Limited'
<1> DEFINE t == call[c].tenant
           o == object[c]
           l == loaded[c]
           op == call[c].op
           d == o.day_window_start
           m == MonthStart[d]
<1>1. /\ pc[c] = "commit" /\ t \in Tenants /\ l \in Row /\ o \in Row
      /\ admitted[t] \in [Days -> Nat] /\ admittedInMonth[t] \in [Days -> Nat]
      /\ op \in Operations
  BY HeldAlone DEF Commit
<1>2. Pending(op, l, o, admitted[t], admittedInMonth[t], clock)
  BY <1>1 DEF SerialInv, HeldSerially
<1>3. d \in Days /\ m \in Days
  BY <1>1, MonthFacts DEF Row
<1>4. PICK tier \in granted[t] : l.daily_limit = DailyLimit[tier]
                                 /\ l.monthly_limit = MonthlyLimit[tier]
  BY <1>1 DEF IInv, HeldInv, Held, Matches
<1>5. /\ tier \in granted'[t] /\ \A u \in Tenants : granted[u] \subseteq granted'[u]
      /\ \A u \in Tenants : u # t => /\ admitted'[u] = admitted[u]
                                     /\ admittedInMonth'[u] = admittedInMonth[u]
      /\ \A e \in Days : /\ e # d => admitted'[t][e] = admitted[t][e]
                         /\ e # m => admittedInMonth'[t][e] = admittedInMonth[t][e]
  BY <1>1, <1>3, <1>4 DEF Commit, IInv, TypeOK
<1>6. /\ \/ admitted'[t][d] \in {0, admitted[t][d]}
         \/ admitted'[t][d] = admitted[t][d] + 1 /\ admitted[t][d] < DailyLimit[tier]
      /\ \/ admittedInMonth'[t][m] = admittedInMonth[t][m]
         \/ /\ admittedInMonth'[t][m] = admittedInMonth[t][m] + 1
            /\ admittedInMonth[t][m] < MonthlyLimit[tier]
  <2>1. CASE op = "check_and_increment"
    <3>1. /\ admitted[t][d] < DailyLimit[tier]
          /\ admittedInMonth[t][m] < MonthlyLimit[tier]
      BY <1>2, <1>4, <2>1 DEF Pending
    <3>2. /\ admitted'[t][d] = admitted[t][d] + 1
          /\ admittedInMonth'[t][m] = admittedInMonth[t][m] + 1
      BY <1>1, <1>3, <2>1 DEF Commit, IInv, TypeOK
    <3>3. QED  BY <3>1, <3>2
  <2>2. CASE op # "check_and_increment"
    <3>1. admitted'[t][d] \in {0, admitted[t][d]}
      BY <1>1, <1>3, <2>2, OperationsAssumption DEF Commit, IInv, TypeOK
    <3>2. admittedInMonth'[t][m] = admittedInMonth[t][m]
      BY <1>1, <1>3, <2>2 DEF Commit, IInv, TypeOK
    <3>3. QED  BY <3>1, <3>2
  <2>3. QED  BY <2>1, <2>2
<1>7. DailyLimit[tier] \in Nat /\ MonthlyLimit[tier] \in Nat
      /\ admitted[t][d] \in Nat /\ admittedInMonth[t][m] \in Nat
  <2>1. tier \in Tiers
    BY <1>1, <1>4 DEF IInv, TypeOK
  <2>2. QED  BY <1>1, <1>3, <2>1
<1> HIDE DEF t, o, l, op, d, m
<1>8. ASSUME NEW u \in Tenants, NEW e \in Days
      PROVE  /\ WithinSome(admitted'[u][e], DailyLimit, granted'[u])
             /\ WithinSome(admittedInMonth'[u][e], MonthlyLimit, granted'[u])
  <2>1. /\ WithinSome(admitted[u][e], DailyLimit, granted[u])
        /\ WithinSome(admittedInMonth[u][e], MonthlyLimit, granted[u])
    BY DEF Limited, NoOverAdmissionInMonth
  <2>2. /\ WithinSome(admitted[u][e], DailyLimit, granted'[u])
        /\ WithinSome(admittedInMonth[u][e], MonthlyLimit, granted'[u])
    BY <1>5, <2>1 DEF WithinSome
  <2>3. WithinSome(admitted'[u][e], DailyLimit, granted'[u])
    <3>1. CASE u = t /\ e = d
      BY <1>5, <1>6, <1>7, <2>2, <3>1, SMTT(30) DEF WithinSome
    <3>2. CASE ~(u = t /\ e = d)
      BY <1>5, <2>2, <3>2
    <3>3. QED  BY <3>1, <3>2
  <2>4. WithinSome(admittedInMonth'[u][e], MonthlyLimit, granted'[u])
    <3>1. CASE u = t /\ e = m
      BY <1>5, <1>6, <1>7, <2>2, <3>1, SMTT(30) DEF WithinSome
    <3>2. CASE ~(u = t /\ e = m)
      BY <1>5, <2>2, <3>2
    <3>3. QED  BY <3>1, <3>2
  <2>5. QED  BY <2>3, <2>4
<1>9. QED  BY <1>8 DEF Limited, NoOverAdmissionInMonth

LEMMA LimitedStep ==
    ASSUME IInv, SerialInv, Limited, [Next]_vars
    PROVE  Limited'
<1>1. ASSUME UNCHANGED <<admitted, admittedInMonth>>,
             \A t \in Tenants : granted[t] \subseteq granted'[t]
      PROVE  Limited'
  BY <1>1 DEF Limited, NoOverAdmissionInMonth, WithinSome
<1>2. ASSUME UNCHANGED history PROVE Limited'
  BY <1>1, <1>2 DEF history
<1>3. ASSUME NEW c \in Clients, Insert(c) PROVE Limited'
  <2>1. \A t \in Tenants : granted[t] \subseteq granted'[t]
    BY <1>3 DEF Insert, IInv, TypeOK
  <2>2. QED  BY <1>1, <1>3, <2>1 DEF Insert
<1>4. ASSUME NEW c \in Clients, Step(c) PROVE Limited'
  BY <1>2, <1>3, <1>4, LimitedCommit
     DEF Step, Select, InsertConflict, Refuse, Count, GetStatus, ResetDaily, Provision,
         Modify
<1>5. ASSUME NEW c \in Clients, NEW k \in Calls, Call(c, k) PROVE Limited'
  BY <1>2, <1>5 DEF Call
<1>6. ASSUME NEW c \in Clients, Abort(c) PROVE Limited'
  BY <1>2, <1>6 DEF Abort
<1>7. CASE Midnight
  BY <1>2, <1>7 DEF Midnight
<1>8. CASE UNCHANGED vars
  BY <1>2, <1>8 DEF vars
<1>9. QED  BY <1>4, <1>5, <1>6, <1>7, <1>8 DEF Next

\* One request after the other, a tenant is admitted no more events on a day, since
\* its last reset, and in a month than a limit it was granted, as the docstring of
\* check_and_increment has it; with the requests of quota_overrun it is not so.
THEOREM AdmissionsAreLimited ==
    OneAtATime => (Spec => [](NoOverAdmission /\ NoOverAdmissionInMonth))
<1> SUFFICES ASSUME OneAtATime
             PROVE  Spec => [](NoOverAdmission /\ NoOverAdmissionInMonth)
  OBVIOUS
<1>1. Init => Limited
  BY DEF Init, Limited, NoOverAdmissionInMonth, WithinSome
<1>2. IInv /\ SerialInv /\ Limited /\ [Next]_vars => Limited'
  BY LimitedStep
<1>3. Limited => NoOverAdmission /\ NoOverAdmissionInMonth
  BY DEF Limited, NoOverAdmission, WithinSome
<1>4. QED  BY <1>1, <1>2, <1>3, Invariance, SerialInvariance, PTL DEF Spec

=============================================================================
