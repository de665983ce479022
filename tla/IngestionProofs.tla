-------------------------- MODULE IngestionProofs --------------------------
(***************************************************************************)
(* What ingestion guarantees however its requests fail, overlap and repeat *)
(* each other's events, for every set of requests, events and tenants and  *)
(* every length of a batch.                                                *)
(***************************************************************************)
EXTENDS Ingestion, FiniteSetTheorems, TLAPS

USE EventAssumption, QuotaAssumption

----------------------------------------------------------------------------
\* The quota service as ingestion uses it: its rows and calls have their types.
QuotaInv ==
    /\ Q!TypeOK
    /\ \A r \in Requests :
           /\ pc[r] \in {"select", "insert", "modify", "commit"} => call[r] \in Q!Calls
           /\ pc[r] \in {"modify", "commit"} => quota[call[r].tenant] # NoRow

LEMMA CallFacts ==
    \A k \in Q!Calls : /\ k.op = "check_and_increment"
                       /\ k.tenant \in Tenants /\ k.tier \in Tiers
BY DEF Q!Calls

LEMMA NewRowFacts ==
    ASSUME NEW tier \in Tiers, NEW now \in Q!Days
    PROVE  Q!NewRow(tier, now) \in Q!Row
BY DEF Q!NewRow, Q!Row

LEMMA ResetWindowsFacts ==
    ASSUME NEW q \in Q!Row, NEW now \in Q!Days
    PROVE  Q!ResetWindows(q, now) \in Q!Row
BY DEF Q!ResetWindows, Q!Row, Q!Days

LEMMA CountEventFacts ==
    ASSUME NEW q \in Q!Row
    PROVE  Q!CountEvent(q) \in Q!Row
<1>1. q.events_today + 1 \in Nat /\ q.events_this_month + 1 \in Nat
  BY SMTT(30) DEF Q!Row
<1>2. QED  BY <1>1, Zenon DEF Q!CountEvent, Q!Row

LEMMA FlushFacts ==
    ASSUME NEW row \in Q!Row, NEW old, NEW new \in Q!Row, NEW op
    PROVE  Q!Flush(row, old, new, op) \in Q!Row
BY DEF Q!Flush, Q!Row

LEMMA CountTable ==
    ASSUME NEW f \in [Tenants -> [Q!Days -> Nat]],
           NEW t \in Tenants, NEW d \in Q!Days, NEW n \in Nat
    PROVE  [f EXCEPT ![t][d] = n] \in [Tenants -> [Q!Days -> Nat]]
OBVIOUS

LEMMA InFlight ==
    ASSUME QuotaInv, NEW r \in Requests, pc[r] \in {"select", "insert", "modify", "commit"}
    PROVE  /\ call[r] \in Q!Calls /\ call[r].op = "check_and_increment"
           /\ call[r].tenant \in Tenants /\ call[r].tier \in Tiers
           /\ loaded[r] \in Q!Row /\ object[r] \in Q!Row
           /\ quota[call[r].tenant] \in Q!Row \cup {NoRow}
           /\ pc[r] \in {"modify", "commit"} => quota[call[r].tenant] # NoRow
           /\ clock \in Q!Days
BY CallFacts DEF QuotaInv, Q!TypeOK

\* What the answer to a client leaves.
LEMMA AnswerFacts ==
    ASSUME QuotaInv, NEW r \in Requests, NEW a \in Q!Answers, Q!Answer(r, a)
    PROVE  /\ pc' \in [Requests -> Q!Stages \cup Q!Answers]
           /\ call' \in [Requests -> Q!Calls \cup {Q!NoCall}]
           /\ loaded' \in [Requests -> Q!Row] /\ object' \in [Requests -> Q!Row]
           /\ \A b \in Requests :
                  \/ pc'[b] \notin {"select", "insert", "modify", "commit"}
                  \/ pc'[b] = pc[b] /\ call'[b] = call[b]
<1>1. Q!AnyRow \in Q!Row
  BY NewRowFacts DEF Q!AnyRow, Q!Days
<1>2. /\ pc' = [pc EXCEPT ![r] = a]
      /\ call' = [call EXCEPT ![r] = Q!NoCall]
      /\ loaded' = [loaded EXCEPT ![r] = Q!AnyRow]
      /\ object' = [object EXCEPT ![r] = Q!AnyRow]
  BY DEF Q!Answer
<1>3. QED  BY <1>1, <1>2 DEF QuotaInv, Q!TypeOK, Q!Answers

\* A step of a call that answers and writes nothing.
LEMMA AnswerKept ==
    ASSUME QuotaInv, NEW r \in Requests, NEW a \in Q!Answers, Q!Answer(r, a),
           UNCHANGED <<clock, quota, calls, granted, admitted, admittedInMonth>>
    PROVE  QuotaInv'
BY AnswerFacts DEF QuotaInv, Q!TypeOK

LEMMA CallKept ==
    ASSUME QuotaInv, NEW r \in Requests, NEW k \in Q!Calls, Q!Call(r, k)
    PROVE  QuotaInv'
<1>1. /\ calls < MaxCalls /\ calls' = calls + 1
      /\ pc' = [pc EXCEPT ![r] = "select"] /\ call' = [call EXCEPT ![r] = k]
      /\ UNCHANGED <<clock, quota, loaded, object, granted, admitted, admittedInMonth>>
  BY DEF Q!Call, Q!history
<1>2. QED  BY <1>1 DEF QuotaInv, Q!TypeOK, Q!Stages

LEMMA SelectKept ==
    ASSUME QuotaInv, NEW r \in Requests, Q!Select(r)
    PROVE  QuotaInv'
<1> DEFINE row == quota[call[r].tenant]
           q == IF row = NoRow THEN Q!NewRow(call[r].tier, clock) ELSE row
<1>1. /\ pc[r] = "select"
      /\ pc' = [pc EXCEPT ![r] = IF row = NoRow THEN "insert" ELSE "modify"]
      /\ loaded' = [loaded EXCEPT ![r] = q] /\ object' = [object EXCEPT ![r] = q]
      /\ UNCHANGED <<clock, quota, call, calls, granted, admitted, admittedInMonth>>
  BY DEF Q!Select, Q!history
<1>2. q \in Q!Row
  BY <1>1, InFlight, NewRowFacts
<1> HIDE DEF q
<1>3. Q!TypeOK'
  BY <1>1, <1>2 DEF QuotaInv, Q!TypeOK, Q!Stages
<1>4. QED  BY <1>1, <1>3, InFlight DEF QuotaInv, Q!TypeOK

LEMMA InsertKept ==
    ASSUME QuotaInv, NEW r \in Requests, Q!Insert(r)
    PROVE  QuotaInv'
<1> DEFINE t == call[r].tenant
<1>1. /\ pc[r] = "insert" /\ quota' = [quota EXCEPT ![t] = object[r]]
      /\ granted' = [granted EXCEPT ![t] = @ \cup {object[r].subscription_tier}]
      /\ \/ \E a \in Q!Answers : Q!Answer(r, a)
         \/ pc' = [pc EXCEPT ![r] = "modify"] /\ UNCHANGED <<call, loaded, object>>
      /\ UNCHANGED <<clock, calls, admitted, admittedInMonth>>
  BY DEF Q!Insert, Q!AnswerCommitted, Q!Answers
<1>2. t \in Tenants /\ object[r] \in Q!Row
  BY <1>1, InFlight
<1>3. object[r].subscription_tier \in Tiers
  BY <1>2 DEF Q!Row
<1> HIDE DEF t
<1>4. /\ pc' \in [Requests -> Q!Stages \cup Q!Answers]
      /\ call' \in [Requests -> Q!Calls \cup {Q!NoCall}]
      /\ loaded' \in [Requests -> Q!Row] /\ object' \in [Requests -> Q!Row]
      /\ \A b \in Requests :
             \/ pc'[b] \notin {"select", "insert", "modify", "commit"}
             \/ call'[b] = call[b] /\ (pc'[b] = pc[b] \/ b = r)
  <2>1. CASE \E a \in Q!Answers : Q!Answer(r, a)
    BY <2>1, AnswerFacts
  <2>2. CASE pc' = [pc EXCEPT ![r] = "modify"] /\ UNCHANGED <<call, loaded, object>>
    BY <1>1, <2>2 DEF QuotaInv, Q!TypeOK, Q!Stages
  <2>3. QED  BY <1>1, <2>1, <2>2
<1>5. /\ quota' \in [Tenants -> Q!Row \cup {NoRow}] /\ quota'[t] # NoRow
      /\ \A u \in Tenants : quota[u] # NoRow => quota'[u] # NoRow
      /\ granted' \in [Tenants -> SUBSET Tiers]
  BY <1>1, <1>2, <1>3 DEF QuotaInv, Q!TypeOK
<1>6. Q!TypeOK'
  BY <1>1, <1>4, <1>5 DEF QuotaInv, Q!TypeOK
<1>7. ASSUME NEW b \in Requests, pc'[b] \in {"select", "insert", "modify", "commit"}
      PROVE  /\ call'[b] \in Q!Calls
             /\ pc'[b] \in {"modify", "commit"} => quota'[call'[b].tenant] # NoRow
  <2>1. call'[b] = call[b] /\ (pc'[b] = pc[b] \/ b = r)
    BY <1>4, <1>7
  <2>2. call[b] \in Q!Calls
    BY <1>1, <1>7, <2>1 DEF QuotaInv
  <2>3. call[b].tenant \in Tenants
    BY <2>2, CallFacts
  <2>4. CASE b = r
    BY <1>5, <2>1, <2>2, <2>4 DEF t
  <2>5. CASE b # r
    BY <1>5, <1>7, <2>1, <2>2, <2>3, <2>5 DEF QuotaInv
  <2>6. QED  BY <2>4, <2>5
<1>8. QED  BY <1>6, <1>7 DEF QuotaInv

LEMMA CountKept ==
    ASSUME QuotaInv, NEW r \in Requests, Q!Count(r)
    PROVE  QuotaInv'
<1>1. pc[r] = "modify"
  BY DEF Q!Count
<1>2. PICK q \in Q!Row : Q!Modify(r, q)
  <2>1. Q!CountEvent(Q!ResetWindows(loaded[r], clock)) \in Q!Row
    BY <1>1, InFlight, ResetWindowsFacts, CountEventFacts
  <2>2. QED  BY <2>1 DEF Q!Count
<1>3. /\ object' = [object EXCEPT ![r] = q] /\ pc' = [pc EXCEPT ![r] = "commit"]
      /\ UNCHANGED <<clock, quota, call, loaded, calls, granted, admitted,
                     admittedInMonth>>
  BY <1>2 DEF Q!Modify, Q!history
<1>4. QED  BY <1>1, <1>3 DEF QuotaInv, Q!TypeOK, Q!Stages

LEMMA CommitKept ==
    ASSUME QuotaInv, NEW r \in Requests, Q!Commit(r)
    PROVE  QuotaInv'
<1> DEFINE t == call[r].tenant
           d == object[r].day_window_start
           m == MonthStart[d]
           row == Q!Flush(quota[t], loaded[r], object[r], call[r].op)
<1>1. PICK a \in Q!Answers : Q!Answer(r, a)
  BY DEF Q!Commit, Q!AnswerCommitted, Q!Answers
<1>2. /\ pc[r] = "commit" /\ quota' = [quota EXCEPT ![t] = row]
      /\ granted' = [granted EXCEPT ![t] = @ \cup {row.subscription_tier}]
      /\ UNCHANGED <<clock, calls>>
  BY DEF Q!Commit
<1>3. /\ call[r].op = "check_and_increment" /\ t \in Tenants
      /\ object[r] \in Q!Row /\ quota[t] \in Q!Row
  BY <1>2, InFlight
<1>4. d \in Q!Days /\ m \in Q!Days
  BY <1>3 DEF Q!Row
<1>5. /\ admitted' = [admitted EXCEPT ![t][d] = admitted[t][d] + 1]
      /\ admittedInMonth' = [admittedInMonth EXCEPT ![t][m] = admittedInMonth[t][m] + 1]
  BY <1>3 DEF Q!Commit
<1>6. row \in Q!Row /\ row.subscription_tier \in Tiers
  <2>1. row \in Q!Row
    BY <1>3, FlushFacts
  <2> HIDE DEF row
  <2>2. QED  BY <2>1 DEF Q!Row
<1> HIDE DEF t, d, m, row
<1>7. admitted[t][d] + 1 \in Nat /\ admittedInMonth[t][m] + 1 \in Nat
  BY <1>3, <1>4 DEF QuotaInv, Q!TypeOK
<1>8. /\ admitted' \in [Tenants -> [Q!Days -> Nat]]
      /\ admittedInMonth' \in [Tenants -> [Q!Days -> Nat]]
  BY <1>3, <1>4, <1>5, <1>7, CountTable DEF QuotaInv, Q!TypeOK
<1>9. /\ quota' \in [Tenants -> Q!Row \cup {NoRow}]
      /\ \A u \in Tenants : quota[u] # NoRow => quota'[u] # NoRow
      /\ granted' \in [Tenants -> SUBSET Tiers]
  BY <1>2, <1>6 DEF QuotaInv, Q!TypeOK
<1>10. Q!TypeOK'
  BY <1>1, <1>2, <1>8, <1>9, AnswerFacts DEF QuotaInv, Q!TypeOK
<1>11. ASSUME NEW b \in Requests, pc'[b] \in {"select", "insert", "modify", "commit"}
       PROVE  /\ call'[b] \in Q!Calls
              /\ pc'[b] \in {"modify", "commit"} => quota'[call'[b].tenant] # NoRow
  <2>1. pc'[b] = pc[b] /\ call'[b] = call[b]
    BY <1>1, <1>11, AnswerFacts
  <2>2. QED  BY <1>9, <1>11, <2>1, CallFacts DEF QuotaInv
<1>12. QED  BY <1>10, <1>11 DEF QuotaInv

\* Every step of the quota service keeps its part of the invariant.
LEMMA QuotaKept == QuotaInv /\ [Q!Next]_(Q!vars) => QuotaInv'
<1> SUFFICES ASSUME QuotaInv, [Q!Next]_(Q!vars) PROVE QuotaInv'
  OBVIOUS
<1>1. CASE UNCHANGED Q!vars
  BY <1>1 DEF QuotaInv, Q!TypeOK, Q!vars, Q!clients, Q!history
<1>2. CASE Q!Midnight
  <2>1. clock' \in Q!Days
    BY <1>2 DEF QuotaInv, Q!TypeOK, Q!Midnight, Q!Days
  <2>2. UNCHANGED <<quota, pc, call, loaded, object, calls, granted, admitted,
                    admittedInMonth>>
    BY <1>2 DEF Q!Midnight, Q!clients, Q!history
  <2>3. QED  BY <2>1, <2>2 DEF QuotaInv, Q!TypeOK
<1>3. ASSUME NEW r \in Requests, NEW k \in Q!Calls, Q!Call(r, k) PROVE QuotaInv'
  BY <1>3, CallKept
<1>4. ASSUME NEW r \in Requests, Q!Abort(r) PROVE QuotaInv'
  BY <1>4, AnswerKept DEF Q!Abort, Q!Answers, Q!history
<1>5. ASSUME NEW r \in Requests, Q!Step(r) PROVE QuotaInv'
  <2>1. CASE Q!InsertConflict(r)
    BY <2>1, AnswerKept DEF Q!InsertConflict, Q!Answers, Q!history
  <2>2. CASE Q!Refuse(r)
    BY <2>2, AnswerKept DEF Q!Refuse, Q!Answers, Q!history
  <2>3. CASE Q!GetStatus(r) \/ Q!ResetDaily(r) \/ Q!Provision(r)
    BY <2>3, InFlight DEF Q!GetStatus, Q!ResetDaily, Q!Provision
  <2>4. QED  BY <1>5, <2>1, <2>2, <2>3, SelectKept, InsertKept, CountKept, CommitKept
             DEF Q!Step
<1>6. QED  BY <1>1, <1>2, <1>3, <1>4, <1>5 DEF Q!Next

LEMMA QuotaInit == Q!Init => QuotaInv
<1> SUFFICES ASSUME Q!Init PROVE QuotaInv
  OBVIOUS
<1>1. 0 \in Q!Days
  BY DEF Q!Days
<1>2. Q!AnyRow \in Q!Row
  BY <1>1, NewRowFacts DEF Q!AnyRow
<1>3. QED  BY <1>1, <1>2 DEF Q!Init, QuotaInv, Q!TypeOK, Q!Stages

----------------------------------------------------------------------------
\* The request owns the events of its batch: it has stored them, and it alone
\* publishes them and raises their alerts.
Owns(r) == stage[r] \in {"publish", "alert"}

\* How far the request's loop has come.
Progress(r) ==
    /\ Owns(r) => /\ Ids(batch[r]) \subseteq stored
                  /\ \A i, j \in DOMAIN batch[r] : batch[r][i] = batch[r][j] => i = j
    /\ stage[r] = "publish" => \A i \in DOMAIN batch[r] :
           /\ published[batch[r][i]] = IF i < next[r] THEN 1 ELSE 0
           /\ alerts[batch[r][i]] = 0
    /\ stage[r] = "alert" => \A i \in DOMAIN batch[r] :
           /\ published[batch[r][i]] = 1
           /\ alerts[batch[r][i]] =
                  IF i < next[r] /\ batch[r][i] \in Triggering THEN 1 ELSE 0
    /\ stage[r] = "store" => next[r] = 1
    /\ result[r] = "success" => stage[r] = "accepted"

ProgressInv == \A r \in Requests : Progress(r)

OwnersInv ==
    \A q, r \in Requests :
        q # r /\ Owns(q) /\ Owns(r) => Ids(batch[q]) \cap Ids(batch[r]) = {}

LogInv == \A e \in Events \ stored : published[e] = 0 /\ alerts[e] = 0

\* TypeOK without the quota service.
ServerOK ==
    /\ stage \in [Requests -> {"idle"} \cup Working \cup Answered]
    /\ batch \in [Requests -> Batches \cup {<<>>}]
    /\ next \in [Requests -> Nat]
    /\ \A r \in Requests : stage[r] \in Working => next[r] \in DOMAIN batch[r]
    /\ result \in [Requests -> {"none", "waiting", "success", "failure"}]
    /\ stored \subseteq Events
    /\ published \in [Events -> Nat]
    /\ alerts \in [Events -> Nat]
    /\ received \in 0 .. MaxRequests

EventsInv == ServerOK /\ ProgressInv /\ OwnersInv /\ LogInv /\ AcceptedIsComplete

IInv == QuotaInv /\ EventsInv

\* The events of a batch.
LEMMA BatchFacts ==
    ASSUME ServerOK, NEW r \in Requests
    PROVE  /\ batch[r] \in Seq(Events) /\ Len(batch[r]) \in Nat
           /\ DOMAIN batch[r] = 1 .. Len(batch[r])
           /\ \A i \in DOMAIN batch[r] : batch[r][i] \in Events /\ batch[r][i] \in Ids(batch[r])
           /\ Ids(batch[r]) \subseteq Events
<1>1. <<>> \in Seq(Events)
  OBVIOUS
<1>2. batch[r] \in Seq(Events)
  BY <1>1 DEF ServerOK
<1>3. QED  BY <1>2 DEF Ids

LEMMA CurrentFacts ==
    ASSUME ServerOK, NEW r \in Requests, stage[r] \in Working
    PROVE  /\ next[r] \in 1 .. Len(batch[r]) /\ next[r] \in DOMAIN batch[r]
           /\ Current(r) = batch[r][next[r]]
           /\ Current(r) \in Events /\ Current(r) \in Ids(batch[r])
BY BatchFacts DEF ServerOK, Current

\* A batch with as many ids as events has no id twice.
LEMMA DistinctIds ==
    ASSUME NEW s \in Seq(Events), Cardinality(Ids(s)) = Len(s)
    PROVE  \A i, j \in DOMAIN s : s[i] = s[j] => i = j
<1>1. DOMAIN s = 1 .. Len(s) /\ Len(s) \in Nat
  OBVIOUS
<1>2. s \in Surjection(1 .. Len(s), Ids(s))
  <2>1. s \in [1 .. Len(s) -> Ids(s)]
    <3>1. s = [i \in 1 .. Len(s) |-> s[i]]
      BY <1>1
    <3>2. \A i \in 1 .. Len(s) : s[i] \in Ids(s)
      BY <1>1 DEF Ids
    <3>3. QED  BY <3>1, <3>2, Zenon
  <2>2. \A e \in Ids(s) : \E i \in 1 .. Len(s) : s[i] = e
    BY <1>1 DEF Ids
  <2>3. QED  BY <2>1, <2>2 DEF Surjection
<1>3. IsFiniteSet(1 .. Len(s)) /\ Cardinality(1 .. Len(s)) = Len(s)
  <2>1. 1 \in Int /\ Len(s) \in Int
    BY <1>1
  <2>2. /\ IsFiniteSet(1 .. Len(s))
        /\ Cardinality(1 .. Len(s)) = IF 1 > Len(s) THEN 0 ELSE Len(s) - 1 + 1
    BY <2>1, FS_Interval
  <2>3. QED  BY <1>1, <2>2
<1>4. s \in Injection(1 .. Len(s), Ids(s))
  BY <1>2, <1>3, FS_Surjection, Zenon
<1>5. QED  BY <1>1, <1>4 DEF Injection, IsInjective

----------------------------------------------------------------------------
\* A request that leaves the events alone and neither stores nor is accepted.
LEMMA QuietStep ==
    ASSUME EventsInv, NEW r \in Requests,
           NEW s \in ({"idle"} \cup Working \cup Answered) \ {"publish", "alert", "accepted"},
           stage[r] # "accepted", stage' = [stage EXCEPT ![r] = s],
           UNCHANGED <<batch, received, result, effects>>,
           next' \in [Requests -> Nat], \A q \in Requests \ {r} : next'[q] = next[q],
           s \in Working => next'[r] \in DOMAIN batch[r], s = "store" => next'[r] = 1
    PROVE  EventsInv'
<1>1. /\ stage'[r] = s /\ \A q \in Requests \ {r} : stage'[q] = stage[q]
      /\ stage' \in [Requests -> {"idle"} \cup Working \cup Answered]
      /\ UNCHANGED <<stored, published, alerts>>
  BY DEF EventsInv, ServerOK, effects
<1>2. ServerOK'
  BY <1>1 DEF EventsInv, ServerOK
<1>3. \A q \in Requests : Owns(q)' => Owns(q) /\ q # r
  BY <1>1 DEF Owns
<1>4. ProgressInv'
  BY <1>1 DEF EventsInv, ProgressInv, Progress, Owns
<1>5. OwnersInv'
  BY <1>3 DEF EventsInv, OwnersInv
<1>6. LogInv'
  BY <1>1 DEF EventsInv, LogInv
<1>7. AcceptedIsComplete'
  BY <1>1 DEF EventsInv, AcceptedIsComplete
<1>8. QED  BY <1>2, <1>4, <1>5, <1>6, <1>7 DEF EventsInv

\* A request that is answered with less than success.
LEMMA FailedAnswer ==
    ASSUME EventsInv, NEW r \in Requests, NEW s \in {"refused", "error"}, Answer(r, s),
           stage[r] # "accepted", UNCHANGED <<result, effects>>
    PROVE  EventsInv'
<1>1. s \in ({"idle"} \cup Working \cup Answered) \ {"publish", "alert", "accepted"}
      /\ s \notin Working
  BY DEF Working, Answered
<1>2. /\ stage' = [stage EXCEPT ![r] = s] /\ UNCHANGED <<batch, next, received>>
  BY DEF Answer
<1>3. next' \in [Requests -> Nat] /\ \A q \in Requests \ {r} : next'[q] = next[q]
  BY <1>2 DEF EventsInv, ServerOK
<1>4. QED  BY <1>1, <1>2, <1>3, QuietStep

\* How a loop goes on.
LEMMA AdvanceFacts ==
    ASSUME ServerOK, NEW r \in Requests, stage[r] \in Working, NEW here, NEW after,
           Advance(r, here, after)
    PROVE  /\ next' \in [Requests -> Nat]
           /\ \A q \in Requests \ {r} : next'[q] = next[q] /\ stage'[q] = stage[q]
           /\ next'[r] \in DOMAIN batch[r]
           /\ \/ /\ stage' = [stage EXCEPT ![r] = here] /\ stage'[r] = here
                 /\ next'[r] = next[r] + 1
              \/ /\ stage' = [stage EXCEPT ![r] = after] /\ stage'[r] = after
                 /\ next'[r] = 1 /\ next[r] = Len(batch[r])
<1>1. next[r] \in 1 .. Len(batch[r]) /\ Len(batch[r]) \in Nat
      /\ DOMAIN batch[r] = 1 .. Len(batch[r])
  BY CurrentFacts, BatchFacts
<1>2. next \in [Requests -> Nat] /\ r \in DOMAIN stage
  BY DEF ServerOK
<1>3. CASE next[r] < Len(batch[r])
  <2>1. stage' = [stage EXCEPT ![r] = here] /\ next' = [next EXCEPT ![r] = next[r] + 1]
    BY <1>3 DEF Advance
  <2>2. next[r] + 1 \in DOMAIN batch[r] /\ next[r] + 1 \in Nat
    BY <1>1, <1>3
  <2>3. next' \in [Requests -> Nat] /\ next'[r] = next[r] + 1
    BY <1>2, <2>1, <2>2
  <2>4. \A q \in Requests \ {r} : next'[q] = next[q] /\ stage'[q] = stage[q]
    BY <1>2, <2>1 DEF ServerOK
  <2>5. stage'[r] = here
    BY <1>2, <2>1
  <2>6. QED  BY <2>1, <2>2, <2>3, <2>4, <2>5
<1>4. CASE ~(next[r] < Len(batch[r]))
  <2>1. stage' = [stage EXCEPT ![r] = after] /\ next' = [next EXCEPT ![r] = 1]
    BY <1>4 DEF Advance
  <2>2. 1 \in DOMAIN batch[r] /\ next[r] = Len(batch[r])
    BY <1>1, <1>4
  <2>3. next' \in [Requests -> Nat] /\ next'[r] = 1
    BY <1>2, <2>1
  <2>4. \A q \in Requests \ {r} : next'[q] = next[q] /\ stage'[q] = stage[q]
    BY <1>2, <2>1 DEF ServerOK
  <2>5. stage'[r] = after
    BY <1>2, <2>1
  <2>6. QED  BY <2>1, <2>2, <2>3, <2>4, <2>5
<1>5. QED  BY <1>3, <1>4

LEMMA EmitStep ==
    ASSUME EventsInv, NEW r \in Requests, NEW events \in Batches, Emit(r, events)
    PROVE  EventsInv'
<1>1. /\ stage[r] \in {"idle"} \cup Answered /\ received < MaxRequests
      /\ received' = received + 1
      /\ batch' = [batch EXCEPT ![r] = events] /\ next' = [next EXCEPT ![r] = 1]
      /\ result' = [result EXCEPT ![r] = "waiting"]
      /\ UNCHANGED <<stored, published, alerts>>
  BY DEF Emit, effects
<1>2. PICK s \in {"check", "invalid"} : stage' = [stage EXCEPT ![r] = s]
  BY DEF Emit
<1>3. 1 \in DOMAIN events
  <2>1. events \in Seq(Events) /\ events # <<>>
    OBVIOUS
  <2>2. QED  BY <2>1
<1>4. /\ stage'[r] = s /\ batch'[r] = events /\ next'[r] = 1 /\ result'[r] = "waiting"
      /\ \A q \in Requests \ {r} : /\ stage'[q] = stage[q] /\ batch'[q] = batch[q]
                                   /\ next'[q] = next[q] /\ result'[q] = result[q]
  BY <1>1, <1>2 DEF EventsInv, ServerOK
<1>5. ServerOK'
  <2>1. s \in {"idle"} \cup Working \cup Answered
    BY DEF Working, Answered
  <2>2. QED  BY <1>1, <1>2, <1>3, <1>4, <2>1 DEF EventsInv, ServerOK
<1>6. \A q \in Requests : Owns(q)' => Owns(q) /\ q # r
  BY <1>4 DEF Owns
<1>7. ProgressInv'
  BY <1>1, <1>4 DEF EventsInv, ProgressInv, Progress, Owns
<1>8. OwnersInv'
  BY <1>4, <1>6 DEF EventsInv, OwnersInv
<1>9. LogInv'
  BY <1>1 DEF EventsInv, LogInv
<1>10. AcceptedIsComplete'
  BY <1>1, <1>4 DEF EventsInv, AcceptedIsComplete
<1>11. QED  BY <1>5, <1>7, <1>8, <1>9, <1>10 DEF EventsInv

\* The client hears of the answer or gives up.
LEMMA ClientStep ==
    ASSUME EventsInv, NEW r \in Requests, NEW a \in {"success", "failure"},
           result' = [result EXCEPT ![r] = a], a = "success" => stage[r] = "accepted",
           UNCHANGED <<server, effects>>
    PROVE  EventsInv'
<1>1. UNCHANGED <<stage, batch, next, received, stored, published, alerts>>
  BY DEF server, effects
<1>2. result'[r] = a /\ \A q \in Requests \ {r} : result'[q] = result[q]
  BY DEF EventsInv, ServerOK
<1>3. ServerOK'
  BY <1>1 DEF EventsInv, ServerOK
<1>4. ProgressInv'
  BY <1>1, <1>2 DEF EventsInv, ProgressInv, Progress, Owns
<1>5. OwnersInv' /\ LogInv'
  BY <1>1 DEF EventsInv, OwnersInv, LogInv, Owns
<1>6. AcceptedIsComplete'
  BY <1>1, <1>2 DEF EventsInv, AcceptedIsComplete
<1>7. QED  BY <1>3, <1>4, <1>5, <1>6 DEF EventsInv

LEMMA CheckPassedStep ==
    ASSUME EventsInv, NEW r \in Requests, CheckPassed(r)
    PROVE  EventsInv'
<1>1. /\ stage[r] = "checking" /\ Advance(r, "check", "store")
      /\ UNCHANGED <<batch, received, result, effects>>
  BY DEF CheckPassed
<1>2. "check" \in Working /\ "store" \in Working /\ stage[r] \in Working
  BY <1>1 DEF Working
<1>3. PICK s \in {"check", "store"} : stage' = [stage EXCEPT ![r] = s] /\ stage'[r] = s
  BY <1>1, <1>2, AdvanceFacts DEF EventsInv
<1>4. /\ next' \in [Requests -> Nat] /\ \A q \in Requests \ {r} : next'[q] = next[q]
      /\ next'[r] \in DOMAIN batch[r] /\ (stage'[r] = "store" => next'[r] = 1)
  BY <1>1, <1>2, AdvanceFacts DEF EventsInv
<1>5. QED  BY <1>1, <1>2, <1>3, <1>4, QuietStep

LEMMA CheckQuotaStep ==
    ASSUME EventsInv, NEW r \in Requests, CheckQuota(r)
    PROVE  EventsInv'
<1>1. /\ stage[r] = "check" /\ stage' = [stage EXCEPT ![r] = "checking"]
      /\ UNCHANGED <<batch, next, received, result, effects>>
  BY DEF CheckQuota
<1>2. "checking" \in Working /\ stage[r] \in Working
  BY <1>1 DEF Working
<1>3. /\ next' \in [Requests -> Nat] /\ \A q \in Requests \ {r} : next'[q] = next[q]
      /\ next'[r] \in DOMAIN batch[r]
  BY <1>1, <1>2 DEF EventsInv, ServerOK
<1>4. QED  BY <1>1, <1>2, <1>3, QuietStep

----------------------------------------------------------------------------
LEMMA StoreStep ==
    ASSUME EventsInv, NEW r \in Requests, Store(r)
    PROVE  EventsInv'
<1>1. /\ stage[r] = "store" /\ Cardinality(Ids(batch[r])) = Len(batch[r])
      /\ Ids(batch[r]) \cap stored = {} /\ stored' = stored \cup Ids(batch[r])
      /\ UNCHANGED <<batch, next, received, result, published, alerts>>
  BY DEF Store, Answer
<1>2. PICK s \in {"publish", "error"} : stage' = [stage EXCEPT ![r] = s]
  BY DEF Store, Answer
<1>3. stage[r] \in Working /\ "publish" \in Working /\ s \in Working \cup Answered
  BY <1>1 DEF Working, Answered
<1>4. /\ stage'[r] = s /\ \A q \in Requests \ {r} : stage'[q] = stage[q]
  BY <1>2 DEF EventsInv, ServerOK
<1>5. ServerOK'
  <2>1. Ids(batch[r]) \subseteq Events
    BY BatchFacts DEF EventsInv
  <2>2. QED  BY <1>1, <1>2, <1>3, <1>4, <2>1 DEF EventsInv, ServerOK
<1>6. \A i, j \in DOMAIN batch[r] : batch[r][i] = batch[r][j] => i = j
  BY <1>1, BatchFacts, DistinctIds DEF EventsInv
<1>7. \A i \in DOMAIN batch[r] : published[batch[r][i]] = 0 /\ alerts[batch[r][i]] = 0
  BY <1>1, BatchFacts DEF EventsInv, LogInv
<1>8. ProgressInv'
  <2> SUFFICES ASSUME NEW q \in Requests PROVE Progress(q)'
    BY DEF ProgressInv
  <2>1. Progress(q)
    BY DEF EventsInv, ProgressInv
  <2>2. CASE q = r
    <3>1. next[r] = 1 /\ result[r] # "success"
      BY <1>1 DEF EventsInv, ProgressInv, Progress
    <3>2. \A i \in DOMAIN batch[r] : ~ (i < 1)
      BY BatchFacts DEF EventsInv
    <3>3. QED  BY <1>1, <1>4, <1>6, <1>7, <2>2, <3>1, <3>2 DEF Progress, Owns
  <2>3. CASE q # r
    BY <1>1, <1>4, <2>1, <2>3 DEF Progress, Owns
  <2>4. QED  BY <2>2, <2>3
<1>9. OwnersInv'
  <2>1. \A q \in Requests \ {r} : /\ Owns(q)' <=> Owns(q)
                                  /\ Owns(q) => Ids(batch[q]) \subseteq stored
    BY <1>4 DEF EventsInv, ProgressInv, Progress, Owns
  <2>2. QED  BY <1>1, <2>1 DEF EventsInv, OwnersInv
<1>10. LogInv'
  BY <1>1 DEF EventsInv, LogInv
<1>11. AcceptedIsComplete'
  <2>1. result[r] # "success"
    BY <1>1 DEF EventsInv, ProgressInv, Progress
  <2>2. QED  BY <1>1, <1>4, <2>1 DEF EventsInv, AcceptedIsComplete
<1>12. QED  BY <1>5, <1>8, <1>9, <1>10, <1>11 DEF EventsInv

\* The owner of an event writes its counter, and no other request is concerned:
\* none other owns the event, and none was accepted with it.
LEMMA OwnerWrites ==
    ASSUME EventsInv, NEW r \in Requests, Owns(r),
           stage[r] = "alert" => Current(r) \in Triggering,
           published' \in [Events -> Nat], alerts' \in [Events -> Nat],
           \A e \in Events \ {Current(r)} :
               published'[e] = published[e] /\ alerts'[e] = alerts[e],
           \A q \in Requests \ {r} : stage'[q] = stage[q] /\ next'[q] = next[q],
           stage' \in [Requests -> {"idle"} \cup Working \cup Answered],
           next' \in [Requests -> Nat], stage'[r] \in Working => next'[r] \in DOMAIN batch[r],
           UNCHANGED <<batch, received, result, stored>>,
           Progress(r)',
           stage'[r] = "accepted" =>
               \A e \in Ids(batch[r]) : /\ e \in stored /\ published'[e] = 1
                                        /\ e \in Triggering => alerts'[e] = 1
    PROVE  EventsInv'
<1>1. /\ stage[r] \in Working /\ Progress(r) /\ Ids(batch[r]) \subseteq stored
      /\ stage[r] \in {"publish", "alert"} /\ stage[r] # "accepted" /\ result[r] # "success"
  BY DEF EventsInv, ProgressInv, Progress, Owns, Working
<1>2. /\ Current(r) \in Ids(batch[r]) /\ Current(r) \in Events
      /\ next[r] \in DOMAIN batch[r] /\ Current(r) = batch[r][next[r]]
      /\ next[r] \in Nat
  BY <1>1, CurrentFacts DEF EventsInv, ServerOK
<1>3. stage[r] = "publish" => published[Current(r)] = 0
  BY <1>1, <1>2 DEF Progress
<1>4. stage[r] = "alert" => alerts[Current(r)] = 0
  BY <1>1, <1>2 DEF Progress
<1>5. ServerOK'
  BY DEF EventsInv, ServerOK
<1>6. \A q \in Requests \ {r} : Owns(q) => Current(r) \notin Ids(batch[q])
  BY <1>2 DEF EventsInv, OwnersInv
<1>7. ASSUME NEW q \in Requests \ {r} PROVE Progress(q)'
  <2>1. Progress(q) /\ (Owns(q)' <=> Owns(q))
    BY DEF EventsInv, ProgressInv, Owns
  <2>2. Owns(q) => \A i \in DOMAIN batch[q] :
            /\ published'[batch[q][i]] = published[batch[q][i]]
            /\ alerts'[batch[q][i]] = alerts[batch[q][i]]
    BY <1>6, BatchFacts DEF EventsInv
  <2>3. /\ stage'[q] = stage[q] /\ next'[q] = next[q]
        /\ UNCHANGED <<batch, result, stored>>
    OBVIOUS
  <2>4. CASE Owns(q)
    <3>1. /\ Ids(batch[q])' \subseteq stored'
          /\ \A i, j \in DOMAIN batch[q] : batch[q][i] = batch[q][j] => i = j
      BY <2>1, <2>3, <2>4 DEF Progress
    <3>2. UNCHANGED batch
      BY <2>3
    <3>3. /\ stage'[q] = "store" => next'[q] = 1
          /\ result'[q] = "success" => stage'[q] = "accepted"
      BY <2>1, <2>3 DEF Progress
    <3>4. CASE stage[q] = "publish"
      <4>1. \A i \in DOMAIN batch[q] :
                /\ published'[batch[q][i]] = IF i < next[q] THEN 1 ELSE 0
                /\ alerts'[batch[q][i]] = 0
        <5>1. \A i \in DOMAIN batch[q] :
                  /\ published[batch[q][i]] = IF i < next[q] THEN 1 ELSE 0
                  /\ alerts[batch[q][i]] = 0
          BY <2>1, <3>4 DEF Progress
        <5>2. TAKE i \in DOMAIN batch[q]
        <5>3. /\ published'[batch[q][i]] = published[batch[q][i]]
              /\ alerts'[batch[q][i]] = alerts[batch[q][i]]
          BY <2>2, <2>4
        <5>4. QED  BY <5>1, <5>3
      <4>2. QED  BY <2>3, <3>1, <3>2, <3>3, <3>4, <4>1 DEF Progress
    <3>5. CASE stage[q] = "alert"
      <4>1. \A i \in DOMAIN batch[q] :
                /\ published'[batch[q][i]] = 1
                /\ alerts'[batch[q][i]] =
                       IF i < next[q] /\ batch[q][i] \in Triggering THEN 1 ELSE 0
        <5>1. \A i \in DOMAIN batch[q] :
                  /\ published[batch[q][i]] = 1
                  /\ alerts[batch[q][i]] =
                         IF i < next[q] /\ batch[q][i] \in Triggering THEN 1 ELSE 0
          BY <2>1, <3>5 DEF Progress
        <5>2. QED  BY <2>2, <2>4, <5>1
      <4>2. QED  BY <2>3, <3>1, <3>2, <3>3, <3>5, <4>1 DEF Progress
    <3>6. QED  BY <2>4, <3>4, <3>5 DEF Owns
  <2>5. CASE ~ Owns(q)
    BY <2>1, <2>3, <2>5 DEF Progress, Owns
  <2>6. QED  BY <2>4, <2>5
<1>8. ProgressInv'
  BY <1>7 DEF ProgressInv
<1>9. OwnersInv'
  <2>1. \A q \in Requests : Owns(q)' => Owns(q)
    BY DEF Owns
  <2>2. QED  BY <2>1 DEF EventsInv, OwnersInv
<1>10. LogInv'
  BY <1>1, <1>2 DEF EventsInv, LogInv
<1>11. AcceptedIsComplete'
  <2> SUFFICES ASSUME NEW q \in Requests, stage'[q] = "accepted" \/ result'[q] = "success",
                      NEW e \in Ids(batch[q])
               PROVE  /\ e \in stored /\ published'[e] = 1
                      /\ e \in Triggering => alerts'[e] = 1
    BY DEF AcceptedIsComplete
  <2>1. CASE q = r
    BY <1>1, <2>1
  <2>2. CASE q # r
    <3>1. stage[q] = "accepted" \/ result[q] = "success"
      BY <2>2
    <3>2. /\ e \in stored /\ published[e] = 1
          /\ e \in Triggering => alerts[e] = 1
      BY <3>1 DEF EventsInv, AcceptedIsComplete
    <3>3. e # Current(r)
      BY <1>1, <1>3, <1>4, <3>2
    <3>4. e \in Events
      BY <3>2 DEF EventsInv, ServerOK
    <3>5. QED  BY <3>2, <3>3, <3>4
  <2>3. QED  BY <2>1, <2>2
<1>12. QED  BY <1>5, <1>8, <1>9, <1>10, <1>11 DEF EventsInv

\* How far a loop is after one event more.
LEMMA Later ==
    ASSUME EventsInv, NEW r \in Requests, stage[r] \in Working
    PROVE  /\ next[r] \in DOMAIN batch[r] /\ Current(r) = batch[r][next[r]]
           /\ \A i \in DOMAIN batch[r] :
                  /\ ~ (i < 1)
                  /\ i < next[r] + 1 <=> i < next[r] \/ i = next[r]
                  /\ next[r] = Len(batch[r]) => (i < next[r] \/ i = next[r])
<1>1. /\ DOMAIN batch[r] = 1 .. Len(batch[r]) /\ Len(batch[r]) \in Nat
      /\ next[r] \in DOMAIN batch[r] /\ Current(r) = batch[r][next[r]]
  BY BatchFacts, CurrentFacts DEF EventsInv
<1>2. QED  BY <1>1

LEMMA PublishStep ==
    ASSUME EventsInv, NEW r \in Requests, Publish(r)
    PROVE  EventsInv'
<1>1. /\ stage[r] = "publish"
      /\ published' = [published EXCEPT ![Current(r)] = @ + 1]
      /\ \/ Advance(r, "publish", "alert") /\ UNCHANGED <<batch, received>>
         \/ Answer(r, "error")
      /\ UNCHANGED <<result, stored, alerts>>
  BY DEF Publish
<1>2. /\ stage[r] \in Working /\ "publish" \in Working /\ "alert" \in Working
      /\ "error" \in Answered /\ "error" \notin Working
  BY <1>1 DEF Working, Answered
<1>3. /\ Current(r) \in Events /\ Progress(r) /\ Owns(r)
      /\ \A i \in DOMAIN batch[r] : batch[r][i] \in Events
  BY <1>1, <1>2, CurrentFacts, BatchFacts DEF EventsInv, ProgressInv, Owns
<1>4. /\ published' \in [Events -> Nat] /\ alerts' \in [Events -> Nat]
      /\ \A e \in Events \ {Current(r)} : published'[e] = published[e] /\ alerts'[e] = alerts[e]
      /\ published'[Current(r)] = published[Current(r)] + 1
  BY <1>1, <1>3 DEF EventsInv, ServerOK
<1>5. \A i \in DOMAIN batch[r] :
          published'[batch[r][i]] = IF i < next[r] + 1 THEN 1 ELSE 0
  <2> SUFFICES ASSUME NEW i \in DOMAIN batch[r]
               PROVE  published'[batch[r][i]] = IF i < next[r] + 1 THEN 1 ELSE 0
    OBVIOUS
  <2>1. /\ next[r] \in DOMAIN batch[r] /\ Current(r) = batch[r][next[r]]
        /\ i < next[r] + 1 <=> i < next[r] \/ i = next[r]
        /\ ~ (next[r] < next[r])
    BY <1>2, Later DEF EventsInv, ServerOK
  <2>2. CASE i = next[r]
    BY <1>1, <1>3, <1>4, <2>1, <2>2 DEF Progress
  <2>3. CASE i # next[r]
    <3>1. batch[r][i] # Current(r)
      BY <1>3, <2>1, <2>3 DEF Progress
    <3>2. QED  BY <1>1, <1>3, <1>4, <2>1, <2>3, <3>1 DEF Progress
  <2>4. QED  BY <2>2, <2>3
<1>6. /\ stage' \in [Requests -> {"idle"} \cup Working \cup Answered]
      /\ next' \in [Requests -> Nat]
      /\ \A q \in Requests \ {r} : stage'[q] = stage[q] /\ next'[q] = next[q]
      /\ stage'[r] \in Working => next'[r] \in DOMAIN batch[r]
      /\ UNCHANGED <<batch, received>>
      /\ \/ stage'[r] = "publish" /\ next'[r] = next[r] + 1
         \/ stage'[r] = "alert" /\ next'[r] = 1 /\ next[r] = Len(batch[r])
         \/ stage'[r] = "error"
  <2>1. CASE Advance(r, "publish", "alert") /\ UNCHANGED <<batch, received>>
    <3>1. PICK s \in {"publish", "alert"} : stage' = [stage EXCEPT ![r] = s]
      BY <1>2, <2>1, AdvanceFacts DEF EventsInv
    <3>2. stage' \in [Requests -> {"idle"} \cup Working \cup Answered]
      BY <1>2, <3>1 DEF EventsInv, ServerOK
    <3>3. QED  BY <1>2, <2>1, <3>2, AdvanceFacts DEF EventsInv
  <2>2. CASE Answer(r, "error")
    BY <1>2, <2>2 DEF Answer, EventsInv, ServerOK
  <2>3. QED  BY <1>1, <2>1, <2>2
<1>7. Progress(r)'
  <2>1. result'[r] # "success"
    BY <1>1, <1>3 DEF Progress
  <2>2. /\ \A i \in DOMAIN batch[r] :
               /\ ~ (i < 1)
               /\ next[r] = Len(batch[r]) => i < next[r] + 1
    BY <1>2, Later
  <2>3. \A i \in DOMAIN batch[r] : alerts'[batch[r][i]] = 0
    BY <1>1, <1>3 DEF Progress
  <2>4. QED  BY <1>1, <1>3, <1>5, <1>6, <2>1, <2>2, <2>3 DEF Progress, Owns
<1>8. QED  BY <1>1, <1>3, <1>4, <1>6, <1>7, OwnerWrites

\* The loop over the alerts has passed the current event.
LEMMA AlertStep ==
    ASSUME EventsInv, NEW r \in Requests, stage[r] = "alert",
           alerts' \in [Events -> Nat],
           \A e \in Events \ {Current(r)} : alerts'[e] = alerts[e],
           alerts'[Current(r)] =
               alerts[Current(r)] + IF Current(r) \in Triggering THEN 1 ELSE 0,
           \/ Advance(r, "alert", "accepted") /\ UNCHANGED <<batch, received>>
           \/ Answer(r, "error") /\ Current(r) \in Triggering,
           UNCHANGED <<result, stored, published>>
    PROVE  EventsInv'
<1>1. /\ stage[r] \in Working /\ "alert" \in Working
      /\ "accepted" \in Answered /\ "error" \in Answered
      /\ "accepted" \notin Working /\ "error" \notin Working
  BY DEF Working, Answered
<1>2. /\ Current(r) \in Events /\ Progress(r) /\ Owns(r)
      /\ \A i \in DOMAIN batch[r] : batch[r][i] \in Events
      /\ \A e \in Ids(batch[r]) : \E i \in DOMAIN batch[r] : batch[r][i] = e
  BY <1>1, CurrentFacts, BatchFacts DEF EventsInv, ProgressInv, Owns, Ids
<1>3. \A i \in DOMAIN batch[r] :
          alerts'[batch[r][i]] =
              IF i < next[r] + 1 /\ batch[r][i] \in Triggering THEN 1 ELSE 0
  <2> SUFFICES ASSUME NEW i \in DOMAIN batch[r]
               PROVE  alerts'[batch[r][i]] =
                          IF i < next[r] + 1 /\ batch[r][i] \in Triggering THEN 1 ELSE 0
    OBVIOUS
  <2>1. /\ next[r] \in DOMAIN batch[r] /\ Current(r) = batch[r][next[r]]
        /\ i < next[r] + 1 <=> i < next[r] \/ i = next[r]
        /\ ~ (next[r] < next[r])
    BY <1>1, Later DEF EventsInv, ServerOK
  <2>2. CASE i = next[r]
    BY <1>2, <2>1, <2>2 DEF Progress
  <2>3. CASE i # next[r]
    <3>1. batch[r][i] # Current(r)
      BY <1>2, <2>1, <2>3 DEF Progress
    <3>2. QED  BY <1>2, <2>1, <2>3, <3>1 DEF Progress
  <2>4. QED  BY <2>2, <2>3
<1>4. /\ stage' \in [Requests -> {"idle"} \cup Working \cup Answered]
      /\ next' \in [Requests -> Nat]
      /\ \A q \in Requests \ {r} : stage'[q] = stage[q] /\ next'[q] = next[q]
      /\ stage'[r] \in Working => next'[r] \in DOMAIN batch[r]
      /\ UNCHANGED <<batch, received>>
      /\ \/ stage'[r] = "alert" /\ next'[r] = next[r] + 1
         \/ stage'[r] = "accepted" /\ next[r] = Len(batch[r])
         \/ stage'[r] = "error"
  <2>1. CASE Advance(r, "alert", "accepted") /\ UNCHANGED <<batch, received>>
    <3>1. PICK s \in {"alert", "accepted"} : stage' = [stage EXCEPT ![r] = s]
      BY <1>1, <2>1, AdvanceFacts DEF EventsInv
    <3>2. stage' \in [Requests -> {"idle"} \cup Working \cup Answered]
      BY <1>1, <3>1 DEF EventsInv, ServerOK
    <3>3. QED  BY <1>1, <2>1, <3>2, AdvanceFacts DEF EventsInv
  <2>2. CASE Answer(r, "error")
    BY <1>1, <2>2 DEF Answer, EventsInv, ServerOK
  <2>3. QED  BY <2>1, <2>2
<1>5. Progress(r)'
  <2>1. result'[r] # "success"
    BY <1>2 DEF Progress
  <2>2. \A i \in DOMAIN batch[r] : published'[batch[r][i]] = 1
    BY <1>2 DEF Progress
  <2>3. QED  BY <1>2, <1>3, <1>4, <2>1, <2>2 DEF Progress, Owns
<1>6. ASSUME stage'[r] = "accepted"
      PROVE  \A e \in Ids(batch[r]) : /\ e \in stored /\ published'[e] = 1
                                      /\ e \in Triggering => alerts'[e] = 1
  <2> SUFFICES ASSUME NEW e \in Ids(batch[r])
               PROVE  /\ e \in stored /\ published'[e] = 1
                      /\ e \in Triggering => alerts'[e] = 1
    OBVIOUS
  <2>1. PICK i \in DOMAIN batch[r] : batch[r][i] = e
    BY <1>2
  <2>2. i < next[r] + 1
    BY <1>1, <1>4, <1>6, Later
  <2>3. QED  BY <1>2, <1>3, <2>1, <2>2 DEF Progress
<1>7. CASE Current(r) \in Triggering
  <2>1. published' \in [Events -> Nat] /\ \A e \in Events : published'[e] = published[e]
    BY DEF EventsInv, ServerOK
  <2>2. QED  BY <1>2, <1>4, <1>5, <1>6, <1>7, <2>1, OwnerWrites
<1>8. CASE Current(r) \notin Triggering
  <2>1. /\ published' = published /\ alerts' = alerts
    <3>1. \A e \in Events : alerts'[e] = alerts[e]
      BY <1>8 DEF EventsInv, ServerOK
    <3>2. QED  BY <3>1 DEF EventsInv, ServerOK
  <2>2. ServerOK'
    BY <1>4, <2>1 DEF EventsInv, ServerOK
  <2>3. ProgressInv'
    <3>1. ASSUME NEW q \in Requests \ {r} PROVE Progress(q)'
      <4>1. Progress(q) /\ stage'[q] = stage[q] /\ next'[q] = next[q]
        BY <1>4 DEF EventsInv, ProgressInv
      <4>2. QED  BY <1>4, <2>1, <4>1 DEF Progress, Owns
    <3>2. QED  BY <1>5, <3>1 DEF ProgressInv
  <2>4. OwnersInv'
    <3>1. \A q \in Requests : Owns(q)' => Owns(q)
      BY <1>2, <1>4 DEF Owns
    <3>2. QED  BY <1>4, <3>1 DEF EventsInv, OwnersInv
  <2>5. LogInv'
    BY <2>1 DEF EventsInv, LogInv
  <2>6. AcceptedIsComplete'
    <3>1. result[r] # "success"
      BY <1>2 DEF Progress
    <3> SUFFICES ASSUME NEW q \in Requests, stage'[q] = "accepted" \/ result'[q] = "success",
                        NEW e \in Ids(batch[q])
                 PROVE  /\ e \in stored /\ published'[e] = 1
                        /\ e \in Triggering => alerts'[e] = 1
      BY <1>4 DEF AcceptedIsComplete
    <3>2. CASE q = r
      BY <1>4, <1>6, <3>1, <3>2
    <3>3. CASE q # r
      <4>1. stage[q] = "accepted" \/ result[q] = "success"
        BY <1>4, <3>3
      <4>2. QED  BY <1>4, <2>1, <4>1 DEF EventsInv, AcceptedIsComplete
    <3>4. QED  BY <3>2, <3>3
  <2>7. QED  BY <2>2, <2>3, <2>4, <2>5, <2>6 DEF EventsInv
<1>9. QED  BY <1>7, <1>8

LEMMA RaiseAlertStep ==
    ASSUME EventsInv, NEW r \in Requests, RaiseAlert(r)
    PROVE  EventsInv'
<1>1. stage[r] \in Working
  BY DEF RaiseAlert, Working
<1>2. Current(r) \in Events
  BY <1>1, CurrentFacts DEF EventsInv
<1>3. /\ alerts' \in [Events -> Nat] /\ alerts'[Current(r)] = alerts[Current(r)] + 1
      /\ \A e \in Events \ {Current(r)} : alerts'[e] = alerts[e]
  BY <1>2 DEF RaiseAlert, EventsInv, ServerOK
<1>4. QED  BY <1>3, AlertStep DEF RaiseAlert

LEMMA NoAlertStep ==
    ASSUME EventsInv, NEW r \in Requests, NoAlert(r)
    PROVE  EventsInv'
<1>1. stage[r] \in Working
  BY DEF NoAlert, Working
<1>2. Current(r) \in Events
  BY <1>1, CurrentFacts DEF EventsInv
<1>3. /\ alerts' \in [Events -> Nat] /\ alerts'[Current(r)] = alerts[Current(r)] + 0
      /\ \A e \in Events \ {Current(r)} : alerts'[e] = alerts[e]
  BY <1>2 DEF NoAlert, EventsInv, ServerOK, effects
<1>4. QED  BY <1>3, AlertStep DEF NoAlert, effects

----------------------------------------------------------------------------
\* What a step of ingestion is to the quota service: a step of it, or none.
LEMMA QuotaStepOrNone ==
    ASSUME IInv, [Next]_vars
    PROVE  [Q!Next]_(Q!vars)
<1>1. UNCHANGED quotaVars => UNCHANGED Q!vars
  BY DEF quotaVars, Q!vars, Q!clients, Q!history
<1>2. ASSUME NEW r \in Requests, CheckQuota(r) PROVE [Q!Next]_(Q!vars)
  <2> DEFINE k == [op |-> "check_and_increment", tenant |-> TenantOf[Current(r)],
                   tier |-> Starter, day |-> clock]
  <2>1. stage[r] \in Working
    BY <1>2 DEF CheckQuota, Working
  <2>2. Current(r) \in Events
    BY <2>1, CurrentFacts DEF IInv, EventsInv
  <2>3. k \in Q!Calls
    <3>1. /\ TenantOf[Current(r)] \in Tenants /\ clock \in Q!Days
          /\ Starter \in Tiers
      BY <2>2, EventAssumption, QuotaAssumption DEF IInv, QuotaInv, Q!TypeOK
    <3>2. QED  BY <3>1 DEF Q!Calls
  <2>4. Q!Call(r, k)
    BY <1>2 DEF CheckQuota
  <2> HIDE DEF k
  <2>5. QED  BY <2>3, <2>4 DEF Q!Next
<1>3. ASSUME NEW r \in Requests, QuotaStep(r) PROVE [Q!Next]_(Q!vars)
  BY <1>3 DEF QuotaStep, Q!Next
<1>4. CASE NewDay
  BY <1>4 DEF NewDay, Q!Next
<1>5. CASE UNCHANGED vars
  BY <1>1, <1>5 DEF vars
<1>6. ASSUME NEW r \in Requests,
             \/ \E events \in Batches : Emit(r, events)
             \/ CheckPassed(r) \/ CheckRaised(r) \/ Store(r) \/ StoreConflict(r)
             \/ Publish(r) \/ RaiseAlert(r) \/ NoAlert(r) \/ Fail(r)
             \/ Respond(r) \/ ClientGivesUp(r)
      PROVE  [Q!Next]_(Q!vars)
  BY <1>1, <1>6 DEF Emit, CheckPassed, CheckRaised, Store, StoreConflict, Publish,
                    RaiseAlert, NoAlert, Fail, Respond, ClientGivesUp
<1>7. QED  BY <1>2, <1>3, <1>4, <1>5, <1>6 DEF Next, Work

LEMMA InitIInv == Init => IInv
<1> SUFFICES ASSUME Init PROVE IInv
  OBVIOUS
<1>1. QuotaInv
  BY QuotaInit DEF Init
<1>2. ServerOK
  BY DEF Init, ServerOK, Working
<1>3. ProgressInv /\ OwnersInv /\ LogInv /\ AcceptedIsComplete
  BY DEF Init, ProgressInv, Progress, OwnersInv, Owns, LogInv, AcceptedIsComplete
<1>4. QED  BY <1>1, <1>2, <1>3 DEF IInv, EventsInv

LEMMA NextStep == IInv /\ [Next]_vars => IInv'
<1> SUFFICES ASSUME IInv, [Next]_vars PROVE IInv'
  OBVIOUS
<1>1. EventsInv /\ QuotaInv
  BY DEF IInv
<1>2. QuotaInv'
  BY <1>1, QuotaStepOrNone, QuotaKept
<1>3. UNCHANGED <<server, result, effects>> => EventsInv'
  BY <1>1 DEF server, effects, EventsInv, ServerOK, ProgressInv, Progress, OwnersInv, Owns,
              LogInv, AcceptedIsComplete
<1>4. ASSUME NEW r \in Requests, Work(r) PROVE EventsInv'
  <2>1. CASE CheckQuota(r)
    BY <1>1, <2>1, CheckQuotaStep
  <2>2. CASE CheckPassed(r)
    BY <1>1, <2>2, CheckPassedStep
  <2>3. CASE CheckRaised(r)
    BY <1>1, <2>3, FailedAnswer DEF CheckRaised
  <2>4. CASE QuotaStep(r)
    BY <1>3, <2>4 DEF QuotaStep
  <2>5. CASE Store(r)
    BY <1>1, <2>5, StoreStep
  <2>6. CASE StoreConflict(r)
    BY <1>1, <2>6, FailedAnswer DEF StoreConflict
  <2>7. CASE Publish(r)
    BY <1>1, <2>7, PublishStep
  <2>8. CASE RaiseAlert(r)
    BY <1>1, <2>8, RaiseAlertStep
  <2>9. CASE NoAlert(r)
    BY <1>1, <2>9, NoAlertStep
  <2>10. CASE Fail(r)
    BY <1>1, <2>10, FailedAnswer DEF Fail
  <2>11. QED  BY <1>4, <2>1, <2>2, <2>3, <2>4, <2>5, <2>6, <2>7, <2>8, <2>9, <2>10 DEF Work
<1>5. ASSUME NEW r \in Requests, NEW events \in Batches, Emit(r, events) PROVE EventsInv'
  BY <1>1, <1>5, EmitStep
<1>6. ASSUME NEW r \in Requests, Respond(r) \/ ClientGivesUp(r) PROVE EventsInv'
  BY <1>1, <1>6, ClientStep DEF Respond, ClientGivesUp
<1>7. CASE NewDay
  BY <1>2, <1>3, <1>7 DEF NewDay, IInv
<1>8. CASE UNCHANGED vars
  BY <1>2, <1>3, <1>8 DEF vars, IInv
<1>9. QED  BY <1>2, <1>4, <1>5, <1>6, <1>7, <1>8 DEF Next, IInv

----------------------------------------------------------------------------
\* The quota checks that a request has passed for a batch that it has not stored.
Passed(r, i) ==
    /\ i \in DOMAIN batch[r]
    /\ \/ stage[r] \in {"check", "checking"} /\ i < next[r]
       \/ stage[r] = "checking" /\ pc[r] = "ok" /\ i = next[r]
       \/ stage[r] = "store"

Credit(t) == {x \in Requests \X Nat : /\ Passed(x[1], x[2])
                                      /\ TenantOf[batch[x[1]][x[2]]] = t}

\* What a tenant was admitted suffices for what it has stored and for what its
\* requests may store yet without another check.
Covered(admissions, saved, credit) ==
    /\ IsFiniteSet(admissions) /\ IsFiniteSet(saved) /\ IsFiniteSet(credit)
    /\ Cardinality(saved) + Cardinality(credit) <= Cardinality(admissions)

PaidInv ==
    /\ \A t \in Tenants : Covered(Admissions(t), StoredOf(t), Credit(t))
    /\ \A r \in Requests :
           stage[r] = "checking" /\ pc[r] \in {"select", "insert", "modify", "commit"} =>
               call[r].tenant = TenantOf[Current(r)]

\* Credit may be given up.
LEMMA CoveredLess ==
    ASSUME NEW A, NEW S, NEW C, Covered(A, S, C), NEW D \in SUBSET C
    PROVE  Covered(A, S, D)
<1>1. IsFiniteSet(D) /\ Cardinality(D) <= Cardinality(C)
  BY FS_Subset DEF Covered
<1>2. /\ Cardinality(A) \in Nat /\ Cardinality(S) \in Nat
      /\ Cardinality(C) \in Nat /\ Cardinality(D) \in Nat
  BY <1>1, FS_CardinalityType DEF Covered
<1>3. QED  BY <1>1, <1>2 DEF Covered

\* An admission gives at most one credit.
LEMMA CoveredMore ==
    ASSUME NEW A, NEW S, NEW C, Covered(A, S, C), NEW a, a \notin A,
           NEW c, NEW D \in SUBSET (C \cup {c})
    PROVE  Covered(A \cup {a}, S, D)
<1>1. IsFiniteSet(A \cup {a}) /\ Cardinality(A \cup {a}) = Cardinality(A) + 1
  BY FS_AddElement DEF Covered
<1>2. IsFiniteSet(C \cup {c}) /\ Cardinality(C \cup {c}) <= Cardinality(C) + 1
  <2>1. IsFiniteSet(C) /\ Cardinality(C) \in Nat
    BY FS_CardinalityType DEF Covered
  <2>2. /\ IsFiniteSet(C \cup {c})
        /\ Cardinality(C \cup {c}) = IF c \in C THEN Cardinality(C)
                                                ELSE Cardinality(C) + 1
    BY <2>1, FS_AddElement
  <2>3. QED  BY <2>1, <2>2
<1>3. IsFiniteSet(D) /\ Cardinality(D) <= Cardinality(C \cup {c})
  BY <1>2, FS_Subset
<1>4. /\ Cardinality(A) \in Nat /\ Cardinality(S) \in Nat /\ Cardinality(C) \in Nat
      /\ Cardinality(C \cup {c}) \in Nat /\ Cardinality(D) \in Nat
  BY <1>2, <1>3, FS_CardinalityType DEF Covered
<1>5. QED  BY <1>1, <1>2, <1>3, <1>4 DEF Covered

\* What is stored uses up credit, one at least for each event.
LEMMA CoveredSpent ==
    ASSUME NEW A, NEW S, NEW C, Covered(A, S, C), NEW P \in SUBSET C, NEW N,
           NEW f \in Surjection(P, N)
    PROVE  Covered(A, S \cup N, C \ P)
<1>1. IsFiniteSet(P) /\ Cardinality(P) <= Cardinality(C)
  BY FS_Subset DEF Covered
<1>2. IsFiniteSet(N) /\ Cardinality(N) <= Cardinality(P)
  BY <1>1, FS_Surjection
<1>3. /\ IsFiniteSet(S \cup N) /\ IsFiniteSet(S \cap N)
      /\ Cardinality(S \cup N)
             = Cardinality(S) + Cardinality(N) - Cardinality(S \cap N)
  BY <1>2, FS_Union, FS_Intersection DEF Covered
<1>4. IsFiniteSet(C \ P) /\ Cardinality(C \ P) = Cardinality(C) - Cardinality(P)
  <2>1. C \cap P = P
    OBVIOUS
  <2>2. QED  BY <2>1, FS_Difference DEF Covered
<1>5. /\ Cardinality(A) \in Nat /\ Cardinality(S) \in Nat /\ Cardinality(C) \in Nat
      /\ Cardinality(P) \in Nat /\ Cardinality(N) \in Nat
      /\ Cardinality(S \cap N) \in Nat
  BY <1>1, <1>2, <1>3, FS_CardinalityType DEF Covered
<1>6. Cardinality(S \cup N) + Cardinality(C \ P) <= Cardinality(A)
  BY <1>2, <1>3, <1>4, <1>5 DEF Covered
<1>7. QED  BY <1>3, <1>4, <1>6 DEF Covered

\* A step that admits nothing, stores nothing and passes no check.
LEMMA NothingPassed ==
    ASSUME IInv, PaidInv, UNCHANGED <<admitted, stored>>,
           \A q \in Requests : \A i \in Nat :
               Passed(q, i)' => Passed(q, i) /\ batch'[q] = batch[q],
           \A q \in Requests :
               stage'[q] = "checking" /\ pc'[q] \in {"select", "insert", "modify", "commit"} =>
                   call'[q].tenant = TenantOf[Current(q)']
    PROVE  PaidInv'
<1>1. ASSUME NEW t \in Tenants PROVE Covered(Admissions(t), StoredOf(t), Credit(t))'
  <2>1. Credit(t)' \subseteq Credit(t)
    BY DEF Credit
  <2>2. Admissions(t)' = Admissions(t) /\ StoredOf(t)' = StoredOf(t)
    BY DEF Admissions, StoredOf, Q!Days
  <2>3. Covered(Admissions(t), StoredOf(t), Credit(t))
    BY DEF PaidInv
  <2>4. Covered(Admissions(t), StoredOf(t), Credit(t)')
    BY <2>1, <2>3, CoveredLess
  <2>5. QED  BY <2>2, <2>4 DEF Covered
<1>2. QED  BY <1>1 DEF PaidInv

\* The tenant of a request that awaits its quota keeps its name.
LEMMA CallsKept ==
    ASSUME IInv, PaidInv, NEW r \in Requests,
           UNCHANGED <<batch, next>>, stage' = stage,
           \A q \in Requests : \/ pc'[q] \notin {"select", "insert", "modify", "commit"}
                               \/ call'[q] = call[q] /\
                                  pc[q] \in {"select", "insert", "modify", "commit"}
    PROVE  \A q \in Requests :
               stage'[q] = "checking" /\ pc'[q] \in {"select", "insert", "modify", "commit"} =>
                   call'[q].tenant = TenantOf[Current(q)']
BY DEF PaidInv, Current

\* The quota service's steps: only a commit that is answered passes a check.
LEMMA QuotaPaid ==
    ASSUME IInv, PaidInv, NEW r \in Requests, QuotaStep(r), ~Q!Commit(r)
    PROVE  PaidInv'
<1>1. /\ UNCHANGED <<stage, batch, next, stored>>
      /\ Q!Step(r) \/ Q!Abort(r)
  BY DEF QuotaStep, server, effects
<1>2. /\ UNCHANGED admitted /\ pc \in [Requests -> Q!Stages \cup Q!Answers]
      /\ call \in [Requests -> Q!Calls \cup {Q!NoCall}]
      /\ pc[r] \in {"select", "insert", "modify", "commit"}
  BY <1>1 DEF Q!Step, Q!Abort, Q!Select, Q!Insert, Q!InsertConflict, Q!Refuse, Q!Count,
              Q!GetStatus, Q!ResetDaily, Q!Provision, Q!Modify, Q!history,
              IInv, QuotaInv, Q!TypeOK
<1>3. call[r].op = "check_and_increment"
  BY <1>2, InFlight DEF IInv
<1>4. \/ Q!Answer(r, "refused") \/ Q!Answer(r, "error")
      \/ \E s \in {"insert", "modify", "commit"} :
             pc' = [pc EXCEPT ![r] = s] /\ call' = call
  <2>1. CASE Q!Abort(r) \/ Q!InsertConflict(r) \/ Q!Refuse(r)
    BY <2>1 DEF Q!Abort, Q!InsertConflict, Q!Refuse
  <2>2. CASE Q!Select(r)
    BY <2>2 DEF Q!Select
  <2>3. CASE Q!Insert(r)
    BY <1>3, <2>3 DEF Q!Insert
  <2>4. CASE Q!Count(r)
    BY <2>4 DEF Q!Count, Q!Modify
  <2>5. QED  BY <1>1, <1>3, <2>1, <2>2, <2>3, <2>4
             DEF Q!Step, Q!GetStatus, Q!ResetDaily, Q!Provision
<1>5. /\ \A q \in Requests \ {r} : pc'[q] = pc[q] /\ call'[q] = call[q]
      /\ pc'[r] # "ok"
      /\ pc'[r] \in {"select", "insert", "modify", "commit"} => call'[r] = call[r]
  <2>1. CASE Q!Answer(r, "refused") \/ Q!Answer(r, "error")
    BY <1>2, <2>1 DEF Q!Answer
  <2>2. CASE \E s \in {"insert", "modify", "commit"} :
                 pc' = [pc EXCEPT ![r] = s] /\ call' = call
    BY <1>2, <2>2
  <2>3. QED  BY <1>4, <2>1, <2>2
<1>6. \A q \in Requests : \A i \in Nat : Passed(q, i)' => Passed(q, i)
  BY <1>1, <1>5 DEF Passed
<1>7. QED  BY <1>1, <1>2, <1>5, <1>6, NothingPassed, CallsKept

\* A commit admits one event; the request has passed one more check at most.
LEMMA CommitPaid ==
    ASSUME IInv, PaidInv, NEW r \in Requests, QuotaStep(r), Q!Commit(r)
    PROVE  PaidInv'
<1>1. /\ UNCHANGED <<stage, batch, next, stored>> /\ pc[r] = "commit"
  BY DEF QuotaStep, server, effects, Q!Commit
<1>2. PICK u \in Tenants, d \in Q!Days :
          /\ u = call[r].tenant /\ d = object[r].day_window_start
          /\ call[r].op = "check_and_increment"
          /\ admitted \in [Tenants -> [Q!Days -> Nat]]
  <2>1. object[r] \in Q!Row /\ call[r].op = "check_and_increment" /\ call[r].tenant \in Tenants
    BY <1>1, InFlight DEF IInv
  <2>2. QED  BY <2>1 DEF Q!Row, IInv, QuotaInv, Q!TypeOK
<1>3. PICK n \in Nat, i \in Nat :
          /\ n = admitted[u][d] + 1 /\ admitted' = [admitted EXCEPT ![u][d] = n]
          /\ i = next[r]
  <2>1. admitted[u][d] + 1 \in Nat /\ next[r] \in Nat
    BY <1>2 DEF IInv, EventsInv, ServerOK
  <2>2. admitted' = [admitted EXCEPT ![u][d] = admitted[u][d] + 1]
    BY <1>2 DEF Q!Commit
  <2>3. QED  BY <2>1, <2>2
<1>4. PICK a \in {"ok", "error"} : Q!Answer(r, a)
  BY DEF Q!Commit, Q!AnswerCommitted
<1>5. /\ \A q \in Requests \ {r} : pc'[q] = pc[q] /\ call'[q] = call[q]
      /\ pc'[r] = a
  BY <1>4 DEF Q!Answer, IInv, QuotaInv, Q!TypeOK
<1>6. <<d, n>> \notin Admissions(u)
  <2>1. ~ (n <= admitted[u][d])
    BY <1>2, <1>3
  <2>2. QED  BY <2>1 DEF Admissions
<1>7. Admissions(u)' = Admissions(u) \cup {<<d, n>>}
  <2>1. \A e \in Q!Days : admitted'[u][e] = IF e = d THEN n ELSE admitted[u][e]
    BY <1>2, <1>3
  <2>2. 1 .. n = (1 .. admitted[u][d]) \cup {n}
    BY <1>2, <1>3
  <2>3. \A x : x \in Admissions(u)' <=>
            \E e \in Q!Days : x \in {e} \X (1 .. admitted'[u][e])
    <3>1. Q!Days' = Q!Days
      BY DEF Q!Days
    <3>2. QED  BY <3>1 DEF Admissions
  <2>4. \A x : x \in Admissions(u) <=>
            \E e \in Q!Days : x \in {e} \X (1 .. admitted[u][e])
    BY DEF Admissions
  <2>5. {d} \X (1 .. n) = ({d} \X (1 .. admitted[u][d])) \cup {<<d, n>>}
    BY <2>2
  <2>6. \A x : x \in Admissions(u)' <=> x \in Admissions(u) \cup {<<d, n>>}
    <3> SUFFICES ASSUME NEW x
                 PROVE  x \in Admissions(u)' <=> x \in Admissions(u) \cup {<<d, n>>}
      OBVIOUS
    <3>1. \A e \in Q!Days \ {d} : {e} \X (1 .. admitted'[u][e]) = {e} \X (1 .. admitted[u][e])
      BY <2>1
    <3>2. {d} \X (1 .. admitted'[u][d]) = ({d} \X (1 .. admitted[u][d])) \cup {<<d, n>>}
      BY <2>1, <2>5
    <3>3. QED  BY <2>3, <2>4, <3>1, <3>2, Zenon
  <2>7. QED  BY <2>6
<1>8. \A t \in Tenants : t # u => Admissions(t)' = Admissions(t)
  BY <1>2, <1>3 DEF Admissions, Q!Days
<1>9. ASSUME NEW q \in Requests, NEW j \in Nat, Passed(q, j)'
      PROVE  \/ Passed(q, j)
             \/ q = r /\ j = i /\ stage[r] = "checking"
  BY <1>1, <1>3, <1>5, <1>9 DEF Passed
<1>10. stage[r] = "checking" => TenantOf[batch[r][i]] = u
  BY <1>1, <1>2, <1>3 DEF PaidInv, Current
<1>11. Credit(u)' \subseteq Credit(u) \cup {<<r, i>>}
  BY <1>1, <1>9 DEF Credit
<1>12. \A t \in Tenants : t # u => Credit(t)' \subseteq Credit(t)
  BY <1>1, <1>9, <1>10 DEF Credit
<1>13. \A t \in Tenants : StoredOf(t)' = StoredOf(t) /\ Covered(Admissions(t), StoredOf(t), Credit(t))
  BY <1>1 DEF StoredOf, PaidInv
<1>14. ASSUME NEW t \in Tenants PROVE Covered(Admissions(t)', StoredOf(t)', Credit(t)')
  <2>1. CASE t = u
    <3>1. Covered(Admissions(u), StoredOf(u), Credit(u))
      BY <1>13
    <3>2. Covered(Admissions(u) \cup {<<d, n>>}, StoredOf(u), Credit(u)')
      BY <1>6, <1>11, <3>1, CoveredMore
    <3>3. QED  BY <1>7, <1>13, <2>1, <3>2
  <2>2. CASE t # u
    <3>1. Covered(Admissions(t), StoredOf(t), Credit(t)')
      BY <1>12, <1>13, <2>2, CoveredLess
    <3>2. QED  BY <1>8, <1>13, <2>2, <3>1
  <2>3. QED  BY <2>1, <2>2
<1>15. \A q \in Requests :
           stage'[q] = "checking" /\ pc'[q] \in {"select", "insert", "modify", "commit"} =>
               call'[q].tenant = TenantOf[Current(q)']
  BY <1>1, <1>5, CallsKept
<1>16. QED  BY <1>14, <1>15 DEF PaidInv, Covered

\* The commit of a batch spends the check that each of its events has passed.
LEMMA StorePaid ==
    ASSUME IInv, PaidInv, NEW r \in Requests, Store(r)
    PROVE  PaidInv'
<1>1. /\ stage[r] = "store" /\ stored' = stored \cup Ids(batch[r])
      /\ UNCHANGED <<batch, next, pc, call, admitted>>
  BY DEF Store, Answer, quotaVars
<1>2. \A q \in Requests : IF q = r THEN stage'[q] \in {"publish", "error"}
                                   ELSE stage'[q] = stage[q]
  BY DEF Store, Answer, IInv, EventsInv, ServerOK
<1>3. /\ DOMAIN batch[r] = 1 .. Len(batch[r]) /\ DOMAIN batch[r] \subseteq Nat
      /\ Ids(batch[r]) = {batch[r][j] : j \in DOMAIN batch[r]}
  BY BatchFacts DEF IInv, EventsInv, Ids
<1>4. ASSUME NEW t \in Tenants PROVE Covered(Admissions(t)', StoredOf(t)', Credit(t)')
  <2> DEFINE P == {x \in {r} \X DOMAIN batch[r] : TenantOf[batch[r][x[2]]] = t}
             N == {e \in Ids(batch[r]) : TenantOf[e] = t}
             f == [x \in P |-> batch[r][x[2]]]
  <2>1. P \subseteq Credit(t)
    BY <1>1, <1>3 DEF Credit, Passed
  <2>2. f \in Surjection(P, N)
    <3>1. f \in [P -> N]
      BY <1>3
    <3>2. ASSUME NEW e \in N PROVE \E x \in P : f[x] = e
      <4>1. PICK j \in DOMAIN batch[r] : batch[r][j] = e
        BY <1>3
      <4>2. <<r, j>> \in P /\ f[<<r, j>>] = e
        BY <4>1
      <4>3. QED  BY <4>2
    <3>3. QED  BY <3>1, <3>2 DEF Surjection
  <2>3. Credit(t)' \subseteq Credit(t) \ P
    BY <1>1, <1>2 DEF Credit, Passed
  <2>4. StoredOf(t)' = StoredOf(t) \cup N
    BY <1>1 DEF StoredOf
  <2>5. Admissions(t)' = Admissions(t)
    BY <1>1 DEF Admissions, Q!Days
  <2> HIDE DEF P, N, f
  <2>6. Covered(Admissions(t), StoredOf(t) \cup N, Credit(t) \ P)
    BY <2>1, <2>2, CoveredSpent DEF PaidInv
  <2>7. Covered(Admissions(t), StoredOf(t) \cup N, Credit(t)')
    BY <2>3, <2>6, CoveredLess
  <2>8. QED  BY <2>4, <2>5, <2>7
<1>5. \A q \in Requests :
          stage'[q] = "checking" /\ pc'[q] \in {"select", "insert", "modify", "commit"} =>
              call'[q].tenant = TenantOf[Current(q)']
  BY <1>1, <1>2 DEF PaidInv, Current
<1>6. QED  BY <1>4, <1>5 DEF PaidInv, Covered

\* Passing to the next event keeps what was passed, and so does the last one.
LEMMA CheckPassedPaid ==
    ASSUME IInv, PaidInv, NEW r \in Requests, CheckPassed(r)
    PROVE  PaidInv'
<1>1. /\ stage[r] = "checking" /\ pc[r] = "ok" /\ Advance(r, "check", "store")
      /\ UNCHANGED <<batch, stored, pc, call, admitted>>
  BY DEF CheckPassed, effects, quotaVars
<1>2. stage[r] \in Working /\ ServerOK
  BY <1>1 DEF Working, IInv, EventsInv
<1>3. /\ \A q \in Requests \ {r} : next'[q] = next[q] /\ stage'[q] = stage[q]
      /\ \/ stage'[r] = "check" /\ next'[r] = next[r] + 1
         \/ stage'[r] = "store" /\ next[r] = Len(batch[r])
  BY <1>1, <1>2, AdvanceFacts
<1>4. /\ DOMAIN batch[r] = 1 .. Len(batch[r]) /\ Len(batch[r]) \in Nat
      /\ next[r] \in Nat
  BY <1>2, BatchFacts DEF ServerOK
<1>5. \A i \in Nat : Passed(r, i)' => Passed(r, i)
  <2>1. ASSUME NEW i \in DOMAIN batch[r], stage'[r] = "check", i < next'[r]
        PROVE  i < next[r] \/ i = next[r]
    BY <1>3, <1>4, <2>1
  <2>2. ASSUME NEW i \in DOMAIN batch[r], stage'[r] = "store"
        PROVE  i < next[r] \/ i = next[r]
    BY <1>3, <1>4, <2>2
  <2>3. QED  BY <1>1, <1>3, <2>1, <2>2 DEF Passed
<1>6. \A q \in Requests : \A i \in Nat : Passed(q, i)' => Passed(q, i)
  BY <1>1, <1>3, <1>5 DEF Passed
<1>7. \A q \in Requests :
          stage'[q] = "checking" /\ pc'[q] \in {"select", "insert", "modify", "commit"} =>
              call'[q].tenant = TenantOf[Current(q)']
  BY <1>1, <1>3, SMTT(30) DEF PaidInv, Current
<1>8. QED  BY <1>1, <1>6, <1>7, NothingPassed

\* A request goes on where nothing is passed any more, or comes in.
LEMMA OtherPaid ==
    ASSUME IInv, PaidInv, NEW r \in Requests,
           \A q \in Requests \ {r} : stage'[q] = stage[q] /\ next'[q] = next[q]
                                     /\ batch'[q] = batch[q],
           \/ stage'[r] = "check" /\ next'[r] = 1
           \/ stage'[r] \in {"publish", "alert"} \cup Answered,
           batch' \in [Requests -> Batches \cup {<<>>}],
           UNCHANGED <<pc, call, admitted, stored>>
    PROVE  PaidInv'
<1>1. \A i \in Nat : ~ Passed(r, i)'
  <2>1. \A i \in DOMAIN batch'[r] : ~ (i < 1)
    <3>1. batch'[r] \in Seq(Events)
      <4>1. <<>> \in Seq(Events)
        OBVIOUS
      <4>2. QED  BY <4>1
    <3>2. QED  BY <3>1
  <2>2. QED  BY <2>1 DEF Passed, Answered
<1>2. \A q \in Requests : \A i \in Nat :
          Passed(q, i)' => Passed(q, i) /\ batch'[q] = batch[q]
  <2>1. ASSUME NEW q \in Requests \ {r}, NEW i \in Nat, Passed(q, i)'
        PROVE  Passed(q, i) /\ batch'[q] = batch[q]
    BY <2>1 DEF Passed
  <2>2. QED  BY <1>1, <2>1
<1>3. ASSUME NEW q \in Requests, stage'[q] = "checking",
             pc'[q] \in {"select", "insert", "modify", "commit"}
      PROVE  call'[q].tenant = TenantOf[Current(q)']
  <2>1. q # r
    BY <1>3 DEF Answered
  <2>2. Current(q)' = Current(q)
    BY <2>1 DEF Current
  <2>3. QED  BY <1>3, <2>1, <2>2 DEF PaidInv
<1>4. \A q \in Requests :
          stage'[q] = "checking" /\ pc'[q] \in {"select", "insert", "modify", "commit"} =>
              call'[q].tenant = TenantOf[Current(q)']
  BY <1>3
<1>5. UNCHANGED <<admitted, stored>>
  OBVIOUS
<1>6. QED  BY <1>2, <1>4, <1>5, NothingPassed

----------------------------------------------------------------------------
\* The inductive invariant holds in every reachable state.
THEOREM Invariance == Spec => []IInv
BY InitIInv, NextStep, PTL DEF Spec

\* Requests, events and the quota's rows have their types.
THEOREM TypeCorrect == Spec => []TypeOK
<1>1. IInv => TypeOK
  BY DEF IInv, QuotaInv, EventsInv, ServerOK, TypeOK
<1>2. QED  BY <1>1, Invariance, PTL

\* An accepted request has stored, published and alerted all of its events, and
\* a client that was told of success was told so by such an answer (ingest,
\* ingest_batch, DoxClient.emit_batch).
THEOREM AcceptedMeansAll == Spec => []AcceptedIsComplete
<1>1. IInv => AcceptedIsComplete
  BY DEF IInv, EventsInv
<1>2. QED  BY <1>1, Invariance, PTL

\* Ingestion uses the quota service as it is specified: whatever Quota
\* guarantees for check_and_increment, it guarantees here (_check_quota).
THEOREM QuotaIsImplemented == Spec => Q!Spec
<1>1. Init => Q!Init
  BY DEF Init
<1>2. IInv /\ [Next]_vars => [Q!Next]_(Q!vars)
  BY QuotaStepOrNone DEF IInv
<1>3. QED  BY <1>1, <1>2, Invariance, PTL DEF Spec, Q!Spec

----------------------------------------------------------------------------
LEMMA PaidInit == Init => PaidInv
<1> SUFFICES ASSUME Init PROVE PaidInv
  OBVIOUS
<1>1. ASSUME NEW t \in Tenants PROVE Covered(Admissions(t), StoredOf(t), Credit(t))
  <2>1. Admissions(t) = {}
    <3>1. \A d \in Q!Days : admitted[t][d] = 0
      BY DEF Init, Q!Init
    <3>2. QED  BY <3>1 DEF Admissions
  <2>2. StoredOf(t) = {} /\ Credit(t) = {}
    BY DEF Init, StoredOf, Credit, Passed
  <2>3. IsFiniteSet({}) /\ Cardinality({}) = 0
    BY FS_EmptySet
  <2>4. QED  BY <2>1, <2>2, <2>3 DEF Covered
<1>2. \A r \in Requests : stage[r] # "checking"
  BY DEF Init
<1>3. QED  BY <1>1, <1>2 DEF PaidInv

LEMMA PaidStep == IInv /\ PaidInv /\ [Next]_vars => PaidInv'
<1> SUFFICES ASSUME IInv, PaidInv, [Next]_vars PROVE PaidInv'
  OBVIOUS
<1>1. EventsInv /\ ServerOK /\ batch \in [Requests -> Batches \cup {<<>>}]
  BY DEF IInv, EventsInv, ServerOK
<1>2. UNCHANGED <<stage, batch, next, stored, pc, call, admitted>> => PaidInv'
  BY NothingPassed DEF Passed, PaidInv, Current
<1>3. ASSUME NEW r \in Requests, Work(r) PROVE PaidInv'
  <2>1. CASE CheckQuota(r)
    <3>1. /\ stage[r] = "check" /\ stage' = [stage EXCEPT ![r] = "checking"]
          /\ UNCHANGED <<batch, next, stored>>
      BY <2>1 DEF CheckQuota, effects
    <3>2. /\ pc' = [pc EXCEPT ![r] = "select"] /\ UNCHANGED admitted
          /\ call' = [call EXCEPT ![r] = [op |-> "check_and_increment",
                                          tenant |-> TenantOf[Current(r)],
                                          tier |-> Starter, day |-> clock]]
      BY <2>1 DEF CheckQuota, Q!Call, Q!history
    <3>3. /\ stage'[r] = "checking" /\ pc'[r] = "select"
          /\ call'[r].tenant = TenantOf[Current(r)]
          /\ \A q \in Requests \ {r} : /\ stage'[q] = stage[q]
                                       /\ pc'[q] = pc[q] /\ call'[q] = call[q]
      BY <3>1, <3>2 DEF IInv, EventsInv, ServerOK, QuotaInv, Q!TypeOK
    <3>4. \A q \in Requests : \A i \in Nat : Passed(q, i)' => Passed(q, i)
      BY <3>1, <3>3 DEF Passed
    <3>5. QED  BY <3>1, <3>2, <3>3, <3>4, NothingPassed DEF PaidInv, Current
  <2>2. CASE CheckPassed(r)
    BY <2>2, CheckPassedPaid
  <2>3. CASE QuotaStep(r)
    BY <2>3, QuotaPaid, CommitPaid
  <2>4. CASE Store(r)
    BY <2>4, StorePaid
  <2>5. CASE CheckRaised(r) \/ StoreConflict(r) \/ Fail(r)
    <3>1. PICK a \in {"refused", "error"} : stage' = [stage EXCEPT ![r] = a]
      BY <2>5 DEF CheckRaised, StoreConflict, Fail, Answer
    <3>2. UNCHANGED <<batch, next, stored, pc, call, admitted>>
      BY <2>5 DEF CheckRaised, StoreConflict, Fail, Answer, effects, quotaVars
    <3>3. stage'[r] \in Answered /\ \A q \in Requests \ {r} : stage'[q] = stage[q]
      BY <1>1, <3>1 DEF ServerOK, Answered
    <3>4. QED  BY <1>1, <3>2, <3>3, OtherPaid
  <2>6. CASE Publish(r) \/ RaiseAlert(r) \/ NoAlert(r)
    <3>1. /\ UNCHANGED <<batch, stored, pc, call, admitted>> /\ stage[r] \in Working
          /\ \/ Advance(r, "publish", "alert") \/ Advance(r, "alert", "accepted")
             \/ Answer(r, "error")
      BY <2>6 DEF Publish, RaiseAlert, NoAlert, Answer, effects, quotaVars, Working
    <3>2. /\ stage'[r] \in {"publish", "alert", "accepted", "error"}
          /\ \A q \in Requests \ {r} : next'[q] = next[q] /\ stage'[q] = stage[q]
      <4>1. CASE Answer(r, "error")
        BY <1>1, <4>1 DEF Answer, ServerOK
      <4>2. CASE Advance(r, "publish", "alert") \/ Advance(r, "alert", "accepted")
        BY <1>1, <3>1, <4>2, AdvanceFacts
      <4>3. QED  BY <3>1, <4>1, <4>2
    <3>3. QED  BY <1>1, <3>1, <3>2, OtherPaid DEF Answered
  <2>7. QED  BY <1>3, <2>1, <2>2, <2>3, <2>4, <2>5, <2>6 DEF Work
<1>4. ASSUME NEW r \in Requests, NEW events \in Batches, Emit(r, events) PROVE PaidInv'
  <2>1. /\ batch' = [batch EXCEPT ![r] = events] /\ next' = [next EXCEPT ![r] = 1]
        /\ UNCHANGED <<stored, pc, call, admitted>>
    BY <1>4 DEF Emit, effects, quotaVars
  <2>2. PICK s \in {"check", "invalid"} : stage' = [stage EXCEPT ![r] = s]
    BY <1>4 DEF Emit
  <2>3. /\ stage'[r] = s /\ next'[r] = 1 /\ batch' \in [Requests -> Batches \cup {<<>>}]
        /\ \A q \in Requests \ {r} : stage'[q] = stage[q] /\ next'[q] = next[q]
                                     /\ batch'[q] = batch[q]
    BY <1>1, <2>1, <2>2 DEF ServerOK
  <2>4. QED  BY <2>1, <2>3, OtherPaid DEF Answered
<1>5. ASSUME NEW r \in Requests, Respond(r) \/ ClientGivesUp(r) PROVE PaidInv'
  BY <1>2, <1>5 DEF Respond, ClientGivesUp, server, effects, quotaVars
<1>6. CASE NewDay
  BY <1>2, <1>6 DEF NewDay, server, effects, Q!Midnight, Q!clients, Q!history
<1>7. CASE UNCHANGED vars
  BY <1>2, <1>7 DEF vars, server, effects, quotaVars
<1>8. QED  BY <1>3, <1>4, <1>5, <1>6, <1>7 DEF Next

\* No event is stored that was not admitted, however requests fail, overlap and
\* repeat each other's events (_check_quota, ingest_batch).
THEOREM StoredWasAdmitted == Spec => []StoredIsPaidFor
<1>1. PaidInv => StoredIsPaidFor
  <2> SUFFICES ASSUME PaidInv, NEW t \in Tenants
               PROVE  Cardinality(StoredOf(t)) <= Cardinality(Admissions(t))
    BY DEF StoredIsPaidFor
  <2>1. Covered(Admissions(t), StoredOf(t), Credit(t))
    BY DEF PaidInv
  <2>2. /\ Cardinality(Admissions(t)) \in Nat /\ Cardinality(StoredOf(t)) \in Nat
        /\ Cardinality(Credit(t)) \in Nat
    BY <2>1, FS_CardinalityType DEF Covered
  <2>3. QED  BY <2>1, <2>2 DEF Covered
<1>2. Spec => []PaidInv
  BY PaidInit, PaidStep, Invariance, PTL DEF Spec
<1>3. QED  BY <1>1, <1>2, PTL

----------------------------------------------------------------------------
\* What a step of ingestion is to the event log.
LEMMA StoreIsAppend ==
    ASSUME EventsInv, NEW r \in Requests, Store(r)
    PROVE  Log!Next
<1>1. stage[r] \in Working
  BY DEF Store, Working
<1>2. Ids(batch[r]) # {} /\ Ids(batch[r]) \in SUBSET Events
  BY <1>1, CurrentFacts, BatchFacts DEF EventsInv
<1>3. Log!Append(Ids(batch[r]))
  BY <1>2 DEF Store, Log!Append
<1>4. QED  BY <1>2, <1>3 DEF Log!Next

LEMMA PublishIsPublish ==
    ASSUME EventsInv, NEW r \in Requests, Publish(r)
    PROVE  Log!Next
<1>1. stage[r] \in Working /\ stage[r] = "publish"
  BY DEF Publish, Working
<1>2. Current(r) \in Events /\ Current(r) \in Ids(batch[r])
  BY <1>1, CurrentFacts DEF EventsInv
<1>3. Current(r) \in stored /\ published[Current(r)] = 0
  <2>1. ~ (next[r] < next[r])
    BY DEF EventsInv, ServerOK
  <2>2. QED  BY <1>1, <1>2, <2>1, CurrentFacts DEF EventsInv, ProgressInv, Progress, Owns
<1>4. published' = [published EXCEPT ![Current(r)] = 1]
  BY <1>2, <1>3 DEF Publish, EventsInv, ServerOK
<1>5. Log!Publish(Current(r))
  BY <1>3, <1>4 DEF Publish, Log!Publish
<1>6. QED  BY <1>2, <1>5 DEF Log!Next

LEMMA RaiseAlertIsRaiseAlert ==
    ASSUME EventsInv, NEW r \in Requests, RaiseAlert(r)
    PROVE  Log!Next
<1>1. stage[r] \in Working /\ stage[r] = "alert"
  BY DEF RaiseAlert, Working
<1>2. Current(r) \in Events
  BY <1>1, CurrentFacts DEF EventsInv
<1>3. published[Current(r)] = 1 /\ alerts[Current(r)] = 0
  <2>1. ~ (next[r] < next[r])
    BY DEF EventsInv, ServerOK
  <2>2. QED  BY <1>1, <2>1, CurrentFacts DEF EventsInv, ProgressInv, Progress
<1>4. alerts' = [alerts EXCEPT ![Current(r)] = 1]
  BY <1>2, <1>3 DEF RaiseAlert, EventsInv, ServerOK
<1>5. Log!RaiseAlert(Current(r))
  BY <1>3, <1>4 DEF RaiseAlert, Log!RaiseAlert
<1>6. QED  BY <1>2, <1>5 DEF Log!Next

LEMMA LogStepOrNone ==
    ASSUME EventsInv, [Next]_vars
    PROVE  [Log!Next]_(Log!vars)
<1>1. ASSUME NEW r \in Requests, Store(r) \/ Publish(r) \/ RaiseAlert(r)
      PROVE  Log!Next
  BY <1>1, StoreIsAppend, PublishIsPublish, RaiseAlertIsRaiseAlert
<1>2. ASSUME NEW r \in Requests,
             \/ \E events \in Batches : Emit(r, events)
             \/ CheckQuota(r) \/ CheckPassed(r) \/ CheckRaised(r) \/ QuotaStep(r)
             \/ StoreConflict(r) \/ NoAlert(r) \/ Fail(r)
             \/ Respond(r) \/ ClientGivesUp(r)
      PROVE  UNCHANGED Log!vars
  BY <1>2 DEF Emit, CheckQuota, CheckPassed, CheckRaised, QuotaStep, StoreConflict, NoAlert,
              Fail, Respond, ClientGivesUp, effects, Log!vars
<1>3. NewDay \/ UNCHANGED vars => UNCHANGED Log!vars
  BY DEF NewDay, vars, effects, Log!vars
<1>4. QED  BY <1>1, <1>2, <1>3 DEF Next, Work

\* Retries, duplicates and failures implement the event log: an event is stored
\* once, published at most once and not before it is stored, and raises at most
\* one alert (ingest, ingest_batch).
THEOREM EventLogIsImplemented == Spec => ImplementsEventLog
<1>1. Init => Log!Init
  BY DEF Init, Log!Init
<1>2. IInv /\ [Next]_vars => [Log!Next]_(Log!vars)
  BY LogStepOrNone DEF IInv
<1>3. QED  BY <1>1, <1>2, Invariance, PTL DEF Spec, ImplementsEventLog, Log!Spec

----------------------------------------------------------------------------
(***************************************************************************)
(* What QuotaProofs proves of the quota service holds of the pipeline that *)
(* uses it: its theorems are those of an instance of Quota whose clients   *)
(* are the requests and whose one method is check_and_increment.           *)
(***************************************************************************)
Proved == INSTANCE QuotaProofs WITH Clients <- Requests,
                                    Operations <- {"check_and_increment"}

LEMMA QuotaTheoremsApply ==
    /\ Proved!LastDayAssumption /\ Proved!MaxCallsAssumption
    /\ Proved!OperationsAssumption /\ Proved!TierAssumption
    /\ Proved!DistinctLimitsAssumption /\ Proved!MonthAssumption
    /\ Proved!NoRowAssumption
<1>1. Proved!Days = Q!Days /\ Proved!Row = Q!Row
  BY DEF Proved!Days, Q!Days, Proved!Row, Q!Row
<1>2. QED
  BY <1>1, QuotaTheoremsAssumption
     DEF Proved!LastDayAssumption, Proved!MaxCallsAssumption,
         Proved!OperationsAssumption, Proved!TierAssumption,
         Proved!DistinctLimitsAssumption, Proved!MonthAssumption,
         Proved!NoRowAssumption

\* The two instances of Quota are one specification, definition by definition.
LEMMA SameQuota == Q!Spec <=> Proved!Spec
<1>1. Q!Init <=> Proved!Init
  BY DEF Q!Init, Q!Days, Q!AnyRow, Q!NoCall, Q!NewRow,
         Proved!Init, Proved!Days, Proved!AnyRow, Proved!NoCall, Proved!NewRow
<1>2. Q!Next <=> Proved!Next
  <2>1. Q!Calls = Proved!Calls
    BY DEF Q!Calls, Proved!Calls, Q!Days, Proved!Days
  <2>2. ASSUME NEW c, NEW k PROVE Q!Call(c, k) <=> Proved!Call(c, k)
    BY Zenon DEF Q!Call, Q!Answers, Q!history, Proved!Call, Proved!Answers, Proved!history
  <2>3. Q!Midnight <=> Proved!Midnight
    BY Zenon DEF Q!Midnight, Q!clients, Q!history, Proved!Midnight, Proved!clients,
                 Proved!history
  <2>4. Q!NoCall = Proved!NoCall /\ Q!AnyRow = Proved!AnyRow
    BY DEF Q!NoCall, Q!AnyRow, Q!NewRow, Proved!NoCall, Proved!AnyRow, Proved!NewRow
  <2>5. ASSUME NEW c, NEW a PROVE Q!Answer(c, a) <=> Proved!Answer(c, a)
    BY <2>4, Zenon DEF Q!Answer, Proved!Answer
  <2>6. ASSUME NEW c
        PROVE  (Q!Step(c) \/ Q!Abort(c)) <=> (Proved!Step(c) \/ Proved!Abort(c))
    <3>1. Q!Select(c) <=> Proved!Select(c)
      BY <2>5, Zenon
         DEF Q!Select, Q!NewRow, Q!history,
             Proved!Select, Proved!NewRow, Proved!history
    <3>2. Q!Insert(c) <=> Proved!Insert(c)
      BY <2>5, Zenon
         DEF Q!Insert, Q!AnswerCommitted, Q!history,
             Proved!Insert, Proved!AnswerCommitted, Proved!history
    <3>3. Q!InsertConflict(c) <=> Proved!InsertConflict(c)
      BY <2>5, Zenon
         DEF Q!InsertConflict, Q!history,
             Proved!InsertConflict, Proved!history
    <3>4. Q!Refuse(c) <=> Proved!Refuse(c)
      BY <2>5, Zenon
         DEF Q!Refuse, Q!OverLimit, Q!ResetWindows, Q!history,
             Proved!Refuse, Proved!OverLimit, Proved!ResetWindows, Proved!history
    <3>5. Q!Count(c) <=> Proved!Count(c)
      BY <2>5, Zenon
         DEF Q!Count, Q!Modify, Q!CountEvent, Q!OverLimit, Q!ResetWindows, Q!history,
             Proved!Count, Proved!Modify, Proved!CountEvent, Proved!OverLimit, Proved!ResetWindows, Proved!history
    <3>6. Q!GetStatus(c) <=> Proved!GetStatus(c)
      BY <2>5, Zenon
         DEF Q!GetStatus, Q!Modify, Q!ResetWindows, Q!history,
             Proved!GetStatus, Proved!Modify, Proved!ResetWindows, Proved!history
    <3>7. Q!ResetDaily(c) <=> Proved!ResetDaily(c)
      BY <2>5, Zenon
         DEF Q!ResetDaily, Q!Modify, Q!RestartDay, Q!history,
             Proved!ResetDaily, Proved!Modify, Proved!RestartDay, Proved!history
    <3>8. Q!Provision(c) <=> Proved!Provision(c)
      BY <2>5, Zenon
         DEF Q!Provision, Q!Modify, Q!ChangeTier, Q!history,
             Proved!Provision, Proved!Modify, Proved!ChangeTier, Proved!history
    <3>9. Q!Commit(c) <=> Proved!Commit(c)
      BY <2>5, Zenon
         DEF Q!Commit, Q!AnswerCommitted, Q!Flush, Q!history,
             Proved!Commit, Proved!AnswerCommitted, Proved!Flush, Proved!history
    <3>10. Q!Abort(c) <=> Proved!Abort(c)
      BY <2>5, Zenon
         DEF Q!Abort, Q!history,
             Proved!Abort, Proved!history
    <3>11. QED  BY <3>1, <3>2, <3>3, <3>4, <3>5, <3>6, <3>7, <3>8, <3>9, <3>10, Zenon DEF Q!Step, Proved!Step
  <2>7. QED  BY <2>1, <2>2, <2>3, <2>6, Zenon DEF Q!Next, Proved!Next
<1>3. UNCHANGED Q!vars <=> UNCHANGED Proved!vars
  BY DEF Q!vars, Q!clients, Q!history, Proved!vars, Proved!clients, Proved!history
<1>4. [Q!Next]_(Q!vars) <=> [Proved!Next]_(Proved!vars)
  BY <1>2, <1>3
<1>5. QED  BY <1>1, <1>4, PTL DEF Q!Spec, Proved!Spec

\* However many requests overlap, repeat each other or fail, the counters of a
\* tenant stay within limits it was granted, and a row's limits are those of its
\* tier (_check_quota).
THEOREM QuotaHoldsInPipeline ==
    Spec => [](Proved!CounterWithinGrant /\ Proved!LimitsMatchTier)
<1>1. Proved!Spec => []Proved!CounterWithinGrant
  BY QuotaTheoremsApply, Proved!CountersAreBounded
<1>2. Proved!Spec => []Proved!LimitsMatchTier
  BY QuotaTheoremsApply, Proved!TiersAreWhole
<1>3. QED  BY <1>1, <1>2, QuotaIsImplemented, SameQuota, PTL

\* With one request at a time the pipeline implements the meter of the quota
\* service and admits no more events on a day than the limit.
THEOREM SerialPipelineIsMetered ==
    Proved!OneAtATime => (Spec => Proved!ImplementsMeter /\ []Proved!NoOverAdmission)
<1> SUFFICES ASSUME Proved!OneAtATime
             PROVE  Spec => Proved!ImplementsMeter /\ []Proved!NoOverAdmission
  OBVIOUS
<1>1. Proved!Spec => Proved!ImplementsMeter
  BY QuotaTheoremsApply, Proved!MeterIsImplemented
<1>2. Proved!Spec => [](Proved!NoOverAdmission /\ Proved!NoOverAdmissionInMonth)
  BY QuotaTheoremsApply, Proved!AdmissionsAreLimited
<1>3. QED  BY <1>1, <1>2, QuotaIsImplemented, SameQuota, PTL

=============================================================================
