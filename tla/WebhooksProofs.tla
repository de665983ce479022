--------------------------- MODULE WebhooksProofs ---------------------------
(***************************************************************************)
(* What dispatching to webhooks guarantees however dispatches overlap and  *)
(* whatever the endpoints answer, for every set of clients, endpoints and  *)
(* tenants; and that it implements the fan-out of FanOut.                  *)
(***************************************************************************)
EXTENDS Webhooks, FiniteSetTheorems, TLAPS

USE HookAssumption

Delivering(c) == job[c].node \in {"post", "commit"}

\* The endpoints whose delivery is not in the result yet.
Rest(c) == job[c].queue \cup
           IF job[c].node = "commit" THEN {job[c].webhook} ELSE {}

\* The endpoints of a dispatch whose delivery is.
Got(c) == {h \in targets[job[c].id] \ Rest(c) : received[h][job[c].id] = 1}

\* A client has one dispatch, and it is nobody else's.
IdsInv ==
    \A c \in Clients :
        /\ job[c].id <= Len(asked)
        /\ job[c].node # "idle" => job[c].id > 0
        /\ \A b \in Clients \ {c} : job[c].id > 0 => job[b].id # job[c].id

\* A dispatch has no targets before it lists them, and only targets receive it.
TargetsInv ==
    /\ \A d \in Dispatches :
           /\ targets[d] \subseteq Range(registered)
           /\ d > Len(asked) => targets[d] = {}
           /\ \A h \in Hooks \ targets[d] : received[h][d] = 0
    /\ \A c \in Clients : job[c].node = "list" => targets[job[c].id] = {}

\* A dispatch that has listed its targets accounts for each: it is left to
\* deliver to, or it is in the result.
ResultOf(c) ==
    LET d == job[c].id
    IN  /\ job[c].node = "list" =>
               job[c].successful = 0 /\ job[c].failed = 0
        /\ job[c].node \in {"post", "commit", "ended"} =>
               /\ Rest(c) \subseteq targets[d]
               /\ \A h \in job[c].queue : received[h][d] = 0
               /\ job[c].node = "commit" =>
                      /\ job[c].webhook \notin job[c].queue
                      /\ job[c].success => received[job[c].webhook][d] = 1
               /\ job[c].node = "ended" => job[c].queue = {}
               /\ job[c].successful + job[c].failed + Cardinality(Rest(c))
                      = Cardinality(targets[d])
               /\ job[c].successful <= Cardinality(Got(c))

ResultInv == \A c \in Clients : ResultOf(c)

\* What a dispatch has loaded of an endpoint was recorded; it is what the table
\* holds unless another dispatch holds the endpoint, or has held it, too.
CountsInv ==
    /\ \A b, c \in Clients : b # c => HeldBy(b) \cap HeldBy(c) \subseteq overlapped
    /\ \A c \in Clients : \A h \in HeldBy(c) :
           /\ job[c].loaded[h] <= recorded[h]
           /\ h \notin overlapped => job[c].loaded[h] = failure_count[h]

IInv == /\ TypeOK /\ IdsInv /\ TargetsInv /\ ResultInv /\ CountsInv
        /\ FailureCountIsExact /\ FailuresAreReal

----------------------------------------------------------------------------
LEMMA GotoFacts ==
    ASSUME job \in [Clients -> Job], NEW c \in Clients, NEW new \in Job,
           NEW node \in Nodes, Goto(c, new, node)
    PROVE  /\ job' \in [Clients -> Job]
           /\ job'[c] \in Job
           /\ job'[c].node = node /\ job'[c].id = new.id
           /\ job'[c].queue = new.queue /\ job'[c].webhook = new.webhook
           /\ job'[c].loaded = new.loaded /\ job'[c].success = new.success
           /\ job'[c].successful = new.successful /\ job'[c].failed = new.failed
           /\ \A b \in Clients \ {c} : job'[b] = job[b]
BY DEF Goto, Job

LEMMA JobFacts ==
    ASSUME TypeOK, NEW c \in Clients
    PROVE  /\ job[c] \in Job
           /\ job[c].node \in Nodes /\ job[c].id \in 0 .. MaxDispatches
           /\ job[c].queue \in SUBSET Hooks /\ job[c].webhook \in Hooks \cup {NoHook}
           /\ job[c].loaded \in [Hooks -> Nat] /\ job[c].success \in BOOLEAN
           /\ job[c].successful \in Nat /\ job[c].failed \in Nat
BY DEF TypeOK, Job

\* The endpoints registered are finitely many.
LEMMA RegisteredIsFinite == IInv => IsFiniteSet(Range(registered))
<1> SUFFICES ASSUME IInv PROVE IsFiniteSet(Range(registered))
  OBVIOUS
<1> DEFINE I == 1 .. Len(registered)
<1>1. IsFiniteSet(I)
  BY FS_Interval DEF IInv, TypeOK
<1>2. registered \in Surjection(I, Range(registered))
  <2>1. registered \in [I -> Hooks]
    BY DEF IInv, TypeOK
  <2>2. QED  BY <2>1 DEF Range, Surjection
<1>3. QED  BY <1>1, <1>2, FS_Surjection

LEMMA TargetsAreFinite ==
    ASSUME IInv, NEW d \in Dispatches
    PROVE  IsFiniteSet(targets[d]) /\ Cardinality(targets[d]) \in Nat
<1>1. targets[d] \subseteq Range(registered)
  BY DEF IInv, TargetsInv
<1>2. QED  BY <1>1, RegisteredIsFinite, FS_Subset, FS_CardinalityType

LEMMA InitIInv == Init => IInv
<1> SUFFICES ASSUME Init PROVE IInv
  OBVIOUS
<1>1. \A c \in Clients : job[c] = NewJob("idle", 0) /\ NewJob("idle", 0) \in Job
  BY DEF Init, NewJob, Job, Nodes
<1>2. TypeOK
  <2>1. /\ registered \in Seq(Hooks) /\ active \subseteq Range(registered)
        /\ asked \in Seq([tenant_id : Tenants, sentinel_type : SentinelTypes])
        /\ Len(asked) <= MaxDispatches
    BY DEF Init
  <2>2. job \in [Clients -> Job]
    BY <1>1 DEF Init
  <2>3. \A c \in Clients : job[c].node = "idle"
    BY <1>1 DEF NewJob
  <2>4. QED  BY <2>1, <2>2, <2>3 DEF Init, TypeOK
<1>3. IdsInv /\ TargetsInv /\ ResultInv
  BY <1>1 DEF Init, IdsInv, TargetsInv, ResultInv, ResultOf, NewJob, Dispatches
<1>4. CountsInv /\ FailureCountIsExact /\ FailuresAreReal
  BY <1>1 DEF Init, CountsInv, FailureCountIsExact, FailuresAreReal, NewJob, HeldBy
<1>5. QED  BY <1>2, <1>3, <1>4 DEF IInv

LEMMA StutterStep == IInv /\ UNCHANGED vars => IInv'
<1> SUFFICES ASSUME IInv, UNCHANGED vars PROVE IInv'
  OBVIOUS
<1>1. TypeOK' /\ IdsInv' /\ TargetsInv'
  BY DEF IInv, vars, history, TypeOK, IdsInv, TargetsInv
<1>2. ResultInv'
  <2>1. \A c \in Clients : /\ (Rest(c)' = Rest(c)) /\ (Got(c)' = Got(c))
    BY DEF vars, history, Rest, Got
  <2>2. \A c \in Clients : ResultOf(c) => ResultOf(c)'
    BY <2>1 DEF vars, history, ResultOf
  <2>3. QED  BY <2>2 DEF IInv, ResultInv
<1>3. CountsInv'
  BY DEF IInv, vars, history, CountsInv, HeldBy
<1>4. FailureCountIsExact' /\ FailuresAreReal'
  BY DEF IInv, vars, history, FailureCountIsExact, FailuresAreReal
<1>5. QED  BY <1>1, <1>2, <1>3, <1>4 DEF IInv

\* What a dispatch has done stays so while nothing it refers to changes.
LEMMA ResultKept ==
    ASSUME NEW c \in Clients, ResultOf(c), job'[c] = job[c],
           targets'[job[c].id] = targets[job[c].id],
           \A h \in targets[job[c].id] :
               received'[h][job[c].id] = received[h][job[c].id]
    PROVE  ResultOf(c)'
<1>1. CASE job[c].node \notin {"post", "commit", "ended"}
  BY <1>1 DEF ResultOf
<1>2. CASE job[c].node \in {"post", "commit", "ended"}
  <2>1. Rest(c)' = Rest(c)
    BY DEF Rest
  <2>2. Got(c)' = Got(c)
    BY <2>1 DEF Got
  <2>3. /\ Rest(c) \subseteq targets[job[c].id]
        /\ \A h \in job[c].queue : h \in targets[job[c].id]
        /\ job[c].node = "commit" => job[c].webhook \in targets[job[c].id]
    BY <1>2 DEF ResultOf, Rest
  <2>4. QED  BY <1>2, <2>1, <2>2, <2>3 DEF ResultOf
<1>3. QED  BY <1>1, <1>2

\* What the dispatches hold does not depend on the endpoints' registration.
LEMMA RegisterStep ==
    ASSUME IInv, NEW h \in Hooks, Register(h)
    PROVE  IInv'
<1>1. registered' \in Seq(Hooks)
  BY DEF IInv, TypeOK, Register
<1>2. Range(registered) \cup {h} \subseteq Range(registered')
  <2>1. /\ registered \in Seq(Hooks) /\ registered' = Append(registered, h)
    BY DEF IInv, TypeOK, Register
  <2>2. /\ DOMAIN registered = 1 .. Len(registered) /\ Len(registered) \in Nat
        /\ DOMAIN registered' = 1 .. (Len(registered) + 1)
        /\ \A i \in 1 .. Len(registered) : registered'[i] = registered[i]
        /\ registered'[Len(registered) + 1] = h
    BY <2>1
  <2>3. \A x \in Range(registered) : x \in Range(registered')
    BY <2>2 DEF Range
  <2>4. h \in Range(registered')
    BY <2>2 DEF Range
  <2>5. QED  BY <2>3, <2>4
<1>3. active' \subseteq Range(registered')
  BY <1>2 DEF IInv, TypeOK, Register
<1>4. TypeOK'
  BY <1>1, <1>3 DEF IInv, TypeOK, Register, history
<1>5. TargetsInv'
  BY <1>2 DEF IInv, TargetsInv, Register, history
<1>6. IdsInv' /\ CountsInv' /\ FailureCountIsExact' /\ FailuresAreReal'
  BY DEF IInv, Register, history, IdsInv, CountsInv, FailureCountIsExact,
         FailuresAreReal, HeldBy
<1>7. ResultInv'
  BY ResultKept DEF IInv, Register, history, ResultInv
<1>8. QED  BY <1>4, <1>5, <1>6, <1>7 DEF IInv

LEMMA DeactivateStep ==
    ASSUME IInv, NEW h \in Hooks, Deactivate(h)
    PROVE  IInv'
<1>1. TypeOK'
  BY DEF IInv, TypeOK, Deactivate, history
<1>2. TargetsInv' /\ IdsInv'
  BY DEF IInv, Deactivate, history, TargetsInv, IdsInv
<1>3. ResultInv'
  BY ResultKept DEF IInv, Deactivate, history, ResultInv
<1>4. CountsInv' /\ FailureCountIsExact' /\ FailuresAreReal'
  BY DEF IInv, Deactivate, history, CountsInv, FailureCountIsExact, FailuresAreReal,
         HeldBy
<1>5. QED  BY <1>1, <1>2, <1>3, <1>4 DEF IInv

\* A dispatch that is given up holds nothing.
LEMMA GivenUpStep ==
    ASSUME IInv, NEW c \in Clients, job[c].node # "idle", Goto(c, job[c], "failed"),
           UNCHANGED <<registered, active, failure_count, asked, received, history>>
    PROVE  IInv'
<1>1. /\ job' \in [Clients -> Job]
      /\ job'[c].node = "failed" /\ job'[c].id = job[c].id
      /\ \A b \in Clients \ {c} : job'[b] = job[b]
  BY JobFacts, GotoFacts DEF IInv, TypeOK, Nodes
<1>2. TypeOK'
  BY <1>1 DEF IInv, TypeOK, history
<1>3. TargetsInv' /\ IdsInv'
  <2>1. TargetsInv'
    BY <1>1 DEF IInv, history, TargetsInv
  <2>2. IdsInv'
    BY <1>1 DEF IInv, IdsInv
  <2>3. QED  BY <2>1, <2>2
<1>4. ResultInv'
  <2>1. ResultOf(c)'
    BY <1>1 DEF ResultOf
  <2>2. ASSUME NEW b \in Clients \ {c} PROVE ResultOf(b)'
    BY <1>1, ResultKept DEF IInv, history, ResultInv
  <2>3. QED  BY <2>1, <2>2 DEF ResultInv
<1>5. CountsInv' /\ FailureCountIsExact' /\ FailuresAreReal'
  BY <1>1 DEF IInv, history, CountsInv, HeldBy, FailureCountIsExact, FailuresAreReal
<1>6. QED  BY <1>2, <1>3, <1>4, <1>5 DEF IInv

LEMMA FailStep ==
    ASSUME IInv, NEW c \in Clients, Fail(c) \/ Stop(c)
    PROVE  IInv'
BY GivenUpStep DEF Fail, Stop

LEMMA DispatchStep ==
    ASSUME IInv, NEW c \in Clients, NEW t \in Tenants, NEW s \in SentinelTypes,
           Dispatch(c, t, s)
    PROVE  IInv'
<1> DEFINE d == Len(asked) + 1
<1>1. /\ asked' \in Seq([tenant_id : Tenants, sentinel_type : SentinelTypes])
      /\ Len(asked') = d /\ Len(asked) \in Nat /\ d \in Dispatches
  BY DEF IInv, TypeOK, Dispatch, Dispatches
<1>2. /\ job' \in [Clients -> Job]
      /\ job'[c] = NewJob("list", d)
      /\ \A b \in Clients \ {c} : job'[b] = job[b]
  BY <1>1 DEF IInv, TypeOK, Dispatch, NewJob, Job, Nodes, Dispatches
<1>3. TypeOK'
  <2>1. job'[c].node = "list"
    BY <1>2 DEF NewJob
  <2>2. Len(asked') <= MaxDispatches
    BY <1>1 DEF Dispatches
  <2>3. QED  BY <1>1, <1>2, <2>1, <2>2 DEF IInv, TypeOK, Dispatch, history
<1>4. IdsInv'
  BY <1>1, <1>2, JobFacts DEF IInv, IdsInv, NewJob
<1>5. TargetsInv'
  <2>1. targets[d] = {}
    BY <1>1 DEF IInv, TargetsInv
  <2>2. job'[c].node = "list" /\ job'[c].id = d
    BY <1>2 DEF NewJob
  <2>3. /\ registered' = registered /\ targets' = targets /\ received' = received
        /\ Len(asked') > Len(asked)
    BY <1>1 DEF Dispatch, history
  <2>4. \A b \in Clients : job'[b].node = "list" => targets[job'[b].id] = {}
    BY <1>2, <2>1, <2>2 DEF IInv, TargetsInv
  <2>5. \A e \in Dispatches : e > Len(asked') => targets[e] = {}
    BY <1>1 DEF IInv, TargetsInv, Dispatches
  <2>6. QED  BY <2>3, <2>4, <2>5 DEF IInv, TargetsInv
<1>6. ResultInv'
  <2>1. ResultOf(c)'
    BY <1>2 DEF ResultOf, NewJob
  <2>2. ASSUME NEW b \in Clients \ {c} PROVE ResultOf(b)'
    BY <1>2, ResultKept DEF IInv, Dispatch, history, ResultInv
  <2>3. QED  BY <2>1, <2>2 DEF ResultInv
<1>7. CountsInv' /\ FailureCountIsExact' /\ FailuresAreReal'
  BY <1>2 DEF IInv, Dispatch, history, NewJob, CountsInv, HeldBy, FailureCountIsExact,
              FailuresAreReal
<1>8. QED  BY <1>3, <1>4, <1>5, <1>6, <1>7 DEF IInv

\* The client of a dispatch under way, and the others.
LEMMA UnderWay ==
    ASSUME IInv, NEW c \in Clients, job[c].node # "idle"
    PROVE  /\ job[c].id \in Dispatches /\ job[c].id \in DOMAIN asked
           /\ \A b \in Clients \ {c} : job[b].id # job[c].id
<1>1. job[c].id \in 0 .. MaxDispatches /\ job[c].id > 0 /\ job[c].id <= Len(asked)
  BY JobFacts DEF IInv, IdsInv
<1>2. DOMAIN asked = 1 .. Len(asked) /\ Len(asked) \in Nat
  BY DEF IInv, TypeOK
<1>3. QED  BY <1>1, <1>2 DEF IInv, IdsInv, Dispatches

LEMMA ListStep ==
    ASSUME IInv, NEW c \in Clients, List(c)
    PROVE  IInv'
<1> DEFINE d == job[c].id
           matching == {h \in active : Wants(h, d)}
           node == IF matching = {} THEN "ended" ELSE "post"
           new == [job[c] EXCEPT !.queue = matching, !.loaded = failure_count]
<1>1. /\ d \in Dispatches /\ \A b \in Clients \ {c} : job[b].id # d
      /\ job[c].node = "list" /\ job[c] \in Job
  BY UnderWay, JobFacts DEF List, IInv
<1>2. matching \subseteq Range(registered) /\ matching \subseteq Hooks
  BY DEF IInv, TypeOK, Range
<1>3. new \in Job /\ Goto(c, new, node) /\ node \in Nodes
  BY <1>1, <1>2 DEF List, IInv, TypeOK, Job, Nodes
<1>3a. /\ new.id = d /\ new.queue = matching /\ new.loaded = failure_count
       /\ new.successful = job[c].successful /\ new.failed = job[c].failed
  BY <1>1 DEF Job
<1> HIDE DEF matching, node, new
<1>4. /\ job' \in [Clients -> Job]
      /\ job'[c].node = node /\ job'[c].id = d /\ job'[c].queue = matching
      /\ job'[c].loaded = failure_count
      /\ job'[c].successful = job[c].successful /\ job'[c].failed = job[c].failed
      /\ \A b \in Clients \ {c} : job'[b] = job[b]
  BY <1>1, <1>3, <1>3a, GotoFacts DEF IInv, TypeOK
<1>5. /\ targets' = [targets EXCEPT ![d] = matching]
      /\ overlapped' = overlapped \cup
             (matching \cap UNION {HeldBy(b) : b \in Clients \ {c}})
      /\ UNCHANGED <<registered, active, failure_count, asked, received, streak, recorded>>
  BY DEF List, matching
<1>6. (node = "post" /\ matching # {}) \/ (node = "ended" /\ matching = {})
  BY DEF node
<1>7. TypeOK'
  <2>1. targets' \in [Dispatches -> SUBSET Hooks]
    BY <1>2, <1>5 DEF IInv, TypeOK
  <2>2. overlapped' \subseteq Hooks
    BY <1>2, <1>5 DEF IInv, TypeOK
  <2>3. \A b \in Clients : \/ job'[b].node = "post" /\ job'[b].queue # {}
                           \/ job'[b].node = "commit" /\ job'[b].webhook # NoHook
                           \/ job'[b].node \notin {"post", "commit"}
    BY <1>4, <1>6 DEF IInv, TypeOK
  <2>4. QED  BY <1>4, <1>5, <2>1, <2>2, <2>3 DEF IInv, TypeOK
<1>8. /\ targets'[d] = matching
      /\ \A e \in Dispatches \ {d} : targets'[e] = targets[e]
  BY <1>1, <1>5 DEF IInv, TypeOK
<1>9. IdsInv'
  BY <1>1, <1>4, <1>5 DEF IInv, IdsInv
<1>10. d <= Len(asked)
  BY DEF IInv, IdsInv
<1>11. TargetsInv'
  <2>1. \A h \in Hooks : received[h][d] = 0
    BY <1>1 DEF IInv, TargetsInv
  <2>2. \A e \in Dispatches : e > Len(asked) => targets'[e] = {}
    <3>1. d \in Int /\ Len(asked) \in Int
      BY <1>1 DEF Dispatches, IInv, TypeOK
    <3>2. QED  BY <1>8, <1>10, <3>1 DEF IInv, TargetsInv
  <2>3. \A b \in Clients : job'[b].node = "list" => targets'[job'[b].id] = {}
    <3>1. \A b \in Clients \ {c} : job[b].node = "list" =>
              job[b].id \in Dispatches \ {d}
      BY <1>1, UnderWay
    <3>2. job'[c].node # "list"
      BY <1>4, <1>6
    <3>3. \A b \in Clients \ {c} : job'[b] = job[b]
      BY <1>4
    <3>4. ASSUME NEW b \in Clients \ {c}, job[b].node = "list"
          PROVE  targets'[job[b].id] = {}
      BY <1>8, <3>1, <3>4 DEF IInv, TargetsInv
    <3>5. QED  BY <3>2, <3>3, <3>4
  <2>4. QED  BY <1>2, <1>5, <1>8, <2>1, <2>2, <2>3 DEF IInv, TargetsInv
<1>12. ResultInv'
  <2>1. ResultOf(c)'
    <3>1. Rest(c)' = matching /\ Got(c)' = {}
      BY <1>4, <1>6, <1>8 DEF Rest, Got
    <3>2. IsFiniteSet(matching) /\ Cardinality(matching) \in Nat
      <4>1. Range(registered) \in SUBSET Range(registered)
        OBVIOUS
      <4>2. IsFiniteSet(Range(registered))
        BY RegisteredIsFinite
      <4>3. QED  BY <1>2, <4>2, FS_Subset, FS_CardinalityType
    <3>3. job[c].successful = 0 /\ job[c].failed = 0
      BY <1>1 DEF IInv, ResultInv, ResultOf
    <3>4. \A h \in matching : received'[h][d] = 0
      BY <1>1, <1>2, <1>5 DEF IInv, TargetsInv
    <3>5. Cardinality({}) = 0
      BY FS_EmptySet
    <3>6. QED  BY <1>4, <1>6, <1>8, <3>1, <3>2, <3>3, <3>4, <3>5 DEF ResultOf
  <2>2. ASSUME NEW b \in Clients \ {c} PROVE ResultOf(b)'
    <3>1. CASE job[b].node = "idle"
      BY <1>4, <3>1 DEF ResultOf
    <3>2. CASE job[b].node # "idle"
      <4>1. targets'[job[b].id] = targets[job[b].id]
        BY <1>1, <1>8, <3>2, UnderWay
      <4>2. QED  BY <1>4, <1>5, <4>1, ResultKept DEF IInv, ResultInv
    <3>3. QED  BY <3>1, <3>2
  <2>3. QED  BY <2>1, <2>2 DEF ResultInv
<1>13. CountsInv' /\ FailureCountIsExact' /\ FailuresAreReal'
  <2>1. HeldBy(c)' = matching
    BY <1>4, <1>6, <1>8 DEF HeldBy
  <2>2. \A b \in Clients \ {c} : HeldBy(b)' = HeldBy(b)
    <3> SUFFICES ASSUME NEW b \in Clients \ {c} PROVE HeldBy(b)' = HeldBy(b)
      OBVIOUS
    <3>1. Delivering(b) => job[b].id \in Dispatches \ {d}
      BY <1>1, UnderWay DEF Delivering
    <3>2. QED  BY <1>4, <1>8, <3>1 DEF HeldBy, Delivering
  <2>3. \A b \in Clients \ {c} : HeldBy(b) \cap matching \subseteq overlapped'
    BY <1>5
  <2>4. overlapped \subseteq overlapped'
    BY <1>5
  <2>5. \A a, b \in Clients : a # b => HeldBy(a)' \cap HeldBy(b)' \subseteq overlapped'
    <3> SUFFICES ASSUME NEW a \in Clients, NEW b \in Clients, a # b
                 PROVE  HeldBy(a)' \cap HeldBy(b)' \subseteq overlapped'
      OBVIOUS
    <3>1. CASE a = c
      BY <2>1, <2>2, <2>3, <3>1
    <3>2. CASE b = c
      BY <2>1, <2>2, <2>3, <3>2
    <3>3. CASE a # c /\ b # c
      BY <2>2, <2>4, <3>3 DEF IInv, CountsInv
    <3>4. QED  BY <3>1, <3>2, <3>3
  <2>6. \A b \in Clients : \A h \in HeldBy(b)' :
            /\ job'[b].loaded[h] <= recorded'[h]
            /\ h \notin overlapped' => job'[b].loaded[h] = failure_count'[h]
    BY <1>2, <1>4, <1>5, <2>1, <2>2, <2>4 DEF IInv, CountsInv, FailuresAreReal
  <2>7. CountsInv'
    BY <2>5, <2>6 DEF CountsInv
  <2>8. QED  BY <1>5, <2>4, <2>7 DEF IInv, FailureCountIsExact, FailuresAreReal
<1>14. QED  BY <1>7, <1>9, <1>11, <1>12, <1>13 DEF IInv

LEMMA PostStep ==
    ASSUME IInv, NEW c \in Clients, Post(c)
    PROVE  IInv'
<1> DEFINE d == job[c].id
<1>1. PICK h \in job[c].queue, arrives \in BOOLEAN, success \in BOOLEAN :
          /\ success => arrives
          /\ received' = IF arrives THEN [received EXCEPT ![h][d] = @ + 1] ELSE received
          /\ Goto(c, [job[c] EXCEPT !.queue = @ \ {h}, !.webhook = h,
                                    !.success = success], "commit")
  BY DEF Post
<1> DEFINE new == [job[c] EXCEPT !.queue = @ \ {h}, !.webhook = h, !.success = success]
<1>2. /\ job[c].node = "post" /\ job[c] \in Job /\ h \in Hooks
      /\ UNCHANGED <<registered, active, failure_count, asked, history>>
  BY JobFacts DEF Post, IInv
<1>3. /\ new \in Job
      /\ new.id = d /\ new.queue = job[c].queue \ {h} /\ new.webhook = h
      /\ new.loaded = job[c].loaded /\ new.success = success
      /\ new.successful = job[c].successful /\ new.failed = job[c].failed
  BY <1>2 DEF Job
<1>4. Goto(c, new, "commit")
  BY <1>1
<1> HIDE DEF new
<1>5. /\ job' \in [Clients -> Job]
      /\ job'[c].node = "commit" /\ job'[c].id = d /\ job'[c].queue = job[c].queue \ {h}
      /\ job'[c].webhook = h
      /\ job'[c].loaded = job[c].loaded /\ job'[c].success = success
      /\ job'[c].successful = job[c].successful /\ job'[c].failed = job[c].failed
      /\ \A b \in Clients \ {c} : job'[b] = job[b]
  <2>1. job \in [Clients -> Job] /\ "commit" \in Nodes
    BY DEF IInv, TypeOK, Nodes
  <2>2. QED  BY <1>3, <1>4, <2>1, GotoFacts
<1>6. /\ d \in Dispatches /\ \A b \in Clients \ {c} : job[b].id # d
  BY <1>2, UnderWay
<1>7. /\ Rest(c) = job[c].queue /\ Rest(c) \subseteq targets[d]
      /\ received[h][d] = 0
  BY <1>2 DEF IInv, ResultInv, ResultOf, Rest
<1>8. /\ received' \in [Hooks -> [Dispatches -> Nat]]
      /\ received'[h][d] = IF arrives THEN 1 ELSE 0
      /\ \A g \in Hooks, e \in Dispatches : g # h \/ e # d => received'[g][e] = received[g][e]
  <2>1. received \in [Hooks -> [Dispatches -> Nat]]
    BY DEF IInv, TypeOK
  <2>2. CASE ~arrives
    BY <1>1, <1>2, <1>6, <1>7, <2>1, <2>2
  <2>3. CASE arrives
    <3>1. received' = [received EXCEPT ![h][d] = 1]
      BY <1>1, <1>7, <2>3
    <3>2. QED  BY <1>2, <1>6, <2>1, <2>3, <3>1
  <2>4. QED  BY <2>2, <2>3
<1>9. TypeOK'
  <2>1. h # NoHook
    BY <1>2
  <2>2. ASSUME NEW b \in Clients
        PROVE  \/ job'[b].node = "post" /\ job'[b].queue # {}
               \/ job'[b].node = "commit" /\ job'[b].webhook # NoHook
               \/ job'[b].node \notin {"post", "commit"}
    <3>1. CASE b = c
      BY <1>5, <2>1, <3>1
    <3>2. CASE b # c
      <4>1. job'[b] = job[b]
        BY <1>5, <3>2
      <4>2. QED  BY <4>1 DEF IInv, TypeOK
    <3>3. QED  BY <3>1, <3>2
  <2>3. QED  BY <1>2, <1>5, <1>8, <2>2 DEF IInv, TypeOK, history
<1>10. IdsInv'
  BY <1>2, <1>5, <1>6 DEF IInv, IdsInv
<1>11. TargetsInv'
  <2>1. \A e \in Dispatches : \A g \in Hooks \ targets[e] : received'[g][e] = 0
    <3> SUFFICES ASSUME NEW e \in Dispatches, NEW g \in Hooks \ targets[e]
                 PROVE  received'[g][e] = 0
      OBVIOUS
    <3>1. received[g][e] = 0
      BY DEF IInv, TargetsInv
    <3>2. g # h \/ e # d
      BY <1>7
    <3>3. QED  BY <1>8, <3>1, <3>2
  <2>2. \A b \in Clients : job'[b].node = "list" => targets[job'[b].id] = {}
    <3>1. job'[c].node # "list" /\ \A b \in Clients \ {c} : job'[b] = job[b]
      BY <1>5
    <3>2. QED  BY <3>1 DEF IInv, TargetsInv
  <2>3. QED  BY <1>2, <2>1, <2>2 DEF IInv, TargetsInv, history
<1>12. ResultInv'
  <2>1. ResultOf(c)'
    <3>1. Rest(c)' = Rest(c)
      BY <1>5, <1>7 DEF Rest
    <3>2. targets' = targets
      BY <1>2 DEF history
    <3>3. \A g \in targets[d] \ Rest(c) : received'[g][d] = received[g][d]
      BY <1>6, <1>7, <1>8 DEF IInv, TypeOK
    <3>4. Got(c)' = Got(c)
      BY <1>5, <3>1, <3>2, <3>3 DEF Got
    <3>5. \A g \in job[c].queue \ {h} : received'[g][d] = 0
      <4>1. job[c].queue \subseteq Hooks
        BY JobFacts DEF IInv
      <4>2. \A g \in job[c].queue : received[g][d] = 0
        BY <1>2 DEF IInv, ResultInv, ResultOf
      <4>3. QED  BY <1>6, <1>8, <4>1, <4>2
    <3>6. success => received'[h][d] = 1
      BY <1>1, <1>8
    <3>7. ResultOf(c)
      BY DEF IInv, ResultInv
    <3> HIDE DEF d
    <3>8. QED  BY <1>2, <1>5, <3>1, <3>2, <3>4, <3>5, <3>6, <3>7 DEF ResultOf, d
  <2>2. ASSUME NEW b \in Clients \ {c} PROVE ResultOf(b)'
    <3>1. CASE job[b].node = "idle"
      BY <1>5, <3>1 DEF ResultOf
    <3>2. CASE job[b].node # "idle"
      <4>1. \A g \in targets[job[b].id] :
                received'[g][job[b].id] = received[g][job[b].id]
        BY <1>6, <1>8, <3>2, UnderWay DEF IInv, TypeOK
      <4>2. QED  BY <1>2, <1>5, <4>1, ResultKept DEF IInv, ResultInv, history
    <3>3. QED  BY <3>1, <3>2
  <2>3. QED  BY <2>1, <2>2 DEF ResultInv
<1>13. CountsInv' /\ FailureCountIsExact' /\ FailuresAreReal'
  <2>1. \A b \in Clients : HeldBy(b)' = HeldBy(b) /\ job'[b].loaded = job[b].loaded
    BY <1>2, <1>5 DEF HeldBy, history
  <2>2. QED  BY <1>2, <2>1 DEF IInv, CountsInv, FailureCountIsExact, FailuresAreReal,
                 history
<1>14. QED  BY <1>9, <1>10, <1>11, <1>12, <1>13 DEF IInv

\* A dispatch of which the result is missing one delivery.
LEMMA OneDelivered ==
    ASSUME IInv, NEW c \in Clients, job[c].node = "commit"
    PROVE  /\ job[c].webhook \in Hooks \cap targets[job[c].id]
           /\ job[c].webhook \notin Got(c)
           /\ Cardinality(job[c].queue) \in Nat
           /\ Cardinality(Rest(c)) = Cardinality(job[c].queue) + 1
           /\ Cardinality(Got(c)) \in Nat
           /\ Cardinality(Got(c) \cup {job[c].webhook}) = Cardinality(Got(c)) + 1
<1> DEFINE h == job[c].webhook
           d == job[c].id
<1>1. /\ h \in Hooks /\ h \notin job[c].queue
      /\ Rest(c) = job[c].queue \cup {h} /\ Rest(c) \subseteq targets[d]
  BY JobFacts DEF IInv, TypeOK, ResultInv, ResultOf, Rest
<1>2. IsFiniteSet(targets[d])
  BY UnderWay, TargetsAreFinite
<1>3. /\ job[c].queue \subseteq targets[d] /\ Got(c) \subseteq targets[d]
      /\ h \in targets[d] /\ h \notin Got(c)
  BY <1>1 DEF Got
<1>4. IsFiniteSet(job[c].queue) /\ IsFiniteSet(Got(c))
  BY <1>2, <1>3, FS_Subset
<1>5. QED  BY <1>1, <1>3, <1>4, FS_AddElement, FS_CardinalityType

LEMMA CommitStep ==
    ASSUME IInv, NEW c \in Clients, Commit(c)
    PROVE  IInv'
<1> DEFINE h == job[c].webhook
           d == job[c].id
           node == IF job[c].queue = {} THEN "ended" ELSE "post"
           done == Goto(c, Delivered(c), node)
<1>1. /\ job[c].node = "commit" /\ job[c] \in Job /\ h \in Hooks \cap targets[d]
      /\ d \in Dispatches /\ \A b \in Clients \ {c} : job[b].id # d
      /\ UNCHANGED <<registered, active, asked, received, targets, overlapped>>
      /\ HeldBy(c) = targets[d]
  BY JobFacts, OneDelivered, UnderWay DEF Commit, IInv, HeldBy
<1>2. /\ NewCount(c) \in Nat
      /\ NewCount(c) = IF job[c].success THEN 0 ELSE job[c].loaded[h] + 1
  BY <1>1, JobFacts DEF IInv, NewCount
<1>3. /\ Delivered(c) \in Job
      /\ Delivered(c).id = d /\ Delivered(c).queue = job[c].queue
      /\ Delivered(c).loaded = [job[c].loaded EXCEPT ![h] = NewCount(c)]
      /\ Delivered(c).successful
             = IF job[c].success THEN job[c].successful + 1 ELSE job[c].successful
      /\ Delivered(c).failed = IF job[c].success THEN job[c].failed ELSE job[c].failed + 1
  <2>1. job[c].loaded \in [Hooks -> Nat] /\ job[c].successful \in Nat /\ job[c].failed \in Nat
    BY JobFacts DEF IInv
  <2>2. [job[c].loaded EXCEPT ![h] = NewCount(c)] \in [Hooks -> Nat]
    BY <1>2, <2>1
  <2> DEFINE l == [job[c].loaded EXCEPT ![h] = NewCount(c)]
             m == IF job[c].success THEN job[c].successful + 1 ELSE job[c].successful
             n == IF job[c].success THEN job[c].failed ELSE job[c].failed + 1
  <2>3. Delivered(c) = [job[c] EXCEPT !.loaded = l, !.successful = m, !.failed = n]
    BY <1>1 DEF Delivered, Job
  <2>4. m \in Nat /\ n \in Nat /\ l \in [Hooks -> Nat]
    BY <2>1, <2>2
  <2> HIDE DEF l, m, n
  <2>5. /\ Delivered(c) \in Job /\ Delivered(c).id = d /\ Delivered(c).queue = job[c].queue
        /\ Delivered(c).loaded = l /\ Delivered(c).successful = m /\ Delivered(c).failed = n
    <3> DEFINE j == job[c]
    <3>1. j \in Job /\ j.id = d /\ j.queue = job[c].queue
      BY <1>1
    <3>2. Delivered(c) = [j EXCEPT !.loaded = l, !.successful = m, !.failed = n]
      BY <2>3
    <3> HIDE DEF j
    <3>3. QED  BY <2>4, <3>1, <3>2 DEF Job
  <2>6. QED  BY <2>5 DEF l, m, n
<1>4. done \/ Goto(c, job[c], "failed")
  BY DEF Commit
<1>5. /\ job' \in [Clients -> Job] /\ job'[c].id = d
      /\ \A b \in Clients \ {c} : job'[b] = job[b]
      /\ done \/ job'[c].node = "failed"
      /\ job'[c].node \in {"post", "ended", "failed"}
      /\ done => /\ job'[c].node = node /\ job'[c].queue = job[c].queue
                 /\ job'[c].loaded = Delivered(c).loaded
                 /\ job'[c].successful = Delivered(c).successful
                 /\ job'[c].failed = Delivered(c).failed
  <2>1. job \in [Clients -> Job] /\ node \in Nodes /\ "failed" \in Nodes
    BY DEF IInv, TypeOK, Nodes
  <2>2. CASE done
    BY <1>3, <2>1, <2>2, GotoFacts
  <2>3. CASE ~done
    <3>1. Goto(c, job[c], "failed")
      BY <1>4, <2>3
    <3> HIDE DEF done
    <3>2. QED  BY <1>1, <2>1, <2>3, <3>1, GotoFacts
  <2>4. QED  BY <2>2, <2>3
<1>6. /\ failure_count' \in [Hooks -> Nat] /\ streak' \in [Hooks -> Nat]
      /\ recorded' \in [Hooks -> Nat]
      /\ \A g \in Hooks \ {h} : /\ failure_count'[g] = failure_count[g]
                                /\ streak'[g] = streak[g] /\ recorded'[g] = recorded[g]
      /\ failure_count'[h] = IF NewCount(c) # job[c].loaded[h] THEN NewCount(c)
                             ELSE failure_count[h]
      /\ streak'[h] = IF job[c].success THEN 0 ELSE streak[h] + 1
      /\ recorded'[h] = IF job[c].success THEN recorded[h] ELSE recorded[h] + 1
  <2>1. /\ failure_count' = [failure_count EXCEPT ![h] =
                                IF NewCount(c) # job[c].loaded[h] THEN NewCount(c) ELSE @]
        /\ streak' = [streak EXCEPT ![h] = IF job[c].success THEN 0 ELSE @ + 1]
        /\ recorded' = [recorded EXCEPT ![h] = IF job[c].success THEN @ ELSE @ + 1]
    BY DEF Commit
  <2>2. /\ failure_count \in [Hooks -> Nat] /\ streak \in [Hooks -> Nat]
        /\ recorded \in [Hooks -> Nat]
    BY DEF IInv, TypeOK
  <2>3. /\ failure_count' \in [Hooks -> Nat]
        /\ \A g \in Hooks \ {h} : failure_count'[g] = failure_count[g]
        /\ failure_count'[h] = IF NewCount(c) # job[c].loaded[h] THEN NewCount(c)
                               ELSE failure_count[h]
    BY <1>1, <1>2, <2>1, <2>2
  <2>4. /\ streak' \in [Hooks -> Nat]
        /\ \A g \in Hooks \ {h} : streak'[g] = streak[g]
        /\ streak'[h] = IF job[c].success THEN 0 ELSE streak[h] + 1
    BY <1>1, <2>1, <2>2
  <2>5. /\ recorded' \in [Hooks -> Nat]
        /\ \A g \in Hooks \ {h} : recorded'[g] = recorded[g]
        /\ recorded'[h] = IF job[c].success THEN recorded[h] ELSE recorded[h] + 1
    BY <1>1, <2>1, <2>2
  <2>6. QED  BY <2>3, <2>4, <2>5
<1>7. (node = "post" /\ job[c].queue # {}) \/ (node = "ended" /\ job[c].queue = {})
  BY DEF node
<1> HIDE DEF node, done
<1>8. TypeOK'
  <2>1. \A b \in Clients : \/ job'[b].node = "post" /\ job'[b].queue # {}
                           \/ job'[b].node = "commit" /\ job'[b].webhook # NoHook
                           \/ job'[b].node \notin {"post", "commit"}
    BY <1>5, <1>7 DEF IInv, TypeOK
  <2>2. QED  BY <1>1, <1>5, <1>6, <2>1 DEF IInv, TypeOK
<1>9. IdsInv'
  BY <1>1, <1>5 DEF IInv, IdsInv
<1>10. TargetsInv'
  <2>1. \A b \in Clients : job'[b].node = "list" => targets[job'[b].id] = {}
    BY <1>5 DEF IInv, TargetsInv
  <2>2. QED  BY <1>1, <2>1 DEF IInv, TargetsInv
<1>11. ResultInv'
  <2>1. ResultOf(c)'
    <3>1. CASE ~done
      BY <1>5, <3>1 DEF ResultOf
    <3>2. CASE done
      <4>1. Rest(c)' = job[c].queue
        BY <1>5, <1>7, <3>2 DEF Rest
      <4>2. Rest(c) = job[c].queue \cup {h}
        BY <1>1 DEF Rest
      <4>3. Got(c)' = IF received[h][d] = 1 THEN Got(c) \cup {h} ELSE Got(c)
        <5>1. h \notin job[c].queue
          BY <1>1 DEF IInv, ResultInv, ResultOf
        <5>2. targets' = targets /\ received' = received /\ job'[c].id = d
          BY <1>1, <1>5
        <5>3. Got(c)' = {g \in targets[d] \ job[c].queue : received[g][d] = 1}
          BY <4>1, <5>2 DEF Got
        <5>4. Got(c) = {g \in targets[d] \ (job[c].queue \cup {h}) : received[g][d] = 1}
          BY <4>2 DEF Got
        <5>5. QED  BY <1>1, <5>1, <5>3, <5>4
      <4>4. ResultOf(c)
        BY DEF IInv, ResultInv
      <4>5. job[c].success => received[h][d] = 1
        BY <1>1, <4>4 DEF ResultOf
      <4>6. job'[c].successful <= Cardinality(Got(c)')
        <5>1. job[c].successful <= Cardinality(Got(c)) /\ job[c].successful \in Nat
          BY <1>1, <4>4, JobFacts DEF ResultOf, IInv
        <5>2. QED  BY <1>1, <1>3, <1>5, <3>2, <4>3, <4>5, <5>1, OneDelivered
      <4>7. job'[c].successful + job'[c].failed + Cardinality(job[c].queue)
                = Cardinality(targets[d])
        <5>1. /\ job[c].successful + job[c].failed + Cardinality(Rest(c))
                     = Cardinality(targets[d])
              /\ job[c].successful \in Nat /\ job[c].failed \in Nat
          BY <1>1, <4>4, JobFacts DEF ResultOf, IInv
        <5>2. /\ Cardinality(Rest(c)) = Cardinality(job[c].queue) + 1
              /\ Cardinality(job[c].queue) \in Nat
          BY <1>1, OneDelivered
        <5>3. job'[c].successful + job'[c].failed = job[c].successful + job[c].failed + 1
          BY <1>1, <1>3, <1>5, <3>2, <5>1
        <5>4. /\ job'[c].successful \in Nat /\ job'[c].failed \in Nat
          BY <1>1, <1>3, <1>5, <3>2, <5>1
        <5>5. QED  BY <5>1, <5>2, <5>3, <5>4
      <4>8. /\ job[c].queue \subseteq targets[d]
            /\ \A g \in job[c].queue : received[g][d] = 0
        BY <1>1, <4>2, <4>4 DEF ResultOf
      <4>9. QED  BY <1>1, <1>5, <1>7, <3>2, <4>1, <4>6, <4>7, <4>8 DEF ResultOf
    <3>3. QED  BY <3>1, <3>2
  <2>2. ASSUME NEW b \in Clients \ {c} PROVE ResultOf(b)'
    BY <1>1, <1>5, ResultKept DEF IInv, ResultInv
  <2>3. QED  BY <2>1, <2>2 DEF ResultInv
<1>12. CountsInv' /\ FailureCountIsExact' /\ FailuresAreReal'
  <2>1. HeldBy(c)' \subseteq targets[d]
    BY <1>1, <1>5 DEF HeldBy
  <2>2. \A b \in Clients \ {c} : HeldBy(b)' = HeldBy(b)
    BY <1>1, <1>5 DEF HeldBy
  <2>3. \A a, b \in Clients : a # b => HeldBy(a)' \cap HeldBy(b)' \subseteq overlapped
    <3> SUFFICES ASSUME NEW a \in Clients, NEW b \in Clients, a # b
                 PROVE  HeldBy(a)' \subseteq HeldBy(a) /\ HeldBy(b)' \subseteq HeldBy(b)
      BY DEF IInv, CountsInv
    <3>1. QED  BY <1>1, <2>1, <2>2
  <2>4. /\ failure_count[h] \in Nat /\ recorded[h] \in Nat /\ streak[h] \in Nat
        /\ job[c].loaded[h] \in Nat
    BY <1>1, JobFacts DEF IInv, TypeOK
  <2>5. /\ job[c].loaded[h] <= recorded[h] /\ failure_count[h] <= recorded[h]
        /\ h \notin overlapped => /\ job[c].loaded[h] = failure_count[h]
                                  /\ failure_count[h] = streak[h]
    BY <1>1 DEF IInv, CountsInv, FailuresAreReal, FailureCountIsExact
  <2>6. /\ failure_count'[h] <= recorded'[h] /\ NewCount(c) <= recorded'[h]
        /\ recorded[h] <= recorded'[h]
        /\ h \notin overlapped => /\ failure_count'[h] = NewCount(c)
                                  /\ failure_count'[h] = streak'[h]
    BY <1>2, <1>6, <2>4, <2>5
  <2>7. FailureCountIsExact' /\ FailuresAreReal'
    BY <1>1, <1>6, <2>6 DEF IInv, FailureCountIsExact, FailuresAreReal
  <2>8. \A b \in Clients \ {c} : \A g \in HeldBy(b) :
            /\ job'[b].loaded[g] <= recorded'[g]
            /\ g \notin overlapped => job'[b].loaded[g] = failure_count'[g]
    <3> SUFFICES ASSUME NEW b \in Clients \ {c}, NEW g \in HeldBy(b)
                 PROVE  /\ job'[b].loaded[g] <= recorded'[g]
                        /\ g \notin overlapped => job'[b].loaded[g] = failure_count'[g]
      OBVIOUS
    <3>1. /\ g \in Hooks /\ job'[b] = job[b] /\ job[b].loaded[g] \in Nat
          /\ job[b].loaded[g] <= recorded[g]
          /\ g \notin overlapped => job[b].loaded[g] = failure_count[g]
      <4>1. g \in Hooks
        <5>1. Delivering(b) /\ g \in targets[job[b].id]
          BY DEF HeldBy, Delivering
        <5>2. job[b].id \in Dispatches
          BY <5>1, UnderWay DEF Delivering
        <5>3. QED  BY <5>1, <5>2 DEF IInv, TypeOK
      <4>2. job[b].loaded \in [Hooks -> Nat]
        BY JobFacts DEF IInv
      <4>3. QED  BY <1>5, <4>1, <4>2 DEF IInv, CountsInv
    <3>2. CASE g = h
      <4>1. g \in overlapped
        BY <1>1, <3>2 DEF IInv, CountsInv
      <4>2. QED  BY <2>4, <2>6, <1>6, <3>1, <3>2, <4>1
    <3>3. CASE g # h
      BY <1>6, <3>1, <3>3
    <3>4. QED  BY <3>2, <3>3
  <2>9. \A g \in HeldBy(c)' :
            /\ job'[c].loaded[g] <= recorded'[g]
            /\ g \notin overlapped => job'[c].loaded[g] = failure_count'[g]
    <3> SUFFICES ASSUME NEW g \in HeldBy(c)'
                 PROVE  /\ job'[c].loaded[g] <= recorded'[g]
                        /\ g \notin overlapped => job'[c].loaded[g] = failure_count'[g]
      OBVIOUS
    <3>1. done /\ g \in HeldBy(c) /\ g \in Hooks
      BY <1>1, <1>5, <2>1, UnderWay DEF HeldBy, IInv, TypeOK
    <3>2. job'[c].loaded[g] = IF g = h THEN NewCount(c) ELSE job[c].loaded[g]
      BY <1>3, <1>5, <3>1, JobFacts DEF IInv
    <3>3. CASE g = h
      BY <2>6, <3>2, <3>3
    <3>4. CASE g # h
      BY <1>6, <3>1, <3>2, <3>4 DEF IInv, CountsInv
    <3>5. QED  BY <3>3, <3>4
  <2>10. overlapped' = overlapped
    BY <1>1
  <2>11. CountsInv'
    BY <2>2, <2>3, <2>8, <2>9, <2>10 DEF CountsInv
  <2>12. QED  BY <2>7, <2>11
<1>13. QED  BY <1>8, <1>9, <1>10, <1>11, <1>12 DEF IInv

----------------------------------------------------------------------------
LEMMA NextStep == IInv /\ [Next]_vars => IInv'
<1> SUFFICES ASSUME IInv, [Next]_vars PROVE IInv'
  OBVIOUS
<1>1. CASE UNCHANGED vars
  BY <1>1, StutterStep
<1>2. ASSUME NEW h \in Hooks, Register(h) \/ Deactivate(h) PROVE IInv'
  BY <1>2, RegisterStep, DeactivateStep
<1>3. ASSUME NEW c \in Clients, NEW t \in Tenants, NEW s \in SentinelTypes,
             Dispatch(c, t, s)
      PROVE  IInv'
  BY <1>3, DispatchStep
<1>4. ASSUME NEW c \in Clients, Step(c) \/ Stop(c) PROVE IInv'
  BY <1>4, ListStep, PostStep, CommitStep, FailStep DEF Step
<1>5. QED  BY <1>1, <1>2, <1>3, <1>4 DEF Next

THEOREM Invariance == Spec => []IInv
<1>1. Init => IInv
  BY InitIInv
<1>2. IInv /\ [Next]_vars => IInv'
  BY NextStep
<1>3. QED  BY <1>1, <1>2, PTL DEF Spec

\* Type correctness; a dispatch that posts has an endpoint to post to.
THEOREM TypeCorrect == Spec => []TypeOK
<1>1. IInv => TypeOK
  BY DEF IInv
<1>2. QED  BY <1>1, Invariance, PTL

\* However many dispatches there are, an endpoint that no two of them held at
\* once has the failures in a row as its failure_count (_deliver).
THEOREM CountedInARow == Spec => []FailureCountIsExact
<1>1. IInv => FailureCountIsExact
  BY DEF IInv
<1>2. QED  BY <1>1, Invariance, PTL

\* However dispatches overlap, an endpoint is charged with recorded failures
\* only (_deliver).
THEOREM NothingIsMadeUp == Spec => []FailuresAreReal
<1>1. IInv => FailuresAreReal
  BY DEF IInv
<1>2. QED  BY <1>1, Invariance, PTL

\* A DispatchResult accounts for every endpoint that the dispatch matched, and
\* each success in it was received (dispatch).
THEOREM ResultsAreTrue == Spec => []ResultIsTrue
<1>1. IInv => ResultIsTrue
  <2> SUFFICES ASSUME IInv, NEW c \in Clients, job[c].node = "ended"
               PROVE  /\ job[c].successful + job[c].failed
                             = Cardinality(targets[job[c].id])
                      /\ job[c].successful
                             <= Cardinality({h \in targets[job[c].id] :
                                                 received[h][job[c].id] = 1})
    BY DEF ResultIsTrue
  <2>1. Rest(c) = {}
    BY DEF IInv, ResultInv, ResultOf, Rest
  <2>2. Got(c) = {h \in targets[job[c].id] : received[h][job[c].id] = 1}
    BY <2>1 DEF Got
  <2>3. Cardinality({}) = 0 /\ job[c].successful \in Nat /\ job[c].failed \in Nat
    BY FS_EmptySet, JobFacts DEF IInv
  <2>4. ResultOf(c)
    BY DEF IInv, ResultInv
  <2>5. QED  BY <2>1, <2>2, <2>3, <2>4 DEF ResultOf
<1>2. QED  BY <1>1, Invariance, PTL

----------------------------------------------------------------------------
\* Every step of a dispatch is a step of the fan-out or none.
LEMMA ListTargets ==
    ASSUME IInv, NEW c \in Clients, List(c)
    PROVE  Fan!Target(job[c].id)
<1>1. targets[job[c].id] = {}
  BY DEF IInv, TargetsInv, List
<1>2. QED  BY <1>1 DEF List, Wants, Fan!Target

LEMMA PostSends ==
    ASSUME IInv, NEW c \in Clients, Post(c)
    PROVE  \/ UNCHANGED Fan!vars
           \/ \E h \in Hooks : Fan!Send(h, job[c].id)
<1> DEFINE d == job[c].id
<1>1. PICK h \in job[c].queue, arrives \in BOOLEAN :
          received' = IF arrives THEN [received EXCEPT ![h][d] = @ + 1] ELSE received
  BY DEF Post
<1>2. UNCHANGED <<asked, active, targets>>
  BY DEF Post, history
<1>3. h \in Hooks /\ d \in Dispatches
  BY JobFacts, UnderWay DEF IInv, Post
<1>4. h \in targets[d] /\ received[h][d] = 0
  BY DEF Post, IInv, ResultInv, ResultOf, Rest
<1>5. CASE arrives
  <2>1. received' = [received EXCEPT ![h][d] = 1]
    BY <1>1, <1>3, <1>4, <1>5 DEF IInv, TypeOK
  <2>2. Fan!Send(h, d)
    BY <1>2, <1>4, <2>1 DEF Fan!Send
  <2>3. QED  BY <1>3, <2>2
<1>6. CASE ~arrives
  BY <1>1, <1>2, <1>6 DEF Fan!vars
<1>7. QED  BY <1>5, <1>6

\* Dispatches implement the fan-out: the targets are the endpoints that are
\* active when they are listed and want the dispatch, each receives it at most
\* once and nobody else does, for every number of dispatches and endpoints.
THEOREM FanOutIsImplemented == Spec => ImplementsFanOut
<1>1. Init => Fan!Init
  BY DEF Init, Fan!Init, Dispatches, Fan!Dispatches
<1>2. IInv /\ [Next]_vars => [Fan!Next]_Fan!vars
  <2> SUFFICES ASSUME IInv, [Next]_vars PROVE [Fan!Next]_Fan!vars
    OBVIOUS
  <2>1. CASE UNCHANGED vars
    BY <2>1 DEF vars, history, Fan!vars
  <2>2. ASSUME NEW h \in Hooks, Register(h) \/ Deactivate(h)
        PROVE  Fan!Next
    BY <2>2 DEF Register, Deactivate, history, Fan!Next, Fan!Register, Fan!Deactivate
  <2>3. ASSUME NEW c \in Clients, NEW t \in Tenants, NEW s \in SentinelTypes,
               Dispatch(c, t, s)
        PROVE  Fan!Next
    BY <2>3 DEF Dispatch, history, Fan!Next, Fan!Ask
  <2>4. ASSUME NEW c \in Clients, List(c) PROVE Fan!Next
    <3>1. job[c].id \in DOMAIN asked
      BY <2>4, UnderWay DEF List
    <3>2. QED  BY <2>4, <3>1, ListTargets DEF Fan!Next
  <2>5. ASSUME NEW c \in Clients, Post(c) PROVE Fan!Next \/ UNCHANGED Fan!vars
    <3>1. job[c].id \in DOMAIN asked
      BY <2>5, UnderWay DEF Post
    <3>2. QED  BY <2>5, <3>1, PostSends DEF Fan!Next
  <2>6. ASSUME NEW c \in Clients, Commit(c) \/ Fail(c) \/ Stop(c)
        PROVE  UNCHANGED Fan!vars
    BY <2>6 DEF Commit, Fail, Stop, history, Fan!vars
  <2>7. QED  BY <2>1, <2>2, <2>3, <2>4, <2>5, <2>6 DEF Next, Step
<1>3. QED  BY <1>1, <1>2, Invariance, PTL DEF Spec, ImplementsFanOut, Fan!Spec

=============================================================================
