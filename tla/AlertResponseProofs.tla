------------------------ MODULE AlertResponseProofs ------------------------
(***************************************************************************)
(* What the audit trail says of alerts, however responses, reviews and     *)
(* routes overlap and whatever fails in them, for every set of workers,    *)
(* alerts, policies and actions.                                           *)
(***************************************************************************)
EXTENDS AlertResponse, FiniteSetTheorems, TLAPS

USE AlertAssumption, BoundsAssumption, NoneAssumption

\* What a run knows at each of its nodes.
RunOf(r) ==
    /\ r.node # "idle" => r.alert \in AlertIds
    /\ r.node \in {"find_policy", "record_outcome"} => r.kind = "response"
    /\ r.node \in {"request_review", "record_completed"} => r.kind = "review"
    /\ r.node = "commit" => alerts[r.alert] # None
    /\ r.node = "load_alert" => r.kind \in {"response", "review"}
    /\ r.resolved => /\ r.node \in {"record_outcome", "record_completed", "ended", "stopped"}
                     /\ r.taken \in applied[r.alert]
    /\ r.kind = "response" /\ r.node # "idle" =>
           r.taken \in {None, "warn"} \cup commanded[TypeOf[r.alert]]

RunInv == \A w \in Workers : RunOf(run[w])

\* What a policy says was commanded.
PoliciesInv ==
    \A i \in DOMAIN policies :
        policies[i].action \in commanded[policies[i].sentinel_type]

\* The reviews of an alert that have been requested and may be completed.
Owes(r, a) ==
    /\ r.kind = "review" /\ r.alert = a
    /\ r.node \in {"resolve", "commit", "record_completed"}

Owing(a) == {w \in Workers : Owes(run[w], a)}

\* The requests on record suffice for the reviews on record and for those to come.
ReviewsInv ==
    \A a \in AlertIds :
        /\ IsFiniteSet(Owing(a))
        /\ Cardinality(Entries(a, "human_review_completed")) + Cardinality(Owing(a))
               <= Cardinality(Entries(a, "human_review_requested"))

IInv == /\ TypeOK /\ RunInv /\ PoliciesInv /\ ReviewsInv
        /\ TrailIsTrue /\ ResponseFollowsPolicy

----------------------------------------------------------------------------
LEMMA ActionFacts ==
    /\ "warn" \in Actions
    /\ \A d \in Decisions : ActionOf[d] \in Actions
    /\ PolicyActions \subseteq Actions /\ OperatorActions \subseteq Actions
    /\ NewAlert \in AlertRow
BY DEF Actions, ActionOf, Decisions, NewAlert, AlertRow

LEMMA RunFacts ==
    ASSUME TypeOK, NEW w \in Workers
    PROVE  /\ run[w] \in Run
           /\ run[w].node \in Nodes /\ run[w].kind \in {"response", "review", "route"}
           /\ run[w].alert \in AlertIds \cup {None}
           /\ run[w].decision \in Decisions \cup {None}
           /\ run[w].taken \in Actions \cup {None}
           /\ run[w].loaded \in AlertRow /\ run[w].resolved \in BOOLEAN
BY DEF TypeOK, Run

\* The entries of a kind, when one more is written.
LEMMA EntriesFacts ==
    ASSUME TypeOK, NEW a, NEW action
    PROVE  /\ IsFiniteSet(Entries(a, action))
           /\ Cardinality(Entries(a, action)) \in Nat
<1>1. IsFiniteSet(1 .. Len(trail))
  BY FS_Interval DEF TypeOK
<1>2. Entries(a, action) \subseteq 1 .. Len(trail)
  BY DEF TypeOK, Entries
<1>3. QED  BY <1>1, <1>2, FS_Subset, FS_CardinalityType

LEMMA EntriesGrow ==
    ASSUME TypeOK, NEW e \in Entry, trail' = Append(trail, e), NEW a, NEW action
    PROVE  Cardinality(Entries(a, action))' =
               IF e.resource_id = a /\ e.action = action
               THEN Cardinality(Entries(a, action)) + 1
               ELSE Cardinality(Entries(a, action))
<1> DEFINE n == Len(trail) + 1
<1>1. /\ trail \in Seq(Entry) /\ Len(trail) \in Nat
      /\ DOMAIN trail = 1 .. Len(trail) /\ DOMAIN trail' = 1 .. n
      /\ trail'[n] = e
      /\ \A i \in 1 .. Len(trail) : trail'[i] = trail[i]
  BY DEF TypeOK
<1>2. n \notin Entries(a, action)
  BY <1>1 DEF Entries
<1>3. Entries(a, action)' = IF e.resource_id = a /\ e.action = action
                            THEN Entries(a, action) \cup {n} ELSE Entries(a, action)
  BY <1>1 DEF Entries
<1>4. QED  BY <1>2, <1>3, EntriesFacts, FS_AddElement

\* What was true of a run or of the trail stays true while no alert vanishes and
\* the histories only grow.
Grown ==
    /\ \A a \in AlertIds : alerts[a] # None => alerts'[a] # None
    /\ \A a \in AlertIds : applied[a] \subseteq applied'[a]
    /\ \A type \in SentinelTypes : commanded[type] \subseteq commanded'[type]

LEMMA GrownFacts ==
    ASSUME IInv, Grown
    PROVE  /\ \A r \in Run : RunOf(r) => RunOf(r)'
           /\ trail' = trail => TrailIsTrue' /\ ResponseFollowsPolicy'
<1>1. ASSUME NEW r \in Run, RunOf(r) PROVE RunOf(r)'
  <2>1. CASE r.node = "idle"
    BY <1>1, <2>1 DEF RunOf
  <2>2. CASE r.node # "idle"
    <3>1. r.alert \in AlertIds /\ TypeOf[r.alert] \in SentinelTypes
      BY <1>1, <2>2 DEF RunOf
    <3>2. QED  BY <1>1, <2>2, <3>1 DEF RunOf, Grown
  <2>3. QED  BY <2>1, <2>2
<1>2. ASSUME trail' = trail PROVE TrailIsTrue' /\ ResponseFollowsPolicy'
  <2>1. \A i \in DOMAIN trail : /\ trail[i].resource_id \in AlertIds
                                /\ TypeOf[trail[i].resource_id] \in SentinelTypes
    <3> SUFFICES ASSUME NEW i \in DOMAIN trail
                 PROVE  trail[i].resource_id \in AlertIds
      OBVIOUS
    <3>1. trail[i] \in Entry
      BY DEF IInv, TypeOK
    <3>2. QED  BY <3>1 DEF Entry
  <2>2. QED  BY <1>2, <2>1 DEF IInv, TrailIsTrue, ResponseFollowsPolicy, Grown
<1>3. QED  BY <1>1, <1>2

\* A run that moves on, while the tables stay.
LEMMA RunMoves ==
    ASSUME IInv, NEW w \in Workers, NEW new \in Run, RunOf(new),
           run' = [run EXCEPT ![w] = new], runs' \in 0 .. MaxRuns,
           trail' \in Seq(Entry), UNCHANGED <<alerts, policies, history>>
    PROVE  TypeOK' /\ RunInv' /\ PoliciesInv' /\ Grown
<1>1. run' \in [Workers -> Run] /\ run'[w] = new
      /\ \A v \in Workers \ {w} : run'[v] = run[v]
  BY DEF IInv, TypeOK
<1>2. TypeOK'
  BY <1>1 DEF IInv, TypeOK, history
<1>3. Grown
  BY DEF Grown, history
<1>4. RunInv'
  <2> SUFFICES ASSUME NEW v \in Workers PROVE RunOf(run[v])'
    BY DEF RunInv
  <2>1. alerts' = alerts /\ applied' = applied /\ commanded' = commanded
    BY DEF history
  <2>2. CASE v = w
    BY <1>1, <2>1, <2>2 DEF RunOf
  <2>3. CASE v # w
    BY <1>1, <2>1, <2>3 DEF IInv, RunInv, RunOf
  <2>4. QED  BY <2>2, <2>3
<1>5. PoliciesInv'
  BY DEF IInv, PoliciesInv, history
<1>6. QED  BY <1>2, <1>3, <1>4, <1>5

LEMMA OwingShrinks ==
    ASSUME IInv, NEW w \in Workers, NEW new \in Run, run' = [run EXCEPT ![w] = new],
           \A a \in AlertIds : Owes(new, a) => Owes(run[w], a)
    PROVE  \A a \in AlertIds : /\ IsFiniteSet(Owing(a)') /\ Cardinality(Owing(a)) \in Nat
                               /\ Cardinality(Owing(a)') \in Nat
                               /\ Cardinality(Owing(a)') <= Cardinality(Owing(a))
<1> SUFFICES ASSUME NEW a \in AlertIds
             PROVE  /\ IsFiniteSet(Owing(a)') /\ Cardinality(Owing(a)) \in Nat
                    /\ Cardinality(Owing(a)') \in Nat
                    /\ Cardinality(Owing(a)') <= Cardinality(Owing(a))
  OBVIOUS
<1>1. run'[w] = new /\ \A v \in Workers \ {w} : run'[v] = run[v]
  BY DEF IInv, TypeOK
<1>2. Owing(a)' \subseteq Owing(a)
  <2> SUFFICES ASSUME NEW v \in Workers, Owes(run[v], a)' PROVE Owes(run[v], a)
    BY DEF Owing
  <2>1. CASE v = w
    BY <1>1, <2>1 DEF Owes
  <2>2. CASE v # w
    BY <1>1, <2>2 DEF Owes
  <2>3. QED  BY <2>1, <2>2
<1>3. IsFiniteSet(Owing(a))
  BY DEF IInv, ReviewsInv
<1>4. QED  BY <1>2, <1>3, FS_Subset, FS_CardinalityType

\* A step of a run that writes nothing.
LEMMA QuietStep ==
    ASSUME IInv, NEW w \in Workers, NEW new \in Run, RunOf(new),
           run' = [run EXCEPT ![w] = new], runs' \in 0 .. MaxRuns,
           \A a \in AlertIds : Owes(new, a) => Owes(run[w], a),
           UNCHANGED <<alerts, policies, trail, history>>
    PROVE  IInv'
<1>1. trail' = trail /\ trail' \in Seq(Entry)
  BY DEF IInv, TypeOK
<1>2. TypeOK' /\ RunInv' /\ PoliciesInv' /\ Grown
  BY <1>1, RunMoves
<1>3. TrailIsTrue' /\ ResponseFollowsPolicy'
  BY <1>1, <1>2, GrownFacts
<1>4. ReviewsInv'
  <2> SUFFICES ASSUME NEW a \in AlertIds
               PROVE  /\ IsFiniteSet(Owing(a)')
                      /\ Cardinality(Entries(a, "human_review_completed"))'
                             + Cardinality(Owing(a)')
                             <= Cardinality(Entries(a, "human_review_requested"))'
    BY DEF ReviewsInv
  <2>1. \A k : Entries(a, k)' = Entries(a, k)
    BY <1>1 DEF Entries
  <2>2. /\ IsFiniteSet(Owing(a)') /\ Cardinality(Owing(a)) \in Nat
        /\ Cardinality(Owing(a)') \in Nat
        /\ Cardinality(Owing(a)') <= Cardinality(Owing(a))
    BY OwingShrinks
  <2>3. /\ Cardinality(Entries(a, "human_review_completed")) \in Nat
        /\ Cardinality(Entries(a, "human_review_requested")) \in Nat
    BY EntriesFacts DEF IInv
  <2>4. Cardinality(Entries(a, "human_review_completed")) + Cardinality(Owing(a))
            <= Cardinality(Entries(a, "human_review_requested"))
    BY DEF IInv, ReviewsInv
  <2>5. QED  BY <2>1, <2>2, <2>3, <2>4
<1>5. QED  BY <1>2, <1>3, <1>4 DEF IInv

----------------------------------------------------------------------------
LEMMA InitIInv == Init => IInv
<1> SUFFICES ASSUME Init PROVE IInv
  OBVIOUS
<1> DEFINE new == NewRun("route", "idle", None, None, None)
<1>1. /\ new \in Run /\ new.kind = "route" /\ new.node = "idle" /\ new.resolved = FALSE
  <2>1. "idle" \in Nodes
    BY DEF Nodes
  <2>2. QED  BY <2>1, ActionFacts DEF NewRun, Run
<1> HIDE DEF new
<1>2. \A w \in Workers : run[w] = new
  BY DEF Init, new
<1>3. TypeOK
  BY <1>1, <1>2 DEF Init, TypeOK, new
<1>4. RunInv /\ PoliciesInv
  BY <1>1, <1>2 DEF Init, RunInv, RunOf, PoliciesInv
<1>5. TrailIsTrue /\ ResponseFollowsPolicy
  BY DEF Init, TrailIsTrue, ResponseFollowsPolicy
<1>6. ReviewsInv
  <2>1. \A a \in AlertIds : Owing(a) = {} /\ \A k : Entries(a, k) = {}
    BY <1>1, <1>2 DEF Init, Owing, Owes, Entries
  <2>2. IsFiniteSet({}) /\ Cardinality({}) = 0
    BY FS_EmptySet
  <2>3. QED  BY <2>1, <2>2 DEF ReviewsInv
<1>7. QED  BY <1>3, <1>4, <1>5, <1>6 DEF IInv

LEMMA StutterStep == IInv /\ UNCHANGED vars => IInv'
<1> SUFFICES ASSUME IInv, UNCHANGED vars PROVE IInv'
  OBVIOUS
<1>1. TypeOK' /\ PoliciesInv' /\ TrailIsTrue' /\ ResponseFollowsPolicy'
  BY DEF IInv, vars, history, TypeOK, PoliciesInv, TrailIsTrue, ResponseFollowsPolicy
<1>2. RunInv' /\ ReviewsInv'
  BY DEF IInv, vars, history, RunInv, RunOf, ReviewsInv, Owing, Owes, Entries
<1>3. QED  BY <1>1, <1>2 DEF IInv

LEMMA TablesStep ==
    ASSUME IInv, Grown, UNCHANGED <<trail, run, runs>>, TypeOK', PoliciesInv'
    PROVE  IInv'
<1>1. TrailIsTrue' /\ ResponseFollowsPolicy'
  BY GrownFacts
<1>2. RunInv'
  <2> SUFFICES ASSUME NEW w \in Workers PROVE RunOf(run[w])'
    BY DEF RunInv
  <2>1. run[w] \in Run /\ RunOf(run[w])
    BY RunFacts DEF IInv, RunInv
  <2>2. run'[w] = run[w]
    OBVIOUS
  <2>3. \A r \in Run : RunOf(r) => RunOf(r)'
    BY GrownFacts
  <2>4. QED  BY <2>1, <2>2, <2>3 DEF RunOf
<1>3. ReviewsInv'
  BY DEF IInv, ReviewsInv, Owing, Owes, Entries
<1>4. QED  BY <1>1, <1>2, <1>3 DEF IInv

LEMMA CreateAlertStep ==
    ASSUME IInv, NEW a \in AlertIds, CreateAlert(a)
    PROVE  IInv'
<1>1. NewAlert \in AlertRow /\ NewAlert # None
  BY ActionFacts
<1>2. TypeOK' /\ PoliciesInv' /\ Grown
  BY <1>1 DEF CreateAlert, history, IInv, TypeOK, PoliciesInv, Grown
<1>3. QED  BY <1>2, TablesStep DEF CreateAlert

LEMMA CreatePolicyStep ==
    ASSUME IInv, NEW type \in SentinelTypes, NEW action \in PolicyActions,
           CreatePolicy(type, action)
    PROVE  IInv'
<1> DEFINE p == [sentinel_type |-> type, action |-> action, is_active |-> TRUE]
<1>1. p \in Policy
  BY DEF Policy
<1>2. /\ policies \in Seq(Policy) /\ policies' = Append(policies, p)
      /\ commanded' \in [SentinelTypes -> SUBSET PolicyActions]
      /\ \A t \in SentinelTypes : commanded[t] \subseteq commanded'[t]
      /\ action \in commanded'[type]
  BY DEF CreatePolicy, IInv, TypeOK
<1>3. /\ policies' \in Seq(Policy) /\ Len(policies') = Len(policies) + 1
      /\ \A i \in DOMAIN policies' :
             \/ policies'[i] = p
             \/ i \in DOMAIN policies /\ policies'[i] = policies[i]
  <2> HIDE DEF p
  <2>1. /\ policies' \in Seq(Policy) /\ Len(policies') = Len(policies) + 1
        /\ Len(policies) \in Nat /\ DOMAIN policies = 1 .. Len(policies)
        /\ DOMAIN policies' = 1 .. (Len(policies) + 1)
    BY <1>1, <1>2
  <2>2. /\ policies'[Len(policies) + 1] = p
        /\ \A i \in 1 .. Len(policies) : policies'[i] = policies[i]
    BY <1>1, <1>2
  <2>3. QED  BY <2>1, <2>2
<1>4. TypeOK' /\ Grown
  BY <1>2, <1>3 DEF CreatePolicy, IInv, TypeOK, Grown
<1>5. PoliciesInv'
  <2> SUFFICES ASSUME NEW i \in DOMAIN policies'
               PROVE  policies'[i].action \in commanded'[policies'[i].sentinel_type]
    BY DEF PoliciesInv
  <2>1. CASE policies'[i] = p
    BY <1>2, <2>1
  <2>2. CASE i \in DOMAIN policies /\ policies'[i] = policies[i]
    <3>1. policies[i] \in Policy
      BY <1>2, <2>2
    <3>2. QED  BY <1>2, <2>2, <3>1 DEF IInv, PoliciesInv, Policy
  <2>3. QED  BY <1>3, <2>1, <2>2
<1>6. QED  BY <1>4, <1>5, TablesStep DEF CreatePolicy

LEMMA ChangePolicyStep ==
    ASSUME IInv, NEW i \in DOMAIN policies,
           \/ DeactivatePolicy(i)
           \/ \E action \in PolicyActions, active \in BOOLEAN :
                  UpdatePolicy(i, action, active)
    PROVE  IInv'
<1>1. /\ policies \in Seq(Policy) /\ policies[i] \in Policy
      /\ commanded \in [SentinelTypes -> SUBSET PolicyActions]
      /\ policies[i].action \in PolicyActions /\ policies[i].sentinel_type \in SentinelTypes
      /\ policies[i].action \in commanded[policies[i].sentinel_type]
  <2>1. /\ policies \in Seq(Policy) /\ policies[i] \in Policy
        /\ commanded \in [SentinelTypes -> SUBSET PolicyActions]
    BY DEF IInv, TypeOK
  <2>2. QED  BY <2>1 DEF IInv, PoliciesInv, Policy
<1>2. PICK p \in Policy :
          /\ p.sentinel_type = policies[i].sentinel_type
          /\ policies' = [policies EXCEPT ![i] = p]
          /\ commanded' = [commanded EXCEPT ![p.sentinel_type] = @ \cup {p.action}]
          /\ UNCHANGED <<alerts, trail, run, runs, applied>>
  <2>1. CASE DeactivatePolicy(i)
    <3> DEFINE q == [policies[i] EXCEPT !.is_active = FALSE]
    <3>1. q \in Policy /\ q.sentinel_type = policies[i].sentinel_type
          /\ q.action = policies[i].action
      BY <1>1 DEF Policy
    <3>2. /\ policies' = [policies EXCEPT ![i] = q]
          /\ commanded' = commanded /\ UNCHANGED <<alerts, trail, run, runs, applied>>
      BY <2>1 DEF DeactivatePolicy, history
    <3>3. commanded' = [commanded EXCEPT ![q.sentinel_type] = @ \cup {q.action}]
      BY <1>1, <3>1, <3>2
    <3>4. QED  BY <3>1, <3>2, <3>3
  <2>2. ASSUME NEW action \in PolicyActions, NEW active \in BOOLEAN,
               UpdatePolicy(i, action, active)
        PROVE  \E p \in Policy :
                   /\ p.sentinel_type = policies[i].sentinel_type
                   /\ policies' = [policies EXCEPT ![i] = p]
                   /\ commanded' = [commanded EXCEPT ![p.sentinel_type] = @ \cup {p.action}]
                   /\ UNCHANGED <<alerts, trail, run, runs, applied>>
    <3> DEFINE q == [policies[i] EXCEPT !.action = action, !.is_active = active]
    <3>1. q \in Policy /\ q.sentinel_type = policies[i].sentinel_type /\ q.action = action
      BY <1>1 DEF Policy
    <3>2. /\ policies' = [policies EXCEPT ![i] = q]
          /\ UNCHANGED <<alerts, trail, run, runs, applied>>
      BY <1>1, <2>2 DEF UpdatePolicy
    <3>3. commanded' = [commanded EXCEPT ![q.sentinel_type] = @ \cup {q.action}]
      BY <2>2, <3>1 DEF UpdatePolicy
    <3>4. QED  BY <3>1, <3>2, <3>3
  <2>3. QED  BY <2>1, <2>2
<1>3. /\ policies' \in Seq(Policy) /\ Len(policies') = Len(policies)
      /\ DOMAIN policies' = DOMAIN policies /\ policies'[i] = p
      /\ \A j \in DOMAIN policies : j # i => policies'[j] = policies[j]
  BY <1>1, <1>2
<1>4. /\ p.sentinel_type \in SentinelTypes /\ p.action \in PolicyActions
  BY DEF Policy
<1>5. /\ commanded' \in [SentinelTypes -> SUBSET PolicyActions]
      /\ \A t \in SentinelTypes : commanded[t] \subseteq commanded'[t]
      /\ p.action \in commanded'[p.sentinel_type]
  BY <1>1, <1>2, <1>4
<1>6. TypeOK' /\ Grown
  BY <1>2, <1>3, <1>5 DEF IInv, TypeOK, Grown
<1>7. PoliciesInv'
  <2> SUFFICES ASSUME NEW j \in DOMAIN policies
               PROVE  policies'[j].action \in commanded'[policies'[j].sentinel_type]
    BY <1>3 DEF PoliciesInv
  <2>1. CASE j = i
    BY <1>3, <1>5, <2>1
  <2>2. CASE j # i
    <3>1. policies[j] \in Policy
      BY <1>1
    <3>2. QED  BY <1>3, <1>5, <2>2, <3>1 DEF IInv, PoliciesInv, Policy
  <2>3. QED  BY <2>1, <2>2
<1>8. QED  BY <1>2, <1>6, <1>7, TablesStep

----------------------------------------------------------------------------
StartsOf(w) ==
    \E a \in AlertIds :
        \/ StartResponse(w, a)
        \/ \E decision \in Decisions \cup {None} : StartReview(w, a, decision)
        \/ \E action \in OperatorActions : StartRoute(w, a, action)

LEMMA StartStep ==
    ASSUME IInv, NEW w \in Workers, StartsOf(w)
    PROVE  IInv'
<1>1. PICK a \in AlertIds, kind \in {"response", "review", "route"}, node \in Nodes,
           decision \in Decisions \cup {None}, action \in Actions \cup {None} :
          /\ Start(w, kind, node, a, decision, action)
          /\ kind = "response" => action = None
          /\ <<kind, node>> \in {<<"response", "load_alert">>, <<"review", "load_alert">>,
                                 <<"route", "resolve">>}
  <2>1. "load_alert" \in Nodes /\ "resolve" \in Nodes
    BY DEF Nodes
  <2>2. QED  BY <2>1, ActionFacts DEF StartsOf, StartResponse, StartReview, StartRoute
<1> DEFINE new == NewRun(kind, node, a, decision, action)
<1>2. /\ new \in Run /\ new.kind = kind /\ new.node = node /\ new.alert = a
      /\ new.taken = action /\ new.resolved = FALSE
  BY ActionFacts DEF NewRun, Run
<1>3. /\ run' = [run EXCEPT ![w] = new] /\ runs' \in 0 .. MaxRuns
      /\ UNCHANGED <<alerts, policies, trail, history>>
  BY <1>1 DEF Start, IInv, TypeOK
<1> HIDE DEF new
<1>4. RunOf(new)
  BY <1>1, <1>2 DEF RunOf
<1>5. \A b \in AlertIds : ~ Owes(new, b)
  BY <1>1, <1>2 DEF Owes
<1>6. QED  BY <1>2, <1>3, <1>4, <1>5, QuietStep

LEMMA AtNode ==
    ASSUME NEW r \in Run, NEW node \in Nodes, NEW new,
           new = [r EXCEPT !.node = node]
    PROVE  /\ new \in Run /\ new.node = node
           /\ new.kind = r.kind /\ new.alert = r.alert /\ new.decision = r.decision
           /\ new.taken = r.taken /\ new.loaded = r.loaded /\ new.resolved = r.resolved
BY DEF Run

\* A run that goes to a node and knows nothing more.
LEMMA PlainStep ==
    ASSUME IInv, NEW w \in Workers,
           NEW node \in {"find_policy", "request_review", "record_outcome", "ended", "stopped"},
           Goto(w, run[w], node), run[w].node # "idle",
           node \in {"find_policy", "record_outcome"} => run[w].kind = "response",
           node = "request_review" => run[w].kind = "review",
           node \in {"find_policy", "request_review"} => run[w].node = "load_alert",
           UNCHANGED <<alerts, policies, trail, runs, history>>
    PROVE  IInv'
<1> DEFINE new == [run[w] EXCEPT !.node = node]
<1>1. run[w] \in Run /\ RunOf(run[w]) /\ runs \in 0 .. MaxRuns
  BY RunFacts DEF IInv, RunInv, TypeOK
<1>2. /\ new \in Run /\ new.node = node /\ new.kind = run[w].kind
      /\ new.alert = run[w].alert /\ new.taken = run[w].taken
      /\ new.resolved = run[w].resolved
  <2>1. node \in Nodes
    BY DEF Nodes
  <2>2. QED  BY <1>1, <2>1, AtNode
<1>3. run' = [run EXCEPT ![w] = new]
  BY DEF Goto
<1> HIDE DEF new
<1>4. RunOf(new)
  <2>1. new.resolved =>
            /\ new.node \in {"record_outcome", "record_completed", "ended", "stopped"}
            /\ new.taken \in applied[new.alert]
    BY <1>1, <1>2 DEF RunOf, Nodes
  <2>2. QED  BY <1>1, <1>2, <2>1 DEF RunOf
<1>5. \A a \in AlertIds : ~ Owes(new, a)
  BY <1>2 DEF Owes
<1>6. QED  BY <1>1, <1>2, <1>3, <1>4, <1>5, QuietStep

LEMMA GoesOnStep ==
    ASSUME IInv, NEW w \in Workers,
           LoadAlert(w) \/ LoadFails(w) \/ ResolveFails(w) \/ Stop(w)
    PROVE  IInv'
<1>1. /\ {"find_policy", "request_review", "ended", "record_outcome", "stopped"}
             \subseteq Nodes
      /\ "idle" \in Idle
  BY DEF Nodes, Idle
<1>2. run[w].kind \in {"response", "review", "route"} /\ RunOf(run[w])
  BY RunFacts DEF IInv, RunInv
<1>3. CASE LoadAlert(w)
  <2>1. CASE run[w].kind = "response"
    BY <1>1, <1>3, <2>1, PlainStep DEF LoadAlert
  <2>2. CASE run[w].kind # "response"
    <3>1. run[w].kind = "review"
      BY <1>2, <1>3, <2>2 DEF LoadAlert, RunOf
    <3>2. QED  BY <1>1, <1>3, <2>2, <3>1, PlainStep DEF LoadAlert
  <2>3. QED  BY <2>1, <2>2
<1>4. CASE LoadFails(w)
  BY <1>1, <1>4, PlainStep DEF LoadFails
<1>5. CASE ResolveFails(w)
  BY <1>1, <1>5, PlainStep DEF ResolveFails, AfterFailure
<1>6. CASE Stop(w)
  BY <1>1, <1>6, PlainStep DEF Stop
<1>7. QED  BY <1>3, <1>4, <1>5, <1>6

LEMMA FindStep ==
    ASSUME IInv, NEW w \in Workers, FindPolicy(w) \/ FindFails(w)
    PROVE  IInv'
<1>1. /\ run[w] \in Run /\ RunOf(run[w]) /\ runs \in 0 .. MaxRuns
      /\ run[w].node = "find_policy" /\ run[w].kind = "response"
      /\ run[w].alert \in AlertIds /\ "resolve" \in Nodes
  BY RunFacts DEF IInv, RunInv, TypeOK, FindPolicy, FindFails, RunOf, Nodes
<1>2. PICK taken \in {None} \cup Actions :
          /\ Goto(w, [run[w] EXCEPT !.taken = taken], "resolve")
          /\ taken \in {None, "warn"} \cup commanded[TypeOf[run[w].alert]]
  <2>1. CASE FindFails(w)
    <3>1. Goto(w, [run[w] EXCEPT !.taken = run[w].taken], "resolve")
      <4>1. [run[w] EXCEPT !.taken = run[w].taken] = run[w]
        BY <1>1 DEF Run
      <4>2. QED  BY <2>1, <4>1 DEF FindFails
    <3>2. QED  BY <1>1, <3>1, RunFacts DEF RunOf, IInv
  <2>2. CASE FindPolicy(w)
    <3>1. \/ Goto(w, [run[w] EXCEPT !.taken = None], "resolve")
          \/ \E i \in Matching(run[w].alert) :
                 Goto(w, [run[w] EXCEPT !.taken = policies[i].action], "resolve")
      BY <2>2 DEF FindPolicy
    <3>2. ASSUME NEW i \in Matching(run[w].alert)
          PROVE  /\ policies[i].action \in Actions
                 /\ policies[i].action \in commanded[TypeOf[run[w].alert]]
      <4>1. i \in DOMAIN policies /\ policies[i].sentinel_type = TypeOf[run[w].alert]
        BY DEF Matching
      <4>2. policies[i] \in Policy
        BY <4>1 DEF IInv, TypeOK
      <4>3. policies[i].action \in PolicyActions
        BY <4>2 DEF Policy
      <4>4. QED  BY <4>1, <4>3, ActionFacts DEF IInv, PoliciesInv
    <3>3. QED  BY <3>1, <3>2
  <2>3. QED  BY <2>1, <2>2
<1> DEFINE new == [[run[w] EXCEPT !.taken = taken] EXCEPT !.node = "resolve"]
<1>3. /\ new \in Run /\ new.node = "resolve" /\ new.kind = "response"
      /\ new.alert = run[w].alert /\ new.taken = taken /\ new.resolved = run[w].resolved
  BY <1>1 DEF Run
<1>4. run' = [run EXCEPT ![w] = new] /\ UNCHANGED <<alerts, policies, trail, runs, history>>
  BY <1>2 DEF Goto, FindPolicy, FindFails
<1> HIDE DEF new
<1>5. ~ run[w].resolved
  BY <1>1 DEF RunOf
<1>6. RunOf(new)
  BY <1>1, <1>2, <1>3, <1>5 DEF RunOf
<1>7. \A a \in AlertIds : ~ Owes(new, a)
  BY <1>3 DEF Owes
<1>8. QED  BY <1>1, <1>3, <1>4, <1>6, <1>7, QuietStep

LEMMA ReadAlertStep ==
    ASSUME IInv, NEW w \in Workers, ReadAlert(w)
    PROVE  IInv'
<1>1. /\ run[w] \in Run /\ RunOf(run[w]) /\ runs \in 0 .. MaxRuns
      /\ run[w].node = "resolve" /\ run[w].alert \in AlertIds
      /\ alerts[run[w].alert] # None /\ "commit" \in Nodes
  BY RunFacts DEF IInv, RunInv, TypeOK, ReadAlert, RunOf, Nodes
<1>2. alerts[run[w].alert] \in AlertRow
  BY <1>1 DEF IInv, TypeOK
<1> DEFINE new == [[run[w] EXCEPT !.loaded = alerts[run[w].alert]] EXCEPT !.node = "commit"]
<1>3. /\ new \in Run /\ new.node = "commit" /\ new.kind = run[w].kind
      /\ new.alert = run[w].alert /\ new.taken = run[w].taken
      /\ new.resolved = run[w].resolved
  BY <1>1, <1>2 DEF Run
<1>4. run' = [run EXCEPT ![w] = new] /\ UNCHANGED <<alerts, policies, trail, runs, history>>
  BY DEF Goto, ReadAlert
<1> HIDE DEF new
<1>5. RunOf(new)
  BY <1>1, <1>3 DEF RunOf
<1>6. \A a \in AlertIds : Owes(new, a) => Owes(run[w], a)
  BY <1>1, <1>3 DEF Owes
<1>7. QED  BY <1>1, <1>3, <1>4, <1>5, <1>6, QuietStep

\* A failed record ends the run; a review is then not resolved.
LEMMA UnrecordedFacts ==
    ASSUME IInv, NEW w \in Workers, NEW new, new = [Unrecorded(w) EXCEPT !.node = "ended"],
           run[w].node # "idle"
    PROVE  /\ new \in Run /\ new.node = "ended" /\ RunOf(new)
           /\ \A a \in AlertIds : ~ Owes(new, a)
<1>1. run[w] \in Run /\ RunOf(run[w]) /\ "ended" \in Nodes
  BY RunFacts DEF IInv, RunInv, Nodes
<1>2. /\ new \in Run /\ new.node = "ended" /\ new.kind = run[w].kind
      /\ new.alert = run[w].alert /\ new.taken = run[w].taken
      /\ new.resolved => run[w].resolved
  BY <1>1 DEF Unrecorded, Run
<1>3. RunOf(new)
  BY <1>1, <1>2 DEF RunOf
<1>4. QED  BY <1>2, <1>3 DEF Owes

LEMMA RecordFailsStep ==
    ASSUME IInv, NEW w \in Workers, RecordFails(w)
    PROVE  IInv'
<1> DEFINE new == [Unrecorded(w) EXCEPT !.node = "ended"]
<1>1. /\ new \in Run /\ RunOf(new) /\ \A a \in AlertIds : ~ Owes(new, a)
  BY UnrecordedFacts DEF RecordFails
<1>2. /\ run' = [run EXCEPT ![w] = new] /\ runs' \in 0 .. MaxRuns
      /\ UNCHANGED <<alerts, policies, trail, history>>
  BY DEF RecordFails, Goto, IInv, TypeOK
<1> HIDE DEF new
<1>3. QED  BY <1>1, <1>2, QuietStep

----------------------------------------------------------------------------
LEMMA CommitStep ==
    ASSUME IInv, NEW w \in Workers, Commit(w)
    PROVE  IInv'
<1> DEFINE a == run[w].alert
           action == ActionToTake(w)
<1>1. /\ run[w] \in Run /\ RunOf(run[w]) /\ run[w].node = "commit" /\ a \in AlertIds
      /\ run[w].taken \in Actions \cup {None}
      /\ run[w].kind \in {"response", "review", "route"}
      /\ ~ run[w].resolved /\ alerts[a] # None
  BY RunFacts DEF IInv, RunInv, Commit, RunOf
<1>2. /\ action \in Actions
      /\ run[w].kind = "response" => action \in {"warn"} \cup commanded[TypeOf[a]]
  BY <1>1, ActionFacts DEF ActionToTake, RunOf
<1>3. /\ alerts' \in [AlertIds -> AlertRow \cup {None}]
      /\ \A b \in AlertIds : alerts[b] # None => alerts'[b] # None
  <2>1. alerts[a] \in AlertRow
    BY <1>1 DEF IInv, TypeOK
  <2>2. PICK value \in Actions \cup {None} :
            alerts' = [alerts EXCEPT ![a].is_resolved = TRUE, ![a].action_taken = value]
    <3>1. alerts[a].action_taken \in Actions \cup {None}
      BY <2>1 DEF AlertRow
    <3>2. CASE action # run[w].loaded.action_taken
      BY <1>2, <3>2 DEF Commit
    <3>3. CASE action = run[w].loaded.action_taken
      BY <1>1, <3>1, <3>3 DEF Commit, IInv, TypeOK
    <3>4. QED  BY <3>2, <3>3
  <2> DEFINE row == [alerts[a] EXCEPT !.is_resolved = TRUE, !.action_taken = value]
  <2>3. alerts' = [alerts EXCEPT ![a] = row]
    BY <1>1, <2>2 DEF IInv, TypeOK
  <2>4. row \in AlertRow
    BY <2>1 DEF AlertRow
  <2> HIDE DEF row
  <2>5. QED  BY <1>1, <2>3, <2>4 DEF IInv, TypeOK
<1>4. /\ applied' \in [AlertIds -> SUBSET Actions]
      /\ \A b \in AlertIds : applied[b] \subseteq applied'[b]
      /\ action \in applied'[a]
  BY <1>1, <1>2 DEF Commit, IInv, TypeOK
<1>5. UNCHANGED <<policies, trail, runs, commanded>>
  BY DEF Commit
<1>6. Grown
  BY <1>3, <1>4, <1>5 DEF Grown
<1> DEFINE done == [[run[w] EXCEPT !.resolved = TRUE, !.taken = action]
                        EXCEPT !.node = AfterSuccess(run[w].kind)]
           given == [run[w] EXCEPT !.node = AfterFailure(run[w].kind)]
<1>7. PICK new \in {done, given} : run' = [run EXCEPT ![w] = new]
  BY DEF Commit, Goto
<1>8. /\ new \in Run /\ new.alert = a /\ new.kind = run[w].kind
      /\ new.node \in {"record_outcome", "record_completed", "ended"}
      /\ new.node = "record_outcome" => new.kind = "response"
      /\ new.node = "record_completed" => new.kind = "review"
      /\ new.resolved => new.taken = action
      /\ new.taken \in {run[w].taken, action}
  <2>1. /\ AfterSuccess(run[w].kind) \in Nodes /\ AfterFailure(run[w].kind) \in Nodes
        /\ AfterSuccess(run[w].kind) \in {"record_outcome", "record_completed", "ended"}
        /\ AfterFailure(run[w].kind) \in {"record_outcome", "ended"}
        /\ AfterSuccess(run[w].kind) = "record_outcome" => run[w].kind = "response"
        /\ AfterSuccess(run[w].kind) = "record_completed" => run[w].kind = "review"
        /\ AfterFailure(run[w].kind) = "record_outcome" => run[w].kind = "response"
    BY <1>1 DEF AfterSuccess, AfterFailure, Nodes
  <2> HIDE DEF action
  <2>2. CASE new = done
    BY <1>1, <1>2, <2>1, <2>2 DEF Run
  <2>3. CASE new = given
    BY <1>1, <2>1, <2>3 DEF Run
  <2>4. QED  BY <2>2, <2>3
<1> HIDE DEF done, given, action
<1>9. /\ run' \in [Workers -> Run] /\ run'[w] = new
      /\ \A v \in Workers \ {w} : run'[v] = run[v]
  BY <1>7, <1>8 DEF IInv, TypeOK
<1>10. TypeOK' /\ PoliciesInv'
  BY <1>3, <1>4, <1>5, <1>9 DEF IInv, TypeOK, PoliciesInv
<1>11. RunInv'
  <2> SUFFICES ASSUME NEW v \in Workers PROVE RunOf(run[v])'
    BY DEF RunInv
  <2>1. CASE v = w
    BY <1>1, <1>2, <1>4, <1>5, <1>8, <1>9, <2>1 DEF RunOf
  <2>2. CASE v # w
    <3>1. run[v] \in Run /\ RunOf(run[v]) /\ run'[v] = run[v]
      BY <1>9, <2>2, RunFacts DEF IInv, RunInv
    <3>2. \A r \in Run : RunOf(r) => RunOf(r)'
      BY <1>6, GrownFacts
    <3>3. QED  BY <3>1, <3>2 DEF RunOf
  <2>3. QED  BY <2>1, <2>2
<1>12. TrailIsTrue' /\ ResponseFollowsPolicy'
  BY <1>5, <1>6, GrownFacts
<1>13. ReviewsInv'
  <2>1. \A b \in AlertIds : Owes(new, b) => Owes(run[w], b)
    BY <1>1, <1>8 DEF Owes
  <2> SUFFICES ASSUME NEW b \in AlertIds
               PROVE  /\ IsFiniteSet(Owing(b)')
                      /\ Cardinality(Entries(b, "human_review_completed"))'
                             + Cardinality(Owing(b)')
                             <= Cardinality(Entries(b, "human_review_requested"))'
    BY DEF ReviewsInv
  <2>2. /\ IsFiniteSet(Owing(b)') /\ Cardinality(Owing(b)) \in Nat
        /\ Cardinality(Owing(b)') \in Nat
        /\ Cardinality(Owing(b)') <= Cardinality(Owing(b))
    BY <1>7, <1>8, <2>1, OwingShrinks
  <2>3. \A k : Entries(b, k)' = Entries(b, k)
    BY <1>5 DEF Entries
  <2>4. /\ Cardinality(Entries(b, "human_review_completed")) \in Nat
        /\ Cardinality(Entries(b, "human_review_requested")) \in Nat
    BY EntriesFacts DEF IInv
  <2>5. Cardinality(Entries(b, "human_review_completed")) + Cardinality(Owing(b))
            <= Cardinality(Entries(b, "human_review_requested"))
    BY DEF IInv, ReviewsInv
  <2>6. QED  BY <2>2, <2>3, <2>4, <2>5
<1>14. QED  BY <1>10, <1>11, <1>12, <1>13 DEF IInv

----------------------------------------------------------------------------
\* An entry is written: it tells what the run knows.
LEMMA RecordStep ==
    ASSUME IInv, NEW w \in Workers, NEW new \in Run, RunOf(new),
           NEW action \in {"human_review_requested", "human_review_completed",
                           "sentinel_response_applied"},
           run[w].node # "idle",
           action = "sentinel_response_applied" => run[w].kind = "response",
           trail' = Append(trail, EntryOf(w, action)),
           run' = [run EXCEPT ![w] = new],
           UNCHANGED <<alerts, policies, runs, history>>,
           \A a \in AlertIds :
               /\ IsFiniteSet(Owing(a)')
               /\ Cardinality(Owing(a)')
                    + (IF a = run[w].alert /\ action = "human_review_completed" THEN 1 ELSE 0)
                  <= Cardinality(Owing(a))
                    + (IF a = run[w].alert /\ action = "human_review_requested" THEN 1 ELSE 0)
    PROVE  IInv'
<1> DEFINE e == EntryOf(w, action)
<1>1. /\ run[w] \in Run /\ RunOf(run[w]) /\ run[w].alert \in AlertIds
      /\ run[w].taken \in Actions \cup {None} /\ run[w].resolved \in BOOLEAN
  BY RunFacts DEF IInv, RunInv, RunOf
<1>2. /\ e \in Entry /\ e.action = action /\ e.resource_id = run[w].alert
      /\ e.action_taken = run[w].taken /\ e.resolved = run[w].resolved
  BY <1>1 DEF EntryOf, Entry
<1> HIDE DEF e
<1>3. /\ trail' = Append(trail, e) /\ trail \in Seq(Entry) /\ trail' \in Seq(Entry)
      /\ runs' \in 0 .. MaxRuns
  BY <1>2 DEF e, IInv, TypeOK
<1>4. TypeOK' /\ RunInv' /\ PoliciesInv' /\ Grown
  BY <1>3, RunMoves
<1>5. \A i \in DOMAIN trail' : \/ trail'[i] = e
                               \/ i \in DOMAIN trail /\ trail'[i] = trail[i]
  BY <1>2, <1>3
<1>6. applied' = applied /\ commanded' = commanded
  BY DEF history
<1>7. TrailIsTrue'
  <2>1. e.resolved => e.action_taken \in applied[e.resource_id]
    BY <1>1, <1>2 DEF RunOf
  <2>2. QED  BY <1>5, <1>6, <2>1 DEF IInv, TrailIsTrue
<1>8. ResponseFollowsPolicy'
  <2>1. e.action = "sentinel_response_applied" /\ e.resolved =>
            e.action_taken \in {"warn"} \cup commanded[TypeOf[e.resource_id]]
    <3> SUFFICES ASSUME action = "sentinel_response_applied", run[w].resolved
                 PROVE  run[w].taken \in {"warn"} \cup commanded[TypeOf[run[w].alert]]
      BY <1>2
    <3>1. run[w].taken \in applied[run[w].alert] /\ run[w].kind = "response"
      BY <1>1 DEF RunOf
    <3>2. run[w].taken \in Actions
      BY <1>1, <3>1 DEF IInv, TypeOK
    <3>3. QED  BY <1>1, <3>1, <3>2 DEF RunOf
  <2>2. QED  BY <1>5, <1>6, <2>1 DEF IInv, ResponseFollowsPolicy
<1>9. ReviewsInv'
  <2> SUFFICES ASSUME NEW a \in AlertIds
               PROVE  /\ IsFiniteSet(Owing(a)')
                      /\ Cardinality(Entries(a, "human_review_completed"))'
                             + Cardinality(Owing(a)')
                             <= Cardinality(Entries(a, "human_review_requested"))'
    BY DEF ReviewsInv
  <2>1. \A k : Cardinality(Entries(a, k))' =
                   IF e.resource_id = a /\ e.action = k THEN Cardinality(Entries(a, k)) + 1
                   ELSE Cardinality(Entries(a, k))
    BY <1>2, <1>3, EntriesGrow DEF IInv
  <2>2. /\ Cardinality(Entries(a, "human_review_completed")) \in Nat
        /\ Cardinality(Entries(a, "human_review_requested")) \in Nat
    BY EntriesFacts DEF IInv
  <2>3. /\ Cardinality(Entries(a, "human_review_completed")) + Cardinality(Owing(a))
               <= Cardinality(Entries(a, "human_review_requested"))
        /\ Cardinality(Owing(a)) \in Nat
    BY FS_CardinalityType DEF IInv, ReviewsInv
  <2>4. /\ IsFiniteSet(Owing(a)') /\ Cardinality(Owing(a)') \in Nat
        /\ Cardinality(Owing(a)')
               + (IF a = run[w].alert /\ action = "human_review_completed" THEN 1 ELSE 0)
             <= Cardinality(Owing(a))
               + (IF a = run[w].alert /\ action = "human_review_requested" THEN 1 ELSE 0)
    BY FS_CardinalityType
  <2>5. Cardinality(Entries(a, "human_review_completed"))' =
            Cardinality(Entries(a, "human_review_completed"))
               + (IF a = run[w].alert /\ action = "human_review_completed" THEN 1 ELSE 0)
    BY <1>2, <2>1, <2>2
  <2>6. Cardinality(Entries(a, "human_review_requested"))' =
            Cardinality(Entries(a, "human_review_requested"))
               + (IF a = run[w].alert /\ action = "human_review_requested" THEN 1 ELSE 0)
    BY <1>2, <2>1, <2>2
  <2>7. QED  BY <2>2, <2>3, <2>4, <2>5, <2>6
<1>10. QED  BY <1>4, <1>7, <1>8, <1>9 DEF IInv

\* A run that ends with an entry about its outcome.
LEMMA OutcomeStep ==
    ASSUME IInv, NEW w \in Workers, RecordOutcome(w)
    PROVE  IInv'
<1> DEFINE done == [run[w] EXCEPT !.node = "ended"]
           failed == [Unrecorded(w) EXCEPT !.node = "ended"]
<1>1. /\ run[w] \in Run /\ RunOf(run[w]) /\ run[w].node = "record_outcome"
      /\ run[w].kind = "response" /\ "ended" \in Nodes
  BY RunFacts DEF RecordOutcome, IInv, RunInv, RunOf, Nodes
<1>2. PICK new \in {done, failed} : run' = [run EXCEPT ![w] = new]
  BY DEF RecordOutcome, Record, Goto
<1>3. new \in Run /\ RunOf(new) /\ \A a \in AlertIds : ~ Owes(new, a)
  <2>1. CASE new = done
    <3>1. /\ new \in Run /\ new.node = "ended" /\ new.kind = "response"
          /\ new.alert = run[w].alert /\ new.taken = run[w].taken
          /\ new.resolved = run[w].resolved
      BY <1>1, <2>1 DEF Run
    <3>2. QED  BY <1>1, <3>1 DEF RunOf, Owes
  <2>2. CASE new = failed
    BY <1>1, <2>2, UnrecordedFacts
  <2>3. QED  BY <2>1, <2>2
<1> HIDE DEF done, failed
<1>4. /\ trail' = Append(trail, EntryOf(w, "sentinel_response_applied"))
      /\ UNCHANGED <<alerts, policies, runs, history>>
  BY DEF RecordOutcome, Record
<1>5. \A a \in AlertIds :
          /\ IsFiniteSet(Owing(a)') /\ Cardinality(Owing(a)) \in Nat
          /\ Cardinality(Owing(a)') \in Nat
          /\ Cardinality(Owing(a)') <= Cardinality(Owing(a))
  BY <1>2, <1>3, OwingShrinks
<1>6. \A a \in AlertIds :
          /\ IsFiniteSet(Owing(a)')
          /\ Cardinality(Owing(a)')
               + (IF a = run[w].alert /\ "sentinel_response_applied" = "human_review_completed"
                  THEN 1 ELSE 0)
             <= Cardinality(Owing(a))
               + (IF a = run[w].alert /\ "sentinel_response_applied" = "human_review_requested"
                  THEN 1 ELSE 0)
  BY <1>5
<1>7. QED  BY <1>1, <1>2, <1>3, <1>4, <1>6, RecordStep

LEMMA CompletedStep ==
    ASSUME IInv, NEW w \in Workers, RecordCompleted(w)
    PROVE  IInv'
<1> DEFINE done == [run[w] EXCEPT !.node = "ended"]
           failed == [Unrecorded(w) EXCEPT !.node = "ended"]
<1>1. /\ run[w] \in Run /\ RunOf(run[w]) /\ run[w].node = "record_completed"
      /\ run[w].kind = "review" /\ "ended" \in Nodes /\ run[w].alert \in AlertIds
  BY RunFacts DEF RecordCompleted, IInv, RunInv, RunOf, Nodes
<1>2. PICK new \in {done, failed} : run' = [run EXCEPT ![w] = new]
  BY DEF RecordCompleted, Record, Goto
<1>3. new \in Run /\ RunOf(new) /\ \A a \in AlertIds : ~ Owes(new, a)
  <2>1. CASE new = done
    <3>1. /\ new \in Run /\ new.node = "ended" /\ new.kind = "review"
          /\ new.alert = run[w].alert /\ new.taken = run[w].taken
          /\ new.resolved = run[w].resolved
      BY <1>1, <2>1 DEF Run
    <3>2. QED  BY <1>1, <3>1 DEF RunOf, Owes
  <2>2. CASE new = failed
    BY <1>1, <2>2, UnrecordedFacts
  <2>3. QED  BY <2>1, <2>2
<1> HIDE DEF done, failed
<1>4. /\ trail' = Append(trail, EntryOf(w, "human_review_completed"))
      /\ UNCHANGED <<alerts, policies, runs, history>>
  BY DEF RecordCompleted, Record
<1>5. \A a \in AlertIds :
          /\ IsFiniteSet(Owing(a)') /\ Cardinality(Owing(a)) \in Nat
          /\ Cardinality(Owing(a)') \in Nat
          /\ Cardinality(Owing(a)') <= Cardinality(Owing(a))
  BY <1>2, <1>3, OwingShrinks
<1>6. ASSUME NEW b \in AlertIds, b = run[w].alert
      PROVE  Cardinality(Owing(b)') + 1 <= Cardinality(Owing(b))
  <2>1. w \in Owing(b)
    BY <1>1, <1>6 DEF Owing, Owes
  <2>2. run'[w] = new /\ \A v \in Workers \ {w} : run'[v] = run[v]
    BY <1>2, <1>3 DEF IInv, TypeOK
  <2>3. Owing(b)' \subseteq Owing(b) \ {w}
    <3> SUFFICES ASSUME NEW v \in Workers, Owes(run[v], b)'
                 PROVE  Owes(run[v], b) /\ v # w
      BY DEF Owing
    <3>1. v # w
      BY <1>1, <1>3, <2>2 DEF Owes
    <3>2. QED  BY <2>2, <3>1 DEF Owes
  <2>4. IsFiniteSet(Owing(b))
    BY DEF IInv, ReviewsInv
  <2>5. /\ IsFiniteSet(Owing(b) \ {w})
        /\ Cardinality(Owing(b) \ {w}) = Cardinality(Owing(b)) - 1
    BY <2>1, <2>4, FS_RemoveElement
  <2>6. Cardinality(Owing(b)') <= Cardinality(Owing(b) \ {w})
    BY <2>3, <2>5, FS_Subset
  <2>7. QED  BY <1>1, <1>5, <2>5, <2>6
<1>7. \A a \in AlertIds :
          /\ IsFiniteSet(Owing(a)')
          /\ Cardinality(Owing(a)')
               + (IF a = run[w].alert /\ "human_review_completed" = "human_review_completed"
                  THEN 1 ELSE 0)
             <= Cardinality(Owing(a))
               + (IF a = run[w].alert /\ "human_review_completed" = "human_review_requested"
                  THEN 1 ELSE 0)
  BY <1>5, <1>6
<1>8. QED  BY <1>1, <1>2, <1>3, <1>4, <1>7, RecordStep

LEMMA RequestStep ==
    ASSUME IInv, NEW w \in Workers, RequestReview(w)
    PROVE  IInv'
<1> DEFINE decided == run[w].decision # None
           taken == IF decided THEN ActionOf[run[w].decision] ELSE None
           node == IF decided THEN "resolve" ELSE "ended"
           done == [[run[w] EXCEPT !.taken = taken] EXCEPT !.node = node]
           failed == [Unrecorded(w) EXCEPT !.node = "ended"]
           b == run[w].alert
<1>1. /\ run[w] \in Run /\ RunOf(run[w]) /\ run[w].node = "request_review"
      /\ run[w].kind = "review" /\ b \in AlertIds
      /\ node \in Nodes /\ ~ run[w].resolved
      /\ taken \in Actions \cup {None} /\ node \in {"resolve", "ended"}
  <2>1. run[w].decision \in Decisions \cup {None}
    BY RunFacts DEF IInv
  <2>2. QED  BY <2>1, RunFacts, ActionFacts DEF RequestReview, IInv, RunInv, RunOf, Nodes
<1>2. PICK new \in {done, failed} : run' = [run EXCEPT ![w] = new]
  BY DEF RequestReview, Record, Goto
<1>3. /\ new \in Run /\ RunOf(new)
      /\ \A a \in AlertIds : Owes(new, a) => a = b
  <2>1. CASE new = done
    <3> HIDE DEF taken, node
    <3>1. /\ new \in Run /\ new.node = node /\ new.kind = "review"
          /\ new.alert = b /\ ~ new.resolved
      BY <1>1, <2>1 DEF Run
    <3>2. QED  BY <1>1, <3>1 DEF RunOf, Owes
  <2>2. CASE new = failed
    BY <1>1, <2>2, UnrecordedFacts
  <2>3. QED  BY <2>1, <2>2
<1>4. /\ trail' = Append(trail, EntryOf(w, "human_review_requested"))
      /\ UNCHANGED <<alerts, policies, runs, history>>
  BY DEF RequestReview, Record
<1> HIDE DEF taken, node, done, failed
<1>5. run'[w] = new /\ \A v \in Workers \ {w} : run'[v] = run[v]
  BY <1>2, <1>3 DEF IInv, TypeOK
<1>6. ASSUME NEW a \in AlertIds
      PROVE  /\ IsFiniteSet(Owing(a)') /\ Cardinality(Owing(a)) \in Nat
             /\ Cardinality(Owing(a)') \in Nat
             /\ Cardinality(Owing(a)') <= Cardinality(Owing(a)) + IF a = b THEN 1 ELSE 0
  <2>1. IsFiniteSet(Owing(a))
    BY DEF IInv, ReviewsInv
  <2>2. Owing(a)' \subseteq IF a = b THEN Owing(a) \cup {w} ELSE Owing(a)
    <3> SUFFICES ASSUME NEW v \in Workers, Owes(run[v], a)'
                 PROVE  v \in IF a = b THEN Owing(a) \cup {w} ELSE Owing(a)
      BY DEF Owing
    <3>1. CASE v = w
      BY <1>3, <1>5, <3>1 DEF Owes
    <3>2. CASE v # w
      BY <1>5, <3>2 DEF Owing, Owes
    <3>3. QED  BY <3>1, <3>2
  <2>3. Cardinality(Owing(a)) \in Nat
    BY <2>1, FS_CardinalityType
  <2>4. /\ IsFiniteSet(Owing(a) \cup {w})
        /\ Cardinality(Owing(a) \cup {w}) <= Cardinality(Owing(a)) + 1
    <3>1. /\ IsFiniteSet(Owing(a) \cup {w})
          /\ Cardinality(Owing(a) \cup {w}) =
                 IF w \in Owing(a) THEN Cardinality(Owing(a)) ELSE Cardinality(Owing(a)) + 1
      BY <2>1, FS_AddElement, Zenon
    <3>2. QED  BY <2>3, <3>1
  <2>5. IsFiniteSet(Owing(a)')
    BY <2>1, <2>2, <2>4, FS_Subset
  <2>6. Cardinality(Owing(a)') \in Nat /\ Cardinality(Owing(a) \cup {w}) \in Nat
    BY <2>4, <2>5, FS_CardinalityType
  <2>7. CASE a = b
    BY <2>2, <2>3, <2>4, <2>5, <2>6, <2>7, FS_Subset
  <2>8. CASE a # b
    BY <2>1, <2>2, <2>3, <2>5, <2>6, <2>8, FS_Subset
  <2>9. QED  BY <2>3, <2>5, <2>6, <2>7, <2>8
<1>7. \A a \in AlertIds :
          /\ IsFiniteSet(Owing(a)')
          /\ Cardinality(Owing(a)')
               + (IF a = run[w].alert /\ "human_review_requested" = "human_review_completed"
                  THEN 1 ELSE 0)
             <= Cardinality(Owing(a))
               + (IF a = run[w].alert /\ "human_review_requested" = "human_review_requested"
                  THEN 1 ELSE 0)
  BY <1>6
<1>8. QED  BY <1>1, <1>2, <1>3, <1>4, <1>7, RecordStep

----------------------------------------------------------------------------
LEMMA NextStep == IInv /\ [Next]_vars => IInv'
<1> SUFFICES ASSUME IInv, [Next]_vars PROVE IInv'
  OBVIOUS
<1>1. CASE UNCHANGED vars
  BY <1>1, StutterStep
<1>2. ASSUME NEW a \in AlertIds, CreateAlert(a) PROVE IInv'
  BY <1>2, CreateAlertStep
<1>3. ASSUME NEW type \in SentinelTypes, NEW action \in PolicyActions,
             CreatePolicy(type, action)
      PROVE  IInv'
  BY <1>3, CreatePolicyStep
<1>4. ASSUME NEW i \in DOMAIN policies,
             \/ DeactivatePolicy(i)
             \/ \E action \in PolicyActions, active \in BOOLEAN :
                    UpdatePolicy(i, action, active)
      PROVE  IInv'
  BY <1>4, ChangePolicyStep
<1>5. ASSUME NEW w \in Workers, StartsOf(w) \/ Step(w) \/ Stop(w) PROVE IInv'
  <2>1. CASE StartsOf(w) \/ Stop(w)
    BY <2>1, StartStep, GoesOnStep
  <2>2. CASE Step(w)
    BY <2>2, GoesOnStep, FindStep, RequestStep, ReadAlertStep, CommitStep, OutcomeStep,
       CompletedStep, RecordFailsStep DEF Step
  <2>3. QED  BY <1>5, <2>1, <2>2
<1>6. QED  BY <1>1, <1>2, <1>3, <1>4, <1>5 DEF Next, StartsOf

THEOREM Invariance == Spec => []IInv
<1>1. Init => IInv
  BY InitIInv
<1>2. IInv /\ [Next]_vars => IInv'
  BY NextStep
<1>3. QED  BY <1>1, <1>2, PTL DEF Spec

\* Type correctness: an alert that is resolved has an action.
THEOREM TypeCorrect == Spec => []TypeOK
<1>1. IInv => TypeOK
  BY DEF IInv
<1>2. QED  BY <1>1, Invariance, PTL

\* The trail says of no alert that it was resolved with an action that was not
\* committed for it (record_decision, record_outcome).
THEOREM TrailTellsTheTruth == Spec => []TrailIsTrue
<1>1. IInv => TrailIsTrue
  BY DEF IInv
<1>2. QED  BY <1>1, Invariance, PTL

\* The automated response applies warn or what a policy for the type of the
\* alert commanded (find_policy, resolve_with_default).
THEOREM PoliciesCommand == Spec => []ResponseFollowsPolicy
<1>1. IInv => ResponseFollowsPolicy
  BY DEF IInv
<1>2. QED  BY <1>1, Invariance, PTL

\* For every alert, the trail has no more completed reviews than requested ones
\* (_route_after_request).
THEOREM ReviewsComeFirst == Spec => []DecisionsWereRequested
<1>1. IInv => DecisionsWereRequested
  <2> SUFFICES ASSUME IInv, NEW a \in AlertIds
               PROVE  Cardinality(Entries(a, "human_review_completed"))
                          <= Cardinality(Entries(a, "human_review_requested"))
    BY DEF DecisionsWereRequested
  <2>1. /\ Cardinality(Entries(a, "human_review_completed")) \in Nat
        /\ Cardinality(Entries(a, "human_review_requested")) \in Nat
    BY EntriesFacts DEF IInv
  <2>2. /\ Cardinality(Owing(a)) \in Nat
        /\ Cardinality(Entries(a, "human_review_completed")) + Cardinality(Owing(a))
               <= Cardinality(Entries(a, "human_review_requested"))
    BY FS_CardinalityType DEF IInv, ReviewsInv
  <2>3. QED  BY <2>1, <2>2
<1>2. QED  BY <1>1, Invariance, PTL

=============================================================================
