---------------------------- MODULE DriftProofs ----------------------------
(***************************************************************************)
(* What baselines and findings guarantee however requests overlap and      *)
(* whatever fails in them, for every set of clients, agents and event      *)
(* types, every lookback and every number of events and calls.             *)
(***************************************************************************)
EXTENDS Drift, FiniteSetTheorems, WellFoundedInduction, TLAPS

USE BoundsAssumption, NoneAssumption

Over == {"idle", "ended", "failed"}

Computes(j, g) == j.agent = g /\ j.node \in {"events", "active", "commit"}

\* A request that computes a baseline has the computed_at to itself, and has
\* read every active baseline unless another request computes one, too.
JobsInv ==
    \A c \in Clients :
        /\ job[c].node \notin Over => job[c].agent \in Agents
        /\ job[c].node = "commit" =>
               /\ job[c].at \in 1 .. built /\ baselines[job[c].at] = None
               /\ job[c].old \subseteq Existing
               /\ job[c].agent \notin overlapped => Active(job[c].agent) \subseteq job[c].old
        /\ \A b \in Clients \ {c} :
               /\ job[b].node = "commit" /\ job[c].node = "commit" => job[b].at # job[c].at
               /\ \A g \in Agents : Computes(job[b], g) /\ Computes(job[c], g) => g \in overlapped

BaselinesInv ==
    /\ \A i \in Existing : i <= built
    /\ \A g \in Agents \ overlapped : \A i, j \in Active(g) : i = j

\* The calls that are to build a baseline yet.
Building == {c \in Clients : job[c].node \in {"events", "active"}}

BuiltInv == IsFiniteSet(Building) /\ built + Cardinality(Building) <= calls

\* An analysis under way has a number that was given out; one that is to record
\* its finding has alerted it if its service can.
Accounted(j) ==
    /\ j.node \in {"baseline", "recent", "alert", "finding"} => j.call \in 1 .. calls
    /\ j.node = "finding" /\ j.call \in watched => j.call \in alerts

FindingsInv ==
    /\ findings \cap watched \subseteq alerts
    /\ \A c \in Clients : Accounted(job[c])

IInv == /\ TypeOK /\ IsFiniteSet(events)
        /\ JobsInv /\ BaselinesInv /\ BuiltInv /\ FindingsInv

----------------------------------------------------------------------------
\* What one element more or less makes of a finite set.
LEMMA SetStep ==
    ASSUME NEW S, IsFiniteSet(S), NEW T, NEW x, T \subseteq S \cup {x}
    PROVE  /\ IsFiniteSet(T) /\ Cardinality(S) \in Nat /\ Cardinality(T) \in Nat
           /\ Cardinality(T) <= Cardinality(S) + 1
           /\ (x \in S \/ x \notin T) => Cardinality(T) <= Cardinality(S)
           /\ x \in S /\ x \notin T => Cardinality(T) + 1 <= Cardinality(S)
<1>1. /\ IsFiniteSet(S \cup {x})
      /\ Cardinality(S \cup {x}) =
             IF x \in S THEN Cardinality(S) ELSE Cardinality(S) + 1
  BY FS_AddElement, Zenon
<1>2. IsFiniteSet(T) /\ Cardinality(T) <= Cardinality(S \cup {x})
  BY <1>1, FS_Subset
<1>3. Cardinality(S) \in Nat /\ Cardinality(T) \in Nat
  BY <1>2, FS_CardinalityType
<1>4. ASSUME x \in S \/ x \notin T PROVE Cardinality(T) <= Cardinality(S)
  <2>1. T \subseteq S
    BY <1>4
  <2>2. QED  BY <2>1, FS_Subset
<1>5. ASSUME x \in S, x \notin T PROVE Cardinality(T) + 1 <= Cardinality(S)
  <2>1. T \subseteq S \ {x}
    BY <1>5
  <2>2. IsFiniteSet(S \ {x}) /\ Cardinality(S \ {x}) = Cardinality(S) - 1
    BY <1>5, FS_RemoveElement
  <2>3. Cardinality(T) <= Cardinality(S \ {x})
    BY <2>1, <2>2, FS_Subset
  <2>4. QED  BY <1>3, <2>2, <2>3
<1>6. QED  BY <1>1, <1>2, <1>3, <1>4, <1>5

LEMMA JobFacts ==
    ASSUME TypeOK, NEW c \in Clients
    PROVE  /\ job[c] \in Job
           /\ job[c].node \in Nodes /\ job[c].agent \in Agents \cup {None}
           /\ job[c].call \in 0 .. MaxCalls
           /\ job[c].since \in Int /\ job[c].counts \in Counts
           /\ job[c].old \in SUBSET (1 .. MaxCalls) /\ job[c].at \in 0 .. MaxCalls
           /\ job[c].baseline \in Counts \cup {None} /\ job[c].severity \in Severities
BY DEF TypeOK, Job

LEMMA NewJobFacts ==
    ASSUME NEW kind \in {"compute", "analyze", "workflow"}, NEW node \in Nodes,
           NEW g \in Agents \cup {None}, NEW call \in 0 .. MaxCalls, NEW since \in Int,
           NEW new, new = NewJob(kind, node, g, call, since)
    PROVE  new \in Job /\ new.node = node /\ new.agent = g /\ new.call = call
BY DEF NewJob, Job, NoCounts, Counts, Severities

LEMMA EndFacts ==
    ASSUME NEW c \in Clients, NEW node \in {"ended", "failed"}, End(c, node)
    PROVE  \E new \in Job : new.node = node /\ job' = [job EXCEPT ![c] = new]
<1> DEFINE new == [NoJob EXCEPT !.node = node]
<1>1. "idle" \in Nodes /\ node \in Nodes
  BY DEF Nodes
<1>2. NoJob \in Job
  BY <1>1, NewJobFacts DEF NoJob
<1>3. new \in Job /\ new.node = node
  BY <1>1, <1>2 DEF Job
<1>4. job' = [job EXCEPT ![c] = new]
  BY DEF End
<1> HIDE DEF new
<1>5. QED  BY <1>3, <1>4

LEMMA CountsFacts ==
    ASSUME TypeOK, IsFiniteSet(events), NEW g, NEW since
    PROVE  CountEvents(g, since) \in Counts
<1>1. \A t \in Types :
          Cardinality({e \in events : e.agent = g /\ e.type = t /\ e.timestamp >= since}) \in Nat
  <2> SUFFICES ASSUME NEW t \in Types
               PROVE  Cardinality({e \in events : /\ e.agent = g /\ e.type = t
                                                  /\ e.timestamp >= since}) \in Nat
    OBVIOUS
  <2>1. {e \in events : e.agent = g /\ e.type = t /\ e.timestamp >= since} \subseteq events
    OBVIOUS
  <2>2. QED  BY <2>1, FS_Subset, FS_CardinalityType
<1>2. QED  BY <1>1 DEF CountEvents, Counts

LEMMA SeverityFacts == \A b, r : SeveritiesOf(b, r) \subseteq Severities
BY DEF SeveritiesOf, Severities

LEMMA ActiveFacts ==
    ASSUME TypeOK, NEW g
    PROVE  /\ Active(g) \subseteq Existing /\ Existing \subseteq 1 .. MaxCalls
           /\ \A i \in Existing : baselines[i] \in Baseline
BY DEF TypeOK, Active, Existing

\* The counting sets after a request has moved on.
LEMMA MovedFacts ==
    ASSUME IInv, NEW c \in Clients, NEW new \in Job, job' = [job EXCEPT ![c] = new]
    PROVE  /\ job' \in [Clients -> Job] /\ job'[c] = new
           /\ \A b \in Clients \ {c} : job'[b] = job[b]
           /\ Building' \subseteq Building \cup {c}
           /\ c \in Building' <=> new.node \in {"events", "active"}
<1>1. /\ job' \in [Clients -> Job] /\ job'[c] = new
      /\ \A b \in Clients \ {c} : job'[b] = job[b]
  BY DEF IInv, TypeOK
<1>2. QED  BY <1>1 DEF Building

\* The findings, when a request moves on and none is written.
LEMMA FindingsKept ==
    ASSUME IInv, NEW c \in Clients, NEW new \in Job, job' = [job EXCEPT ![c] = new],
           UNCHANGED <<calls, watched, findings>>, alerts \subseteq alerts',
           new.node \in {"baseline", "recent", "alert", "finding"} => new.call \in 1 .. calls,
           new.node = "finding" /\ new.call \in watched => new.call \in alerts'
    PROVE  FindingsInv'
<1>1. job'[c] = new /\ \A b \in Clients \ {c} : job'[b] = job[b]
  BY MovedFacts
<1>2. findings' \cap watched' \subseteq alerts'
  BY DEF IInv, FindingsInv
<1>3. \A d \in Clients : Accounted(job[d])'
  BY <1>1 DEF IInv, FindingsInv, Accounted
<1>4. QED  BY <1>2, <1>3 DEF FindingsInv

\* The jobs and the baselines, when a request moves on without a commit.
LEMMA JobsKept ==
    ASSUME IInv, NEW c \in Clients, NEW new \in Job, job' = [job EXCEPT ![c] = new],
           UNCHANGED <<baselines, built, overlapped>>,
           new.node # "commit", new.node \notin Over => new.agent \in Agents,
           \A g \in Agents : Computes(new, g) => Computes(job[c], g)
    PROVE  JobsInv' /\ BaselinesInv'
<1>1. /\ job'[c] = new /\ \A b \in Clients \ {c} : job'[b] = job[b]
  BY MovedFacts
<1>2. Existing' = Existing /\ \A g : Active(g)' = Active(g)
  BY DEF Existing, Active
<1>3. BaselinesInv'
  BY <1>2 DEF IInv, BaselinesInv
<1>4. ASSUME NEW d \in Clients
      PROVE  /\ job'[d].node \notin Over => job'[d].agent \in Agents
             /\ job'[d].node = "commit" =>
                    /\ job'[d] = job[d] /\ d # c
             /\ \A b \in Clients \ {d} : \A g \in Agents :
                    Computes(job'[b], g) /\ Computes(job'[d], g) => g \in overlapped
  <2>1. \A b \in Clients, g \in Agents : Computes(job'[b], g) => Computes(job[b], g)
    BY <1>1
  <2>2. QED  BY <1>1, <2>1 DEF IInv, JobsInv
<1>5. JobsInv'
  <2> SUFFICES ASSUME NEW d \in Clients
               PROVE  /\ job'[d].node \notin Over => job'[d].agent \in Agents
                      /\ job'[d].node = "commit" =>
                             /\ job'[d].at \in 1 .. built' /\ baselines'[job'[d].at] = None
                             /\ job'[d].old \subseteq Existing'
                             /\ job'[d].agent \notin overlapped' =>
                                    Active(job[d].agent)' \subseteq job'[d].old
                      /\ \A b \in Clients \ {d} :
                             /\ job'[b].node = "commit" /\ job'[d].node = "commit" =>
                                    job'[b].at # job'[d].at
                             /\ \A g \in Agents :
                                    Computes(job[b], g)' /\ Computes(job[d], g)'
                                        => g \in overlapped'
    BY DEF JobsInv
  <2>1. \A b \in Clients : job'[b].node = "commit" => job'[b] = job[b] /\ b # c
    BY <1>4
  <2>2. \A b \in Clients : \A g : Computes(job[b], g)' = Computes(job'[b], g)
    BY DEF Computes
  <2>3. job'[d].node = "commit" => Active(job[d].agent)' = Active(job[d].agent)
    BY <2>1 DEF Active, Existing
  <2>4. QED  BY <1>2, <1>4, <2>1, <2>2, <2>3 DEF IInv, JobsInv
<1>6. QED  BY <1>3, <1>5

\* A request that neither commits nor raises an alert nor begins to compute.
LEMMA QuietStep ==
    ASSUME IInv, NEW c \in Clients, NEW new \in Job, job' = [job EXCEPT ![c] = new],
           UNCHANGED <<clock, events, baselines, built, calls, trails, overlapped>>, Accounted(new),
           new.node # "commit", new.node \notin Over => new.agent \in Agents,
           \A g \in Agents : Computes(new, g) => Computes(job[c], g),
           new.node \in {"events", "active"} => job[c].node \in {"events", "active"}
    PROVE  IInv'
<1>1. JobsInv' /\ BaselinesInv'
  BY JobsKept
<1>2. TypeOK' /\ IsFiniteSet(events)'
  BY MovedFacts DEF trails, IInv, TypeOK
<1>3. BuiltInv'
  <2>1. /\ Building' \subseteq Building \cup {c}
        /\ c \in Building' => c \in Building
    BY MovedFacts DEF Building
  <2>2. /\ IsFiniteSet(Building') /\ Cardinality(Building') <= Cardinality(Building)
        /\ Cardinality(Building') \in Nat /\ Cardinality(Building) \in Nat
    BY <2>1, SetStep DEF IInv, BuiltInv
  <2>3. QED  BY <2>2 DEF IInv, BuiltInv, TypeOK
<1>4. FindingsInv'
  BY FindingsKept DEF trails, Accounted
<1>5. QED  BY <1>1, <1>2, <1>3, <1>4 DEF IInv

\* A request that begins: the rest of the invariant.
LEMMA StartedStep ==
    ASSUME IInv, NEW c \in Clients, NEW new \in Job, job' = [job EXCEPT ![c] = new],
           UNCHANGED <<clock, events, baselines, built, alerts, findings>>,
           calls < MaxCalls, calls' = calls + 1, overlapped' \subseteq Agents,
           watched \subseteq watched', watched' \subseteq watched \cup {calls + 1},
           new.node \in {"events", "baseline"}, new.node = "baseline" => new.call = calls + 1,
           JobsInv', BaselinesInv'
    PROVE  IInv'
<1>1. TypeOK' /\ IsFiniteSet(events)'
  BY MovedFacts DEF IInv, TypeOK
<1>2. BuiltInv'
  <2>1. Building' \subseteq Building \cup {c}
    BY MovedFacts
  <2>2. /\ IsFiniteSet(Building') /\ Cardinality(Building') <= Cardinality(Building) + 1
        /\ Cardinality(Building') \in Nat /\ Cardinality(Building) \in Nat
    BY <2>1, SetStep DEF IInv, BuiltInv
  <2>3. QED  BY <2>2 DEF IInv, BuiltInv, TypeOK
<1>3. FindingsInv'
  <2>1. job'[c] = new /\ \A b \in Clients \ {c} : job'[b] = job[b]
    BY MovedFacts
  <2>2. calls + 1 \notin 1 .. calls /\ 1 .. calls \subseteq 1 .. calls'
    BY DEF IInv, TypeOK
  <2>3. findings' \cap watched' \subseteq alerts'
    BY <2>2 DEF IInv, FindingsInv, TypeOK
  <2>4. Accounted(job[c])'
    <3>1. Accounted(new)'
      BY DEF IInv, TypeOK, Accounted
    <3>2. QED  BY <2>1, <3>1 DEF Accounted
  <2>5. ASSUME NEW b \in Clients \ {c} PROVE Accounted(job[b])'
    BY <2>1, <2>2 DEF IInv, FindingsInv, Accounted
  <2>6. QED  BY <2>3, <2>4, <2>5 DEF FindingsInv
<1>4. QED  BY <1>1, <1>2, <1>3 DEF IInv

----------------------------------------------------------------------------
LEMMA InitIInv == Init => IInv
<1> SUFFICES ASSUME Init PROVE IInv
  OBVIOUS
<1>1. NoJob \in Job /\ NoJob.node = "idle" /\ NoJob.agent = None
  <2>1. "idle" \in Nodes
    BY DEF Nodes
  <2>2. QED  BY <2>1, NewJobFacts DEF NoJob
<1>2. \A c \in Clients : job[c] = NoJob
  BY DEF Init
<1>3. IsFiniteSet({}) /\ Cardinality({}) = 0
  BY FS_EmptySet
<1>4. TypeOK /\ IsFiniteSet(events)
  BY <1>1, <1>2, <1>3 DEF Init, TypeOK, Hours
<1>5. Existing = {} /\ \A g : Active(g) = {}
  BY DEF Init, Existing, Active
<1>6. JobsInv /\ BaselinesInv
  BY <1>1, <1>2, <1>5 DEF JobsInv, BaselinesInv, Over, Computes
<1>7. Building = {} /\ \A c \in Clients : Accounted(job[c])
  BY <1>1, <1>2 DEF Building, Accounted
<1>8. BuiltInv /\ FindingsInv
  <2>1. built = 0 /\ calls = 0 /\ findings = {}
    BY DEF Init
  <2>2. QED  BY <1>3, <1>7, <2>1 DEF BuiltInv, FindingsInv
<1>9. QED  BY <1>4, <1>6, <1>8 DEF IInv

LEMMA StutterStep == IInv /\ UNCHANGED vars => IInv'
<1> SUFFICES ASSUME IInv, UNCHANGED vars PROVE IInv'
  OBVIOUS
<1>1. TypeOK' /\ IsFiniteSet(events)'
  BY DEF IInv, vars, trails, TypeOK
<1>2. JobsInv' /\ BaselinesInv'
  BY DEF IInv, vars, JobsInv, BaselinesInv, Existing, Active, Computes
<1>3. BuiltInv' /\ FindingsInv'
  BY DEF IInv, vars, BuiltInv, FindingsInv, Building, Accounted, trails
<1>4. QED  BY <1>1, <1>2, <1>3 DEF IInv

LEMMA StoreEventStep ==
    ASSUME IInv, NEW g \in Agents, NEW t \in Types, NEW h \in Hours, StoreEvent(g, t, h)
    PROVE  IInv'
<1> DEFINE alike == {e \in events : e.agent = g /\ e.type = t /\ e.timestamp = h}
           new == [agent |-> g, type |-> t, timestamp |-> h, nth |-> Cardinality(alike) + 1]
<1>1. /\ Cardinality(events) < MaxEvents /\ events' = events \cup {new}
      /\ UNCHANGED <<clock, baselines, built, job, calls, trails, overlapped>>
  BY DEF StoreEvent
<1>2. /\ Cardinality(alike) \in Nat /\ Cardinality(events) \in Nat
      /\ Cardinality(alike) <= Cardinality(events)
  BY FS_Subset, FS_CardinalityType DEF IInv
<1>3. new \in Event
  BY <1>1, <1>2 DEF Event
<1> HIDE DEF new
<1>4. /\ IsFiniteSet(events') /\ Cardinality(events') \in Nat
      /\ Cardinality(events') <= Cardinality(events) + 1
  BY <1>1, SetStep DEF IInv
<1>5. TypeOK' /\ IsFiniteSet(events)'
  BY <1>1, <1>2, <1>3, <1>4 DEF trails, IInv, TypeOK
<1>6. JobsInv' /\ BaselinesInv'
  BY <1>1 DEF IInv, JobsInv, BaselinesInv, Existing, Active, Computes
<1>7. BuiltInv' /\ FindingsInv'
  BY <1>1 DEF IInv, BuiltInv, FindingsInv, Building, Accounted, trails
<1>8. QED  BY <1>5, <1>6, <1>7 DEF IInv

LEMMA NextHourStep == IInv /\ NextHour => IInv'
<1> SUFFICES ASSUME IInv, NextHour PROVE IInv'
  OBVIOUS
<1>1. TypeOK' /\ IsFiniteSet(events)'
  BY DEF NextHour, trails, IInv, TypeOK, Hours
<1>2. JobsInv' /\ BaselinesInv'
  BY DEF NextHour, IInv, JobsInv, BaselinesInv, Existing, Active, Computes
<1>3. BuiltInv' /\ FindingsInv'
  BY DEF NextHour, IInv, BuiltInv, FindingsInv, Building, Accounted, trails
<1>4. QED  BY <1>1, <1>2, <1>3 DEF IInv

LEMMA DeactivateStep ==
    ASSUME IInv, NEW i \in Existing, Deactivate(i)
    PROVE  IInv'
<1>1. i \in 1 .. MaxCalls /\ baselines[i] \in Baseline
  BY ActiveFacts DEF IInv
<1> DEFINE row == [baselines[i] EXCEPT !.is_active = FALSE]
<1>2. row \in Baseline /\ row # None /\ ~ row.is_active
  BY <1>1 DEF Baseline
<1>3. /\ baselines' = [baselines EXCEPT ![i] = row]
      /\ UNCHANGED <<clock, events, built, job, calls, trails, overlapped>>
  BY DEF Deactivate
<1> HIDE DEF row
<1>4. /\ baselines' \in [1 .. MaxCalls -> Baseline \cup {None}] /\ baselines'[i] = row
      /\ \A j \in 1 .. MaxCalls : j # i => baselines'[j] = baselines[j]
  BY <1>1, <1>2, <1>3 DEF IInv, TypeOK
<1>5. Existing' = Existing
  BY <1>2, <1>4 DEF Existing, IInv, TypeOK
<1>6. \A g : Active(g)' \subseteq Active(g)
  BY <1>2, <1>4, <1>5, ActiveFacts DEF Active, IInv
<1>7. TypeOK' /\ IsFiniteSet(events)'
  BY <1>3, <1>4 DEF trails, IInv, TypeOK
<1>8. BaselinesInv'
  BY <1>3, <1>5, <1>6 DEF IInv, BaselinesInv
<1>9. JobsInv'
  <2>1. \A c \in Clients : job'[c].node = "commit" =>
            /\ baselines'[job'[c].at] = None
            /\ Active(job[c].agent)' \subseteq Active(job[c].agent)
    <3> SUFFICES ASSUME NEW c \in Clients, job[c].node = "commit"
                 PROVE  /\ baselines'[job[c].at] = None
                        /\ Active(job[c].agent)' \subseteq Active(job[c].agent)
      BY <1>3
    <3>1. /\ job[c].at \in 1 .. built /\ baselines[job[c].at] = None
          /\ built \in 0 .. MaxCalls
      BY DEF IInv, JobsInv, TypeOK
    <3>2. job[c].at \in 1 .. MaxCalls /\ job[c].at # i
      BY <3>1 DEF Existing
    <3>3. Active(job[c].agent)' \subseteq Active(job[c].agent)
      <4>1. job'[c].agent = job[c].agent
        BY <1>3
      <4>2. QED  BY <1>2, <1>4, <1>5, <4>1, ActiveFacts DEF Active, IInv
    <3>4. QED  BY <1>4, <3>1, <3>2, <3>3
  <2>2. QED  BY <1>3, <1>5, <2>1 DEF IInv, JobsInv, Computes
<1>10. BuiltInv' /\ FindingsInv'
  BY <1>3 DEF IInv, BuiltInv, FindingsInv, Building, Accounted, trails
<1>11. QED  BY <1>7, <1>8, <1>9, <1>10 DEF IInv

----------------------------------------------------------------------------
LEMMA FailStep ==
    ASSUME IInv, NEW c \in Clients, Fail(c)
    PROVE  IInv'
<1>1. PICK new \in Job : new.node = "failed" /\ job' = [job EXCEPT ![c] = new]
  BY EndFacts DEF Fail
<1>2. (\A g : ~ Computes(new, g)) /\ Accounted(new)
  BY <1>1 DEF Computes, Accounted
<1>3. UNCHANGED <<clock, events, baselines, built, calls, trails, overlapped>>
  BY DEF Fail
<1>4. QED  BY <1>1, <1>2, <1>3, QuietStep DEF Over

LEMMA ReadEventsStep ==
    ASSUME IInv, NEW c \in Clients, ReadEvents(c)
    PROVE  IInv'
<1> DEFINE j == [job[c] EXCEPT !.counts = CountEvents(job[c].agent, job[c].since)]
           new == [j EXCEPT !.node = "active"]
<1>1. /\ job[c] \in Job /\ job[c].node = "events" /\ job[c].agent \in Agents
      /\ "active" \in Nodes
  BY JobFacts DEF ReadEvents, IInv, JobsInv, Over, Nodes
<1>2. j \in Job /\ j.agent = job[c].agent
  BY <1>1, CountsFacts DEF Job, IInv
<1> HIDE DEF j
<1>3. new \in Job /\ new.node = "active" /\ new.agent = job[c].agent
  BY <1>1, <1>2 DEF Job
<1>4. /\ job' = [job EXCEPT ![c] = new]
      /\ UNCHANGED <<clock, events, baselines, built, calls, trails, overlapped>>
  BY DEF ReadEvents, Goto, j
<1> HIDE DEF new
<1>5. (\A g \in Agents : Computes(new, g) => Computes(job[c], g)) /\ Accounted(new)
  BY <1>1, <1>3 DEF Computes, Accounted
<1>6. QED  BY <1>1, <1>3, <1>4, <1>5, QuietStep

LEMMA ReadBaselineStep ==
    ASSUME IInv, NEW c \in Clients, ReadBaseline(c)
    PROVE  IInv'
<1>1. /\ job[c] \in Job /\ job[c].node = "baseline" /\ job[c].agent \in Agents
      /\ "recent" \in Nodes /\ job[c].call \in 1 .. calls
  BY JobFacts DEF ReadBaseline, IInv, JobsInv, FindingsInv, Accounted, Over, Nodes
<1>8. Since \in Int
  BY DEF IInv, TypeOK, Since, Hours
<1>2. PICK baseline \in Counts \cup {None} :
          Goto(c, [job[c] EXCEPT !.baseline = baseline, !.since = Since], "recent")
  <2>1. \A i \in Active(job[c].agent) : baselines[i].event_counts \in Counts
    BY ActiveFacts DEF IInv, Baseline
  <2>2. QED  BY <2>1 DEF ReadBaseline
<1> DEFINE j == [job[c] EXCEPT !.baseline = baseline, !.since = Since]
           new == [j EXCEPT !.node = "recent"]
<1>3. j \in Job /\ j.agent = job[c].agent /\ j.call = job[c].call
  BY <1>1, <1>8 DEF Job
<1> HIDE DEF j
<1>4. /\ new \in Job /\ new.node = "recent" /\ new.agent = job[c].agent
      /\ new.call = job[c].call
  BY <1>1, <1>3 DEF Job
<1>5. /\ job' = [job EXCEPT ![c] = new]
      /\ UNCHANGED <<clock, events, baselines, built, calls, trails, overlapped>>
  BY <1>2 DEF ReadBaseline, Goto, j
<1> HIDE DEF new
<1>6. (\A g \in Agents : ~ Computes(new, g)) /\ Accounted(new)
  BY <1>1, <1>4 DEF Computes, Accounted
<1>7. QED  BY <1>1, <1>4, <1>5, <1>6, QuietStep

LEMMA ReadRecentStep ==
    ASSUME IInv, NEW c \in Clients, ReadRecent(c)
    PROVE  IInv'
<1>1. /\ job[c] \in Job /\ job[c].node = "recent" /\ job[c].agent \in Agents
      /\ {"alert", "finding", "ended"} \subseteq Nodes /\ job[c].call \in 1 .. calls
  BY JobFacts DEF ReadRecent, IInv, JobsInv, FindingsInv, Accounted, Over, Nodes
<1>2. PICK recent \in Counts, severity \in Severities, node \in {"alert", "finding", "ended"} :
          /\ Goto(c, [job[c] EXCEPT !.counts = recent, !.severity = severity], node)
          /\ node = "finding" => job[c].call \notin watched
  <2>1. CountEvents(job[c].agent, job[c].since) \in Counts
    BY CountsFacts DEF IInv
  <2>2. "none" \in Severities
    BY DEF Severities
  <2>3. QED  BY <2>1, <2>2, SeverityFacts DEF ReadRecent
<1> DEFINE j == [job[c] EXCEPT !.counts = recent, !.severity = severity]
           new == [j EXCEPT !.node = node]
<1>3. j \in Job /\ j.agent = job[c].agent /\ j.call = job[c].call
  BY <1>1 DEF Job
<1>8. node \in Nodes
  BY <1>1
<1> HIDE DEF j
<1>4. /\ new \in Job /\ new.node = node /\ new.agent = job[c].agent
      /\ new.call = job[c].call
  BY <1>8, <1>3 DEF Job
<1>5. /\ job' = [job EXCEPT ![c] = new]
      /\ UNCHANGED <<clock, events, baselines, built, calls, trails, overlapped>>
  BY <1>2 DEF ReadRecent, Goto, j
<1> HIDE DEF new
<1>6. (\A g \in Agents : ~ Computes(new, g)) /\ Accounted(new)
  BY <1>1, <1>2, <1>4 DEF Computes, Accounted
<1>7. QED  BY <1>1, <1>4, <1>5, <1>6, QuietStep

----------------------------------------------------------------------------
\* The route and the workflow: an alert, and what the trail says of it.
LEMMA RaiseAlertStep ==
    ASSUME IInv, NEW c \in Clients, RaiseAlert(c)
    PROVE  IInv'
<1>1. /\ job[c] \in Job /\ job[c].node = "alert" /\ job[c].agent \in Agents
      /\ "finding" \in Nodes /\ job[c].call \in 1 .. calls
  BY JobFacts DEF RaiseAlert, IInv, JobsInv, FindingsInv, Accounted, Over, Nodes
<1>2. PICK new \in Job :
          /\ job' = [job EXCEPT ![c] = new]
          /\ \/ /\ new.node = "finding" /\ new.agent = job[c].agent
                /\ new.call = job[c].call
             \/ new.node = "failed"
  <2>1. CASE Goto(c, job[c], "finding")
    <3> DEFINE n == [job[c] EXCEPT !.node = "finding"]
    <3>1. n \in Job /\ n.node = "finding" /\ n.agent = job[c].agent /\ n.call = job[c].call
      BY <1>1 DEF Job
    <3>2. job' = [job EXCEPT ![c] = n]
      BY <2>1 DEF Goto
    <3> HIDE DEF n
    <3>3. QED  BY <3>1, <3>2
  <2>2. CASE End(c, "failed")
    BY <2>2, EndFacts
  <2>3. QED  BY <2>1, <2>2 DEF RaiseAlert
<1>3. /\ alerts' = alerts \cup {job[c].call}
      /\ UNCHANGED <<clock, events, baselines, built, calls, watched, findings, overlapped>>
  BY DEF RaiseAlert
<1>4. JobsInv' /\ BaselinesInv'
  <2>1. \A g \in Agents : ~ Computes(new, g)
    BY <1>2 DEF Computes
  <2>2. QED  BY <1>1, <1>2, <1>3, <2>1, JobsKept DEF Over
<1>5. TypeOK' /\ IsFiniteSet(events)'
  BY <1>1, <1>2, <1>3, MovedFacts DEF IInv, TypeOK
<1>6. BuiltInv'
  <2>1. Building' \subseteq Building \cup {c} /\ c \notin Building'
    BY <1>2, MovedFacts
  <2>2. /\ IsFiniteSet(Building') /\ Cardinality(Building') <= Cardinality(Building)
        /\ Cardinality(Building') \in Nat /\ Cardinality(Building) \in Nat
    BY <2>1, SetStep DEF IInv, BuiltInv
  <2>3. QED  BY <1>3, <2>2 DEF IInv, BuiltInv, TypeOK
<1>7. FindingsInv'
  BY <1>1, <1>2, <1>3, FindingsKept
<1>8. QED  BY <1>4, <1>5, <1>6, <1>7 DEF IInv

LEMMA RecordFindingStep ==
    ASSUME IInv, NEW c \in Clients, RecordFinding(c)
    PROVE  IInv'
<1>1. /\ job[c].node = "finding" /\ job[c].agent \in Agents /\ job[c].call \in 1 .. calls
      /\ job[c].call \in watched => job[c].call \in alerts
  BY JobFacts DEF RecordFinding, IInv, JobsInv, FindingsInv, Accounted, Over
<1>2. PICK new \in Job : job' = [job EXCEPT ![c] = new] /\ new.node \in {"ended", "failed"}
  BY EndFacts DEF RecordFinding
<1>3. /\ findings' \subseteq findings \cup {job[c].call}
      /\ UNCHANGED <<clock, events, baselines, built, calls, watched, alerts, overlapped>>
  BY DEF RecordFinding
<1>4. JobsInv' /\ BaselinesInv'
  <2>1. \A g \in Agents : ~ Computes(new, g)
    BY <1>2 DEF Computes
  <2>2. QED  BY <1>2, <1>3, <2>1, JobsKept DEF Over
<1>5. TypeOK' /\ IsFiniteSet(events)'
  BY <1>1, <1>2, <1>3, MovedFacts DEF IInv, TypeOK
<1>6. BuiltInv'
  <2>1. Building' \subseteq Building \cup {c} /\ c \notin Building'
    BY <1>2, MovedFacts
  <2>2. /\ IsFiniteSet(Building') /\ Cardinality(Building') <= Cardinality(Building)
        /\ Cardinality(Building') \in Nat /\ Cardinality(Building) \in Nat
    BY <2>1, SetStep DEF IInv, BuiltInv
  <2>3. QED  BY <1>3, <2>2 DEF IInv, BuiltInv, TypeOK
<1>7. FindingsInv'
  <2>1. job'[c] = new /\ \A b \in Clients \ {c} : job'[b] = job[b]
    BY <1>2, MovedFacts
  <2>2. findings' \cap watched' \subseteq alerts'
    BY <1>1, <1>3 DEF IInv, FindingsInv, Accounted
  <2>3. \A d \in Clients : Accounted(job[d])'
    BY <1>2, <1>3, <2>1 DEF IInv, FindingsInv, Accounted
  <2>4. QED  BY <2>2, <2>3 DEF FindingsInv
<1>8. QED  BY <1>4, <1>5, <1>6, <1>7 DEF IInv

----------------------------------------------------------------------------
\* The requests that compute a baseline.
LEMMA StartAnalyzeStep ==
    ASSUME IInv, NEW c \in Clients, NEW g \in Agents, NEW kind \in {"analyze", "workflow"},
           StartAnalyze(c, g, kind)
    PROVE  IInv'
<1> DEFINE new == NewJob(kind, "baseline", g, calls + 1, 0)
<1>1. "baseline" \in Nodes
  BY DEF Nodes
<1>3. /\ calls < MaxCalls /\ calls' = calls + 1 /\ job' = [job EXCEPT ![c] = new]
      /\ watched \subseteq watched' /\ watched' \subseteq watched \cup {calls + 1}
      /\ UNCHANGED <<clock, events, baselines, built, alerts, findings, overlapped>>
  BY DEF StartAnalyze, Start
<1>2. new \in Job /\ new.node = "baseline" /\ new.agent = g /\ new.call = calls + 1
  <2>1. calls + 1 \in 0 .. MaxCalls
    BY <1>3 DEF IInv, TypeOK
  <2>2. QED  BY <1>1, <2>1, NewJobFacts
<1> HIDE DEF new
<1>4. JobsInv' /\ BaselinesInv'
  <2>1. \A a \in Agents : ~ Computes(new, a)
    BY <1>2 DEF Computes
  <2>2. QED  BY <1>2, <1>3, <2>1, JobsKept
<1>5. overlapped' \subseteq Agents
  BY <1>3 DEF IInv, TypeOK
<1>6. QED  BY <1>2, <1>3, <1>4, <1>5, StartedStep

LEMMA StartComputeStep ==
    ASSUME IInv, NEW c \in Clients, NEW g \in Agents, StartCompute(c, g)
    PROVE  IInv'
<1> DEFINE new == NewJob("compute", "events", g, 0, Since)
<1>1. "events" \in Nodes
  BY DEF Nodes
<1>2. Since \in Int
  BY DEF IInv, TypeOK, Since, Hours
<1>3. new \in Job /\ new.node = "events" /\ new.agent = g
  BY <1>1, <1>2, NewJobFacts
<1>4. /\ calls < MaxCalls /\ calls' = calls + 1 /\ job' = [job EXCEPT ![c] = new]
      /\ UNCHANGED <<clock, events, baselines, built, watched, alerts, findings>>
      /\ overlapped' = IF Computing(g) = {} THEN overlapped ELSE overlapped \cup {g}
  BY DEF StartCompute, Start
<1> HIDE DEF new
<1>5. overlapped' \in SUBSET Agents /\ overlapped \subseteq overlapped'
  BY <1>4 DEF IInv, TypeOK
<1>6. /\ job'[c] = new /\ \A b \in Clients \ {c} : job'[b] = job[b]
  BY <1>3, <1>4, MovedFacts
<1>7. \A b \in Clients \ {c} : Computes(job[b], g) => g \in overlapped'
  BY <1>4 DEF Computing, Computes
<1>8. Existing' = Existing /\ \A a : Active(a)' = Active(a)
  BY <1>4 DEF Existing, Active
<1>9. BaselinesInv'
  BY <1>4, <1>5, <1>8 DEF IInv, BaselinesInv
<1>10. JobsInv'
  <2> SUFFICES ASSUME NEW d \in Clients
               PROVE  /\ job'[d].node \notin Over => job'[d].agent \in Agents
                      /\ job'[d].node = "commit" =>
                             /\ job'[d].at \in 1 .. built' /\ baselines'[job'[d].at] = None
                             /\ job'[d].old \subseteq Existing'
                             /\ job'[d].agent \notin overlapped' =>
                                    Active(job[d].agent)' \subseteq job'[d].old
                      /\ \A b \in Clients \ {d} :
                             /\ job'[b].node = "commit" /\ job'[d].node = "commit" =>
                                    job'[b].at # job'[d].at
                             /\ \A a \in Agents :
                                    Computes(job[b], a)' /\ Computes(job[d], a)'
                                        => a \in overlapped'
    BY DEF JobsInv
  <2>1. \A b \in Clients : job'[b].node = "commit" => job'[b] = job[b] /\ b # c
    BY <1>3, <1>6
  <2>2. \A b \in Clients : \A a : Computes(job[b], a)' = Computes(job'[b], a)
    BY DEF Computes
  <2>3. job'[d].node = "commit" => Active(job[d].agent)' = Active(job[d].agent)
    BY <1>4, <2>1 DEF Active, Existing
  <2>4. job'[d].node \notin Over => job'[d].agent \in Agents
    BY <1>3, <1>6 DEF IInv, JobsInv
  <2>5. \A b \in Clients \ {d} : \A a \in Agents :
            Computes(job'[b], a) /\ Computes(job'[d], a) => a \in overlapped'
    <3>1. \A a : Computes(new, a) => a = g
      BY <1>3 DEF Computes
    <3>2. QED  BY <1>5, <1>6, <1>7, <3>1 DEF IInv, JobsInv
  <2>6. job'[d].node = "commit" =>
            /\ job'[d].at \in 1 .. built' /\ baselines'[job'[d].at] = None
            /\ job'[d].old \subseteq Existing'
            /\ job'[d].agent \notin overlapped' =>
                   Active(job[d].agent)' \subseteq job'[d].old
    BY <1>4, <1>5, <1>8, <2>1, <2>3 DEF IInv, JobsInv
  <2>7. \A b \in Clients \ {d} :
            job'[b].node = "commit" /\ job'[d].node = "commit" => job'[b].at # job'[d].at
    BY <2>1 DEF IInv, JobsInv
  <2>8. QED  BY <2>2, <2>4, <2>5, <2>6, <2>7
<1>11. QED  BY <1>3, <1>4, <1>5, <1>9, <1>10, StartedStep

\* Nothing changes for the agents and the other requests when one reads the
\* active baselines, and its own is the newest.
LEMMA ReadActiveStep ==
    ASSUME IInv, NEW c \in Clients, ReadActive(c)
    PROVE  IInv'
<1> DEFINE j == [job[c] EXCEPT !.old = Active(job[c].agent), !.at = built + 1]
           new == [j EXCEPT !.node = "commit"]
<1>1. /\ job[c] \in Job /\ job[c].node = "active" /\ job[c].agent \in Agents
      /\ "commit" \in Nodes /\ built \in Nat /\ calls \in 0 .. MaxCalls
      /\ built + Cardinality(Building) <= calls /\ IsFiniteSet(Building)
  <2>1. job[c] \in Job /\ job[c].node = "active" /\ job[c].agent \in Agents
    BY JobFacts DEF ReadActive, IInv, JobsInv, Over
  <2>2. "commit" \in Nodes
    BY DEF Nodes
  <2>3. /\ built \in Nat /\ calls \in 0 .. MaxCalls
        /\ built + Cardinality(Building) <= calls /\ IsFiniteSet(Building)
    BY DEF IInv, TypeOK, BuiltInv
  <2>4. QED  BY <2>1, <2>2, <2>3
<1>2. built + 1 <= MaxCalls
  <2>1. c \in Building /\ Building \ {c} \subseteq Building \cup {c} /\ c \notin Building \ {c}
    BY <1>1 DEF Building
  <2>2. Cardinality(Building \ {c}) + 1 <= Cardinality(Building)
        /\ Cardinality(Building) \in Nat /\ Cardinality(Building \ {c}) \in Nat
    BY <1>1, <2>1, SetStep
  <2>3. QED  BY <1>1, <2>2
<1>3. /\ j \in Job /\ j.agent = job[c].agent /\ j.at = built + 1
      /\ j.old = Active(job[c].agent)
  <2>1. PICK old \in SUBSET (1 .. MaxCalls) : old = Active(job[c].agent)
    BY ActiveFacts DEF IInv
  <2>2. built + 1 \in 0 .. MaxCalls
    BY <1>1, <1>2
  <2>3. j = [job[c] EXCEPT !.old = old, !.at = built + 1]
    BY <2>1
  <2> HIDE DEF j
  <2>4. QED  BY <1>1, <2>1, <2>2, <2>3 DEF Job
<1> HIDE DEF j
<1>4. /\ new \in Job /\ new.node = "commit" /\ new.agent = job[c].agent
      /\ new.at = built + 1 /\ new.old = Active(job[c].agent)
  BY <1>1, <1>3 DEF Job
<1>5. /\ job' = [job EXCEPT ![c] = new] /\ built' = built + 1
      /\ UNCHANGED <<clock, events, baselines, calls, trails, overlapped>>
  BY DEF ReadActive, Goto, j
<1> HIDE DEF new
<1>6. /\ job' \in [Clients -> Job] /\ job'[c] = new
      /\ \A b \in Clients \ {c} : job'[b] = job[b]
  BY <1>4, <1>5, MovedFacts
<1>7. Existing' = Existing /\ \A a : Active(a)' = Active(a)
  BY <1>5 DEF Existing, Active
<1>8. BaselinesInv'
  <2>1. Existing \subseteq Nat /\ \A i \in Existing : i <= built
    BY ActiveFacts DEF IInv, BaselinesInv
  <2>2. \A i \in Existing' : i <= built'
    BY <1>1, <1>5, <1>7, <2>1
  <2>3. \A g \in Agents \ overlapped' : \A i, k \in Active(g)' : i = k
    BY <1>5, <1>7 DEF IInv, BaselinesInv
  <2>4. QED  BY <2>2, <2>3 DEF BaselinesInv
<1>9. baselines[built + 1] = None
  BY <1>1, <1>2 DEF IInv, BaselinesInv, Existing, TypeOK
<1>10. JobsInv'
  <2> SUFFICES ASSUME NEW d \in Clients
               PROVE  /\ job'[d].node \notin Over => job'[d].agent \in Agents
                      /\ job'[d].node = "commit" =>
                             /\ job'[d].at \in 1 .. built' /\ baselines'[job'[d].at] = None
                             /\ job'[d].old \subseteq Existing'
                             /\ job'[d].agent \notin overlapped' =>
                                    Active(job[d].agent)' \subseteq job'[d].old
                      /\ \A b \in Clients \ {d} :
                             /\ job'[b].node = "commit" /\ job'[d].node = "commit" =>
                                    job'[b].at # job'[d].at
                             /\ \A a \in Agents :
                                    Computes(job[b], a)' /\ Computes(job[d], a)'
                                        => a \in overlapped'
    BY DEF JobsInv
  <2>1. job'[d].agent = job[d].agent
    BY <1>4, <1>6
  <2>2. Active(job[d].agent)' = Active(job[d].agent)
    BY <1>5, <2>1 DEF Active, Existing
  <2>3. \A b \in Clients : \A a : Computes(job[b], a)' <=> Computes(job[b], a)
    BY <1>1, <1>4, <1>6 DEF Computes
  <2>4. \A b \in Clients \ {d} : \A a \in Agents :
            Computes(job[b], a)' /\ Computes(job[d], a)' => a \in overlapped'
    BY <1>5, <2>3 DEF IInv, JobsInv
  <2>5. CASE d = c
    <3>1. job'[d].at = built + 1 /\ job'[d].old = Active(job[c].agent)
      BY <1>4, <1>6, <2>5
    <3>2. job'[d].old \subseteq Existing
      BY <3>1 DEF Active
    <3>3. \A b \in Clients \ {d} : job'[b].node = "commit" => job'[b].at # job'[d].at
      BY <1>1, <1>6, <2>5, <3>1 DEF IInv, JobsInv
    <3>4. QED  BY <1>1, <1>5, <1>7, <1>9, <2>1, <2>2, <2>4, <2>5, <3>1, <3>2, <3>3
  <2>6. CASE d # c
    <3>1. job'[d] = job[d]
      BY <1>6, <2>6
    <3>2. job[d].node \notin Over => job[d].agent \in Agents
      BY DEF IInv, JobsInv
    <3>3. job[d].node = "commit" =>
              /\ job[d].at \in 1 .. built /\ baselines[job[d].at] = None
              /\ job[d].old \subseteq Existing
              /\ job[d].agent \notin overlapped => Active(job[d].agent) \subseteq job[d].old
      BY DEF IInv, JobsInv
    <3>4. \A b \in Clients \ {d} : job'[b].node = "commit" /\ job'[d].node = "commit" =>
                                       job'[b].at # job'[d].at
      BY <1>1, <1>4, <1>6, <3>1, <3>3 DEF IInv, JobsInv
    <3>5. QED  BY <1>1, <1>5, <1>7, <2>1, <2>2, <2>4, <3>1, <3>2, <3>3, <3>4
  <2>7. QED  BY <2>5, <2>6
<1>11. TypeOK' /\ IsFiniteSet(events)'
  BY <1>1, <1>2, <1>5, <1>6 DEF trails, IInv, TypeOK
<1>12. BuiltInv'
  <2>1. Building' \subseteq Building \cup {c} /\ c \notin Building' /\ c \in Building
    BY <1>1, <1>4, <1>5, MovedFacts DEF Building
  <2>2. /\ IsFiniteSet(Building') /\ Cardinality(Building') + 1 <= Cardinality(Building)
        /\ Cardinality(Building') \in Nat /\ Cardinality(Building) \in Nat
    BY <1>1, <2>1, SetStep
  <2>3. QED  BY <1>1, <1>5, <2>2 DEF BuiltInv
<1>13. FindingsInv'
  BY <1>4, <1>5, FindingsKept DEF trails
<1>14. QED  BY <1>8, <1>10, <1>11, <1>12, <1>13 DEF IInv

\* What the commit writes: the new row is active, those it had read are not.
LEMMA CommitFacts ==
    ASSUME IInv, NEW c \in Clients, job[c].node = "commit", baselines' = Replace(c)
    PROVE  /\ baselines' \in [1 .. MaxCalls -> Baseline \cup {None}]
           /\ job[c].at \in 1 .. built
           /\ Existing' = Existing \cup {job[c].at}
           /\ \A i \in (1 .. MaxCalls) \ {job[c].at} :
                  baselines[i] = None => baselines'[i] = None
           /\ \A g : Active(g)' \subseteq Active(g) \cup {job[c].at}
           /\ \A g : g # job[c].agent => Active(g)' \subseteq Active(g)
           /\ \A i \in job[c].old : \A g : i \notin Active(g)'
<1> DEFINE row == [agent |-> job[c].agent, event_counts |-> job[c].counts,
                   is_active |-> TRUE]
<1>1. /\ job[c].agent \in Agents /\ job[c].counts \in Counts
      /\ job[c].at \in 1 .. built /\ baselines[job[c].at] = None
      /\ job[c].old \subseteq Existing
      /\ DOMAIN baselines = 1 .. MaxCalls
      /\ \A i \in 1 .. MaxCalls : baselines[i] \in Baseline \cup {None}
      /\ built <= MaxCalls /\ built \in Nat
  BY JobFacts, SMTT(30) DEF IInv, JobsInv, Over, TypeOK
<1>2. row \in Baseline /\ row.agent = job[c].agent /\ row # None
  <2>1. row \in Baseline
    BY <1>1 DEF Baseline
  <2>2. row.agent = job[c].agent
    OBVIOUS
  <2>3. QED  BY <2>1, <2>2
<1>3. job[c].at \in 1 .. MaxCalls /\ job[c].at \notin job[c].old
  BY <1>1 DEF Existing
<1>4. \A i \in Existing : /\ [baselines[i] EXCEPT !.is_active = FALSE] \in Baseline
                          /\ [baselines[i] EXCEPT !.is_active = FALSE] # None
                          /\ ~ [baselines[i] EXCEPT !.is_active = FALSE].is_active
  BY <1>1 DEF Existing, Baseline
<1>5. baselines' = [i \in 1 .. MaxCalls |->
                       IF i = job[c].at THEN row
                       ELSE IF i \in job[c].old
                            THEN [baselines[i] EXCEPT !.is_active = FALSE]
                       ELSE baselines[i]]
  BY <1>1 DEF Replace
<1> HIDE DEF row
<1>6. /\ DOMAIN baselines' = 1 .. MaxCalls /\ baselines'[job[c].at] = row
      /\ \A i \in job[c].old : /\ baselines'[i] \in Baseline /\ baselines'[i] # None
                               /\ ~ baselines'[i].is_active
      /\ \A i \in 1 .. MaxCalls :
             i # job[c].at /\ i \notin job[c].old => baselines'[i] = baselines[i]
  BY <1>1, <1>3, <1>4, <1>5 DEF Existing
<1>7. baselines' \in [1 .. MaxCalls -> Baseline \cup {None}]
  <2>1. \A i \in 1 .. MaxCalls : baselines'[i] \in Baseline \cup {None}
    BY <1>1, <1>2, <1>6
  <2>2. QED  BY <1>5, <2>1
<1>8. Existing' = Existing \cup {job[c].at}
  BY <1>1, <1>2, <1>3, <1>6 DEF Existing
<1>9. \A g : Active(g)' \subseteq Active(g) \cup {job[c].at}
  BY <1>1, <1>6, <1>8 DEF Active, Existing
<1>10. \A g : g # job[c].agent => job[c].at \notin Active(g)'
  BY <1>2, <1>6 DEF Active
<1>11. \A i \in job[c].old : \A g : i \notin Active(g)'
  BY <1>6 DEF Active
<1>12. \A i \in (1 .. MaxCalls) \ {job[c].at} :
           baselines[i] = None => baselines'[i] = None
  BY <1>1, <1>6 DEF Existing
<1>13. QED  BY <1>1, <1>7, <1>8, <1>9, <1>10, <1>11, <1>12

LEMMA CommitBaselineStep ==
    ASSUME IInv, NEW c \in Clients, CommitBaseline(c)
    PROVE  IInv'
<1>1. PICK new \in Job : job' = [job EXCEPT ![c] = new] /\ new.node \in {"ended", "failed"}
  BY EndFacts DEF CommitBaseline
<1>2. /\ job[c].node = "commit" /\ baselines' = Replace(c)
      /\ UNCHANGED <<clock, events, built, calls, trails, overlapped>>
  BY DEF CommitBaseline
<1>3. /\ job' \in [Clients -> Job] /\ job'[c] = new
      /\ \A b \in Clients \ {c} : job'[b] = job[b]
  BY <1>1, MovedFacts
<1>4. /\ baselines' \in [1 .. MaxCalls -> Baseline \cup {None}]
      /\ job[c].at \in 1 .. built
      /\ Existing' = Existing \cup {job[c].at}
      /\ \A i \in (1 .. MaxCalls) \ {job[c].at} :
             baselines[i] = None => baselines'[i] = None
      /\ \A g : Active(g)' \subseteq Active(g) \cup {job[c].at}
      /\ \A g : g # job[c].agent => Active(g)' \subseteq Active(g)
      /\ \A i \in job[c].old : \A g : i \notin Active(g)'
  BY <1>2, CommitFacts
<1>5. TypeOK' /\ IsFiniteSet(events)'
  BY <1>2, <1>3, <1>4 DEF trails, IInv, TypeOK
<1>6. BaselinesInv'
  <2>1. \A i \in Existing' : i <= built'
    BY <1>2, <1>4 DEF IInv, BaselinesInv
  <2>2. ASSUME NEW g \in Agents \ overlapped', NEW i \in Active(g)', NEW k \in Active(g)'
        PROVE  i = k
    <3>1. CASE g = job[c].agent
      <4>1. Active(g) \subseteq job[c].old
        BY <1>2, <2>2, <3>1 DEF IInv, JobsInv
      <4>2. Active(g)' \subseteq {job[c].at}
        BY <1>4, <4>1
      <4>3. QED  BY <2>2, <4>2
    <3>2. CASE g # job[c].agent
      <4>1. Active(g)' \subseteq Active(g)
        BY <1>4, <3>2
      <4>2. QED  BY <1>2, <2>2, <4>1 DEF IInv, BaselinesInv
    <3>3. QED  BY <3>1, <3>2
  <2>3. QED  BY <2>1, <2>2 DEF BaselinesInv
<1>7. JobsInv'
  <2> SUFFICES ASSUME NEW d \in Clients
               PROVE  /\ job'[d].node \notin Over => job'[d].agent \in Agents
                      /\ job'[d].node = "commit" =>
                             /\ job'[d].at \in 1 .. built' /\ baselines'[job'[d].at] = None
                             /\ job'[d].old \subseteq Existing'
                             /\ job'[d].agent \notin overlapped' =>
                                    Active(job[d].agent)' \subseteq job'[d].old
                      /\ \A b \in Clients \ {d} :
                             /\ job'[b].node = "commit" /\ job'[d].node = "commit" =>
                                    job'[b].at # job'[d].at
                             /\ \A a \in Agents :
                                    Computes(job[b], a)' /\ Computes(job[d], a)'
                                        => a \in overlapped'
    BY DEF JobsInv
  <2>1. \A b \in Clients : job'[b].node \notin Over => job'[b] = job[b] /\ b # c
    BY <1>1, <1>3 DEF Over
  <2>2. \A b \in Clients : \A a : Computes(job[b], a)' => Computes(job[b], a)
    BY <1>1, <1>3 DEF Computes
  <2>3. \A b \in Clients \ {d} : \A a \in Agents :
            Computes(job[b], a)' /\ Computes(job[d], a)' => a \in overlapped'
    BY <1>2, <2>2 DEF IInv, JobsInv
  <2>4. job'[d].node \notin Over => job'[d].agent \in Agents
    BY <2>1 DEF IInv, JobsInv
  <2>5. \A b \in Clients \ {d} :
            job'[b].node = "commit" /\ job'[d].node = "commit" => job'[b].at # job'[d].at
    BY <2>1 DEF IInv, JobsInv, Over
  <2>6. ASSUME job'[d].node = "commit"
        PROVE  /\ job'[d].at \in 1 .. built' /\ baselines'[job'[d].at] = None
               /\ job'[d].old \subseteq Existing'
               /\ job'[d].agent \notin overlapped' =>
                      Active(job[d].agent)' \subseteq job'[d].old
    <3>1. job'[d] = job[d] /\ d # c /\ job[d].node = "commit"
      BY <2>1, <2>6 DEF Over
    <3>2. /\ job[d].at \in 1 .. built /\ baselines[job[d].at] = None
          /\ job[d].old \subseteq Existing /\ job[d].agent \in Agents
          /\ job[d].agent \notin overlapped => Active(job[d].agent) \subseteq job[d].old
          /\ job[d].at # job[c].at
          /\ Computes(job[c], job[d].agent) /\ Computes(job[d], job[d].agent)
                 => job[d].agent \in overlapped
      BY <1>2, <3>1 DEF IInv, JobsInv, Over
    <3>3. baselines'[job[d].at] = None
      BY <1>4, <3>2 DEF IInv, TypeOK
    <3>4. ASSUME job[d].agent \notin overlapped
          PROVE  Active(job[d].agent)' \subseteq job[d].old
      <4>1. job[d].agent # job[c].agent
        BY <1>2, <3>1, <3>2, <3>4 DEF Computes
      <4>2. job'[d].agent = job[d].agent
        BY <3>1
      <4>3. PICK a : a = job[d].agent /\ a = job'[d].agent
        BY <4>2
      <4>4. Active(a)' \subseteq Active(a) /\ Active(a) \subseteq job[d].old
        BY <1>4, <3>2, <3>4, <4>1, <4>3
      <4>5. Active(job[d].agent)' = Active(a)'
        BY <4>3 DEF Active
      <4>6. QED  BY <4>4, <4>5
    <3>5. QED  BY <1>2, <1>4, <3>1, <3>2, <3>3, <3>4
  <2>7. QED  BY <2>3, <2>4, <2>5, <2>6
<1>8. BuiltInv'
  <2>1. Building' \subseteq Building \cup {c} /\ c \notin Building'
    BY <1>1, MovedFacts
  <2>2. /\ IsFiniteSet(Building') /\ Cardinality(Building') <= Cardinality(Building)
        /\ Cardinality(Building') \in Nat /\ Cardinality(Building) \in Nat
    BY <2>1, SetStep DEF IInv, BuiltInv
  <2>3. QED  BY <1>2, <2>2 DEF IInv, BuiltInv, TypeOK
<1>9. FindingsInv'
  BY <1>1, <1>2, FindingsKept DEF trails
<1>10. QED  BY <1>5, <1>6, <1>7, <1>8, <1>9 DEF IInv

----------------------------------------------------------------------------
LEMMA NextStep == IInv /\ [Next]_vars => IInv'
<1> SUFFICES ASSUME IInv, [Next]_vars PROVE IInv'
  OBVIOUS
<1>1. ASSUME NEW g \in Agents, NEW t \in Types, NEW h \in Hours, StoreEvent(g, t, h)
      PROVE  IInv'
  BY <1>1, StoreEventStep
<1>2. CASE NextHour
  BY <1>2, NextHourStep
<1>3. ASSUME NEW i \in Existing, Deactivate(i) PROVE IInv'
  BY <1>3, DeactivateStep
<1>4. ASSUME NEW c \in Clients, NEW g \in Agents, StartCompute(c, g) PROVE IInv'
  BY <1>4, StartComputeStep
<1>5. ASSUME NEW c \in Clients, NEW g \in Agents, NEW kind \in {"analyze", "workflow"},
             StartAnalyze(c, g, kind)
      PROVE  IInv'
  BY <1>5, StartAnalyzeStep
<1>6. ASSUME NEW c \in Clients, Step(c) PROVE IInv'
  <2>1. CASE ReadEvents(c)
    BY <2>1, ReadEventsStep
  <2>2. CASE ReadActive(c)
    BY <2>2, ReadActiveStep
  <2>3. CASE CommitBaseline(c)
    BY <2>3, CommitBaselineStep
  <2>4. CASE ReadBaseline(c)
    BY <2>4, ReadBaselineStep
  <2>5. CASE ReadRecent(c)
    BY <2>5, ReadRecentStep
  <2>6. CASE RaiseAlert(c)
    BY <2>6, RaiseAlertStep
  <2>7. CASE RecordFinding(c)
    BY <2>7, RecordFindingStep
  <2>8. CASE Fail(c)
    BY <2>8, FailStep
  <2>9. QED  BY <1>6, <2>1, <2>2, <2>3, <2>4, <2>5, <2>6, <2>7, <2>8 DEF Step
<1>7. CASE UNCHANGED vars
  BY <1>7, StutterStep
<1>8. QED  BY <1>1, <1>2, <1>3, <1>4, <1>5, <1>6, <1>7 DEF Next

----------------------------------------------------------------------------
\* Induction over the subsets of a finite set, `good' those the claim holds for.
LEMMA SubsetInduction ==
    ASSUME NEW S, IsFiniteSet(S), NEW good,
           \A T \in SUBSET S : (\A U \in SUBSET T : U # T => U \in good) => T \in good
    PROVE  S \in good
<1> DEFINE bad == {T \in SUBSET S : T \notin good}
           smaller == StrictSubsetOrdering(S)
<1> SUFFICES ASSUME bad # {} PROVE FALSE
  OBVIOUS
<1>1. IsWellFoundedOn(smaller, SUBSET S)
  <2>1. FiniteSubsetsOf(S) = SUBSET S
    BY FS_FiniteSubsetsOfFinite
  <2>2. IsWellFoundedOn(smaller, FiniteSubsetsOf(S))
    BY FS_StrictSubsetOrderingWellFounded
  <2> HIDE DEF smaller
  <2>3. QED  BY <2>1, <2>2
<1>2. bad \subseteq SUBSET S
  OBVIOUS
<1>3. \E T \in bad : \A U \in bad : <<U, T>> \notin smaller
  <2> HIDE DEF bad, smaller
  <2> QED  BY <1>1, <1>2, WFMin
<1>4. PICK T \in bad : \A U \in bad : <<U, T>> \notin smaller
  BY <1>3
<1>5. \A U \in SUBSET T : U # T => U \in good
  BY <1>4 DEF StrictSubsetOrdering
<1>6. QED  BY <1>4, <1>5

Chosen(S) == CHOOSE x \in S : TRUE

LEMMA ChosenIn == \A S : S # {} => Chosen(S) \in S
BY DEF Chosen

\* h gives the sum of f over every subset of S, as the fold computes it.
IsSums(h, f, S) ==
    h = [T \in SUBSET S |->
            IF T = {} THEN 0 ELSE f[Chosen(T)] + h[T \ {Chosen(T)}]]

LEMMA SumsEquation ==
    ASSUME NEW h, NEW f, NEW S, IsSums(h, f, S), NEW T \in SUBSET S
    PROVE  h[T] = IF T = {} THEN 0 ELSE f[Chosen(T)] + h[T \ {Chosen(T)}]
BY Zenon DEF IsSums

LEMMA SumsAgree ==
    ASSUME NEW S, IsFiniteSet(S), NEW U \in SUBSET S, NEW f, NEW h, NEW k,
           IsSums(h, f, S), IsSums(k, f, U)
    PROVE  h[U] = k[U]
<1> DEFINE good == {T \in SUBSET U : h[T] = k[T]}
<1>1. ASSUME NEW T \in SUBSET U, \A V \in SUBSET T : V # T => V \in good
      PROVE  T \in good
  <2>1. /\ h[T] = IF T = {} THEN 0 ELSE f[Chosen(T)] + h[T \ {Chosen(T)}]
        /\ k[T] = IF T = {} THEN 0 ELSE f[Chosen(T)] + k[T \ {Chosen(T)}]
    BY SumsEquation, ZenonT(40)
  <2>2. T # {} => T \ {Chosen(T)} \in good
    BY <1>1, ChosenIn
  <2>3. QED  BY <2>1, <2>2
<1>2. IsFiniteSet(U)
  BY FS_Subset
<1>3. U \in good
  <2> HIDE DEF good
  <2> QED  BY <1>1, <1>2, SubsetInduction
<1>4. QED  BY <1>3

LEMMA SumsExist == ASSUME NEW S, IsFiniteSet(S), NEW f PROVE \E h : IsSums(h, f, S)
<1> DEFINE Sums(T) == CHOOSE h : IsSums(h, f, T)
           good == {T \in SUBSET S : IsSums(Sums(T), f, T)}
<1>1. ASSUME NEW T \in SUBSET S, \A U \in SUBSET T : U # T => U \in good
      PROVE  T \in good
  <2> DEFINE Rest(U) == U \ {Chosen(U)}
             h == [U \in SUBSET T |->
                      IF U = {} THEN 0 ELSE f[Chosen(U)] + Sums(Rest(U))[Rest(U)]]
  <2>1. ASSUME NEW U \in SUBSET T, U # {}
        PROVE  h[Rest(U)] = Sums(Rest(U))[Rest(U)]
    <3> DEFINE V == Rest(U)
    <3>1. V \in SUBSET T /\ V # T
      BY <2>1, ChosenIn
    <3>2. IsSums(Sums(V), f, V) /\ IsFiniteSet(V)
      <4>1. V \in good
        BY <1>1, <3>1
      <4>2. V \subseteq S
        BY <3>1
      <4>3. QED  BY <4>1, <4>2, FS_Subset
    <3>3. Sums(V)[V] = IF V = {} THEN 0 ELSE f[Chosen(V)] + Sums(V)[Rest(V)]
      <4> HIDE DEF V, Sums
      <4>1. V \in SUBSET V
        OBVIOUS
      <4>2. QED  BY <3>2, <4>1, SumsEquation
    <3>4. V # {} => Sums(V)[Rest(V)] = Sums(Rest(V))[Rest(V)]
      <4> SUFFICES ASSUME V # {} PROVE Sums(V)[Rest(V)] = Sums(Rest(V))[Rest(V)]
        OBVIOUS
      <4>1. Rest(V) \in SUBSET T /\ Rest(V) # T /\ Rest(V) \in SUBSET V
        BY <3>1, ChosenIn
      <4>2. Rest(V) \in good
        BY <1>1, <4>1
      <4>3. IsSums(Sums(Rest(V)), f, Rest(V))
        BY <4>2
      <4> HIDE DEF V, Sums, Rest
      <4>4. QED  BY <3>2, <4>1, <4>3, SumsAgree
    <3>5. h[V] = IF V = {} THEN 0 ELSE f[Chosen(V)] + Sums(Rest(V))[Rest(V)]
      <4> HIDE DEF V, Sums, Rest
      <4> QED  BY <3>1
    <3>6. QED
      <4> HIDE DEF Sums, Rest, h
      <4> QED  BY <3>3, <3>4, <3>5
  <2>2. h = [U \in SUBSET T |-> IF U = {} THEN 0 ELSE f[Chosen(U)] + h[U \ {Chosen(U)}]]
    <3>1. h = [U \in SUBSET T |-> h[U]]
      OBVIOUS
    <3>2. ASSUME NEW U \in SUBSET T
          PROVE  h[U] = IF U = {} THEN 0 ELSE f[Chosen(U)] + h[Rest(U)]
      <4>1. h[U] = IF U = {} THEN 0 ELSE f[Chosen(U)] + Sums(Rest(U))[Rest(U)]
        <5> HIDE DEF Sums, Rest
        <5> QED  OBVIOUS
      <4>2. U # {} => h[Rest(U)] = Sums(Rest(U))[Rest(U)]
        BY <2>1
      <4> HIDE DEF h, Sums, Rest
      <4>3. QED  BY <4>1, <4>2
    <3> HIDE DEF h
    <3>3. QED  BY <3>1, <3>2
  <2>3. \E g : IsSums(g, f, T)
    <3> HIDE DEF h
    <3> QED  BY <2>2 DEF IsSums
  <2>4. QED  BY <2>3
<1>2. S \in good
  <2> HIDE DEF good
  <2> QED  BY <1>1, SubsetInduction
<1>3. QED  BY <1>2

LEMMA SumIsFold == ASSUME NEW f, NEW S PROVE Sum(f, S) = (CHOOSE h : IsSums(h, f, S))[S]
BY Zenon DEF Sum, MapThenSumSet, MapThenFoldSet, IsSums, Chosen

LEMMA SumEquation ==
    ASSUME NEW f, NEW S, IsFiniteSet(S)
    PROVE  Sum(f, S) = IF S = {} THEN 0 ELSE f[Chosen(S)] + Sum(f, S \ {Chosen(S)})
<1> DEFINE h == CHOOSE h : IsSums(h, f, S)
           T == S \ {Chosen(S)}
           k == CHOOSE k : IsSums(k, f, T)
<1>1. IsFiniteSet(T) /\ T \in SUBSET S
  BY FS_Subset
<1>2. IsSums(h, f, S) /\ IsSums(k, f, T)
  BY <1>1, SumsExist
<1>3. Sum(f, S) = h[S] /\ Sum(f, T) = k[T]
  BY SumIsFold
<1>4. h[S] = IF S = {} THEN 0 ELSE f[Chosen(S)] + h[T]
  <2> HIDE DEF h
  <2> QED  BY <1>2, SumsEquation
<1>5. h[T] = k[T]
  <2> HIDE DEF h, k, T
  <2> QED  BY <1>1, <1>2, SumsAgree
<1>6. QED
  <2> HIDE DEF h, k
  <2> QED  BY <1>3, <1>4, <1>5

LEMMA SumEmpty == \A f : Sum(f, {}) = 0
BY SumEquation, FS_EmptySet

\* A sum is among any numbers that are closed under addition.
LEMMA SumClosed ==
    ASSUME NEW N, 0 \in N, \A i, j \in N : i + j \in N,
           NEW S, IsFiniteSet(S), NEW f, \A x \in S : f[x] \in N
    PROVE  Sum(f, S) \in N
<1> DEFINE good == {T \in SUBSET S : Sum(f, T) \in N}
<1>1. ASSUME NEW T \in SUBSET S, \A U \in SUBSET T : U # T => U \in good
      PROVE  T \in good
  <2>1. IsFiniteSet(T)
    BY FS_Subset
  <2>2. Sum(f, T) = IF T = {} THEN 0 ELSE f[Chosen(T)] + Sum(f, T \ {Chosen(T)})
    BY <2>1, SumEquation
  <2>3. T # {} => Sum(f, T \ {Chosen(T)}) \in N /\ f[Chosen(T)] \in N
    BY <1>1, ChosenIn
  <2>4. QED  BY <2>2, <2>3
<1>2. S \in good
  <2> HIDE DEF good
  <2> QED  BY <1>1, SubsetInduction
<1>3. QED  BY <1>2

LEMMA SumType ==
    ASSUME NEW S, IsFiniteSet(S), NEW f
    PROVE  /\ (\A x \in S : f[x] \in Int) => Sum(f, S) \in Int
           /\ (\A x \in S : f[x] \in Nat) => Sum(f, S) \in Nat
<1>1. 0 \in Int /\ 0 \in Nat /\ (\A i, j \in Int : i + j \in Int)
      /\ (\A i, j \in Nat : i + j \in Nat)
  OBVIOUS
<1>2. ASSUME \A x \in S : f[x] \in Int PROVE Sum(f, S) \in Int
  BY <1>1, <1>2, SumClosed
<1>3. ASSUME \A x \in S : f[x] \in Nat PROVE Sum(f, S) \in Nat
  BY <1>1, <1>3, SumClosed
<1>4. QED  BY <1>2, <1>3

\* Any element can be taken out of a sum.
LEMMA SumRemove ==
    ASSUME NEW S, IsFiniteSet(S), NEW f, \A x \in S : f[x] \in Int, NEW x \in S
    PROVE  /\ Sum(f, S) = f[x] + Sum(f, S \ {x})
           /\ Sum(f, S \ {x}) \in Int
<1> DEFINE good == {T \in SUBSET S : \A y \in T : Sum(f, T) = f[y] + Sum(f, T \ {y})}
<1>1. ASSUME NEW T \in SUBSET S, \A U \in SUBSET T : U # T => U \in good
      PROVE  T \in good
  <2> SUFFICES ASSUME NEW y \in T PROVE Sum(f, T) = f[y] + Sum(f, T \ {y})
    OBVIOUS
  <2> DEFINE c == Chosen(T)
  <2>1. IsFiniteSet(T) /\ c \in T
    BY FS_Subset, ChosenIn
  <2>2. Sum(f, T) = f[c] + Sum(f, T \ {c})
    BY <2>1, SumEquation
  <2>3. CASE y # c
    <3> HIDE DEF c
    <3>1. Sum(f, T \ {c}) = f[y] + Sum(f, (T \ {c}) \ {y})
      BY <1>1, <2>1, <2>3
    <3>2. Sum(f, T \ {y}) = f[c] + Sum(f, (T \ {y}) \ {c})
      BY <1>1, <2>1, <2>3
    <3>3. Sum(f, (T \ {c}) \ {y}) = Sum(f, (T \ {y}) \ {c})
      <4>1. (T \ {c}) \ {y} = (T \ {y}) \ {c}
        OBVIOUS
      <4>2. QED  BY <4>1
    <3>4. Sum(f, (T \ {c}) \ {y}) \in Int /\ f[c] \in Int /\ f[y] \in Int
      <4>1. IsFiniteSet((T \ {c}) \ {y})
        BY <2>1, FS_Subset
      <4>2. QED  BY <2>1, <4>1, SumType
    <3>5. QED  BY <2>2, <3>1, <3>2, <3>3, <3>4
  <2>4. QED  BY <2>2, <2>3
<1>2. S \in good
  <2> HIDE DEF good
  <2> QED  BY <1>1, SubsetInduction
<1>3. Sum(f, S \ {x}) \in Int
  BY FS_Subset, SumType
<1>4. QED  BY <1>2, <1>3

\* A weighted difference can be summed term by term.
LEMMA SumLinear ==
    ASSUME NEW S, IsFiniteSet(S), NEW f, NEW g, NEW d, NEW p \in Int, NEW q \in Int,
           \A x \in S : f[x] \in Int /\ g[x] \in Int /\ d[x] = f[x] * p - g[x] * q
    PROVE  Sum(d, S) = Sum(f, S) * p - Sum(g, S) * q
<1> DEFINE good == {T \in SUBSET S : Sum(d, T) = Sum(f, T) * p - Sum(g, T) * q}
<1>1. ASSUME NEW T \in SUBSET S, \A U \in SUBSET T : U # T => U \in good
      PROVE  T \in good
  <2>1. CASE T = {}
    BY <2>1, SumEmpty
  <2>2. CASE T # {}
    <3>1. PICK x \in T : TRUE
      BY <2>2
    <3> DEFINE R == T \ {x}
    <3>2. IsFiniteSet(T) /\ x \in S /\ \A y \in T : d[y] \in Int
      BY FS_Subset
    <3>3. /\ Sum(d, T) = d[x] + Sum(d, R) /\ Sum(d, R) \in Int
          /\ Sum(f, T) = f[x] + Sum(f, R) /\ Sum(f, R) \in Int
          /\ Sum(g, T) = g[x] + Sum(g, R) /\ Sum(g, R) \in Int
      BY <3>2, SumRemove
    <3>4. Sum(d, R) = Sum(f, R) * p - Sum(g, R) * q
      BY <1>1
    <3> HIDE DEF R
    <3>5. /\ (f[x] + Sum(f, R)) * p = f[x] * p + Sum(f, R) * p
          /\ (g[x] + Sum(g, R)) * q = g[x] * q + Sum(g, R) * q
      BY <3>2, <3>3
    <3>6. /\ f[x] * p \in Int /\ Sum(f, R) * p \in Int
          /\ g[x] * q \in Int /\ Sum(g, R) * q \in Int
      BY <3>2, <3>3
    <3>7. Sum(d, T) = Sum(f, T) * p - Sum(g, T) * q
      BY <3>2, <3>3, <3>4, <3>5, <3>6
    <3>8. QED  BY <3>7
  <2>3. QED  BY <2>1, <2>2
<1>2. S \in good
  <2> HIDE DEF good
  <2> QED  BY <1>1, SubsetInduction
<1>3. QED  BY <1>2

\* The sum over a part of a set, one element taken out of the set.
LEMMA SumPart ==
    ASSUME NEW S, IsFiniteSet(S), NEW f, \A x \in S : f[x] \in Int, NEW x \in S, NEW P
    PROVE  /\ Sum(f, S \cap P) = (IF x \in P THEN f[x] ELSE 0) + Sum(f, (S \ {x}) \cap P)
           /\ Sum(f, (S \ {x}) \cap P) \in Int
<1>1. IsFiniteSet(S \cap P) /\ IsFiniteSet((S \ {x}) \cap P)
  BY FS_Subset
<1>2. Sum(f, (S \ {x}) \cap P) \in Int
  BY <1>1, SumType
<1>3. CASE x \in P
  <2>1. x \in S \cap P /\ (S \cap P) \ {x} = (S \ {x}) \cap P
    BY <1>3
  <2>2. Sum(f, S \cap P) = f[x] + Sum(f, (S \cap P) \ {x})
    BY <1>1, <2>1, SumRemove
  <2>3. QED  BY <1>2, <1>3, <2>1, <2>2
<1>4. CASE x \notin P
  <2>1. S \cap P = (S \ {x}) \cap P
    BY <1>4
  <2>2. Sum(f, S \cap P) = Sum(f, (S \ {x}) \cap P)
    BY <2>1
  <2>3. QED  BY <1>2, <1>4, <2>2
<1>5. QED  BY <1>3, <1>4

\* The positive terms of d make the largest sum of any part, and what they make
\* beyond the sum of all is what the negative terms take.
LEMMA SumPositive ==
    ASSUME NEW S, IsFiniteSet(S), NEW d, \A x \in S : d[x] \in Int, NEW a,
           \A x \in S : a[x] = Absolute(d[x]),
           NEW P, \A x \in S : x \in P <=> d[x] > 0, NEW Q
    PROVE  /\ Sum(a, S) = 2 * Sum(d, S \cap P) - Sum(d, S)
           /\ Sum(d, S \cap Q) <= Sum(d, S \cap P)
<1> DEFINE good == {T \in SUBSET S : /\ Sum(a, T) = 2 * Sum(d, T \cap P) - Sum(d, T)
                                     /\ Sum(d, T \cap Q) <= Sum(d, T \cap P)}
<1>1. ASSUME NEW T \in SUBSET S, \A U \in SUBSET T : U # T => U \in good
      PROVE  T \in good
  <2>1. CASE T = {}
    <3>1. T \cap P = {} /\ T \cap Q = {}
      BY <2>1
    <3>2. QED  BY <2>1, <3>1, SumEmpty
  <2>2. CASE T # {}
    <3>1. PICK x \in T : TRUE
      BY <2>2
    <3> DEFINE R == T \ {x}
    <3>2. /\ IsFiniteSet(T) /\ x \in S /\ d[x] \in Int /\ a[x] = Absolute(d[x])
          /\ \A y \in T : d[y] \in Int /\ a[y] \in Int
          /\ x \in P <=> d[x] > 0
      BY FS_Subset DEF Absolute
    <3>3. /\ Sum(a, T) = a[x] + Sum(a, R) /\ Sum(a, R) \in Int
          /\ Sum(d, T) = d[x] + Sum(d, R) /\ Sum(d, R) \in Int
      BY <3>2, SumRemove
    <3>4. /\ Sum(d, T \cap P) = (IF x \in P THEN d[x] ELSE 0) + Sum(d, R \cap P)
          /\ Sum(d, R \cap P) \in Int
          /\ Sum(d, T \cap Q) = (IF x \in Q THEN d[x] ELSE 0) + Sum(d, R \cap Q)
          /\ Sum(d, R \cap Q) \in Int
      BY <3>2, SumPart
    <3>5. /\ Sum(a, R) = 2 * Sum(d, R \cap P) - Sum(d, R)
          /\ Sum(d, R \cap Q) <= Sum(d, R \cap P)
      BY <1>1
    <3> HIDE DEF R
    <3>6. Sum(a, T) = 2 * Sum(d, T \cap P) - Sum(d, T)
      BY <3>2, <3>3, <3>4, <3>5 DEF Absolute
    <3>7. Sum(d, T \cap Q) <= Sum(d, T \cap P)
      BY <3>2, <3>4, <3>5
    <3>8. QED  BY <3>6, <3>7
  <2>3. QED  BY <2>1, <2>2
<1>2. S \in good
  <2> HIDE DEF good
  <2> QED  BY <1>1, SubsetInduction
<1>3. QED  BY <1>2

\* The distance is twice the largest difference of the shares of a set of types.
LEMMA VariationFacts ==
    ASSUME NEW b \in Counts, NEW r \in Counts
    PROVE  /\ Total(b) \in Nat /\ Total(r) \in Nat /\ Variation(b, r) \in Int
           /\ Distance(b, r) = 2 * Variation(b, r)
<1> DEFINE p == Total(r)
           q == Total(b)
           d == [t \in Types |-> b[t] * p - r[t] * q]
           positive == {t \in Types : d[t] > 0}
           a == Deltas(b, r)
           values == {Sum(b, S) * p - Sum(r, S) * q : S \in SUBSET Types}
<1>1. IsFiniteSet(Types) /\ \A t \in Types : b[t] \in Nat /\ r[t] \in Nat
  BY TypesAssumption DEF Counts
<1>2. p \in Nat /\ q \in Nat
  BY <1>1, SumType DEF Total
<1>3. \A t \in Types : d[t] = b[t] * p - r[t] * q
  OBVIOUS
<1>4. \A t \in Types : d[t] \in Int
  <2> HIDE DEF p, q, d
  <2> QED  BY <1>1, <1>2, <1>3
<1>5. \A S \in SUBSET Types : /\ IsFiniteSet(S)
                              /\ Sum(d, S) = Sum(b, S) * p - Sum(r, S) * q
                              /\ Sum(d, S) \in Int
  <2> SUFFICES ASSUME NEW S \in SUBSET Types
               PROVE  /\ IsFiniteSet(S) /\ Sum(d, S) \in Int
                      /\ Sum(d, S) = Sum(b, S) * p - Sum(r, S) * q
    OBVIOUS
  <2>1. IsFiniteSet(S)
    BY <1>1, FS_Subset
  <2> HIDE DEF p, q, d
  <2>2. Sum(d, S) = Sum(b, S) * p - Sum(r, S) * q
    BY <1>1, <1>2, <1>3, <2>1, SumLinear
  <2>3. Sum(d, S) \in Int
    BY <1>4, <2>1, SumType
  <2>4. QED  BY <2>1, <2>2, <2>3
<1>6. Sum(d, Types) = 0
  <2>1. Sum(d, Types) = q * p - p * q
    BY <1>5 DEF Total
  <2> HIDE DEF p, q, d
  <2>2. QED  BY <1>2, <2>1
<1>7. ASSUME NEW S \in SUBSET Types
      PROVE  /\ Distance(b, r) = 2 * Sum(d, positive) - Sum(d, Types)
             /\ Sum(d, S) <= Sum(d, positive)
  <2>1. \A t \in Types : a[t] = Absolute(d[t])
    BY DEF Deltas
  <2>2. \A t \in Types : t \in positive <=> d[t] > 0
    OBVIOUS
  <2>3. Types \cap positive = positive /\ Types \cap S = S
    OBVIOUS
  <2>4. Distance(b, r) = Sum(a, Types)
    BY DEF Distance
  <2> HIDE DEF p, q, d, a, positive
  <2>5. /\ Sum(a, Types) = 2 * Sum(d, Types \cap positive) - Sum(d, Types)
        /\ Sum(d, Types \cap S) <= Sum(d, Types \cap positive)
    BY <1>1, <1>4, <2>1, <2>2, SumPositive
  <2>6. QED  BY <2>3, <2>4, <2>5
<1>8. Variation(b, r) = Sum(d, positive)
  <2>1. positive \in SUBSET Types
    OBVIOUS
  <2>2. Variation(b, r) = Max(values)
    BY DEF Variation
  <2>3. Sum(d, positive) \in values /\ \A v \in values : v <= Sum(d, positive) /\ v \in Int
    <3> HIDE DEF p, q, d, positive
    <3> QED  BY <1>5, <1>7, <2>1
  <2>4. Sum(d, positive) \in Int
    BY <1>5, <2>1
  <2> HIDE DEF values, d, positive
  <2>5. QED  BY <2>2, <2>3, <2>4 DEF Max
<1>9. Sum(d, positive) \in Int /\ Distance(b, r) = 2 * Sum(d, positive) - Sum(d, Types)
  <2>1. positive \in SUBSET Types
    OBVIOUS
  <2> HIDE DEF d, positive
  <2>2. QED  BY <1>5, <1>7, <2>1
<1>10. Distance(b, r) = 2 * Sum(d, positive)
  <2> HIDE DEF d, positive
  <2> QED  BY <1>6, <1>9
<1>11. QED
  <2> HIDE DEF d, positive
  <2> QED  BY <1>2, <1>8, <1>9, <1>10

\* The severity by the thresholds of the variation, either of two at a threshold.
LEMMA SeverityOfVariation ==
    ASSUME NEW b \in Counts, NEW r \in Counts, NEW severity \in SeveritiesOf(b, r)
    PROVE  LET product == Total(b) * Total(r)
               Above(n) == product > 0 /\ 10 * Variation(b, r) > n * product
               AtLeast(n) == product > 0 /\ 10 * Variation(b, r) >= n * product
               Separates(n, labels) == /\ Above(n) => severity \in labels
                                       /\ severity \in labels => AtLeast(n)
           IN  /\ Separates(6, {"high"})
               /\ Separates(4, {"high", "medium"})
               /\ Separates(2, {"high", "medium", "low"})
<1> DEFINE product == Total(b) * Total(r)
           scale == 2 * Total(b) * Total(r)
           score == 10 * Distance(b, r)
           variation == Variation(b, r)
           Reached(n, below) == score > n * scale \/ (score = n * scale /\ ~below)
<1>1. /\ Total(b) \in Nat /\ Total(r) \in Nat /\ variation \in Int
      /\ Distance(b, r) = 2 * variation
  BY VariationFacts
<1>2. product \in Nat /\ scale = 2 * product
  <2> HIDE DEF variation
  <2> QED  BY <1>1
<1>3. score = 20 * variation
  <2> HIDE DEF variation
  <2> QED  BY <1>1
<1>4. PICK below \in BOOLEAN :
          severity = IF scale = 0 THEN "none"
                     ELSE IF Reached(6, below) THEN "high"
                     ELSE IF Reached(4, below) THEN "medium"
                     ELSE IF Reached(2, below) THEN "low"
                     ELSE "none"
  BY DEF SeveritiesOf
<1>5. ASSUME NEW n \in {2, 4, 6}
      PROVE  /\ Reached(n, below) => 10 * variation >= n * product
             /\ 10 * variation > n * product => Reached(n, below)
  <2> HIDE DEF score, scale, product, variation
  <2> QED  BY <1>1, <1>2, <1>3
<1>6. /\ scale = 0 <=> ~ product > 0
      /\ 10 * variation > 6 * product => 10 * variation > 4 * product
      /\ 10 * variation > 4 * product => 10 * variation > 2 * product
      /\ 10 * variation >= 6 * product => 10 * variation >= 4 * product
      /\ 10 * variation >= 4 * product => 10 * variation >= 2 * product
  <2> HIDE DEF score, scale, product, variation
  <2> QED  BY <1>1, <1>2
<1>7. QED
  <2> HIDE DEF score, scale, product, variation, Reached
  <2>1. /\ product > 0 /\ 10 * variation > 6 * product => severity = "high"
        /\ severity = "high" => product > 0 /\ 10 * variation >= 6 * product
        /\ product > 0 /\ 10 * variation > 4 * product => severity \in {"high", "medium"}
        /\ severity \in {"high", "medium"} => product > 0 /\ 10 * variation >= 4 * product
        /\ product > 0 /\ 10 * variation > 2 * product =>
               severity \in {"high", "medium", "low"}
        /\ severity \in {"high", "medium", "low"} =>
               product > 0 /\ 10 * variation >= 2 * product
    BY <1>4, <1>5, <1>6
  <2>2. QED  BY <2>1 DEF product, variation

----------------------------------------------------------------------------
\* An analysis that has scored the events keeps the severity of what it read.
Scored(j) ==
    j.node \in {"alert", "finding", "ended"} /\ j.baseline # None =>
        j.severity \in SeveritiesOf(j.baseline, j.counts)

ScoredInv == \A c \in Clients : Scored(job[c])

LEMMA NewJobScored ==
    ASSUME NEW kind, NEW node, NEW g, NEW call, NEW since, NEW other
    PROVE  /\ Scored(NewJob(kind, node, g, call, since))
           /\ Scored([NoJob EXCEPT !.node = other])
BY DEF Scored, NewJob, NoJob

\* What a job becomes in a step.
LEMMA ScoredMove ==
    ASSUME IInv, ScoredInv, NEW c \in Clients, Step(c)
    PROVE  \E new : Scored(new) /\ job' = [job EXCEPT ![c] = new]
<1>1. job[c] \in Job /\ Scored(job[c])
  BY JobFacts DEF IInv, ScoredInv
<1>2. ASSUME NEW node, End(c, node)
      PROVE  \E new : Scored(new) /\ job' = [job EXCEPT ![c] = new]
  BY <1>2, NewJobScored DEF End
<1>3. ASSUME NEW j \in Job, NEW node \in {"active", "commit", "recent"}, Goto(c, j, node)
      PROVE  \E new : Scored(new) /\ job' = [job EXCEPT ![c] = new]
  <2> DEFINE new == [j EXCEPT !.node = node]
  <2>1. Scored(new)
    BY <1>3 DEF Scored, Job
  <2>2. job' = [job EXCEPT ![c] = new]
    BY <1>3 DEF Goto
  <2> HIDE DEF new
  <2>3. QED  BY <2>1, <2>2
<1>4. CASE ReadEvents(c)
  <2> DEFINE j == [job[c] EXCEPT !.counts = CountEvents(job[c].agent, job[c].since)]
  <2>1. j \in Job
    BY <1>1, CountsFacts DEF IInv, Job
  <2>2. Goto(c, j, "active")
    BY <1>4 DEF ReadEvents
  <2> HIDE DEF j
  <2>3. QED  BY <1>3, <2>1, <2>2
<1>5. CASE ReadActive(c)
  <2> DEFINE j == [job[c] EXCEPT !.old = Active(job[c].agent), !.at = built + 1]
             new == [j EXCEPT !.node = "commit"]
  <2>1. Scored(new)
    BY <1>1 DEF Scored, Job
  <2>2. job' = [job EXCEPT ![c] = new]
    BY <1>5 DEF ReadActive, Goto
  <2> HIDE DEF new
  <2>3. QED  BY <2>1, <2>2
<1>6. CASE CommitBaseline(c)
  BY <1>2, <1>6 DEF CommitBaseline
<1>7. CASE ReadBaseline(c)
  <2>1. PICK baseline :
            Goto(c, [job[c] EXCEPT !.baseline = baseline, !.since = Since], "recent")
    BY <1>7 DEF ReadBaseline
  <2> DEFINE j == [job[c] EXCEPT !.baseline = baseline, !.since = Since]
             new == [j EXCEPT !.node = "recent"]
  <2>2. Scored(new)
    BY <1>1 DEF Scored, Job
  <2>3. job' = [job EXCEPT ![c] = new]
    BY <2>1 DEF Goto
  <2> HIDE DEF new
  <2>4. QED  BY <2>2, <2>3
<1>8. CASE ReadRecent(c)
  <2> DEFINE recent == CountEvents(job[c].agent, job[c].since)
             scored == IF job[c].baseline = None THEN {"none"}
                       ELSE SeveritiesOf(job[c].baseline, recent)
  <2>1. PICK severity \in scored :
            \E node : Goto(c, [job[c] EXCEPT !.counts = recent, !.severity = severity], node)
    BY <1>8 DEF ReadRecent
  <2> DEFINE j == [job[c] EXCEPT !.counts = recent, !.severity = severity]
  <2>6. PICK node : Goto(c, j, node)
    BY <2>1
  <2> DEFINE new == [j EXCEPT !.node = node]
  <2>2. /\ new.baseline = job[c].baseline /\ new.counts = recent
        /\ new.severity = severity
    <3> HIDE DEF recent, scored
    <3> QED  BY <1>1 DEF Job
  <2>3. job' = [job EXCEPT ![c] = new]
    BY <2>6 DEF Goto
  <2>4. Scored(new)
    <3> HIDE DEF new, recent
    <3> QED  BY <2>2 DEF Scored
  <2> HIDE DEF new
  <2>5. QED  BY <2>3, <2>4
<1>9. CASE RaiseAlert(c)
  <2>1. CASE Goto(c, job[c], "finding")
    <3> DEFINE new == [job[c] EXCEPT !.node = "finding"]
    <3>1. Scored(new)
      BY <1>1, <1>9 DEF Scored, Job, RaiseAlert
    <3>2. job' = [job EXCEPT ![c] = new]
      BY <2>1 DEF Goto
    <3> HIDE DEF new
    <3>3. QED  BY <3>1, <3>2
  <2>2. CASE End(c, "failed")
    BY <1>2, <2>2
  <2>3. QED  BY <1>9, <2>1, <2>2 DEF RaiseAlert
<1>10. CASE RecordFinding(c)
  BY <1>2, <1>10 DEF RecordFinding
<1>11. CASE Fail(c)
  BY <1>2, <1>11 DEF Fail
<1>12. QED
  BY <1>4, <1>5, <1>6, <1>7, <1>8, <1>9, <1>10, <1>11 DEF Step

LEMMA ScoredStep == IInv /\ ScoredInv /\ [Next]_vars => ScoredInv'
<1> SUFFICES ASSUME IInv, ScoredInv, [Next]_vars PROVE ScoredInv'
  OBVIOUS
<1>1. ASSUME NEW c \in Clients, NEW new, Scored(new), job' = [job EXCEPT ![c] = new]
      PROVE  ScoredInv'
  <2>1. \A d \in Clients : job'[d] = IF d = c THEN new ELSE job[d]
    BY <1>1 DEF IInv, TypeOK
  <2>2. \A d \in Clients : Scored(job'[d])
    BY <1>1, <2>1 DEF ScoredInv
  <2>3. QED  BY <2>2 DEF ScoredInv, Scored, SeveritiesOf, Distance, Deltas, Total
<1>2. CASE UNCHANGED job
  <2>1. \A d \in Clients : Scored(job'[d])
    BY <1>2 DEF ScoredInv
  <2>2. QED  BY <2>1 DEF ScoredInv, Scored, SeveritiesOf, Distance, Deltas, Total
<1>3. ASSUME NEW c \in Clients, NEW kind, NEW node, NEW g, NEW call, NEW since,
             Start(c, NewJob(kind, node, g, call, since))
      PROVE  ScoredInv'
  <2> DEFINE new == NewJob(kind, node, g, call, since)
  <2>1. Scored(new) /\ job' = [job EXCEPT ![c] = new]
    BY <1>3, NewJobScored DEF Start
  <2> HIDE DEF new
  <2>2. QED  BY <1>1, <2>1
<1>4. ASSUME NEW c \in Clients, NEW g \in Agents, StartCompute(c, g) PROVE ScoredInv'
  BY <1>3, <1>4 DEF StartCompute
<1>5. ASSUME NEW c \in Clients, NEW g \in Agents, NEW kind, StartAnalyze(c, g, kind)
      PROVE  ScoredInv'
  BY <1>3, <1>5 DEF StartAnalyze
<1>6. ASSUME NEW c \in Clients, Step(c) PROVE ScoredInv'
  BY <1>1, <1>6, ScoredMove
<1>7. ASSUME NEW g, NEW t, NEW h, StoreEvent(g, t, h) PROVE ScoredInv'
  BY <1>2, <1>7 DEF StoreEvent
<1>8. ASSUME NEW i, Deactivate(i) PROVE ScoredInv'
  BY <1>2, <1>8 DEF Deactivate
<1>9. CASE NextHour
  BY <1>2, <1>9 DEF NextHour
<1>10. CASE UNCHANGED vars
  BY <1>2, <1>10 DEF vars
<1>11. QED  BY <1>4, <1>5, <1>6, <1>7, <1>8, <1>9, <1>10 DEF Next

----------------------------------------------------------------------------
\* The inductive invariant holds in every reachable state.
THEOREM Invariance == Spec => []IInv
BY InitIInv, NextStep, PTL DEF Spec

\* Rows, requests and counters have their types; built stays within the calls
\* made, so that each baseline has a computed_at of its own.
THEOREM TypeCorrect == Spec => []TypeOK
<1>1. IInv => TypeOK
  BY DEF IInv
<1>2. QED  BY <1>1, Invariance, PTL

\* An agent whose baselines were never computed at the same time has at most one
\* active baseline (compute_baseline).
THEOREM OneBaselineWithoutOverlap == Spec => []OneActiveWithoutOverlap
<1>1. IInv => OneActiveWithoutOverlap
  <2> SUFFICES ASSUME IInv, NEW g \in Agents \ overlapped
               PROVE  Cardinality(Active(g)) <= 1
    BY DEF OneActiveWithoutOverlap
  <2>1. CASE Active(g) = {}
    BY <2>1, FS_EmptySet
  <2>2. CASE Active(g) # {}
    <3>1. PICK i : i \in Active(g)
      BY <2>2
    <3>2. Active(g) = {i}
      BY <3>1 DEF IInv, BaselinesInv
    <3>3. QED  BY <3>2, FS_Singleton
  <2>3. QED  BY <2>1, <2>2
<1>2. QED  BY <1>1, Invariance, PTL

\* Where a sentinel watches, the audit trail tells of no drift that its own analysis
\* did not alert, whatever fails; a service without one may record its finding all
\* the same (analyze, _route_after_analysis, record_finding).
THEOREM AlertsComeFirst == Spec => []FindingsWereAlerted
<1>1. IInv => FindingsWereAlerted
  BY DEF IInv, FindingsInv, FindingsWereAlerted
<1>2. QED  BY <1>1, Invariance, PTL

\* The severity of every analysis is that of the total variation distance between
\* the baseline and the recent events, by the thresholds 0.6, 0.4 and 0.2 as far as
\* floats keep the two apart: at a threshold it may be either.  _compute_tvd takes half
\* the sum of the differences and never looks for the set of types that differs most.
THEOREM SeverityIsRight == Spec => []SeverityIsOfVariation
<1>1. Init => ScoredInv
  <2>1. NoJob = [NoJob EXCEPT !.node = "idle"]
    BY DEF NoJob, NewJob
  <2>2. Scored(NoJob)
    BY <2>1, NewJobScored
  <2>3. QED  BY <2>2 DEF Init, ScoredInv
<1>2. Spec => []ScoredInv
  BY <1>1, Invariance, ScoredStep, PTL DEF Spec
<1>3. IInv /\ ScoredInv => SeverityIsOfVariation
  <2> SUFFICES ASSUME IInv, ScoredInv PROVE SeverityIsOfVariation
    OBVIOUS
  <2>1. ASSUME NEW c \in Clients,
               job[c].node \in {"alert", "finding", "ended"}, job[c].baseline # None
        PROVE  /\ job[c].baseline \in Counts /\ job[c].counts \in Counts
               /\ job[c].severity \in SeveritiesOf(job[c].baseline, job[c].counts)
    BY <2>1, JobFacts DEF IInv, ScoredInv, Scored
  <2>2. QED  BY <2>1, SeverityOfVariation DEF SeverityIsOfVariation
<1>4. QED  BY <1>2, <1>3, Invariance, PTL

=============================================================================
