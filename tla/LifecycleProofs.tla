-------------------------- MODULE LifecycleProofs ---------------------------
(***************************************************************************)
(* What the SDK's client and the application's start and stop guarantee    *)
(* about the connections and engines they open, for every number of tasks, *)
(* requests, connections and starts.                                       *)
(***************************************************************************)
EXTENDS Lifecycle, FiniteSetTheorems, TLAPS

USE BoundsAssumption, ProcessesAssumption

States == {"open", "closed", "broken"}

\* Every variable is a function or a sequence of the right kind.
Shapes ==
    /\ owned \in BOOLEAN /\ overlapped \in BOOLEAN
    /\ event_bus \in {"redis_streams", "in_memory", "unknown"}
    /\ current \in [Owners -> Nat] /\ conns \in [Owners -> Seq(States)]
    /\ using \in [Tasks \cup Requests -> Nat]
    /\ closing \in [Tasks -> Nat] /\ session \in [Requests -> Nat]
    /\ phase \in {"stopped", "starting", "serving", "close_registry", "close_db"}
    /\ engines \in Seq({"open", "disposed"}) /\ engine \in Nat /\ factory \in Nat
    /\ failures \in Nat

----------------------------------------------------------------------------
\* The client of the SDK.
SdkRanges ==
    /\ Len(conns["sdk"]) <= MaxConnections
    /\ current["sdk"] \in 0 .. Len(conns["sdk"])
    /\ \A t \in Tasks : /\ using[t] \in 0 .. Len(conns["sdk"])
                        /\ closing[t] \in 0 .. Len(conns["sdk"])

\* While no two closes have overlapped, at most one is awaited, and it closes
\* the connection that the client still refers to.
OneCloser ==
    ~overlapped =>
        /\ \A t, u \in Tasks : closing[t] # 0 /\ closing[u] # 0 => t = u
        /\ \A t \in Tasks : closing[t] # 0 => closing[t] = current["sdk"]

\* An injected connection is never closed.
Injected == ~owned => \A t \in Tasks : closing[t] = 0

SdkInv == SdkRanges /\ OneCloser /\ Injected /\ ConnectionsAreOwned

----------------------------------------------------------------------------
\* The application.
BusRanges ==
    /\ Len(conns["bus"]) <= MaxConnections
    /\ current["bus"] \in 0 .. Len(conns["bus"])
    /\ \A r \in Requests : using[r] \in 0 .. Len(conns["bus"])

\* The bus connection of a running application is open; it is given up before
\* the engine is.
BusInv ==
    /\ phase \in {"serving", "close_registry"} /\ current["bus"] # 0 =>
           conns["bus"][current["bus"]] = "open"
    /\ phase = "close_db" => current["bus"] = 0
    /\ \A r \in Requests :
           using[r] # 0 => session[r] # 0 /\ using[r] = current["bus"]

\* The engine of a running application is open and is the one of the factory,
\* and only a serving application has sessions.
EngineInv ==
    /\ engine \in DOMAIN engines \cup {0} /\ factory \in DOMAIN engines \cup {0}
    /\ phase # "stopped" =>
           engine # 0 /\ factory = engine /\ engines[engine] = "open"
    /\ \A r \in Requests : session[r] # 0 => phase = "serving" /\ session[r] = engine

\* The engines, and the connections to the bus, that nothing will close.
LostEngines ==
    {e \in DOMAIN engines : engines[e] = "open" /\ (phase = "stopped" \/ e # engine)}

LostConns ==
    {c \in DOMAIN conns["bus"] :
        /\ conns["bus"][c] # "closed"
        /\ phase \in {"serving", "close_registry"} => c # current["bus"]}

\* Each start and each stop that has raised has lost at most one of each.
Losses ==
    /\ Cardinality(LostEngines) <= failures
    /\ Cardinality(LostConns) <= failures
    /\ failures <= IF phase = "stopped" THEN Len(engines) ELSE Len(engines) - 1

AppInv == BusRanges /\ BusInv /\ EngineInv /\ Losses

IInv == Shapes /\ SdkInv /\ AppInv

----------------------------------------------------------------------------
\* The first use of a connection opens it; later uses find it.
LEMMA EnsureFacts ==
    ASSUME Shapes, NEW o \in Owners, Ensure(o), current[o] <= Len(conns[o])
    PROVE  /\ current' \in [Owners -> Nat] /\ conns' \in [Owners -> Seq(States)]
           /\ \A p \in Owners \ {o} : current'[p] = current[p] /\ conns'[p] = conns[p]
           /\ current'[o] \in 1 .. Len(conns'[o])
           /\ Len(conns[o]) <= MaxConnections => Len(conns'[o]) <= MaxConnections
           /\ \/ current' = current /\ conns' = conns
              \/ /\ current[o] = 0
                 /\ Len(conns'[o]) = Len(conns[o]) + 1
                 /\ current'[o] = Len(conns[o]) + 1
                 /\ conns'[o][current'[o]] = "open"
                 /\ \A c \in 1 .. Len(conns[o]) : conns'[o][c] = conns[o][c]
<1>1. conns[o] \in Seq(States) /\ current[o] \in Nat
  BY DEF Shapes
<1>2. CASE current[o] # 0
  BY <1>1, <1>2 DEF Ensure, Shapes
<1>3. CASE current[o] = 0
  <2>1. /\ Len(conns[o]) < MaxConnections
        /\ conns' = [conns EXCEPT ![o] = Append(conns[o], "open")]
        /\ current' = [current EXCEPT ![o] = Len(conns[o]) + 1]
    BY <1>3 DEF Ensure
  <2>2. Append(conns[o], "open") \in Seq(States)
    BY <1>1 DEF States
  <2>3. /\ conns'[o] = Append(conns[o], "open")
        /\ current'[o] = Len(conns[o]) + 1
    BY <2>1 DEF Shapes
  <2>4. QED  BY <1>1, <1>3, <2>1, <2>2, <2>3 DEF Shapes
<1>4. QED  BY <1>2, <1>3

\* aclose, whether it returns or raises, changes the state of one connection.
LEMMA ReleaseFacts ==
    ASSUME Shapes, NEW o \in Owners, NEW c \in 1 .. Len(conns[o]),
           Release(o, c) \/ Break(o, c)
    PROVE  /\ conns' \in [Owners -> Seq(States)]
           /\ \A p \in Owners \ {o} : conns'[p] = conns[p]
           /\ Len(conns'[o]) = Len(conns[o])
           /\ conns'[o][c] \in {"closed", "broken"}
           /\ Release(o, c) /\ conns[o][c] = "open" => conns'[o][c] = "closed"
           /\ \A d \in 1 .. Len(conns[o]) : d # c => conns'[o][d] = conns[o][d]
<1>1. conns[o] \in Seq(States) /\ conns[o][c] \in States
  BY DEF Shapes
<1>2. PICK s \in {"closed", "broken"} :
          /\ conns' = [conns EXCEPT ![o][c] = s]
          /\ Release(o, c) /\ conns[o][c] = "open" => s = "closed"
  <2>1. CASE Release(o, c)
    BY <1>1, <2>1 DEF Release, States
  <2>2. CASE Break(o, c) /\ ~Release(o, c)
    BY <1>1, <2>2 DEF Break, States
  <2>3. QED  BY <2>1, <2>2
<1>3. conns' = [conns EXCEPT ![o] = [conns[o] EXCEPT ![c] = s]]
  BY <1>2
<1>4. /\ [conns[o] EXCEPT ![c] = s] \in Seq(States)
      /\ Len([conns[o] EXCEPT ![c] = s]) = Len(conns[o])
  BY <1>1, <1>2 DEF States
<1>5. conns'[o] = [conns[o] EXCEPT ![c] = s]
  BY <1>3 DEF Shapes
<1>6. QED  BY <1>1, <1>2, <1>3, <1>4, <1>5 DEF Shapes

\* A step of the application leaves the client of the SDK alone.
LEMMA SdkFrame ==
    ASSUME SdkInv, UNCHANGED <<owned, overlapped, closing>>,
           current'["sdk"] = current["sdk"], conns'["sdk"] = conns["sdk"],
           \A t \in Tasks : using'[t] = using[t]
    PROVE  SdkInv'
BY DEF SdkInv, SdkRanges, OneCloser, Injected, ConnectionsAreOwned

\* A step of the SDK leaves the application alone.
LEMMA AppFrame ==
    ASSUME AppInv, UNCHANGED appVars,
           current'["bus"] = current["bus"], conns'["bus"] = conns["bus"],
           \A r \in Requests : using'[r] = using[r]
    PROVE  AppInv'
BY DEF AppInv, BusRanges, BusInv, EngineInv, Losses, LostEngines, LostConns, appVars

LEMMA InitIInv == Init => IInv
<1> SUFFICES ASSUME Init PROVE IInv
  OBVIOUS
<1>1. Shapes
  <2>1. <<"open">> \in Seq(States) /\ <<>> \in Seq(States)
    BY DEF States
  <2>2. current \in [Owners -> Nat] /\ conns \in [Owners -> Seq(States)]
    BY <2>1 DEF Init
  <2>3. /\ using \in [Tasks \cup Requests -> Nat]
        /\ closing \in [Tasks -> Nat] /\ session \in [Requests -> Nat]
    BY DEF Init
  <2>4. engines \in Seq({"open", "disposed"})
    BY DEF Init
  <2>5. QED  BY <2>2, <2>3, <2>4 DEF Init, Shapes
<1>2. SdkInv
  BY DEF Init, SdkInv, SdkRanges, OneCloser, Injected, ConnectionsAreOwned, Owners
<1>3. AppInv
  <2>1. conns["bus"] = <<>> /\ engines = <<>>
    BY DEF Init, Owners
  <2>2. LostEngines = {} /\ LostConns = {}
    BY <2>1 DEF LostEngines, LostConns
  <2>3. Losses
    BY <2>1, <2>2, FS_EmptySet DEF Init, Losses
  <2>4. QED  BY <2>3 DEF Init, AppInv, BusRanges, BusInv, EngineInv, Owners
<1>4. QED  BY <1>1, <1>2, <1>3 DEF IInv

----------------------------------------------------------------------------
\* The steps of the SDK's tasks.

\* A task that needs the connection finds or opens one while a close is awaited.
LEMMA OpenSdk ==
    ASSUME Shapes, SdkInv, Ensure("sdk"), UNCHANGED <<owned, overlapped, closing>>,
           \A t \in Tasks : using'[t] \in {using[t], current'["sdk"]}
    PROVE  SdkInv'
<1> "sdk" \in Owners
  BY DEF Owners
<1>1. /\ current["sdk"] \in 0 .. Len(conns["sdk"]) /\ Len(conns["sdk"]) \in Nat
      /\ conns["sdk"] \in Seq(States)
  BY DEF Shapes, SdkInv, SdkRanges
<1>2. /\ current'["sdk"] \in 1 .. Len(conns'["sdk"])
      /\ Len(conns'["sdk"]) <= MaxConnections
      /\ conns'["sdk"] \in Seq(States) /\ Len(conns'["sdk"]) \in Nat
      /\ \/ current' = current /\ conns' = conns
         \/ /\ current["sdk"] = 0
            /\ Len(conns'["sdk"]) = Len(conns["sdk"]) + 1
            /\ current'["sdk"] = Len(conns["sdk"]) + 1
            /\ \A c \in 1 .. Len(conns["sdk"]) : conns'["sdk"][c] = conns["sdk"][c]
  BY <1>1, EnsureFacts DEF SdkInv, SdkRanges
<1>3. SdkRanges'
  BY <1>1, <1>2 DEF SdkInv, SdkRanges
<1>4. OneCloser' /\ Injected'
  BY <1>2 DEF SdkInv, OneCloser, Injected, ConnectionsAreOwned, SdkRanges
<1>5. ConnectionsAreOwned'
  <2>1. CASE current' = current /\ conns' = conns
    BY <2>1 DEF SdkInv, ConnectionsAreOwned
  <2>2. CASE current["sdk"] = 0
    <3>1. owned
      BY <2>2 DEF SdkInv, ConnectionsAreOwned
    <3>2. /\ DOMAIN conns["sdk"] = 1 .. Len(conns["sdk"])
          /\ DOMAIN conns'["sdk"] = 1 .. Len(conns'["sdk"])
      BY <1>1, <1>2
    <3>3. QED  BY <1>1, <1>2, <2>2, <3>1, <3>2 DEF SdkInv, ConnectionsAreOwned
  <2>3. QED  BY <1>2, <2>1, <2>2
<1>6. QED  BY <1>3, <1>4, <1>5 DEF SdkInv

LEMMA EnterStep ==
    ASSUME IInv, NEW t \in Tasks, Enter(t)
    PROVE  IInv'
<1>1. /\ Ensure("sdk") /\ "sdk" \in Owners /\ "bus" \in Owners
      /\ UNCHANGED <<owned, event_bus, using, clientVars, appVars>>
  BY DEF Enter, Owners
<1>2. current["sdk"] <= Len(conns["sdk"])
  BY DEF IInv, Shapes, SdkInv, SdkRanges
<1>3. Shapes'
  BY <1>1, <1>2, EnsureFacts DEF IInv, Shapes, clientVars, appVars
<1>4. SdkInv'
  BY <1>1, OpenSdk DEF IInv, clientVars
<1>5. AppInv'
  BY <1>1, <1>2, EnsureFacts, AppFrame DEF IInv
<1>6. QED  BY <1>3, <1>4, <1>5 DEF IInv

LEMMA EmitStep ==
    ASSUME IInv, NEW t \in Tasks, Emit(t)
    PROVE  IInv'
<1>1. /\ Ensure("sdk") /\ "sdk" \in Owners /\ "bus" \in Owners
      /\ using' = [using EXCEPT ![t] = current'["sdk"]]
      /\ UNCHANGED <<owned, event_bus, clientVars, appVars>>
  BY DEF Emit, Use, Owners
<1>2. current["sdk"] <= Len(conns["sdk"])
  BY DEF IInv, Shapes, SdkInv, SdkRanges
<1>3. Shapes'
  BY <1>1, <1>2, EnsureFacts DEF IInv, Shapes, clientVars, appVars
<1>4. SdkInv'
  BY <1>1, OpenSdk DEF IInv, Shapes, clientVars
<1>5. AppInv'
  <2>1. \A r \in Requests : using'[r] = using[r]
    BY <1>1 DEF IInv, Shapes
  <2>2. QED  BY <1>1, <1>2, <2>1, EnsureFacts, AppFrame DEF IInv
<1>6. QED  BY <1>3, <1>4, <1>5 DEF IInv

LEMMA EmittedStep ==
    ASSUME IInv, NEW t \in Tasks, Emitted(t)
    PROVE  IInv'
<1>1. /\ using' = [using EXCEPT ![t] = 0]
      /\ UNCHANGED <<owned, event_bus, current, conns, closing, overlapped, appVars>>
  BY DEF Emitted, Used, clientVars
<1>2. Shapes'
  BY <1>1 DEF IInv, Shapes, appVars
<1>3. SdkInv'
  BY <1>1 DEF IInv, Shapes, SdkInv, SdkRanges, OneCloser, Injected, ConnectionsAreOwned
<1>4. AppInv'
  BY <1>1, AppFrame DEF IInv, Shapes
<1>5. QED  BY <1>2, <1>3, <1>4 DEF IInv

LEMMA CloseStep ==
    ASSUME IInv, NEW t \in Tasks, Close(t)
    PROVE  IInv'
<1>1. /\ closing[t] = 0 /\ current["sdk"] # 0 /\ owned
      /\ closing' = [closing EXCEPT ![t] = current["sdk"]]
      /\ overlapped' = (overlapped \/ \E u \in Tasks : closing[u] # 0)
      /\ UNCHANGED <<owned, event_bus, current, conns, using, appVars>>
  BY DEF Close, Idle, Closable
<1>2. Shapes'
  BY <1>1 DEF IInv, Shapes, appVars, Owners
<1>3. SdkInv'
  BY <1>1 DEF IInv, Shapes, SdkInv, SdkRanges, OneCloser, Injected, ConnectionsAreOwned
<1>4. AppInv'
  BY <1>1, AppFrame DEF IInv
<1>5. QED  BY <1>2, <1>3, <1>4 DEF IInv

LEMMA ClosedStep ==
    ASSUME IInv, NEW t \in Tasks, Closed(t)
    PROVE  IInv'
<1> DEFINE k == closing[t]
<1>1. /\ k # 0 /\ Release("sdk", k) /\ "sdk" \in Owners /\ "bus" \in Owners
      /\ current' = [current EXCEPT !["sdk"] = 0]
      /\ closing' = [closing EXCEPT ![t] = 0]
      /\ UNCHANGED <<owned, event_bus, using, overlapped, appVars>>
  BY DEF Closed, Owners
<1>2. k \in 1 .. Len(conns["sdk"]) /\ conns["sdk"] \in Seq(States) /\ owned
  BY <1>1 DEF IInv, Shapes, SdkInv, SdkRanges, Injected
<1>3. /\ conns' \in [Owners -> Seq(States)]
      /\ conns'["bus"] = conns["bus"] /\ Len(conns'["sdk"]) = Len(conns["sdk"])
      /\ conns'["sdk"][k] # "open"
      /\ \A d \in 1 .. Len(conns["sdk"]) : d # k => conns'["sdk"][d] = conns["sdk"][d]
  BY <1>1, <1>2, ReleaseFacts DEF IInv
<1> HIDE DEF k
<1>4. Shapes'
  BY <1>1, <1>3 DEF IInv, Shapes, appVars
<1>5. SdkInv'
  <2>0. SdkRanges'
    BY <1>1, <1>2, <1>3 DEF IInv, Shapes, SdkInv, SdkRanges
  <2>1. OneCloser' /\ Injected'
    <3>1. /\ closing'[t] = 0 /\ closing[t] # 0
          /\ \A u \in Tasks : u # t => closing'[u] = closing[u]
      BY <1>1 DEF IInv, Shapes, k
    <3>2. QED  BY <1>1, <3>1 DEF IInv, SdkInv, OneCloser, Injected
  <2>2. ConnectionsAreOwned'
    <3>1. ~overlapped => k = current["sdk"]
      BY <1>1 DEF IInv, SdkInv, OneCloser, k
    <3>2. DOMAIN conns'["sdk"] = DOMAIN conns["sdk"]
          /\ DOMAIN conns["sdk"] = 1 .. Len(conns["sdk"])
      BY <1>2, <1>3
    <3>3. QED  BY <1>1, <1>2, <1>3, <3>1, <3>2 DEF IInv, SdkInv, ConnectionsAreOwned
  <2>3. QED  BY <2>0, <2>1, <2>2 DEF SdkInv
<1>6. AppInv'
  BY <1>1, <1>3, AppFrame DEF IInv, Shapes
<1>7. QED  BY <1>4, <1>5, <1>6 DEF IInv

LEMMA CloseRaisesStep ==
    ASSUME IInv, NEW t \in Tasks, CloseRaises(t)
    PROVE  IInv'
<1> DEFINE k == closing[t]
<1>1. /\ k # 0 /\ Break("sdk", k) /\ "sdk" \in Owners /\ "bus" \in Owners
      /\ closing' = [closing EXCEPT ![t] = 0]
      /\ UNCHANGED <<owned, event_bus, current, using, overlapped, appVars>>
  BY DEF CloseRaises, Owners
<1>2. k \in 1 .. Len(conns["sdk"]) /\ conns["sdk"] \in Seq(States) /\ owned
  BY <1>1 DEF IInv, Shapes, SdkInv, SdkRanges, Injected
<1>3. /\ conns' \in [Owners -> Seq(States)]
      /\ conns'["bus"] = conns["bus"] /\ Len(conns'["sdk"]) = Len(conns["sdk"])
      /\ conns'["sdk"][k] # "open"
      /\ \A d \in 1 .. Len(conns["sdk"]) : d # k => conns'["sdk"][d] = conns["sdk"][d]
  BY <1>1, <1>2, ReleaseFacts DEF IInv
<1> HIDE DEF k
<1>4. Shapes'
  BY <1>1, <1>3 DEF IInv, Shapes, appVars
<1>5. SdkInv'
  <2>1. SdkRanges' /\ OneCloser' /\ Injected'
    BY <1>1, <1>2, <1>3 DEF IInv, Shapes, SdkInv, SdkRanges, OneCloser, Injected
  <2>2. ConnectionsAreOwned'
    <3>1. DOMAIN conns'["sdk"] = DOMAIN conns["sdk"]
          /\ DOMAIN conns["sdk"] = 1 .. Len(conns["sdk"])
      BY <1>2, <1>3
    <3>2. QED  BY <1>1, <1>2, <1>3, <3>1 DEF IInv, SdkInv, ConnectionsAreOwned
  <2>3. QED  BY <2>1, <2>2 DEF SdkInv
<1>6. AppInv'
  BY <1>1, <1>3, AppFrame DEF IInv, Shapes
<1>7. QED  BY <1>4, <1>5, <1>6 DEF IInv

----------------------------------------------------------------------------
\* The steps of the application.

\* What is lost is a set of indices, and grows by at most one element at a time.
LEMMA LostAreFinite ==
    ASSUME Shapes
    PROVE  /\ IsFiniteSet(LostEngines) /\ Cardinality(LostEngines) \in Nat
           /\ IsFiniteSet(LostConns) /\ Cardinality(LostConns) \in Nat
<1>1. /\ Len(engines) \in Nat /\ DOMAIN engines = 1 .. Len(engines)
      /\ Len(conns["bus"]) \in Nat /\ DOMAIN conns["bus"] = 1 .. Len(conns["bus"])
  BY DEF Shapes, Owners
<1>2. IsFiniteSet(DOMAIN engines) /\ IsFiniteSet(DOMAIN conns["bus"])
  BY <1>1, FS_Interval, SMTT(30)
<1>3. LostEngines \subseteq DOMAIN engines /\ LostConns \subseteq DOMAIN conns["bus"]
  BY DEF LostEngines, LostConns
<1>4. QED  BY <1>2, <1>3, FS_Subset, FS_CardinalityType

LEMMA OneMore ==
    ASSUME NEW S, IsFiniteSet(S), NEW n \in Nat, Cardinality(S) <= n,
           NEW x, NEW T \in {S, S \cup {x}}
    PROVE  Cardinality(T) <= n + 1
<1>1. Cardinality(S) \in Nat
  BY FS_CardinalityType
<1>2. Cardinality(S \cup {x}) <= Cardinality(S) + 1
  BY <1>1, FS_AddElement
<1>3. CASE T = S
  BY <1>1, <1>3
<1>4. CASE T = S \cup {x}
  <2>1. Cardinality(T) \in Nat
    BY <1>4, FS_AddElement, FS_CardinalityType
  <2>2. QED  BY <1>1, <1>2, <1>4, <2>1
<1>5. QED  BY <1>3, <1>4

\* A step that raises nothing loses nothing.
LEMMA NothingLost ==
    ASSUME Losses, LostEngines' = LostEngines, LostConns' = LostConns,
           failures' = failures,
           failures' <= IF phase' = "stopped" THEN Len(engines') ELSE Len(engines') - 1
    PROVE  Losses'
BY DEF Losses

\* A step that raises loses at most one engine and one connection.
LEMMA OneLost ==
    ASSUME Shapes, Losses, NEW e, NEW c,
           LostEngines' \in {LostEngines, LostEngines \cup {e}},
           LostConns' \in {LostConns, LostConns \cup {c}},
           phase # "stopped", phase' = "stopped", UNCHANGED engines,
           failures' = failures + 1
    PROVE  Losses'
<1>1. failures \in Nat /\ Len(engines) \in Nat
  BY DEF Shapes
<1>2. Cardinality(LostEngines') <= failures + 1
  BY <1>1, LostAreFinite, OneMore DEF Losses
<1>3. Cardinality(LostConns') <= failures + 1
  BY <1>1, LostAreFinite, OneMore DEF Losses
<1>4. QED  BY <1>1, <1>2, <1>3 DEF Losses

LEMMA InitDbStep ==
    ASSUME IInv, InitDb
    PROVE  IInv'
<1>1. /\ phase = "stopped" /\ phase' = "starting"
      /\ engines' = Append(engines, "open")
      /\ engine' = Len(engines) + 1 /\ factory' = engine'
      /\ UNCHANGED <<owned, event_bus, current, conns, using, closing, overlapped,
                     session, failures>>
  BY DEF InitDb, NewFactory, Quiet, clientVars
<1>2. /\ engines \in Seq({"open", "disposed"}) /\ Len(engines) \in Nat
      /\ DOMAIN engines = 1 .. Len(engines)
  BY DEF IInv, Shapes
<1>3. /\ engines' \in Seq({"open", "disposed"}) /\ Len(engines') = Len(engines) + 1
      /\ DOMAIN engines' = 1 .. Len(engines) + 1
      /\ engines'[Len(engines) + 1] = "open"
      /\ \A e \in 1 .. Len(engines) : engines'[e] = engines[e]
  BY <1>1, <1>2
<1>4. Shapes'
  BY <1>1, <1>2, <1>3 DEF IInv, Shapes
<1>5. SdkInv'
  BY <1>1, SdkFrame DEF IInv
<1>6. BusRanges' /\ BusInv'
  BY <1>1 DEF IInv, AppInv, BusRanges, BusInv, EngineInv
<1>7. EngineInv'
  BY <1>1, <1>2, <1>3 DEF IInv, AppInv, EngineInv
<1>8. Losses'
  <2>1. LostEngines' = LostEngines
    BY <1>1, <1>2, <1>3 DEF LostEngines
  <2>2. LostConns' = LostConns
    BY <1>1 DEF LostConns
  <2>3. failures' <= Len(engines') - 1
    BY <1>1, <1>2, <1>3 DEF IInv, AppInv, Losses, Shapes
  <2>4. QED  BY <1>1, <2>1, <2>2, <2>3, NothingLost DEF IInv, AppInv
<1>9. QED  BY <1>4, <1>5, <1>6, <1>7, <1>8 DEF IInv, AppInv

LEMMA BuildRegistryStep ==
    ASSUME IInv, BuildRegistry
    PROVE  IInv'
<1>1. /\ phase = "starting" /\ phase' = "serving" /\ "bus" \in Owners
      /\ current' = [current EXCEPT !["bus"] = 0]
      /\ UNCHANGED <<owned, event_bus, conns, using, closing, overlapped,
                     engines, engine, factory, session, failures>>
  BY DEF BuildRegistry, Quiet, clientVars, Owners
<1>2. current'["bus"] = 0 /\ current'["sdk"] = current["sdk"]
  BY <1>1 DEF IInv, Shapes, Owners
<1>3. Shapes'
  BY <1>1 DEF IInv, Shapes
<1>4. SdkInv'
  BY <1>1, <1>2, SdkFrame DEF IInv
<1>5. BusRanges' /\ BusInv'
  BY <1>1, <1>2 DEF IInv, AppInv, BusRanges, BusInv, EngineInv, Shapes
<1>6. EngineInv'
  BY <1>1 DEF IInv, AppInv, EngineInv
<1>7. Losses'
  <2>1. LostEngines' = LostEngines
    BY <1>1 DEF LostEngines
  <2>2. LostConns' = LostConns
    <3>1. 0 \notin DOMAIN conns["bus"]
      BY <1>1 DEF IInv, Shapes
    <3>2. QED  BY <1>1, <1>2, <3>1 DEF LostConns
  <2>3. QED  BY <1>1, <2>1, <2>2, NothingLost DEF IInv, AppInv, Losses
<1>8. QED  BY <1>3, <1>4, <1>5, <1>6, <1>7 DEF IInv, AppInv

LEMMA StartFailsStep ==
    ASSUME IInv, StartFails
    PROVE  IInv'
<1>1. /\ phase = "starting" /\ phase' = "stopped" /\ failures' = failures + 1
      /\ UNCHANGED <<owned, event_bus, current, conns, using, closing, overlapped,
                     engines, engine, factory, session>>
  BY DEF StartFails, Quiet, clientVars
<1>2. Shapes'
  BY <1>1 DEF IInv, Shapes
<1>3. SdkInv'
  BY <1>1, SdkFrame DEF IInv
<1>4. BusRanges' /\ BusInv' /\ EngineInv'
  BY <1>1 DEF IInv, AppInv, BusRanges, BusInv, EngineInv
<1>5. Losses'
  <2>1. LostEngines' = LostEngines \cup {engine}
    BY <1>1 DEF IInv, AppInv, EngineInv, LostEngines
  <2>2. LostConns' = LostConns
    BY <1>1 DEF LostConns
  <2>3. QED  BY <1>1, <2>1, <2>2, OneLost DEF IInv, AppInv
<1>6. QED  BY <1>2, <1>3, <1>4, <1>5 DEF IInv, AppInv

LEMMA BeginRequestStep ==
    ASSUME IInv, NEW r \in Requests, BeginRequest(r)
    PROVE  IInv'
<1>1. /\ phase = "serving" /\ session[r] = 0
      /\ session' = [session EXCEPT ![r] = factory]
      /\ UNCHANGED <<owned, event_bus, current, conns, using, closing, overlapped,
                     phase, engines, engine, factory, failures>>
  BY DEF BeginRequest, Quiet, clientVars
<1>2. Shapes'
  BY <1>1 DEF IInv, Shapes
<1>3. SdkInv'
  BY <1>1, SdkFrame DEF IInv
<1>4. BusRanges' /\ BusInv' /\ EngineInv'
  BY <1>1 DEF IInv, AppInv, BusRanges, BusInv, EngineInv, Shapes
<1>5. Losses'
  BY <1>1 DEF IInv, AppInv, Losses, LostEngines, LostConns
<1>6. QED  BY <1>2, <1>3, <1>4, <1>5 DEF IInv, AppInv

LEMMA EndRequestStep ==
    ASSUME IInv, NEW r \in Requests, EndRequest(r)
    PROVE  IInv'
<1>1. /\ using[r] = 0
      /\ session' = [session EXCEPT ![r] = 0]
      /\ UNCHANGED <<owned, event_bus, current, conns, using, closing, overlapped,
                     phase, engines, engine, factory, failures>>
  BY DEF EndRequest, Quiet, clientVars
<1>2. Shapes'
  BY <1>1 DEF IInv, Shapes
<1>3. SdkInv'
  BY <1>1, SdkFrame DEF IInv
<1>4. BusRanges' /\ BusInv' /\ EngineInv'
  BY <1>1 DEF IInv, AppInv, BusRanges, BusInv, EngineInv, Shapes
<1>5. Losses'
  BY <1>1 DEF IInv, AppInv, Losses, LostEngines, LostConns
<1>6. QED  BY <1>2, <1>3, <1>4, <1>5 DEF IInv, AppInv

LEMMA PublishStep ==
    ASSUME IInv, NEW r \in Requests, Publish(r)
    PROVE  IInv'
<1>1. /\ session[r] # 0 /\ using[r] = 0 /\ Ensure("bus")
      /\ "bus" \in Owners /\ "sdk" \in Owners
      /\ using' = [using EXCEPT ![r] = current'["bus"]]
      /\ UNCHANGED <<owned, event_bus, closing, overlapped,
                     phase, engines, engine, factory, session, failures>>
  BY DEF Publish, Use, Quiet, clientVars, appVars, Owners
<1>2. /\ current["bus"] \in 0 .. Len(conns["bus"]) /\ Len(conns["bus"]) \in Nat
      /\ conns["bus"] \in Seq(States) /\ Len(conns["bus"]) <= MaxConnections
      /\ phase = "serving"
  BY <1>1 DEF IInv, Shapes, AppInv, BusRanges, EngineInv
<1>3. /\ current' \in [Owners -> Nat] /\ conns' \in [Owners -> Seq(States)]
      /\ current'["sdk"] = current["sdk"] /\ conns'["sdk"] = conns["sdk"]
      /\ current'["bus"] \in 1 .. Len(conns'["bus"])
      /\ Len(conns'["bus"]) <= MaxConnections
      /\ \/ current' = current /\ conns' = conns
         \/ /\ current["bus"] = 0
            /\ Len(conns'["bus"]) = Len(conns["bus"]) + 1
            /\ current'["bus"] = Len(conns["bus"]) + 1
            /\ conns'["bus"][current'["bus"]] = "open"
            /\ \A c \in 1 .. Len(conns["bus"]) : conns'["bus"][c] = conns["bus"][c]
  BY <1>1, <1>2, EnsureFacts DEF IInv
<1>4. /\ DOMAIN conns["bus"] = 1 .. Len(conns["bus"])
      /\ DOMAIN conns'["bus"] = 1 .. Len(conns'["bus"])
  BY <1>1, <1>2, <1>3
<1>5. Shapes'
  BY <1>1, <1>3 DEF IInv, Shapes
<1>6. SdkInv'
  BY <1>1, <1>3, SdkFrame DEF IInv, Shapes
<1>7. \A q \in Requests : using'[q] = IF q = r THEN current'["bus"] ELSE using[q]
  BY <1>1 DEF IInv, Shapes
<1>8. BusRanges'
  <2>1. Len(conns'["bus"]) \in Nat /\ Len(conns["bus"]) <= Len(conns'["bus"])
    BY <1>1, <1>2, <1>3
  <2>2. \A q \in Requests : using[q] \in 0 .. Len(conns["bus"])
    BY DEF IInv, AppInv, BusRanges
  <2>3. QED  BY <1>2, <1>3, <1>7, <2>1, <2>2 DEF BusRanges
<1>9. BusInv'
  BY <1>1, <1>2, <1>3, <1>7 DEF IInv, AppInv, BusRanges, BusInv
<1>10. EngineInv'
  BY <1>1 DEF IInv, AppInv, EngineInv
<1>11. Losses'
  <2>1. LostEngines' = LostEngines
    BY <1>1 DEF LostEngines
  <2>2. LostConns' = LostConns
    BY <1>1, <1>2, <1>3, <1>4 DEF LostConns
  <2>3. QED  BY <1>1, <2>1, <2>2, NothingLost DEF IInv, AppInv, Losses
<1>12. QED  BY <1>5, <1>6, <1>8, <1>9, <1>10, <1>11 DEF IInv, AppInv

LEMMA PublishedStep ==
    ASSUME IInv, NEW r \in Requests, Published(r)
    PROVE  IInv'
<1>1. /\ using' = [using EXCEPT ![r] = 0]
      /\ UNCHANGED <<owned, event_bus, current, conns, closing, overlapped,
                     phase, engines, engine, factory, session, failures>>
  BY DEF Published, Used, Quiet, clientVars, appVars
<1>2. Shapes'
  BY <1>1 DEF IInv, Shapes
<1>3. SdkInv'
  BY <1>1, SdkFrame DEF IInv, Shapes
<1>4. BusRanges' /\ BusInv' /\ EngineInv'
  BY <1>1 DEF IInv, AppInv, BusRanges, BusInv, EngineInv, Shapes
<1>5. Losses'
  BY <1>1 DEF IInv, AppInv, Losses, LostEngines, LostConns
<1>6. QED  BY <1>2, <1>3, <1>4, <1>5 DEF IInv, AppInv

LEMMA StopStep ==
    ASSUME IInv, Stop
    PROVE  IInv'
<1>1. /\ phase = "serving" /\ phase' = "close_registry"
      /\ \A r \in Requests : session[r] = 0
      /\ UNCHANGED <<owned, event_bus, current, conns, using, closing, overlapped,
                     engines, engine, factory, session, failures>>
  BY DEF Stop, Quiet, clientVars
<1>2. Shapes'
  BY <1>1 DEF IInv, Shapes
<1>3. SdkInv'
  BY <1>1, SdkFrame DEF IInv
<1>4. BusRanges' /\ BusInv' /\ EngineInv'
  BY <1>1 DEF IInv, AppInv, BusRanges, BusInv, EngineInv
<1>5. Losses'
  BY <1>1 DEF IInv, AppInv, Losses, LostEngines, LostConns
<1>6. QED  BY <1>2, <1>3, <1>4, <1>5 DEF IInv, AppInv

LEMMA CloseRegistryStep ==
    ASSUME IInv, CloseRegistry
    PROVE  IInv'
<1> DEFINE k == current["bus"]
<1>1. /\ phase = "close_registry" /\ phase' = "close_db"
      /\ "bus" \in Owners /\ "sdk" \in Owners
      /\ \/ k = 0 /\ UNCHANGED <<current, conns>>
         \/ /\ k # 0 /\ Release("bus", k)
            /\ current' = [current EXCEPT !["bus"] = 0]
      /\ UNCHANGED <<owned, event_bus, using, closing, overlapped,
                     engines, engine, factory, session, failures>>
  BY DEF CloseRegistry, Quiet, clientVars, Owners
<1>2. /\ k \in 0 .. Len(conns["bus"]) /\ conns["bus"] \in Seq(States)
      /\ Len(conns["bus"]) \in Nat
      /\ k # 0 => conns["bus"][k] = "open"
      /\ \A r \in Requests : using[r] = 0
  BY <1>1 DEF IInv, Shapes, AppInv, BusRanges, BusInv, EngineInv
<1>3. /\ conns' \in [Owners -> Seq(States)] /\ current' \in [Owners -> Nat]
      /\ conns'["sdk"] = conns["sdk"] /\ current'["sdk"] = current["sdk"]
      /\ Len(conns'["bus"]) = Len(conns["bus"]) /\ current'["bus"] = 0
      /\ k # 0 => conns'["bus"][k] = "closed"
      /\ \A d \in 1 .. Len(conns["bus"]) : d # k => conns'["bus"][d] = conns["bus"][d]
  <2>1. CASE k = 0
    BY <1>1, <1>2, <2>1 DEF IInv, Shapes
  <2>2. CASE k # 0
    <3>1. k \in 1 .. Len(conns["bus"])
      BY <1>2, <2>2
    <3>2. current' \in [Owners -> Nat] /\ current'["bus"] = 0
          /\ current'["sdk"] = current["sdk"]
      BY <1>1, <2>2 DEF IInv, Shapes
    <3>3. Release("bus", k)
      BY <1>1, <2>2
    <3> HIDE DEF k
    <3>4. QED  BY <1>1, <1>2, <3>1, <3>2, <3>3, ReleaseFacts DEF IInv
  <2>3. QED  BY <2>1, <2>2
<1>4. /\ DOMAIN conns["bus"] = 1 .. Len(conns["bus"])
      /\ DOMAIN conns'["bus"] = 1 .. Len(conns["bus"])
  BY <1>1, <1>2, <1>3
<1> HIDE DEF k
<1>5. Shapes'
  BY <1>1, <1>3 DEF IInv, Shapes
<1>6. SdkInv'
  BY <1>1, <1>3, SdkFrame DEF IInv
<1>7. BusRanges' /\ BusInv' /\ EngineInv'
  BY <1>1, <1>2, <1>3 DEF IInv, AppInv, BusRanges, BusInv, EngineInv
<1>8. Losses'
  <2>1. LostEngines' = LostEngines
    BY <1>1 DEF LostEngines
  <2>2. LostConns' = LostConns
    BY <1>1, <1>2, <1>3, <1>4 DEF LostConns, k
  <2>3. QED  BY <1>1, <2>1, <2>2, NothingLost DEF IInv, AppInv, Losses
<1>9. QED  BY <1>5, <1>6, <1>7, <1>8 DEF IInv, AppInv

LEMMA CloseRegistryRaisesStep ==
    ASSUME IInv, CloseRegistryRaises
    PROVE  IInv'
<1> DEFINE k == current["bus"]
<1>1. /\ phase = "close_registry" /\ phase' = "stopped" /\ failures' = failures + 1
      /\ "bus" \in Owners /\ "sdk" \in Owners
      /\ k # 0 /\ Break("bus", k)
      /\ UNCHANGED <<owned, event_bus, current, using, closing, overlapped,
                     engines, engine, factory, session>>
  BY DEF CloseRegistryRaises, Quiet, clientVars, Owners
<1>2. /\ k \in 1 .. Len(conns["bus"]) /\ conns["bus"] \in Seq(States)
      /\ Len(conns["bus"]) \in Nat
      /\ \A r \in Requests : using[r] = 0
  BY <1>1 DEF IInv, Shapes, AppInv, BusRanges, BusInv, EngineInv
<1>3. /\ conns' \in [Owners -> Seq(States)]
      /\ conns'["sdk"] = conns["sdk"]
      /\ Len(conns'["bus"]) = Len(conns["bus"])
      /\ \A d \in 1 .. Len(conns["bus"]) : d # k => conns'["bus"][d] = conns["bus"][d]
  <2> HIDE DEF k
  <2>1. QED  BY <1>1, <1>2, ReleaseFacts DEF IInv
<1>4. /\ DOMAIN conns["bus"] = 1 .. Len(conns["bus"])
      /\ DOMAIN conns'["bus"] = 1 .. Len(conns["bus"])
  BY <1>1, <1>2, <1>3
<1>5. Shapes'
  BY <1>1, <1>3 DEF IInv, Shapes
<1>6. SdkInv'
  BY <1>1, <1>3, SdkFrame DEF IInv
<1>7. BusRanges' /\ BusInv' /\ EngineInv'
  BY <1>1, <1>2, <1>3 DEF IInv, AppInv, BusRanges, BusInv, EngineInv
<1>8. Losses'
  <2>1. LostEngines' = LostEngines \cup {engine}
    BY <1>1 DEF IInv, AppInv, EngineInv, LostEngines
  <2>2. LostConns' \in {LostConns, LostConns \cup {k}}
    BY <1>1, <1>2, <1>3, <1>4 DEF LostConns
  <2>3. QED  BY <1>1, <2>1, <2>2, OneLost DEF IInv, AppInv
<1>9. QED  BY <1>5, <1>6, <1>7, <1>8 DEF IInv, AppInv

LEMMA CloseDbStep ==
    ASSUME IInv, CloseDb
    PROVE  IInv'
<1>1. /\ phase = "close_db" /\ phase' = "stopped"
      /\ engines' = [engines EXCEPT ![engine] = "disposed"] /\ engine' = 0
      /\ UNCHANGED <<owned, event_bus, current, conns, using, closing, overlapped,
                     factory, session, failures>>
  BY DEF CloseDb, Disposed, Quiet, clientVars
<1>2. /\ engines \in Seq({"open", "disposed"}) /\ Len(engines) \in Nat
      /\ DOMAIN engines = 1 .. Len(engines) /\ engine \in 1 .. Len(engines)
  BY <1>1 DEF IInv, Shapes, AppInv, EngineInv
<1>3. /\ engines' \in Seq({"open", "disposed"}) /\ Len(engines') = Len(engines)
      /\ DOMAIN engines' = DOMAIN engines
      /\ engines'[engine] = "disposed"
      /\ \A e \in 1 .. Len(engines) : e # engine => engines'[e] = engines[e]
  BY <1>1, <1>2
<1>4. Shapes'
  BY <1>1, <1>3 DEF IInv, Shapes
<1>5. SdkInv'
  BY <1>1, SdkFrame DEF IInv
<1>6. BusRanges' /\ BusInv' /\ EngineInv'
  BY <1>1, <1>2, <1>3 DEF IInv, AppInv, BusRanges, BusInv, EngineInv
<1>7. Losses'
  <2>1. LostEngines' = LostEngines
    BY <1>1, <1>2, <1>3 DEF LostEngines
  <2>2. LostConns' = LostConns
    BY <1>1 DEF LostConns
  <2>3. failures' <= Len(engines')
    BY <1>1, <1>2, <1>3 DEF IInv, AppInv, Losses, Shapes
  <2>4. QED  BY <1>1, <2>1, <2>2, <2>3, NothingLost DEF IInv, AppInv
<1>8. QED  BY <1>4, <1>5, <1>6, <1>7 DEF IInv, AppInv

LEMMA CloseDbRaisesStep ==
    ASSUME IInv, CloseDbRaises
    PROVE  IInv'
<1>1. /\ phase = "close_db" /\ phase' = "stopped" /\ failures' = failures + 1
      /\ UNCHANGED <<owned, event_bus, current, conns, using, closing, overlapped,
                     engines, engine, factory, session>>
  BY DEF CloseDbRaises, Quiet, clientVars
<1>2. Shapes'
  BY <1>1 DEF IInv, Shapes
<1>3. SdkInv'
  BY <1>1, SdkFrame DEF IInv
<1>4. BusRanges' /\ BusInv' /\ EngineInv'
  BY <1>1 DEF IInv, AppInv, BusRanges, BusInv, EngineInv
<1>5. Losses'
  <2>1. LostEngines' = LostEngines \cup {engine}
    BY <1>1 DEF IInv, AppInv, EngineInv, LostEngines
  <2>2. LostConns' = LostConns
    BY <1>1 DEF LostConns
  <2>3. QED  BY <1>1, <2>1, <2>2, OneLost DEF IInv, AppInv
<1>6. QED  BY <1>2, <1>3, <1>4, <1>5 DEF IInv, AppInv

LEMMA StutterStep ==
    ASSUME IInv, UNCHANGED vars
    PROVE  IInv'
<1>1. Shapes'
  BY DEF IInv, Shapes, vars, clientVars, appVars
<1>2. SdkInv'
  BY SdkFrame DEF IInv, vars, clientVars
<1>3. AppInv'
  BY AppFrame DEF IInv, vars
<1>4. QED  BY <1>1, <1>2, <1>3 DEF IInv

----------------------------------------------------------------------------
\* The inductive invariant holds however emits, closes, requests, starts and
\* stops interleave.
THEOREM Invariance == Spec => []IInv
<1>1. Init => IInv
  BY InitIInv
<1>2. IInv /\ [Next]_vars => IInv'
  <2> SUFFICES ASSUME IInv, [Next]_vars
               PROVE  IInv'
    OBVIOUS
  <2>1. CASE UNCHANGED vars
    BY <2>1, StutterStep
  <2>2. ASSUME NEW t \in Tasks,
               \/ Enter(t) \/ Emit(t) \/ Emitted(t)
               \/ Close(t) \/ Closed(t) \/ CloseRaises(t)
        PROVE  IInv'
    BY <2>2, EnterStep, EmitStep, EmittedStep, CloseStep, ClosedStep, CloseRaisesStep
  <2>3. ASSUME NEW r \in Requests,
               BeginRequest(r) \/ Publish(r) \/ Published(r) \/ EndRequest(r)
        PROVE  IInv'
    BY <2>3, BeginRequestStep, PublishStep, PublishedStep, EndRequestStep
  <2>4. CASE InitDb \/ BuildRegistry \/ StartFails
    BY <2>4, InitDbStep, BuildRegistryStep, StartFailsStep
  <2>5. CASE Stop \/ CloseRegistry \/ CloseRegistryRaises \/ CloseDb \/ CloseDbRaises
    BY <2>5, StopStep, CloseRegistryStep, CloseRegistryRaisesStep, CloseDbStep,
       CloseDbRaisesStep
  <2>6. QED  BY <2>1, <2>2, <2>3, <2>4, <2>5 DEF Next
<1>3. QED  BY <1>1, <1>2, PTL DEF Spec

\* Type correctness of the client and of the application's life cycle.
THEOREM TypeCorrect == Spec => []TypeOK
<1>1. IInv => TypeOK
  <2> SUFFICES ASSUME IInv PROVE TypeOK
    OBVIOUS
  <2>1. failures \in 0 .. Len(engines)
    BY DEF IInv, Shapes, AppInv, Losses
  <2>2. QED  BY <2>1 DEF IInv, Shapes, SdkInv, SdkRanges, AppInv, BusRanges,
             EngineInv, TypeOK, Owners, States
<1>2. QED  BY <1>1, Invariance, PTL

\* A DoxClient loses no connection and closes none that it was given, for any
\* number of tasks that share it, as long as closes do not overlap
\* (_ensure_client, close).
THEOREM NoConnectionIsLost == Spec => []ConnectionsAreOwned
<1>1. IInv => ConnectionsAreOwned
  BY DEF IInv, SdkInv
<1>2. QED  BY <1>1, Invariance, PTL

\* No request ever works with a disposed engine or a closed bus connection,
\* however often the application is started and stopped, also after starts and
\* stops that raised (get_session, lifespan).
THEOREM NothingIsClosedInUse == Spec => []RequestsAreServed
<1>1. IInv => RequestsAreServed
  BY DEF IInv, AppInv, BusInv, EngineInv, RequestsAreServed
<1>2. QED  BY <1>1, Invariance, PTL

\* A stopped application has left open at most one engine and one connection
\* for each start or stop that raised (close_db, AdapterRegistry.close).
THEOREM StoppedMeansReleased == Spec => []StopReleasesAll
<1>1. IInv => StopReleasesAll
  <2> SUFFICES ASSUME IInv, phase = "stopped"
               PROVE  /\ Cardinality({e \in DOMAIN engines : engines[e] = "open"})
                             <= failures
                      /\ Cardinality({c \in DOMAIN conns["bus"] :
                                          conns["bus"][c] # "closed"}) <= failures
    BY DEF StopReleasesAll
  <2>1. /\ LostEngines = {e \in DOMAIN engines : engines[e] = "open"}
        /\ LostConns = {c \in DOMAIN conns["bus"] : conns["bus"][c] # "closed"}
    BY DEF LostEngines, LostConns
  <2>2. QED  BY <2>1 DEF IInv, AppInv, Losses
<1>2. QED  BY <1>1, Invariance, PTL

=============================================================================
