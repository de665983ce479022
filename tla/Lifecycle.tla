----------------------------- MODULE Lifecycle ------------------------------
(***************************************************************************)
(* What is opened and closed: the HTTP connection of the SDK's DoxClient   *)
(* (sdk/python/dox_sdk/client.py), the event bus's connection to Redis     *)
(* (common/adapters/event_bus.py), and the database engine and adapter     *)
(* registry of the ingestion application (services/ingestion/app.py,       *)
(* common/db.py, common/adapters/registry.py).                             *)
(*                                                                         *)
(* Both connections are opened by their first use and closed by            *)
(*     if it is not None: await it.aclose(); it = None                     *)
(* so that calls run while a close is awaited.  The tasks of an agent      *)
(* share one DoxClient; they emit, close and emit again as they like.  The *)
(* application is started and stopped, again and again in one process; its *)
(* server lets the requests finish before it stops the application.        *)
(***************************************************************************)
EXTENDS Integers, Sequences, FiniteSets

CONSTANTS
    Tasks,          \* an agent's tasks that share a DoxClient
    Requests,       \* requests the application serves at the same time
    MaxConnections, \* bound: connections each owner opens in a behaviour
    MaxStarts       \* bound: starts of the application in a behaviour

ASSUME BoundsAssumption == MaxConnections \in Nat \ {0} /\ MaxStarts \in Nat

\* An agent and the application are different programs.
ASSUME ProcessesAssumption == Tasks \cap Requests = {}

VARIABLES
    owned,      \* _owned_client: the DoxClient was given no http_client
    event_bus,  \* settings.adapters: the event bus, or a name that is unknown
    current,    \* _http and _client: an owner's connection, 0 for None
    conns,      \* the connections an owner has opened
    using,      \* the connection that a task or request awaits
    closing,    \* the connection whose aclose a task awaits
    overlapped, \* history: a close began while another one was awaited
    phase,      \* where the lifespan of the application is
    engines,    \* the engines that init_db created
    engine,     \* _engine
    factory,    \* the engine of _session_factory
    session,    \* the engine of a request's session
    failures    \* history: starts and stops of the application that raised

clientVars == <<closing, overlapped>>
appVars == <<phase, engines, engine, factory, session, failures>>
vars == <<owned, event_bus, current, conns, using, clientVars, appVars>>

Owners == {"sdk", "bus"}

Init ==
    /\ owned \in BOOLEAN
    /\ event_bus \in {"redis_streams", "in_memory", "unknown"}
    /\ current = [o \in Owners |-> IF o = "sdk" /\ ~owned THEN 1 ELSE 0]
    /\ conns = [o \in Owners |-> IF o = "sdk" /\ ~owned THEN <<"open">> ELSE <<>>]
    /\ using = [p \in Tasks \cup Requests |-> 0]
    /\ closing = [t \in Tasks |-> 0]
    /\ overlapped = FALSE
    /\ phase = "stopped"
    /\ engines = <<>> /\ engine = 0 /\ factory = 0
    /\ session = [r \in Requests |-> 0]
    /\ failures = 0

----------------------------------------------------------------------------
\* _ensure_client and _get_client: nothing is awaited in between.
Ensure(o) ==
    IF current[o] # 0
    THEN UNCHANGED <<current, conns>>
    ELSE /\ Len(conns[o]) < MaxConnections
         /\ conns' = [conns EXCEPT ![o] = Append(@, "open")]
         /\ current' = [current EXCEPT ![o] = Len(conns[o]) + 1]

\* A call takes the connection and awaits its answer, whatever that is.
Use(o, p) ==
    /\ using[p] = 0
    /\ Ensure(o)
    /\ using' = [using EXCEPT ![p] = current'[o]]

Used(p) ==
    /\ using[p] # 0
    /\ using' = [using EXCEPT ![p] = 0]
    /\ UNCHANGED <<current, conns>>

\* aclose has released connection c.  One whose aclose has raised before may
\* stay broken: the httpx client does nothing the second time.
Release(o, c) ==
    \E state \in {"closed", conns[o][c]} \ {"open"} :
        conns' = [conns EXCEPT ![o][c] = state]

\* aclose has raised: c may be released or not, and the owner keeps it.
Break(o, c) == conns' = [conns EXCEPT ![o][c] = IF @ = "open" THEN "broken" ELSE @]

----------------------------------------------------------------------------
\* DoxClient.  __aenter__ opens the connection.
Idle(t) == using[t] = 0 /\ closing[t] = 0

Enter(t) ==
    /\ Idle(t) /\ Ensure("sdk")
    /\ UNCHANGED <<owned, event_bus, using, clientVars, appVars>>

\* emit and emit_batch; a batch of no events returns before it.
Emit(t) ==
    /\ Idle(t) /\ Use("sdk", t)
    /\ UNCHANGED <<owned, event_bus, clientVars, appVars>>

Emitted(t) ==
    /\ Used(t)
    /\ UNCHANGED <<owned, event_bus, clientVars, appVars>>

\* Variant: a connection that was injected is closed like any other.
ClosableAny == current["sdk"] # 0

Closable == current["sdk"] # 0 /\ owned

\* close and __aexit__
Close(t) ==
    /\ Idle(t) /\ Closable
    /\ closing' = [closing EXCEPT ![t] = current["sdk"]]
    /\ overlapped' = (overlapped \/ \E u \in Tasks : closing[u] # 0)
    /\ UNCHANGED <<owned, event_bus, current, conns, using, appVars>>

\* _http = None, whichever connection it is by now.
Closed(t) ==
    /\ closing[t] # 0
    /\ Release("sdk", closing[t])
    /\ current' = [current EXCEPT !["sdk"] = 0]
    /\ closing' = [closing EXCEPT ![t] = 0]
    /\ UNCHANGED <<owned, event_bus, using, overlapped, appVars>>

CloseRaises(t) ==
    /\ closing[t] # 0
    /\ Break("sdk", closing[t])
    /\ closing' = [closing EXCEPT ![t] = 0]
    /\ UNCHANGED <<owned, event_bus, current, using, overlapped, appVars>>

----------------------------------------------------------------------------
Quiet == UNCHANGED <<owned, event_bus, clientVars>>

\* Variant: the session factory is made by the first start only.
FirstFactory == IF factory = 0 THEN Len(engines) + 1 ELSE factory

\* Variant: the session factory is made before the engine.
EarlyFactory == engine

\* async_sessionmaker(_engine)
NewFactory == Len(engines) + 1

\* init_db: an engine that close_db did not dispose of is forgotten.
InitDb ==
    /\ phase = "stopped" /\ Len(engines) < MaxStarts
    /\ engines' = Append(engines, "open")
    /\ engine' = Len(engines) + 1
    /\ factory' = NewFactory
    /\ phase' = "starting"
    /\ UNCHANGED <<current, conns, using, session, failures>> /\ Quiet

\* AdapterRegistry(settings): adapters that hold no connection yet.
BuildRegistry ==
    /\ phase = "starting" /\ event_bus # "unknown"
    /\ current' = [current EXCEPT !["bus"] = 0]
    /\ phase' = "serving"
    /\ UNCHANGED <<conns, using, engines, engine, factory, session, failures>> /\ Quiet

\* ConfigurationError for a name that is unknown, or the object store's
\* directory cannot be made: nothing undoes init_db.
StartFails ==
    /\ phase = "starting"
    /\ phase' = "stopped"
    /\ failures' = failures + 1
    /\ UNCHANGED <<current, conns, using, engines, engine, factory, session>> /\ Quiet

\* get_session; without a factory it would raise RuntimeError.
BeginRequest(r) ==
    /\ phase = "serving" /\ session[r] = 0
    /\ factory # 0
    /\ session' = [session EXCEPT ![r] = factory]
    /\ UNCHANGED <<current, conns, using, phase, engines, engine, factory, failures>>
    /\ Quiet

\* RedisStreamsEventBusAdapter.publish; the bus in memory opens nothing.
Publish(r) ==
    /\ session[r] # 0 /\ event_bus = "redis_streams"
    /\ Use("bus", r)
    /\ UNCHANGED appVars /\ Quiet

Published(r) ==
    /\ Used(r)
    /\ UNCHANGED appVars /\ Quiet

EndRequest(r) ==
    /\ session[r] # 0 /\ using[r] = 0
    /\ session' = [session EXCEPT ![r] = 0]
    /\ UNCHANGED <<current, conns, using, phase, engines, engine, factory, failures>>
    /\ Quiet

\* The server has finished the requests and resumes the lifespan.
Stop ==
    /\ phase = "serving"
    /\ \A r \in Requests : session[r] = 0
    /\ phase' = "close_registry"
    /\ UNCHANGED <<current, conns, using, engines, engine, factory, session, failures>>
    /\ Quiet

\* AdapterRegistry.close: of its adapters only the event bus has something to close.
CloseRegistry ==
    /\ phase = "close_registry"
    /\ IF current["bus"] = 0
       THEN UNCHANGED <<current, conns>>
       ELSE /\ Release("bus", current["bus"])
            /\ current' = [current EXCEPT !["bus"] = 0]
    /\ phase' = "close_db"
    /\ UNCHANGED <<using, engines, engine, factory, session, failures>> /\ Quiet

\* The bus's aclose raises: close_db is not called.
CloseRegistryRaises ==
    /\ phase = "close_registry" /\ current["bus"] # 0
    /\ Break("bus", current["bus"])
    /\ phase' = "stopped"
    /\ failures' = failures + 1
    /\ UNCHANGED <<current, using, engines, engine, factory, session>> /\ Quiet

\* Variant: the engine is forgotten, not disposed of.
Forgotten == engines

Disposed == [engines EXCEPT ![engine] = "disposed"]

\* close_db: _session_factory stays.
CloseDb ==
    /\ phase = "close_db"
    /\ engines' = Disposed
    /\ engine' = 0
    /\ phase' = "stopped"
    /\ UNCHANGED <<current, conns, using, factory, session, failures>> /\ Quiet

\* dispose raises.
CloseDbRaises ==
    /\ phase = "close_db"
    /\ phase' = "stopped"
    /\ failures' = failures + 1
    /\ UNCHANGED <<current, conns, using, engines, engine, factory, session>> /\ Quiet

Next ==
    \/ \E t \in Tasks : Enter(t) \/ Emit(t) \/ Emitted(t)
                        \/ Close(t) \/ Closed(t) \/ CloseRaises(t)
    \/ \E r \in Requests : BeginRequest(r) \/ Publish(r) \/ Published(r) \/ EndRequest(r)
    \/ InitDb \/ BuildRegistry \/ StartFails
    \/ Stop \/ CloseRegistry \/ CloseRegistryRaises \/ CloseDb \/ CloseDbRaises

Spec == Init /\ [][Next]_vars

----------------------------------------------------------------------------
TypeOK ==
    /\ \A o \in Owners :
           /\ conns[o] \in Seq({"open", "closed", "broken"})
           /\ Len(conns[o]) <= MaxConnections
           /\ current[o] \in 0 .. Len(conns[o])
    /\ \A t \in Tasks : using[t] \in 0 .. Len(conns["sdk"])
                        /\ closing[t] \in 0 .. Len(conns["sdk"])
    /\ \A r \in Requests : using[r] \in 0 .. Len(conns["bus"])
    /\ phase \in {"stopped", "starting", "serving", "close_registry", "close_db"}
    /\ engines \in Seq({"open", "disposed"})
    /\ engine \in DOMAIN engines \cup {0} /\ factory \in DOMAIN engines \cup {0}
    /\ phase # "stopped" => engine # 0 /\ factory # 0
    /\ failures \in 0 .. Len(engines)

\* A DoxClient loses no connection: an open one is the one that its next call
\* uses and its next close closes, however emits and closes interleave, as long
\* as no close began while another was awaited.  One that was injected stays
\* open (_ensure_client, close).
ConnectionsAreOwned ==
    /\ owned /\ ~overlapped =>
           \A c \in DOMAIN conns["sdk"] : conns["sdk"][c] = "open" => c = current["sdk"]
    /\ ~owned => current["sdk"] = 1 /\ conns["sdk"] = <<"open">>

\* A request works with the engine and with the bus connection of this start
\* of the application, and neither is closed under it (get_session, lifespan).
RequestsAreServed ==
    \A r \in Requests :
        /\ session[r] # 0 => session[r] = engine /\ engines[engine] = "open"
        /\ using[r] # 0 => using[r] = current["bus"] /\ conns["bus"][using[r]] = "open"

\* A stopped application holds no engine and no bus connection, but for one of
\* each for every start or stop that has raised (lifespan, close_db, close).
StopReleasesAll ==
    phase = "stopped" =>
        /\ Cardinality({e \in DOMAIN engines : engines[e] = "open"}) <= failures
        /\ Cardinality({c \in DOMAIN conns["bus"] : conns["bus"][c] # "closed"}) <= failures

=============================================================================
