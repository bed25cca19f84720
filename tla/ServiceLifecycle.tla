-------------------------- MODULE ServiceLifecycle --------------------------
(***************************************************************************)
(* The life of one server process (cmd/server/cmd.go): the configuration   *)
(* is loaded, fx constructs the components, runs their OnStart hooks in    *)
(* the order of construction, waits for a signal and runs their OnStop     *)
(* hooks in the reverse order (cmd/providers.go, infra/server/grpc,        *)
(* infra/db/pg).  Beside it RPCs arrive, take connections of the pool and  *)
(* are answered.                                                           *)
(*                                                                         *)
(* fx runs one hook at a time; the gRPC server and the router of the       *)
(* broker run in goroutines their hooks start.  No hook has a deadline:    *)
(* Start and Stop are given contexts without one.                          *)
(***************************************************************************)
EXTENDS ConfigReload, Sequences, FiniteSets

CONSTANTS
    Calls,        \* RPCs that clients may make
    PoolSize,     \* connections of the pool
    MaxQueries    \* bound: queries an RPC runs

ASSUME PoolAssumption == PoolSize \in Nat \ {0} /\ MaxQueries \in Nat

VARIABLES
    phase,        \* what the process is doing
    built,        \* components constructed so far
    started,      \* hooks started and not yet stopped (numStarted)
    tls,          \* settings the TLS configuration was built from
    server,       \* the gRPC server and its listener
    router,       \* the router of the broker
    pool,         \* the pool of connections
    advert,       \* external: what the registry says of this instance
    rpc           \* per RPC, how far it is and the queries it has left

lifeVars == <<phase, built, started, tls, server, router, pool, advert, rpc>>
vars == <<configVars, lifeVars>>

\* The components with hooks, in the order their constructors run: the order
\* in which RegisterAccountService needs them.
Components == <<"log", "server", "router", "pool", "registry">>

Phases == {"load", "build", "start", "started", "run", "stop", "exited", "refused", "killed"}
Ended == {"exited", "refused", "killed"}

\* "spawned": the goroutine that calls Serve was started.
ServerStates == {"none", "bound", "spawned", "serving", "broken", "draining", "stopped"}
RouterStates == {"none", "new", "starting", "running", "failed", "closed"}
PoolStates == {"none", "open", "closing", "closed"}
\* "dropped": the connection was lost before the RPC was accepted.
RpcStates == {"none", "queued", "active", "holding", "answered", "failed", "dropped"}

Init ==
    /\ ConfigInit
    /\ phase = "load" /\ built = 0 /\ started = 0
    /\ tls = [read |-> {}, verify |-> FALSE, certs |-> FALSE]
    /\ server = "none" /\ router = "none" /\ pool = "none"
    /\ advert = "no"
    /\ rpc = [c \in Calls |-> [state |-> "none", queries |-> 0]]

\* The RPCs in these states are lost with their connections.
Lost(state) == IF state = "queued" THEN "dropped" ELSE "failed"

Cut(states) ==
    rpc' = [c \in Calls |-> IF rpc[c].state \in states
                            THEN [rpc[c] EXCEPT !.state = Lost(@)] ELSE rpc[c]]

-----------------------------------------------------------------------------
(* Construction *)

Loaded ==
    /\ phase = "load"
    /\ \/ loader.pc = "loaded" /\ phase' = "build"
       \/ loader.pc \in {"failed", "unreadable"} /\ phase' = "refused"
    /\ UNCHANGED <<configVars, built, started, tls, server, router, pool, advert, rpc>>

\* ProvideTLSConfig: cfg.Service.Connection is copied, field by field.
ReadTLS ==
    /\ phase = "build" /\ built = 1
    /\ \E f \in Fields \ tls.read :
        tls' = [tls EXCEPT !.read = @ \cup {f}, ![f] = cfg[f]]
    /\ raced' = (raced \/ watcher.pc = "copying")
    /\ UNCHANGED <<file, edits, settings, cfg, loader, watcher>>
    /\ UNCHANGED <<phase, built, started, server, router, pool, advert, rpc>>

ReadingTLS == tls.read \notin {{}, Fields}

\* The next constructor: the log file is opened, the listener bound, the
\* router made, the pool filled and pinged, the provider of the registry made.
Construct ==
    /\ phase = "build" /\ built < Len(Components)
    /\ built = 1 => tls.read = Fields
    /\ built' = built + 1
    /\ server' = IF built = 1 THEN "bound" ELSE server
    /\ router' = IF built = 2 THEN "new" ELSE router
    /\ pool' = IF built = 3 THEN "open" ELSE pool
    /\ UNCHANGED <<configVars, phase, started, tls, advert, rpc>>

\* The last of them, the subscription of the Webitel client, adds a handler
\* to the router; the application is complete.
Constructed ==
    /\ phase = "build" /\ built = Len(Components)
    /\ phase' = "start"
    /\ UNCHANGED <<configVars, built, started, tls, server, router, pool, advert, rpc>>

\* A constructor fails: Start returns its error and the process ends, without
\* a hook.
ConstructFails ==
    /\ phase = "build"
    /\ phase' = "refused"
    /\ Cut({"queued"})
    /\ UNCHANGED <<configVars, built, started, tls, server, router, pool, advert>>

-----------------------------------------------------------------------------
(* Start *)

\* Mutant: the registry is told before the router runs.
StartOrder_RegistryEarly == <<"log", "server", "registry", "router", "pool">>

\* The hook that is started next.
StartOrder == Components

Starting(component) ==
    /\ phase = "start" /\ started < Len(StartOrder)
    /\ StartOrder[started + 1] = component

HookStarted == started' = started + 1

\* The logger and the pool have an OnStop only.
StartNothing ==
    /\ Starting("log") \/ Starting("pool")
    /\ HookStarted
    /\ UNCHANGED <<configVars, phase, built, tls, server, router, pool, advert, rpc>>

\* Mutant: the hook serves by itself.
StartServer_Blocks ==
    /\ Starting("server") /\ server = "bound"
    /\ server' = "serving"
    /\ UNCHANGED <<configVars, phase, built, started, tls, router, pool, advert, rpc>>

\* The hook of the server does not wait for Serve.
StartServer ==
    /\ Starting("server")
    /\ HookStarted
    /\ server' = "spawned"
    /\ UNCHANGED <<configVars, phase, built, tls, router, pool, advert, rpc>>

\* The hook of the router starts Run and waits for Running.
StartRouter ==
    /\ Starting("router") /\ router = "new"
    /\ router' = "starting"
    /\ UNCHANGED <<configVars, phase, built, started, tls, server, pool, advert, rpc>>

RouterRunning ==
    /\ Starting("router") /\ router = "running"
    /\ HookStarted
    /\ UNCHANGED <<configVars, phase, built, tls, server, router, pool, advert, rpc>>

\* Register.
StartRegistry ==
    /\ Starting("registry")
    /\ HookStarted
    /\ advert' = "yes"
    /\ UNCHANGED <<configVars, phase, built, tls, server, router, pool, rpc>>

\* Register fails: the hooks started before are stopped, Start fails.
RegisterFails ==
    /\ Starting("registry")
    /\ phase' = "stop"
    /\ UNCHANGED <<configVars, built, started, tls, server, router, pool, advert, rpc>>

\* All hooks are started; signals are not listened to yet.
AllStarted ==
    /\ phase = "start" /\ started = Len(StartOrder)
    /\ phase' = "started"
    /\ UNCHANGED <<configVars, built, started, tls, server, router, pool, advert, rpc>>

\* signal.Notify.
Notify ==
    /\ phase = "started"
    /\ phase' = "run"
    /\ UNCHANGED <<configVars, built, started, tls, server, router, pool, advert, rpc>>

-----------------------------------------------------------------------------
(* Stop *)

\* The signal is received.
Signal ==
    /\ phase = "run"
    /\ phase' = "stop"
    /\ UNCHANGED <<configVars, built, started, tls, server, router, pool, advert, rpc>>

\* The hook that is stopped next.
NextToStop == StartOrder[started]

Stopping(component) ==
    /\ phase = "stop" /\ started > 0
    /\ NextToStop = component

HookStopped == started' = started - 1

\* Deregister.  An error is collected, the other hooks are stopped all the
\* same; the registry drops the instance when its heartbeat stays away.
StopRegistry ==
    /\ Stopping("registry")
    /\ HookStopped
    /\ advert' \in {"no", "stale"}
    /\ UNCHANGED <<configVars, phase, built, tls, server, router, pool, rpc>>

\* Close of the pool: nobody gets a connection any more ...
ClosePool ==
    /\ Stopping("pool") /\ pool = "open"
    /\ pool' = "closing"
    /\ UNCHANGED <<configVars, phase, built, started, tls, server, router, advert, rpc>>

Holders == {c \in Calls : rpc[c].state = "holding"}

\* ... and Close waits until all are returned.
PoolClosed ==
    /\ Stopping("pool") /\ pool = "closing" /\ Holders = {}
    /\ HookStopped
    /\ pool' = "closed"
    /\ UNCHANGED <<configVars, phase, built, tls, server, router, advert, rpc>>

StopRouter ==
    /\ Stopping("router")
    /\ HookStopped
    /\ router' = "closed"
    /\ UNCHANGED <<configVars, phase, built, tls, server, pool, advert, rpc>>

\* GracefulStop: no new RPCs ...
StopServer ==
    /\ Stopping("server") /\ server \notin {"draining", "stopped"}
    /\ server' = "draining"
    /\ Cut({"queued"})
    /\ UNCHANGED <<configVars, phase, built, started, tls, router, pool, advert>>

Served == {c \in Calls : rpc[c].state \in {"active", "holding"}}

\* Mutant: Stop instead of GracefulStop.
ServerStopped_AtOnce ==
    /\ Stopping("server") /\ server = "draining"
    /\ HookStopped
    /\ server' = "stopped"
    /\ UNCHANGED <<configVars, phase, built, tls, router, pool, advert, rpc>>

\* ... and the ones it has are served to their end.
ServerStopped ==
    /\ Stopping("server") /\ server = "draining" /\ Served = {}
    /\ HookStopped
    /\ server' = "stopped"
    /\ UNCHANGED <<configVars, phase, built, tls, router, pool, advert, rpc>>

\* The log file is closed.
StopLog ==
    /\ Stopping("log")
    /\ HookStopped
    /\ UNCHANGED <<configVars, phase, built, tls, server, router, pool, advert, rpc>>

Exit ==
    /\ phase = "stop" /\ started = 0
    /\ phase' = "exited"
    /\ UNCHANGED <<configVars, built, started, tls, server, router, pool, advert, rpc>>

\* Before signal.Notify a signal ends the process at once, with whatever it
\* has advertised; so does a crash at any time.
Killed ==
    /\ phase \notin Ended
    /\ phase' = "killed"
    /\ advert' = IF advert = "yes" THEN "stale" ELSE advert
    /\ Cut({"queued", "active", "holding"})
    /\ UNCHANGED <<configVars, built, started, tls, server, router, pool>>

\* external: the heartbeat of an instance stayed away for too long.
Expire ==
    /\ advert = "stale"
    /\ advert' = "no"
    /\ UNCHANGED <<configVars, phase, built, started, tls, server, router, pool, rpc>>

-----------------------------------------------------------------------------
(* Goroutines *)

\* Serve; an error of it closes the listener, is logged, and ends nothing else.
Serve ==
    /\ phase \notin Ended /\ server = "spawned"
    /\ server' = "serving"
    /\ UNCHANGED <<configVars, phase, built, started, tls, router, pool, advert, rpc>>

ServeFails ==
    /\ phase \notin Ended /\ server = "serving"
    /\ server' = "broken"
    /\ Cut({"queued"})
    /\ UNCHANGED <<configVars, phase, built, started, tls, router, pool, advert>>

\* Run subscribes its handlers and closes Running, or returns an error that
\* nobody waits for.
RouterRuns ==
    /\ phase \notin Ended /\ router = "starting"
    /\ router' \in {"running", "failed"}
    /\ UNCHANGED <<configVars, phase, built, started, tls, server, pool, advert, rpc>>

\* A client connects: the listener queues it before anybody accepts.
Arrive(c) ==
    /\ phase \notin Ended /\ server \in {"bound", "spawned", "serving"}
    /\ rpc[c].state = "none"
    /\ \E n \in 0..MaxQueries :
        rpc' = [rpc EXCEPT ![c] = [state |-> "queued", queries |-> n]]
    /\ UNCHANGED <<configVars, phase, built, started, tls, server, router, pool, advert>>

Accept(c) ==
    /\ phase \notin Ended /\ server = "serving" /\ rpc[c].state = "queued"
    /\ rpc' = [rpc EXCEPT ![c].state = "active"]
    /\ UNCHANGED <<configVars, phase, built, started, tls, server, router, pool, advert>>

\* The next query takes a connection, once one is free ...
Acquire(c) ==
    /\ phase \notin Ended /\ rpc[c].state = "active" /\ rpc[c].queries > 0
    /\ pool = "open" /\ Cardinality(Holders) < PoolSize
    /\ rpc' = [rpc EXCEPT ![c] = [state |-> "holding", queries |-> @.queries - 1]]
    /\ UNCHANGED <<configVars, phase, built, started, tls, server, router, pool, advert>>

\* Mutants: a closed pool is like a busy one, to wait for or to give up on.
NoConnection_Waits(c) ==
    /\ phase \notin Ended /\ rpc[c].state = "active" /\ rpc[c].queries > 0
    /\ pool = "none"
    /\ rpc' = [rpc EXCEPT ![c].state = "failed"]
    /\ UNCHANGED <<configVars, phase, built, started, tls, server, router, pool, advert>>

NoConnection_Busy(c) ==
    /\ phase \notin Ended /\ rpc[c].state = "active" /\ rpc[c].queries > 0
    /\ pool # "open" \/ Cardinality(Holders) = PoolSize
    /\ rpc' = [rpc EXCEPT ![c].state = "failed"]
    /\ UNCHANGED <<configVars, phase, built, started, tls, server, router, pool, advert>>

\* ... or fails, and the RPC with it, once the pool was closed.
NoConnection(c) ==
    /\ phase \notin Ended /\ rpc[c].state = "active" /\ rpc[c].queries > 0
    /\ pool # "open"
    /\ rpc' = [rpc EXCEPT ![c].state = "failed"]
    /\ UNCHANGED <<configVars, phase, built, started, tls, server, router, pool, advert>>

Release(c) ==
    /\ phase \notin Ended /\ rpc[c].state = "holding"
    /\ rpc' = [rpc EXCEPT ![c].state = "active"]
    /\ UNCHANGED <<configVars, phase, built, started, tls, server, router, pool, advert>>

Reply(c) ==
    /\ phase \notin Ended /\ rpc[c].state = "active" /\ rpc[c].queries = 0
    /\ rpc' = [rpc EXCEPT ![c].state = "answered"]
    /\ UNCHANGED <<configVars, phase, built, started, tls, server, router, pool, advert>>

-----------------------------------------------------------------------------

Configure ==
    /\ phase \notin Ended
    /\ LoadConfig \/ WatchConfig(ReadingTLS) \/ Edit
    /\ UNCHANGED lifeVars

Build == Loaded \/ ReadTLS \/ Construct \/ Constructed \/ ConstructFails

Start ==
    \/ StartNothing \/ StartServer \/ StartRouter \/ RouterRunning
    \/ StartRegistry \/ RegisterFails \/ AllStarted \/ Notify

Stop ==
    \/ StopRegistry \/ ClosePool \/ PoolClosed \/ StopRouter
    \/ StopServer \/ ServerStopped \/ StopLog \/ Exit

Serving(c) == Accept(c) \/ Acquire(c) \/ NoConnection(c) \/ Release(c) \/ Reply(c)

Next ==
    \/ Configure \/ Build \/ Start \/ Signal \/ Stop \/ Killed \/ Expire
    \/ Serve \/ ServeFails \/ RouterRuns
    \/ \E c \in Calls : Arrive(c) \/ Serving(c)

\* fx goes from hook to hook, goroutines run, and every RPC gets on: its
\* queries end, and a connection that is free is given to whoever waits.
Spec ==
    /\ Init /\ [][Next]_vars
    /\ WF_vars(Start) /\ WF_vars(Stop) /\ WF_vars(Serve) /\ WF_vars(RouterRuns)
    /\ \A c \in Calls : WF_vars(Serving(c))

-----------------------------------------------------------------------------
(* Properties *)

TypeOK ==
    /\ ConfigTypeOK
    /\ phase \in Phases /\ built \in 0..Len(Components) /\ started \in 0..Len(StartOrder)
    /\ tls \in [read : SUBSET Fields, verify : BOOLEAN, certs : BOOLEAN]
    /\ server \in ServerStates /\ router \in RouterStates /\ pool \in PoolStates
    /\ advert \in {"no", "yes", "stale"}
    /\ rpc \in [Calls -> [state : RpcStates, queries : 0..MaxQueries]]

\* While the instance is in the registry, from before it runs until its first
\* hook is stopped, its router runs, its pool is open, its listener is bound and
\* no RPC has come to grief.  Excepted is a process whose Serve failed: its
\* listener is closed, the error is logged (server.go:39) and nothing withdraws
\* the advertisement.
AdvertisedIsServing ==
    advert = "yes" =>
        /\ router = "running"
        /\ pool = "open"
        /\ \/ /\ server \in {"spawned", "serving"}
              /\ \A c \in Calls : rpc[c].state \notin {"dropped", "failed"}
           \/ server = "broken"

\* An RPC that was accepted is only failed by a process that is on its way out,
\* never because it came early, for want of a connection or with the listener;
\* one that was not accepted is dropped by such a process, or when Serve fails.
FailuresMeanShutdown ==
    \A c \in Calls :
        /\ rpc[c].state = "failed" => phase \in {"stop", "exited", "killed"}
        /\ rpc[c].state = "dropped" => phase \in {"stop"} \cup Ended \/ server = "broken"

\* A process that ended in order, after a signal or because it could not
\* register, leaves no RPC under way and none waiting, and has stopped its
\* parts.  Every RPC it had accepted was answered, but for those that were to
\* run another query when the pool, which is closed before the server stops,
\* had been closed.  It is not advertised, unless Deregister failed and left a
\* stale entry that the registry is to drop.
ExitIsClean ==
    phase = "exited" =>
        /\ server = "stopped" /\ router = "closed" /\ pool = "closed"
        /\ advert \in {"no", "stale"}
        /\ \A c \in Calls : \/ rpc[c].state \in {"none", "dropped", "answered"}
                            \/ rpc[c].state = "failed" /\ rpc[c].queries > 0

\* Where no copy overlapped with its construction, the TLS configuration is
\* built from settings that were validated together.
TLSIsValid ==
    tls.read = Fields /\ ~raced => (tls.verify => tls.certs)

\* Nobody waits for anybody in a circle: Close waits for connections and
\* GracefulStop for RPCs, but RPCs wait for neither.
StopEnds == phase = "stop" ~> phase \in Ended

\* Start ends as well, unless the router could not subscribe: Running is
\* never closed then.
StartEnds == phase = "start" ~> phase \in {"run"} \cup Ended \/ router = "failed"

\* The settings in use belong together: those of the configuration once nobody
\* decodes or copies, and those the certificates were built from.
SettingsAreValid == ConfigSettles /\ TLSIsValid

\* fx comes to the end of its hooks (cmd.go:33, cmd.go:40).
HooksEnd == StartEnds /\ StopEnds
=============================================================================
