----------------------- MODULE ServiceLifecycle_proofs -----------------------
(***************************************************************************)
(* Theorems about ServiceLifecycle, for any number of RPCs and connections *)
(* and any edits of the file: what the order of the hooks guarantees to    *)
(* those who find the instance in the registry, and to its RPCs.           *)
(***************************************************************************)
EXTENDS ServiceLifecycle, TLAPS

States ==
    /\ phase \in Phases
    /\ server \in ServerStates /\ router \in RouterStates /\ pool \in PoolStates
    /\ advert \in {"no", "yes", "stale"}
    /\ built \in 0..5 /\ started \in 0..5

Up == server \in {"spawned", "serving", "broken"}

\* What the hooks that were started, and those not stopped yet, hold open.
BuildOK ==
    phase \in {"load", "build"} =>
        /\ started = 0 /\ advert = "no"
        /\ server \in {"none", "bound"} /\ router \in {"none", "new"}
        /\ built >= 2 => server = "bound"
        /\ built >= 3 => router = "new"
        /\ built >= 4 => pool = "open"

StartOK ==
    phase = "start" =>
        /\ pool = "open"
        /\ IF started < 2 THEN server = "bound" ELSE Up
        /\ started < 2 => router = "new"
        /\ started = 2 => router \in {"new", "starting", "running", "failed"}
        /\ started > 2 => router = "running"
        /\ IF started < 5 THEN advert = "no" ELSE advert = "yes"

RunOK ==
    phase \in {"started", "run"} =>
        started = 5 /\ advert = "yes" /\ Up /\ router = "running" /\ pool = "open"

StopOK ==
    phase = "stop" =>
        /\ started = 5 => Up /\ router = "running" /\ pool = "open"
        /\ started < 5 => advert # "yes"
        /\ started = 4 => Up /\ router = "running" /\ pool \in {"open", "closing"}
        /\ started < 4 => pool = "closed"
        /\ started = 3 => Up /\ router = "running"
        /\ started < 3 => router = "closed"
        /\ started = 2 => Up \/ server = "draining"
        /\ started < 2 => server = "stopped"

EndOK ==
    /\ phase = "exited" =>
            server = "stopped" /\ router = "closed" /\ pool = "closed" /\ advert # "yes"
    /\ phase \in {"refused", "killed"} => advert # "yes"

\* When an RPC fails, with so many queries left, and when one is dropped.
FailedLate(queries) ==
    \/ phase = "killed"
    \/ phase \in {"stop", "exited"} /\ pool # "open" /\ queries > 0

Dropping == server \in {"broken", "draining", "stopped"} \/ phase \in {"refused", "killed"}

\* The listener queues connections.
Listening == server \in {"bound", "spawned", "serving"}

\* Whom the server is serving.
RpcOK ==
    /\ rpc = [c \in Calls |-> rpc[c]]
    /\ \A c \in Calls :
        /\ rpc[c] = [state |-> rpc[c].state, queries |-> rpc[c].queries]
        /\ rpc[c].state \in RpcStates
        /\ rpc[c].state = "queued" => Listening
        /\ rpc[c].state \in {"active", "holding"} =>
                /\ phase \notin {"load", "build", "refused"}
                /\ server # "stopped"
        /\ rpc[c].state = "failed" => FailedLate(rpc[c].queries)
        /\ rpc[c].state = "dropped" => Dropping

HooksOK == States /\ BuildOK /\ StartOK /\ RunOK /\ StopOK /\ EndOK

LInv == HooksOK /\ RpcOK

-----------------------------------------------------------------------------
(* The order of the hooks *)

LEMMA ComponentOrder ==
  /\ Len(Components) = 5 /\ Len(StartOrder) = 5
  /\ StartOrder[1] = "log" /\ StartOrder[2] = "server" /\ StartOrder[3] = "router"
  /\ StartOrder[4] = "pool" /\ StartOrder[5] = "registry"
  BY DEF Components, StartOrder

\* Which hook is next says how many were started.
LEMMA StartingAt ==
  ASSUME States
  PROVE  /\ Starting("log") => phase = "start" /\ started = 0
         /\ Starting("server") => phase = "start" /\ started = 1
         /\ Starting("router") => phase = "start" /\ started = 2
         /\ Starting("pool") => phase = "start" /\ started = 3
         /\ Starting("registry") => phase = "start" /\ started = 4
  <1>1. started \in {0, 1, 2, 3, 4, 5}
    BY DEF States
  <1> QED BY <1>1, ComponentOrder DEF Starting

LEMMA StoppingAt ==
  ASSUME States
  PROVE  /\ Stopping("log") => phase = "stop" /\ started = 1
         /\ Stopping("server") => phase = "stop" /\ started = 2
         /\ Stopping("router") => phase = "stop" /\ started = 3
         /\ Stopping("pool") => phase = "stop" /\ started = 4
         /\ Stopping("registry") => phase = "stop" /\ started = 5
  <1>1. started \in {0, 1, 2, 3, 4, 5}
    BY DEF States
  <1> QED BY <1>1, ComponentOrder DEF Stopping, NextToStop

LEMMA InitLInv == Init => LInv
  BY DEF Init, LInv, RpcStates, Listening, HooksOK, States, Phases, ServerStates, RouterStates, PoolStates, BuildOK,
         StartOK, RunOK, StopOK, EndOK, RpcOK, Ended, Up

\* Every step keeps what the hooks hold open.
LEMMA NextHooks == HooksOK /\ [Next]_vars => HooksOK'
  <1> SUFFICES ASSUME HooksOK, [Next]_vars PROVE HooksOK'
    OBVIOUS
  <1> USE DEF HooksOK, States, Phases, ServerStates, RouterStates, PoolStates, BuildOK,
              StartOK, RunOK, StopOK, EndOK, Ended, Up
  <1>1. CASE Build
    <2>1. CASE Loaded
      BY <2>1 DEF Loaded
    <2>2. CASE ReadTLS
      BY <2>2 DEF ReadTLS
    <2>3. CASE Construct
      BY <2>3, ComponentOrder DEF Construct
    <2>4. CASE Constructed
      BY <2>4, ComponentOrder DEF Constructed
    <2>5. CASE ConstructFails
      BY <2>5 DEF ConstructFails
    <2> QED BY <1>1, <2>1, <2>2, <2>3, <2>4, <2>5 DEF Build
  <1>2. CASE Start
    <2>1. CASE StartNothing
      BY <2>1, StartingAt DEF StartNothing, HookStarted
    <2>2. CASE StartServer
      BY <2>2, StartingAt DEF StartServer, HookStarted
    <2>3. CASE StartRouter
      BY <2>3, StartingAt DEF StartRouter
    <2>4. CASE RouterRunning
      BY <2>4, StartingAt DEF RouterRunning, HookStarted
    <2>5. CASE StartRegistry
      BY <2>5, StartingAt DEF StartRegistry, HookStarted
    <2>6. CASE RegisterFails
      BY <2>6, StartingAt DEF RegisterFails
    <2>7. CASE AllStarted
      BY <2>7, ComponentOrder DEF AllStarted
    <2>8. CASE Notify
      BY <2>8 DEF Notify
    <2> QED BY <1>2, <2>1, <2>2, <2>3, <2>4, <2>5, <2>6, <2>7, <2>8 DEF Start
  <1>3. CASE Signal
    BY <1>3 DEF Signal
  <1>4. CASE Stop
    <2>1. CASE StopRegistry
      BY <2>1, StoppingAt DEF StopRegistry, HookStopped
    <2>2. CASE ClosePool
      BY <2>2, StoppingAt DEF ClosePool
    <2>3. CASE PoolClosed
      BY <2>3, StoppingAt DEF PoolClosed, HookStopped
    <2>4. CASE StopRouter
      BY <2>4, StoppingAt DEF StopRouter, HookStopped
    <2>5. CASE StopServer
      BY <2>5, StoppingAt DEF StopServer
    <2>6. CASE ServerStopped
      BY <2>6, StoppingAt DEF ServerStopped, HookStopped
    <2>7. CASE StopLog
      BY <2>7, StoppingAt DEF StopLog, HookStopped
    <2>8. CASE Exit
      BY <2>8 DEF Exit
    <2> QED BY <1>4, <2>1, <2>2, <2>3, <2>4, <2>5, <2>6, <2>7, <2>8 DEF Stop
  <1>5. CASE Killed
    BY <1>5 DEF Killed
  <1>6. CASE Expire
    BY <1>6 DEF Expire
  <1>7. CASE Serve
    BY <1>7 DEF Serve
  <1>8. CASE ServeFails
    BY <1>8 DEF ServeFails
  <1>9. CASE RouterRuns
    BY <1>9 DEF RouterRuns
  <1>10. CASE Configure
    BY <1>10 DEF Configure, lifeVars
  <1>11. ASSUME NEW c \in Calls, Arrive(c) \/ Serving(c) PROVE HooksOK'
    BY <1>11 DEF Arrive, Serving, Accept, Acquire, NoConnection, Release, Reply
  <1>12. CASE UNCHANGED vars
    BY <1>12 DEF vars, lifeVars
  <1> QED BY <1>1, <1>2, <1>3, <1>4, <1>5, <1>6, <1>7, <1>8, <1>9, <1>10, <1>11, <1>12 DEF Next

-----------------------------------------------------------------------------
(* RPCs *)

\* Losing connections drops and fails RPCs and leaves the others alone.
LEMMA CutKeeps ==
  ASSUME RpcOK, NEW states, Cut(states), Dropping',
         {"queued"} \subseteq states, states # {"queued"} => phase' = "killed",
         \A queries : FailedLate(queries) => FailedLate(queries)',
         \A c \in Calls : rpc[c].state \in {"active", "holding"} =>
            \/ rpc[c].state \in states
            \/ phase' \notin {"load", "build", "refused"} /\ server' # "stopped"
  PROVE  RpcOK'
  <1>1. /\ rpc' = [c \in Calls |-> rpc'[c]]
        /\ \A c \in Calls : rpc'[c] = IF rpc[c].state \in states
                        THEN [rpc[c] EXCEPT !.state = Lost(rpc[c].state)] ELSE rpc[c]
    BY DEF Cut
  <1>2. ASSUME NEW c \in Calls, rpc[c].state \in states
        PROVE  /\ rpc'[c] = [state |-> Lost(rpc[c].state), queries |-> rpc[c].queries]
               /\ Lost(rpc[c].state) \in {"dropped", "failed"}
               /\ Lost(rpc[c].state) = "failed" => phase' = "killed"
    BY <1>1, <1>2 DEF RpcOK, Lost
  <1>3. ASSUME NEW c \in Calls, rpc[c].state \notin states
        PROVE  rpc'[c] = rpc[c]
    BY <1>1, <1>3
  <1> QED BY <1>1, <1>2, <1>3 DEF RpcOK, FailedLate, RpcStates

\* The process goes on and the RPCs stay as they are.
LEMMA RpcsStay ==
  ASSUME RpcOK, UNCHANGED rpc, Dropping => Dropping', Listening => Listening',
         \A queries : FailedLate(queries) => FailedLate(queries)',
         \A c \in Calls : rpc[c].state \in {"active", "holding"} =>
            phase' \notin {"load", "build", "refused"} /\ server' # "stopped"
  PROVE  RpcOK'
  BY DEF RpcOK, FailedLate

\* One RPC in another state, the others as they are.
Moved(c, state, queries) ==
    [d \in Calls |-> IF d = c THEN [state |-> state, queries |-> queries] ELSE rpc[d]]

LEMMA MoveState ==
  ASSUME RpcOK, NEW c \in Calls, NEW state
  PROVE  [rpc EXCEPT ![c].state = state] = Moved(c, state, rpc[c].queries)
  <1>1. rpc = [d \in Calls |-> rpc[d]]
    BY DEF RpcOK
  <1>2. rpc[c] = [state |-> rpc[c].state, queries |-> rpc[c].queries]
    BY DEF RpcOK
  <1>3. [rpc[c] EXCEPT !.state = state] = [state |-> state, queries |-> rpc[c].queries]
    BY <1>2
  <1>4. [rpc EXCEPT ![c].state = state]
            = [d \in Calls |-> IF d = c THEN [rpc[c] EXCEPT !.state = state] ELSE rpc[d]]
    BY <1>1
  <1> QED BY <1>3, <1>4 DEF Moved

LEMMA MoveRpc ==
  ASSUME RpcOK, NEW c \in Calls, NEW state, NEW queries
  PROVE  [rpc EXCEPT ![c] = [state |-> state, queries |-> queries]] = Moved(c, state, queries)
  <1>1. rpc = [d \in Calls |-> rpc[d]]
    BY DEF RpcOK
  <1> QED BY <1>1 DEF Moved

LEMMA NextRpc == LInv /\ [Next]_vars => RpcOK'
  <1> SUFFICES ASSUME LInv, [Next]_vars PROVE RpcOK'
    OBVIOUS
  <1> USE DEF LInv, HooksOK, States, Phases, Ended, FailedLate, Dropping, Listening
  <1>0. \A c \in Calls : rpc[c].state \in {"active", "holding"} =>
            phase \notin {"load", "build", "refused"} /\ server # "stopped"
    BY DEF RpcOK
  <1>1. CASE Build
    <2>1. CASE ConstructFails
      <3>1. \A c \in Calls : rpc[c].state \notin {"active", "holding"}
        BY <1>0, <2>1 DEF ConstructFails
      <3> QED BY <2>1, <3>1, CutKeeps DEF ConstructFails
    <2>2. CASE Loaded \/ ReadTLS \/ Construct \/ Constructed
      BY <1>0, <2>2, RpcsStay DEF Loaded, ReadTLS, Construct, Constructed, BuildOK
    <2> QED BY <1>1, <2>1, <2>2 DEF Build
  <1>2. CASE Start
    <2>1. CASE StartServer
      <3>1. phase = "start" /\ phase' = "start" /\ server = "bound" /\ server' = "spawned"
            /\ rpc' = rpc
        BY <2>1, StartingAt DEF StartServer, StartOK, Starting
      <3> QED BY <3>1, RpcsStay
    <2>2. CASE Start /\ ~StartServer
      <3>1. rpc' = rpc /\ server' = server /\ phase \in {"start", "started"}
            /\ phase' \in {"start", "started", "run", "stop"}
        BY <2>2 DEF Start, StartNothing, StartRouter, RouterRunning, StartRegistry,
                    RegisterFails, AllStarted, Notify, Starting
      <3> QED BY <1>0, <3>1, RpcsStay
    <2> QED BY <1>2, <2>1, <2>2
  <1>3. CASE Signal
    BY <1>0, <1>3, RpcsStay DEF Signal
  <1>4. CASE Stop
    <2>1. CASE StopServer
      BY <1>0, <2>1, CutKeeps DEF StopServer, Stopping
    <2>2. CASE ServerStopped
      <3>1. \A c \in Calls : rpc[c].state \notin {"active", "holding"}
        BY <2>2 DEF ServerStopped, Served
      <3> QED BY <2>2, <3>1, RpcsStay DEF ServerStopped, Stopping
    <2>3. CASE StopRegistry \/ ClosePool \/ PoolClosed \/ StopRouter \/ StopLog \/ Exit
      BY <1>0, <2>3, RpcsStay
         DEF StopRegistry, ClosePool, PoolClosed, StopRouter, StopLog, Exit, Stopping
    <2> QED BY <1>4, <2>1, <2>2, <2>3 DEF Stop
  <1>5. CASE Killed
    BY <1>5, CutKeeps DEF Killed
  <1>6. CASE Expire
    BY <1>0, <1>6, RpcsStay DEF Expire
  <1>7. CASE Serve
    BY <1>0, <1>7, RpcsStay DEF Serve
  <1>8. CASE ServeFails
    BY <1>0, <1>8, CutKeeps DEF ServeFails
  <1>9. CASE RouterRuns
    BY <1>0, <1>9, RpcsStay DEF RouterRuns
  <1>10. CASE Configure
    BY <1>0, <1>10, RpcsStay DEF Configure, lifeVars
  <1>11. ASSUME NEW c \in Calls, Arrive(c) \/ Serving(c) PROVE RpcOK'
    <2>1. UNCHANGED <<phase, server, pool>>
      BY <1>11 DEF Arrive, Serving, Accept, Acquire, NoConnection, Release, Reply
    <2>2. PICK state, queries : /\ rpc' = Moved(c, state, queries)
                                /\ state \in {"active", "holding"} =>
                                    rpc[c].state \in {"active", "holding"} \/ server = "serving"
                                /\ state = "failed" => FailedLate(queries)
                                /\ state \in RpcStates \ {"dropped"}
                                /\ state = "queued" => Listening
      <3> USE DEF RpcStates
      <3>1. CASE Arrive(c)
        <4>1. PICK n \in 0..MaxQueries :
                  rpc' = [rpc EXCEPT ![c] = [state |-> "queued", queries |-> n]]
          BY <3>1 DEF Arrive
        <4>2. rpc' = Moved(c, "queued", n)
          BY <4>1, MoveRpc
        <4> QED BY <3>1, <4>2 DEF Arrive
      <3>2. CASE Accept(c)
        BY <3>2, MoveState DEF Accept
      <3>3. CASE Acquire(c)
        <4>1. rpc' = [rpc EXCEPT ![c] = [state |-> "holding", queries |-> rpc[c].queries - 1]]
          BY <3>3 DEF Acquire
        <4>2. rpc' = Moved(c, "holding", rpc[c].queries - 1)
          BY <4>1, MoveRpc
        <4> QED BY <3>3, <4>2 DEF Acquire
      <3>4. CASE NoConnection(c)
        <4>1. phase = "stop"
          <5>1. rpc[c].state = "active" /\ pool # "open" /\ phase \notin Ended
            BY <3>4 DEF NoConnection
          <5>2. phase \notin {"load", "build", "refused"}
            BY <5>1 DEF RpcOK
          <5> QED BY <5>1, <5>2 DEF StartOK, RunOK
        <4> QED BY <3>4, <4>1, MoveState DEF NoConnection
      <3>5. CASE Release(c)
        BY <3>5, MoveState DEF Release
      <3>6. CASE Reply(c)
        BY <3>6, MoveState DEF Reply
      <3> QED BY <1>11, <3>1, <3>2, <3>3, <3>4, <3>5, <3>6 DEF Serving
    <2>3. /\ rpc' = [d \in Calls |-> rpc'[d]]
          /\ rpc'[c] = [state |-> state, queries |-> queries]
          /\ \A d \in Calls : d # c => rpc'[d] = rpc[d]
      BY <2>2 DEF Moved
    <2>4. server = "serving" => phase \notin {"load", "build", "refused"}
      BY <1>11 DEF BuildOK, Arrive, Serving, Accept, Acquire, NoConnection, Release, Reply
    <2> QED BY <2>1, <2>2, <2>3, <2>4 DEF RpcOK
  <1>12. CASE UNCHANGED vars
    BY <1>0, <1>12, RpcsStay DEF vars, lifeVars
  <1> QED BY <1>1, <1>2, <1>3, <1>4, <1>5, <1>6, <1>7, <1>8, <1>9, <1>10, <1>11, <1>12 DEF Next

LEMMA LInvHolds == Spec => []LInv
  <1>1. LInv /\ [Next]_vars => LInv'
    BY NextHooks, NextRpc DEF LInv
  <1> QED BY <1>1, InitLInv, PTL DEF Spec

-----------------------------------------------------------------------------
(* The configuration and what is built from it *)

\* Where the watcher is, for everybody else: nothing of its copy is written.
Untouched == watcher.pc = "copying" => watcher.todo = Fields

\* A version that is copied was validated, and what was copied so far is of it.
CopyOK ==
    watcher.pc = "copying" =>
        /\ Valid(watcher.from) /\ watcher.todo # {}
        /\ ~raced /\ loader.pc = "loaded" =>
                \A f \in Fields \ watcher.todo : cfg[f] = watcher.from[f]

\* LoadConfig decodes and validates one version, unless the watcher interferes.
DecodeOK ==
    /\ loader.pc = "read" => watcher.pc = "off"
    /\ loader.pc = "unmarshal" => loader.todo # {}
    /\ ~raced /\ loader.pc \in {"unmarshal", "validate", "certs"} => Untouched
    /\ ~raced /\ loader.pc = "unmarshal" =>
            \A f \in Fields \ loader.todo : cfg[f] = loader.from[f]
    /\ ~raced /\ loader.pc \in {"validate", "certs"} =>
            \A f \in Fields : cfg[f] = loader.from[f]
    /\ loader.pc = "certs" /\ ~raced => cfg["verify"]

\* The TLS configuration is read from a configuration that was loaded, and
\* none of it is of another one as long as a field is missing.
TLSOK ==
    /\ tls \in [read : SUBSET Fields, verify : BOOLEAN, certs : BOOLEAN]
    /\ phase = "build" \/ tls.read # {} => loader.pc = "loaded"
    /\ ~raced /\ ReadingTLS => Untouched /\ \A f \in tls.read : tls[f] = cfg[f]

CInv == ConfigTypeOK /\ CopyOK /\ DecodeOK /\ TLSOK /\ ConfigSettles /\ TLSIsValid

LEMMA TwoFields == Fields = {"verify", "certs"} /\ "verify" # "certs"
  BY DEF Fields

LEMMA InitCInv == Init => CInv
  <1> SUFFICES ASSUME Init PROVE CInv
    OBVIOUS
  <1>1. Defaults \in Config /\ [f \in Fields |-> FALSE] \in Config
    BY DEF Defaults, Config, Fields
  <1>2. ConfigTypeOK
    <2>1. loader \in [pc : LoaderPCs, from : Config, todo : SUBSET Fields]
      BY <1>1 DEF Init, ConfigInit, LoaderPCs
    <2>2. watcher \in [pc : WatcherPCs, from : Config, todo : SUBSET Fields]
      BY <1>1 DEF Init, ConfigInit, WatcherPCs
    <2>3. settings \in Config /\ cfg \in Config
      BY <1>1 DEF Init, ConfigInit
    <2>4. file \in Config /\ edits \in 0..MaxEdits
      BY EditsAssumption DEF Init, ConfigInit
    <2>5. raced \in BOOLEAN
      BY Zenon DEF Init, ConfigInit
    <2> QED BY <2>1, <2>2, <2>3, <2>4, <2>5 DEF ConfigTypeOK
  <1>3. CopyOK /\ DecodeOK /\ ConfigSettles
    BY DEF Init, ConfigInit, CopyOK, DecodeOK, ConfigSettles
  <1>4. tls = [read |-> {}, verify |-> FALSE, certs |-> FALSE] /\ phase = "load"
    BY DEF Init
  <1>5. TLSOK /\ TLSIsValid
    BY <1>4, TwoFields DEF TLSOK, ReadingTLS, TLSIsValid
  <1> QED BY <1>2, <1>3, <1>5 DEF CInv

LEMMA ConfigTypes ==
    ASSUME ConfigTypeOK, LoadConfig \/ WatchConfig(ReadingTLS) \/ Edit PROVE ConfigTypeOK'
  <1> USE DEF ConfigTypeOK, Config, LoaderPCs, WatcherPCs
  <1>1. CASE ReadConfig
    BY <1>1 DEF ReadConfig
  <1>2. CASE Refreshed \/ NoConfigFile \/ ReadFails \/ DecodeFails \/ ChangeUndecoded
    BY <1>2 DEF Refreshed, NoConfigFile, ReadFails, DecodeFails, ChangeUndecoded
  <1>3. CASE DecodeField
    <2>1. PICK f \in loader.todo :
            /\ cfg' = [cfg EXCEPT ![f] = loader.from[f]]
            /\ loader' = [loader EXCEPT !.todo = @ \ {f},
                    !.pc = IF loader.todo = {f} THEN "validate" ELSE "unmarshal"]
      BY <1>3 DEF DecodeField
    <2>2. loader.from[f] \in BOOLEAN /\ f \in Fields
      OBVIOUS
    <2>3. cfg' \in Config
      BY <2>1, <2>2
    <2>4. loader' \in [pc : LoaderPCs, from : Config, todo : SUBSET Fields]
      BY <2>1
    <2> QED BY <1>3, <2>3, <2>4 DEF DecodeField
  <1>4. CASE ValidateVerify
    BY <1>4 DEF ValidateVerify
  <1>5. CASE ValidateCerts
    BY <1>5 DEF ValidateCerts
  <1>6. CASE NoticeChange
    BY <1>6 DEF NoticeChange
  <1>7. CASE ValidateChange
    BY <1>7 DEF ValidateChange
  <1>8. CASE CopyField(ReadingTLS)
    <2>1. PICK f \in watcher.todo :
            /\ cfg' = [cfg EXCEPT ![f] = watcher.from[f]]
            /\ watcher' = [watcher EXCEPT !.todo = @ \ {f},
                    !.pc = IF watcher.todo = {f} THEN "idle" ELSE "copying"]
      BY <1>8 DEF CopyField
    <2>2. watcher.from[f] \in BOOLEAN /\ f \in Fields
      OBVIOUS
    <2>3. cfg' \in Config
      BY <2>1, <2>2
    <2>4. watcher' \in [pc : WatcherPCs, from : Config, todo : SUBSET Fields]
      BY <2>1
    <2>5. raced' \in BOOLEAN
      BY <1>8 DEF CopyField
    <2> QED BY <1>8, <2>3, <2>4, <2>5 DEF CopyField
  <1>9. CASE Edit
    BY <1>9, EditsAssumption DEF Edit
  <1> QED BY <1>1, <1>2, <1>3, <1>4, <1>5, <1>6, <1>7, <1>8, <1>9 DEF LoadConfig, WatchConfig

LEMMA ConfigureKeeps == ASSUME CInv, Configure PROVE CInv'
  <1>1. ConfigTypeOK'
    BY ConfigTypes DEF CInv, Configure
  <1>2. UNCHANGED <<tls, phase>>
    BY DEF Configure, lifeVars
  <1> USE TwoFields DEF CInv, CopyOK, DecodeOK, TLSOK, ConfigSettles, TLSIsValid, Untouched,
                        ReadingTLS, ConfigTypeOK, Config, Valid
  <1>3. CASE ReadConfig
    BY <1>1, <1>2, <1>3 DEF ReadConfig
  <1>4. CASE Refreshed
    BY <1>1, <1>2, <1>4 DEF Refreshed
  <1>12. CASE NoConfigFile \/ ReadFails
    BY <1>1, <1>2, <1>12 DEF NoConfigFile, ReadFails
  <1>13. CASE DecodeFails \/ ChangeUndecoded
    BY <1>1, <1>2, <1>13 DEF DecodeFails, ChangeUndecoded
  <1>5. CASE DecodeField
    <2>1. PICK f \in loader.todo :
            /\ cfg' = [cfg EXCEPT ![f] = loader.from[f]]
            /\ loader' = [loader EXCEPT !.todo = @ \ {f},
                    !.pc = IF loader.todo = {f} THEN "validate" ELSE "unmarshal"]
      BY <1>5 DEF DecodeField
    <2>2. /\ loader.pc = "unmarshal" /\ (raced' <=> raced \/ watcher.pc = "copying")
          /\ UNCHANGED <<file, edits, settings, watcher>>
      BY <1>5 DEF DecodeField
    <2>3. /\ loader'.todo = loader.todo \ {f} /\ loader'.from = loader.from
          /\ loader'.pc = IF loader.todo = {f} THEN "validate" ELSE "unmarshal"
      BY <2>1
    <2>4. \A e \in Fields : cfg'[e] = IF e = f THEN loader.from[f] ELSE cfg[e]
      BY <2>1
    <2>5. tls.read = {}
      BY <2>2 DEF TLSOK
    <2>6. CopyOK'
      BY <2>2, <2>3 DEF CopyOK
    <2>7. DecodeOK'
      BY <2>2, <2>3, <2>4 DEF DecodeOK
    <2>8. TLSOK' /\ TLSIsValid'
      BY <1>2, <2>2, <2>5 DEF TLSOK, TLSIsValid
    <2>9. ConfigSettles'
      BY <2>3 DEF ConfigSettles
    <2> QED BY <1>1, <2>6, <2>7, <2>8, <2>9 DEF CInv
  <1>6. CASE ValidateVerify
    BY <1>1, <1>2, <1>6 DEF ValidateVerify
  <1>7. CASE ValidateCerts
    BY <1>1, <1>2, <1>7 DEF ValidateCerts
  <1>8. CASE NoticeChange
    BY <1>1, <1>2, <1>8 DEF NoticeChange
  <1>9. CASE ValidateChange
    BY <1>1, <1>2, <1>9 DEF ValidateChange
  <1>10. CASE CopyField(ReadingTLS)
    <2>1. PICK f \in watcher.todo :
            /\ cfg' = [cfg EXCEPT ![f] = watcher.from[f]]
            /\ watcher' = [watcher EXCEPT !.todo = @ \ {f},
                    !.pc = IF watcher.todo = {f} THEN "idle" ELSE "copying"]
      BY <1>10 DEF CopyField
    <2>2. /\ watcher.pc = "copying"
          /\ (raced' <=> raced \/ ReadingTLS \/ loader.pc \in {"unmarshal", "validate", "certs"})
          /\ UNCHANGED <<file, edits, settings, loader>>
      BY <1>10 DEF CopyField
    <2>3. /\ watcher'.todo = watcher.todo \ {f} /\ watcher'.from = watcher.from
          /\ watcher'.pc = IF watcher.todo = {f} THEN "idle" ELSE "copying"
      BY <2>1
    <2>4. \A e \in Fields : cfg'[e] = IF e = f THEN watcher.from[f] ELSE cfg[e]
      BY <2>1
    <2>5. CopyOK'
      BY <2>2, <2>3, <2>4 DEF CopyOK
    <2>6. DecodeOK'
      BY <2>2, <2>3 DEF DecodeOK
    <2>7. ReadingTLS' <=> ReadingTLS
      BY <1>2 DEF ReadingTLS
    <2>8. TLSOK' /\ TLSIsValid'
      BY <1>2, <2>2, <2>7 DEF TLSOK, TLSIsValid
    <2>9. ConfigSettles'
      BY <2>2, <2>3, <2>4 DEF ConfigSettles, Valid
    <2> QED BY <1>1, <2>5, <2>6, <2>8, <2>9 DEF CInv
  <1>11. CASE Edit
    BY <1>1, <1>2, <1>11 DEF Edit
  <1> QED BY <1>3, <1>4, <1>5, <1>6, <1>7, <1>8, <1>9, <1>10, <1>11, <1>12, <1>13
          DEF Configure, LoadConfig, WatchConfig

LEMMA ReadTLSKeeps == ASSUME CInv, ReadTLS PROVE CInv'
  <1> USE DEF CInv
  <1>1. PICK f \in Fields \ tls.read : tls' = [tls EXCEPT !.read = @ \cup {f}, ![f] = cfg[f]]
    BY DEF ReadTLS
  <1>2. /\ phase = "build" /\ (raced' <=> raced \/ watcher.pc = "copying")
        /\ UNCHANGED <<file, edits, settings, cfg, loader, watcher, phase>>
    BY DEF ReadTLS
  <1>3. cfg[f] \in BOOLEAN
    BY <1>1 DEF ConfigTypeOK, Config
  <1>4. /\ tls' \in [read : SUBSET Fields, verify : BOOLEAN, certs : BOOLEAN]
        /\ tls'.read = tls.read \cup {f}
        /\ \A e \in Fields : tls'[e] = IF e = f THEN cfg[f] ELSE tls[e]
    BY <1>1, <1>3, TwoFields DEF TLSOK
  <1>5. ~raced' => ~raced /\ watcher.pc # "copying" /\ Valid(cfg)
    BY <1>2 DEF TLSOK, ConfigSettles
  <1>6. ~raced /\ tls.read # Fields => \A e \in tls.read : tls[e] = cfg[e]
    BY DEF TLSOK, ReadingTLS
  <1>7. ~raced' => \A e \in tls'.read : tls'[e] = cfg[e]
    BY <1>1, <1>4, <1>5, <1>6
  <1>8. ConfigTypeOK'
    BY <1>2 DEF ConfigTypeOK
  <1>9. CopyOK' /\ DecodeOK' /\ ConfigSettles'
    BY <1>2 DEF CopyOK, DecodeOK, ConfigSettles, Untouched
  <1>10. TLSOK'
    BY <1>2, <1>4, <1>5, <1>7 DEF TLSOK, Untouched
  <1>11. TLSIsValid'
    BY <1>4, <1>5, <1>7, TwoFields DEF TLSIsValid, Valid
  <1> QED BY <1>8, <1>9, <1>10, <1>11

\* Every other step leaves the configuration alone; the components are only
\* built once it is loaded.
LEMMA OtherStepsKeep == ASSUME CInv, [Next]_vars PROVE Configure \/ ReadTLS \/ CInv'
  <1>1. ASSUME UNCHANGED <<configVars, tls>>, phase' = "build" => phase = "build" \/ loader.pc = "loaded"
        PROVE  CInv'
    BY <1>1 DEF configVars, CInv, ConfigTypeOK, CopyOK, DecodeOK, TLSOK, ConfigSettles, TLSIsValid,
                Untouched, ReadingTLS
  <1>2. CASE Loaded \/ Construct \/ Constructed \/ ConstructFails
    BY <1>1, <1>2 DEF Loaded, Construct, Constructed, ConstructFails
  <1>3. CASE Start
    BY <1>1, <1>3 DEF Start, StartNothing, StartServer, StartRouter, RouterRunning, StartRegistry,
                      RegisterFails, AllStarted, Notify
  <1>4. CASE Stop
    BY <1>1, <1>4 DEF Stop, StopRegistry, ClosePool, PoolClosed, StopRouter, StopServer,
                      ServerStopped, StopLog, Exit
  <1>5. CASE Signal \/ Killed \/ Expire \/ Serve \/ ServeFails \/ RouterRuns
    BY <1>1, <1>5 DEF Signal, Killed, Expire, Serve, ServeFails, RouterRuns
  <1>6. CASE \E c \in Calls : Arrive(c) \/ Serving(c)
    BY <1>1, <1>6 DEF Arrive, Serving, Accept, Acquire, NoConnection, Release, Reply
  <1>7. CASE UNCHANGED vars
    BY <1>1, <1>7 DEF vars, lifeVars
  <1> QED BY <1>2, <1>3, <1>4, <1>5, <1>6, <1>7 DEF Next, Build

-----------------------------------------------------------------------------
(* The theorems *)

\* Whoever finds the instance in the registry finds its router running, its
\* pool open and, unless Serve failed, its listener bound and no RPC lost.
THEOREM AdvertisedAreServing == Spec => []AdvertisedIsServing
  <1>1. LInv => AdvertisedIsServing
    BY DEF LInv, HooksOK, States, Phases, BuildOK, StartOK, RunOK, StopOK, EndOK,
           AdvertisedIsServing, Up, RpcOK, FailedLate, Dropping
  <1> QED BY <1>1, LInvHolds, PTL

\* RPCs are failed by a process on its way out, and dropped by such a one or
\* by one without its listener.
THEOREM FailuresAreShutdown == Spec => []FailuresMeanShutdown
  <1>1. LInv => FailuresMeanShutdown
    BY DEF LInv, HooksOK, BuildOK, StartOK, RunOK, States, Phases, Ended, Up, RpcOK,
           FailedLate, Dropping, FailuresMeanShutdown
  <1> QED BY <1>1, LInvHolds, PTL

\* A process that ended in order stopped its parts, has no RPC under way, and
\* answered all it had accepted but those that wanted the pool after its end;
\* its advertisement is withdrawn or, where Deregister failed, stale.
THEOREM ExitsAreClean == Spec => []ExitIsClean
  <1>1. LInv => ExitIsClean
    BY DEF LInv, HooksOK, States, EndOK, RpcOK, RpcStates, Listening, FailedLate, ExitIsClean
  <1> QED BY <1>1, LInvHolds, PTL

\* Settings that are in use were validated together, whatever was edited and
\* when, unless a copy overlapped with another access to them.
THEOREM SettingsStayValid == Spec => []SettingsAreValid
  <1>1. CInv /\ [Next]_vars => CInv'
    BY ConfigureKeeps, ReadTLSKeeps, OtherStepsKeep
  <1>2. CInv => SettingsAreValid
    BY DEF CInv, SettingsAreValid
  <1> QED BY <1>1, <1>2, InitCInv, PTL DEF Spec
=============================================================================
