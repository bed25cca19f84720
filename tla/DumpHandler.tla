----------------------------- MODULE DumpHandler -----------------------------
(***************************************************************************)
(* What the service logs of its connections and RPCs when it is started    *)
(* with WBTL_LOG_DEBUG=grpc: infra/x/grpcx/handler.go.                     *)
(*                                                                         *)
(* grpc calls the handler for every event of a connection and of an RPC,   *)
(* the ones it serves and the ones it calls others with.  The handler      *)
(* keeps the events in a tag of the RPC, and writes an entry for what is   *)
(* read, what is sent, and the end.  An entry names the address of the     *)
(* peer, which the tag has from the first header that went out, or came    *)
(* in; without it String() is called on a nil address, and nothing between *)
(* here and main recovers.  The library is external: its events and their  *)
(* order are those of grpc-go, with a goroutine for the caller and another *)
(* that reads the transport.                                               *)
(***************************************************************************)
EXTENDS Integers, Sequences, TLC

CONSTANTS
    Conns,     \* connections, named by the address of their peer
    Calls,     \* RPCs
    MaxTime,   \* the time at which the clock stops
    None       \* a nil address, an event that was not seen

ASSUME ConstantsAssumption ==
    /\ None \notin Conns /\ None \notin Calls /\ Conns \cap Calls = {}
    /\ MaxTime \in Nat \ {0}

VARIABLES
    level,     \* the least level the logger writes: "debug", "warn" or "error"
    clock,     \* Zero is long ago: the time an event that was not seen has
    connSeq, callSeq,   \* the last ids that were given
    conn,      \* what the library knows of a connection, and its tag
    rpc,       \* what the library knows of an RPC
    tag,       \* what the handler knows of it
    entries,   \* what was logged of each connection and RPC
    crashed    \* the RPC that took the process down

vars == <<level, clock, connSeq, callSeq, conn, rpc, tag, entries, crashed>>

Zero == 0
Parts == {"server", "client"}

NoConn == [state |-> "none", part |-> "server", id |-> 0]
NoCall == [at |-> "none", reader |-> "idle", part |-> "server", conn |-> None, failed |-> FALSE]

\* gRPCallTag: the events of one RPC, those that an entry takes something from.
NoTag == [id |-> 0, path |-> None, peer |-> None, begin |-> Zero,
          inHeader |-> None, recv |-> Zero, outHeader |-> None, sent |-> Zero]

Init ==
    /\ level \in {"debug", "warn", "error"}
    /\ clock = 1 /\ connSeq = 0 /\ callSeq = 0
    /\ conn = [n \in Conns |-> NoConn]
    /\ rpc = [c \in Calls |-> NoCall]
    /\ tag = [c \in Calls |-> NoTag]
    /\ entries = [x \in Conns \cup Calls |-> <<>>]
    /\ crashed = None

Tick == clock < MaxTime /\ clock' = clock + 1
        /\ UNCHANGED <<level, connSeq, callSeq, conn, rpc, tag, entries, crashed>>

-----------------------------------------------------------------------------
(* The handler *)

\* Logger.Enabled
Can(lvl) == CASE level = "debug" -> TRUE
              [] level = "warn" -> lvl = "warn"
              [] level = "error" -> FALSE

\* Mutant: the sequence is read and never advanced.
NextId_Stuck(seq) == 1

\* atomic.AddUint64
NextId(seq) == seq + 1

\* TagConn
TagConn(n, part) ==
    /\ connSeq' = NextId(connSeq)
    /\ conn' = [conn EXCEPT ![n] = [state |-> "open", part |-> part, id |-> NextId(connSeq)]]

\* HandleConn, with onConnBegin and onConnEnd.
LogConn(kind, n, part, id) ==
    entries' = IF Can("debug")
               THEN [entries EXCEPT ![n] = Append(@, [kind |-> kind, part |-> part, id |-> id, peer |-> n])]
               ELSE entries

\* TagRPC
TagRPC(c) ==
    /\ callSeq' = NextId(callSeq)
    /\ tag' = [tag EXCEPT ![c] = [NoTag EXCEPT !.id = NextId(callSeq), !.path = c]]

OnRpcBegin(t) == [t EXCEPT !.begin = clock]

\* Only what is served learns its peer from the header that comes in.
OnRpcHeader(t, c, part, peer) ==
    [t EXCEPT !.inHeader = c, !.peer = IF part = "server" THEN peer ELSE @]

\* Mutant: the other way round.
OnOutHeader_Served(t, c, part, peer) ==
    [t EXCEPT !.outHeader = c, !.peer = IF part = "server" THEN peer ELSE @]

\* Only what is called learns its peer from the header that goes out.
OnOutHeader(t, c, part, peer) ==
    [t EXCEPT !.outHeader = c, !.peer = IF part = "client" THEN peer ELSE @]

\* What an entry of any kind has; "about" is the header that came before what
\* was read or sent, or how the RPC ended.
Entry(kind, t, part, about) ==
    [kind |-> kind, part |-> part, id |-> t.id, peer |-> t.peer, path |-> t.path, at |-> clock,
     about |-> about]

\* An entry is written when its level is; its peer must not be nil.
Log(c, lvl, entry) ==
    /\ entries' = IF Can(lvl) /\ entry.peer # None THEN [entries EXCEPT ![c] = Append(@, entry)] ELSE entries
    /\ crashed' = IF Can(lvl) /\ entry.peer = None THEN c ELSE crashed

\* onRpcData, onOutData: the entry has the header that came, or went, before.
OnRpcData(c, part) ==
    LET t == [tag[c] EXCEPT !.recv = clock]
    IN  /\ tag' = [tag EXCEPT ![c] = t]
        /\ Log(c, "debug", Entry("READ", t, part, t.inHeader))
OnOutData(c, part) ==
    LET t == [tag[c] EXCEPT !.sent = clock]
    IN  /\ tag' = [tag EXCEPT ![c] = t]
        /\ Log(c, "debug", Entry("SEND", t, part, t.outHeader))

\* Mutant: the durations of the other part.
Took_Client(t, part) == [recv |-> t.recv - t.sent, send |-> t.sent - t.begin, took |-> clock - t.begin]

\* onRpcEnd: what is served is read first, what is called is sent first.
Took(t, part) ==
    IF part = "client"
    THEN [recv |-> t.recv - t.sent, send |-> t.sent - t.begin, took |-> clock - t.begin]
    ELSE [recv |-> t.recv - t.begin, send |-> clock - t.sent, took |-> clock - t.recv]

\* Mutant: as every other entry.
EndLevel_Debug(failed) == "debug"

\* A failure is a warning.
EndLevel(failed) == IF failed THEN "warn" ELSE "debug"

OnRpcEnd(c, part, failed) ==
    Log(c, EndLevel(failed), Entry("END", tag[c], part, [failed |-> failed, time |-> Took(tag[c], part)]))
-----------------------------------------------------------------------------
(* The library: connections *)

Running == crashed = None

\* A connection is accepted, or dialled.
Connect(n, part) ==
    /\ Running /\ conn[n].state = "none"
    /\ TagConn(n, part)
    /\ LogConn("BEGIN", n, part, NextId(connSeq))
    /\ UNCHANGED <<level, clock, callSeq, rpc, tag, crashed>>

\* It ends, whatever goes on in it.
Disconnect(n) ==
    /\ Running /\ conn[n].state = "open"
    /\ conn' = [conn EXCEPT ![n].state = "closed"]
    /\ LogConn("END", n, conn[n].part, conn[n].id)
    /\ UNCHANGED <<level, clock, connSeq, callSeq, rpc, tag, crashed>>

-----------------------------------------------------------------------------
(* The library: RPCs.  Trailers are left out, their handlers keep what no    *)
(* entry has.                                                                *)

At(c, part, where) == Running /\ rpc[c].part = part /\ rpc[c].at \in where
Goes(c, where) == rpc' = [rpc EXCEPT ![c].at = where]
Tagged(c, new) == tag' = [tag EXCEPT ![c] = new] /\ UNCHANGED <<entries, crashed>>
Kept == UNCHANGED <<level, clock, connSeq, callSeq, conn>>

\* An RPC comes in on a connection.
Serve(c) ==
    /\ Running /\ rpc[c].at = "none"
    /\ \E n \in Conns :
          /\ conn[n].state = "open" /\ conn[n].part = "server"
          /\ rpc' = [rpc EXCEPT ![c] = [NoCall EXCEPT !.at = "tagged", !.conn = n]]
    /\ TagRPC(c)
    /\ UNCHANGED <<level, clock, connSeq, conn, entries, crashed>>

ServeHeader(c) ==
    /\ At(c, "server", {"tagged"}) /\ Goes(c, "opened")
    /\ Tagged(c, OnRpcHeader(tag[c], c, "server", rpc[c].conn)) /\ Kept

ServeBegin(c) ==
    /\ At(c, "server", {"opened"}) /\ Goes(c, "begun")
    /\ Tagged(c, OnRpcBegin(tag[c])) /\ Kept

ServeRead(c) ==
    /\ At(c, "server", {"begun"}) /\ Goes(c, "read")
    /\ OnRpcData(c, "server") /\ Kept

\* The handler of the service answers.
Answer(c) ==
    /\ At(c, "server", {"read"}) /\ Goes(c, "headed")
    /\ Tagged(c, OnOutHeader(tag[c], c, "server", rpc[c].conn)) /\ Kept

AnswerData(c) ==
    /\ At(c, "server", {"headed"}) /\ Goes(c, "sent")
    /\ OnOutData(c, "server") /\ Kept

\* The service calls another: its header has not gone out on a connection yet.
Call(c) ==
    /\ Running /\ rpc[c].at = "none"
    /\ rpc' = [rpc EXCEPT ![c] = [NoCall EXCEPT !.at = "tagged", !.part = "client"]]
    /\ TagRPC(c)
    /\ UNCHANGED <<level, clock, connSeq, conn, entries, crashed>>

CallBegin(c) ==
    /\ At(c, "client", {"tagged"}) /\ Goes(c, "begun")
    /\ Tagged(c, OnRpcBegin(tag[c])) /\ Kept

\* A connection is picked and the header goes out on it, before the handler is
\* told.  Until it has gone out the call can fail, with a connection picked or
\* without, which is one to the handler: it has seen the begin only.
NewStream(c) ==
    /\ At(c, "client", {"begun"})
    /\ \E n \in Conns :
          /\ conn[n].state = "open" /\ conn[n].part = "client"
          /\ rpc' = [rpc EXCEPT ![c].at = "streamed", ![c].conn = n]
    /\ UNCHANGED <<tag, entries, crashed>> /\ Kept

CallHeader(c) ==
    /\ At(c, "client", {"streamed"}) /\ Goes(c, "headed")
    /\ Tagged(c, OnOutHeader(tag[c], c, "client", rpc[c].conn)) /\ Kept

CallData(c) ==
    /\ At(c, "client", {"headed"}) /\ Goes(c, "sent")
    /\ OnOutData(c, "client") /\ Kept

\* The goroutine that reads the transport sees the header of the answer.
ReadHeader(c) ==
    /\ At(c, "client", {"streamed", "headed", "sent"}) /\ rpc[c].reader = "idle"
    /\ rpc' = [rpc EXCEPT ![c].reader = "header"]
    /\ Tagged(c, OnRpcHeader(tag[c], c, "client", rpc[c].conn)) /\ Kept

ReadData(c) ==
    /\ At(c, "client", {"sent"}) /\ rpc[c].reader = "header" /\ Goes(c, "read")
    /\ OnRpcData(c, "client") /\ Kept

\* An RPC that was answered ends; any other fails sooner or later, one that is
\* served once it has begun, one that calls until its header goes out, or after
\* the handler was told that it did: the goroutine that sends it tells.
End(c) ==
    /\ \E failed \in BOOLEAN :
          /\ \/ failed /\ At(c, "server", {"begun", "read", "headed"})
             \/ failed /\ At(c, "client", {"begun", "headed", "sent", "read"})
             \/ ~failed /\ (At(c, "server", {"sent"}) \/ At(c, "client", {"read"}))
          /\ rpc' = [rpc EXCEPT ![c].at = "ended", ![c].failed = failed]
          /\ OnRpcEnd(c, rpc[c].part, failed)
    /\ UNCHANGED tag /\ Kept

Next ==
    \/ Tick /\ Running
    \/ \E n \in Conns : (\E part \in Parts : Connect(n, part)) \/ Disconnect(n)
    \/ \E c \in Calls :
          \/ Serve(c) \/ ServeHeader(c) \/ ServeBegin(c) \/ ServeRead(c) \/ Answer(c) \/ AnswerData(c)
          \/ Call(c) \/ CallBegin(c) \/ NewStream(c) \/ CallHeader(c) \/ CallData(c)
          \/ ReadHeader(c) \/ ReadData(c) \/ End(c)

Spec == Init /\ [][Next]_vars

-----------------------------------------------------------------------------
(* Properties *)

\* To look at the RPCs takes the process down in one case only, an RPC to
\* another service that failed before its header went out, for want of a
\* connection or because the one that was picked broke: its tag has no address,
\* and a failure is logged even where the level is not debug.  What is served
\* always has its peer, and so has a call whose header went out, although the
\* answer may be seen before the handler is told of that header.
PanicsOnlyUnconnected ==
    crashed # None =>
        /\ rpc[crashed].part = "client" /\ rpc[crashed].conn = None /\ rpc[crashed].failed
        /\ level # "error"

\* Entries can be told apart: each has the peer, the part and the path of its
\* own RPC or connection, an id that no other has, and the header that came
\* with what it is about.
EntriesNameTheirOwn ==
    /\ \A c \in Calls : \A i \in DOMAIN entries[c] :
          LET e == entries[c][i]
          IN  /\ e.peer = rpc[c].conn /\ e.part = rpc[c].part /\ e.path = c
              /\ e.kind # "END" => e.about = c
              /\ \A d \in Calls \ {c} : \A j \in DOMAIN entries[d] : entries[d][j].id # e.id
    /\ \A n \in Conns : \A i \in DOMAIN entries[n] :
          LET e == entries[n][i]
          IN  /\ e.peer = n /\ e.part = conn[n].part
              /\ \A m \in Conns \ {n} : \A j \in DOMAIN entries[m] : entries[m][j].id # e.id

\* The durations of an RPC that was answered are those of its phases: none is
\* negative, and together they are no longer than the RPC took.  Those of a
\* failed one may count from long ago.
TimesWithinCall ==
    \A c \in Calls : \A i \in DOMAIN entries[c] :
        LET e == entries[c][i]
            time == e.about.time
            life == e.at - tag[c].begin
        IN  e.kind = "END" /\ ~e.about.failed =>
                /\ time.recv >= 0 /\ time.send >= 0 /\ time.took >= 0
                /\ IF e.part = "server" THEN time.recv + time.took = life /\ time.send <= time.took
                                        ELSE time.recv + time.send <= life /\ time.took = life

\* The kinds of the entries that were written of c.
Kinds(c) == [i \in DOMAIN entries[c] |-> entries[c][i].kind]

\* At the level of debugging an RPC that was answered is logged as it went, and
\* one that failed has its end as its last entry at any level but "error".
EndsAreLogged ==
    \A c \in Calls : Running /\ rpc[c].at = "ended" =>
        /\ ~rpc[c].failed /\ level = "debug" =>
                Kinds(c) = IF rpc[c].part = "server" THEN <<"READ", "SEND", "END">> ELSE <<"SEND", "READ", "END">>
        /\ rpc[c].failed /\ level # "error" =>
                Kinds(c) # <<>> /\ \A i \in DOMAIN Kinds(c) : Kinds(c)[i] = "END" <=> i = Len(Kinds(c))

\* The log can be relied upon: entries are of what they name, their durations
\* are, and no failure is missing (handler.go:880).
LogIsTrue == EntriesNameTheirOwn /\ TimesWithinCall /\ EndsAreLogged
=============================================================================
