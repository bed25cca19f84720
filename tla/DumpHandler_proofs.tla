------------------------- MODULE DumpHandler_proofs -------------------------
(***************************************************************************)
(* Theorems about DumpHandler, for any number of connections and RPCs and  *)
(* any length of time: what takes the process down, and what the log can   *)
(* be relied upon for.  The invariant says what the tag of an RPC has at   *)
(* each point of its life, in which order its times follow each other, and *)
(* what was logged of it by then.                                          *)
(***************************************************************************)
EXTENDS DumpHandler, TLAPS

\* Where an RPC can be, served or called, and where nothing was logged of it yet.
Served == {"none", "tagged", "opened", "begun", "read", "headed", "sent", "ended"}
Called == {"tagged", "begun", "streamed", "headed", "sent", "read", "ended"}
Early == {"none", "tagged", "opened", "begun", "streamed"}

RpcType == [at : Served \cup Called, reader : {"idle", "header"}, part : Parts,
            conn : Conns \cup {None}, failed : BOOLEAN]
TagType == [id : Nat, path : Calls \cup {None}, peer : Conns \cup {None}, begin : Nat,
            inHeader : Calls \cup {None}, recv : Nat, outHeader : Calls \cup {None}, sent : Nat]

IsSeq(s) == s \in Seq({s[i] : i \in DOMAIN s})

TypesOK ==
    /\ level \in {"debug", "warn", "error"}
    /\ clock \in Nat /\ connSeq \in Nat /\ callSeq \in Nat
    /\ conn \in [Conns -> [state : {"none", "open", "closed"}, part : Parts, id : Nat]]
    /\ rpc \in [Calls -> RpcType] /\ tag \in [Calls -> TagType]
    /\ entries = [x \in Conns \cup Calls |-> entries[x]]
    /\ \A x \in Conns \cup Calls : IsSeq(entries[x])
    /\ crashed \in Calls \cup {None}

\* What the tag t has of the RPC q of c, as far as that went.
StageOK(c, q, t) ==
    /\ q.at # "none" => t.path = c
    /\ q.part = "server" =>
          /\ q.at \in Served
          /\ q.at # "none" => q.conn # None
          /\ q.at \notin {"none", "tagged"} => t.peer = q.conn /\ t.inHeader = c
          /\ q.at \in {"headed", "sent"} => t.outHeader = c
    /\ q.part = "client" =>
          /\ q.at \in Called
          /\ q.at \in {"tagged", "begun"} => q.conn = None /\ t.peer = None
          /\ q.at \in {"streamed", "headed", "sent", "read"} => q.conn # None
          /\ q.at \in {"headed", "sent", "read"} => t.peer = q.conn /\ t.outHeader = c
          /\ q.at = "ended" => t.peer = q.conn
          /\ q.reader = "header" => t.inHeader = c
          /\ q.at = "read" => q.reader = "header"
          /\ q.at = "ended" /\ ~q.failed => q.conn # None

\* The times of its events follow each other, up to now.
TimesOK(q, t, now) ==
    /\ q.at \in {"begun", "streamed", "read", "headed", "sent"} => t.begin <= now
    /\ q.part = "server" /\ q.at \in {"read", "headed", "sent"} =>
            t.begin <= t.recv /\ t.recv <= now
    /\ q.part = "server" /\ q.at = "sent" => t.recv <= t.sent /\ t.sent <= now
    /\ q.part = "client" /\ q.at \in {"sent", "read"} => t.begin <= t.sent /\ t.sent <= now
    /\ q.part = "client" /\ q.at = "read" => t.sent <= t.recv /\ t.recv <= now

\* An entry is of the RPC it is filed under, and its end is the end.
EntryOK(c, q, t, e) ==
    /\ e.peer = q.conn /\ e.part = q.part /\ e.path = c /\ e.id = t.id
    /\ e.kind \in {"READ", "SEND", "END"}
    /\ e.kind # "END" => e.about = c
    /\ e.kind = "END" =>
          /\ q.at = "ended"
          /\ ~e.about.failed =>
                LET time == e.about.time
                    life == e.at - t.begin
                IN  /\ time.recv >= 0 /\ time.send >= 0 /\ time.took >= 0
                    /\ IF e.part = "server"
                       THEN time.recv + time.took = life /\ time.send <= time.took
                       ELSE time.recv + time.send <= life /\ time.took = life

\* What was logged at the level of debugging of an RPC that did not fail.
Expected(q) ==
    CASE q.at \in Early -> <<>>
      [] q.part = "server" /\ q.at \in {"read", "headed"} -> <<"READ">>
      [] q.part = "server" /\ q.at = "sent" -> <<"READ", "SEND">>
      [] q.part = "server" /\ q.at = "ended" -> <<"READ", "SEND", "END">>
      [] q.part = "client" /\ q.at = "headed" -> <<>>
      [] q.part = "client" /\ q.at = "sent" -> <<"SEND">>
      [] q.part = "client" /\ q.at = "read" -> <<"SEND", "READ">>
      [] q.part = "client" /\ q.at = "ended" -> <<"SEND", "READ", "END">>

KindsOf(s) == [i \in DOMAIN s |-> s[i].kind]

LoggedOK(q, s) ==
    /\ q.at \in Early => s = <<>>
    /\ level = "debug" /\ (q.at # "ended" \/ ~q.failed) => KindsOf(s) = Expected(q)
    /\ q.at = "ended" /\ q.failed /\ level # "error" /\ q.conn # None =>
          s # <<>> /\ \A i \in DOMAIN s : s[i].kind = "END" <=> i = Len(s)

CallOK(c, q, t, s, now) ==
    /\ StageOK(c, q, t) /\ TimesOK(q, t, now) /\ LoggedOK(q, s)
    /\ \A i \in DOMAIN s : EntryOK(c, q, t, s[i])

\* Each tag has an id of its own.
TagsApart ==
    /\ \A c \in Calls : rpc[c].at # "none" => tag[c].id <= callSeq
    /\ \A c, d \in Calls : rpc[c].at # "none" /\ rpc[d].at # "none" /\ tag[c].id = tag[d].id
            => c = d

ConnsOK ==
    /\ \A n \in Conns :
          /\ conn[n].state = "none" => entries[n] = <<>>
          /\ conn[n].state # "none" => conn[n].id <= connSeq
          /\ \A i \in DOMAIN entries[n] : LET e == entries[n][i]
                IN  e.peer = n /\ e.part = conn[n].part /\ e.id = conn[n].id
    /\ \A n, m \in Conns :
          conn[n].state # "none" /\ conn[m].state # "none" /\ conn[n].id = conn[m].id => n = m

\* An RPC that failed before its header went out took the process down, unless
\* not even a warning is written.
FatalOK ==
    \A c \in Calls : rpc[c].at = "ended" /\ rpc[c].conn = None /\ level # "error" => crashed # None

HInv ==
    /\ TypesOK
    /\ \A c \in Calls : CallOK(c, rpc[c], tag[c], entries[c], clock)
    /\ TagsApart /\ ConnsOK /\ FatalOK /\ PanicsOnlyUnconnected

-----------------------------------------------------------------------------
(* Entries and sequences of them *)

LEMMA Appended ==
    ASSUME NEW s, IsSeq(s), NEW e
    PROVE  /\ IsSeq(Append(s, e)) /\ Append(s, e) # <<>>
           /\ Len(s) \in Nat /\ DOMAIN s = 1..Len(s)
           /\ Len(Append(s, e)) = Len(s) + 1 /\ DOMAIN Append(s, e) = 1..(Len(s) + 1)
           /\ \A i \in DOMAIN s : Append(s, e)[i] = s[i]
           /\ Append(s, e)[Len(s) + 1] = e
<1> DEFINE S == {s[i] : i \in DOMAIN s} \cup {e}
<1> DEFINE a == Append(s, e)
<1>1. s \in Seq(S)
  <2>1. s \in Seq({s[i] : i \in DOMAIN s})
    BY DEF IsSeq
  <2>2. s \in [1..Len(s) -> {s[i] : i \in DOMAIN s}] /\ Len(s) \in Nat
    BY <2>1
  <2> QED BY <2>2
<1>2. a \in Seq(S) /\ Len(a) = Len(s) + 1 /\ DOMAIN s = 1..Len(s) /\ Len(s) \in Nat
  BY <1>1
<1>3. \A i \in 1..Len(s) : a[i] = s[i]
  BY <1>1
<1>4. a[Len(s) + 1] = e
  BY <1>1
<1>5. DOMAIN a = 1..(Len(s) + 1) /\ a # <<>>
  BY <1>2
<1>6. a \in Seq({a[i] : i \in DOMAIN a})
  <2> HIDE DEF a, S
  <2>1. a \in [1..Len(a) -> S] /\ Len(a) \in Nat
    BY <1>2
  <2>2. a \in [1..Len(a) -> {a[i] : i \in DOMAIN a}]
    BY <2>1
  <2> QED BY <2>1, <2>2
<1> QED BY <1>2, <1>3, <1>4, <1>5, <1>6 DEF IsSeq


-----------------------------------------------------------------------------
(* One RPC goes on and the others stay as they are. *)

\* Its id is the one it has, or the next.
IdOK(c, t) ==
    \/ callSeq' = callSeq /\ rpc[c].at # "none" /\ t.id = tag[c].id
    \/ callSeq' = callSeq + 1 /\ t.id = callSeq + 1

\* It takes the process down when it has failed before its header went out and
\* a warning is written.
CrashOK(c, q) ==
    \/ crashed' = crashed /\ (q.at = "ended" /\ q.conn = None => level = "error")
    \/ crashed' = c /\ q.part = "client" /\ q.conn = None /\ q.failed /\ level # "error"

LEMMA OneCall ==
    ASSUME HInv, Running, NEW c \in Calls, NEW q \in RpcType, NEW t \in TagType, NEW s, IsSeq(s),
           rpc' = [rpc EXCEPT ![c] = q], tag' = [tag EXCEPT ![c] = t],
           entries' = [entries EXCEPT ![c] = s],
           UNCHANGED <<level, clock, connSeq, conn>>,
           q.at # "none", IdOK(c, t), CallOK(c, q, t, s, clock), CrashOK(c, q)
    PROVE  HInv'
<1> USE DEF HInv
<1>1. rpc \in [Calls -> RpcType] /\ tag \in [Calls -> TagType]
  BY DEF TypesOK
<1>2. /\ rpc'[c] = q /\ \A d \in Calls \ {c} : rpc'[d] = rpc[d]
      /\ tag'[c] = t /\ \A d \in Calls \ {c} : tag'[d] = tag[d]
  BY <1>1
<1>3. /\ rpc' \in [Calls -> RpcType] /\ tag' \in [Calls -> TagType]
  BY <1>1
<1>4. /\ entries' = [x \in Conns \cup Calls |-> entries'[x]]
      /\ entries'[c] = s /\ \A x \in (Conns \cup Calls) \ {c} : entries'[x] = entries[x]
  BY DEF TypesOK
<1>5. callSeq' \in Nat
  BY DEF TypesOK, IdOK
<1>6. TypesOK'
  <2>1. \A x \in Conns \cup Calls : IsSeq(entries'[x])
    BY <1>4 DEF TypesOK
  <2>2. crashed' \in Calls \cup {None}
    BY DEF TypesOK, CrashOK
  <2> QED BY <1>3, <1>4, <1>5, <2>1, <2>2 DEF TypesOK
<1>7. ASSUME NEW d \in Calls
      PROVE  CallOK(d, rpc[d], tag[d], entries[d], clock)'
  <2>1. CASE d = c
    BY <2>1, <1>2, <1>4 DEF CallOK, LoggedOK
  <2>2. CASE d # c
    BY <2>2, <1>2, <1>4 DEF CallOK, LoggedOK
  <2> QED BY <2>1, <2>2
<1>8. TagsApart'
  <2>1. \A d \in Calls : tag[d].id \in Nat
    BY <1>1 DEF TagType
  <2>2. t.id \in Nat /\ t.id <= callSeq' /\ callSeq \in Nat /\ callSeq <= callSeq'
    BY <2>1 DEF IdOK, TypesOK, TagsApart, TagType
  <2>3. ASSUME NEW d \in Calls, d # c, rpc[d].at # "none"
        PROVE  tag[d].id # t.id /\ tag[d].id <= callSeq'
    BY <2>1, <2>2, <2>3 DEF IdOK, TagsApart
  <2>4. \A d \in Calls : rpc'[d].at # "none" => tag'[d].id <= callSeq'
    BY <1>2, <2>2, <2>3
  <2>5. ASSUME NEW d \in Calls, NEW f \in Calls, rpc'[d].at # "none", rpc'[f].at # "none",
               tag'[d].id = tag'[f].id
        PROVE  d = f
    BY <1>2, <2>3, <2>5 DEF TagsApart
  <2> QED BY <2>4, <2>5 DEF TagsApart
<1>9. ConnsOK'
  <2>1. \A n \in Conns : n # c /\ entries'[n] = entries[n]
    BY <1>4, ConstantsAssumption
  <2> QED BY <2>1 DEF ConnsOK
<1>10. FatalOK'
  <2> SUFFICES ASSUME NEW d \in Calls, rpc'[d].at = "ended", rpc'[d].conn = None, level # "error"
               PROVE  crashed' # None
    BY DEF FatalOK
  <2>1. CASE d # c
    BY <2>1, <1>2 DEF FatalOK, Running
  <2>2. CASE d = c
    BY <2>2, <1>2, ConstantsAssumption DEF CrashOK
  <2> QED BY <2>1, <2>2
<1>11. PanicsOnlyUnconnected'
  BY <1>2 DEF CrashOK, PanicsOnlyUnconnected, Running
<1> QED BY <1>6, <1>7, <1>8, <1>9, <1>10, <1>11

\* An event that is not logged: only the RPC and its tag go on.
LEMMA Unlogged ==
    ASSUME HInv, Running, NEW c \in Calls, rpc[c].at # "none", NEW q \in RpcType, NEW t \in TagType,
           rpc' = [rpc EXCEPT ![c] = q], tag' = [tag EXCEPT ![c] = t],
           UNCHANGED <<level, clock, connSeq, callSeq, conn, entries, crashed>>,
           q.at \notin {"none", "ended"}, t.id = tag[c].id,
           StageOK(c, q, t), TimesOK(q, t, clock),
           q.part = rpc[c].part, q.conn = rpc[c].conn \/ entries[c] = <<>>,
           rpc[c].at # "ended", q.at \in Early => rpc[c].at \in Early,
           Expected(q) = Expected(rpc[c])
    PROVE  HInv'
<1> DEFINE s == entries[c]
<1>1. IsSeq(s) /\ entries' = [entries EXCEPT ![c] = s]
  BY DEF HInv, TypesOK
<1>2. CallOK(c, rpc[c], tag[c], s, clock)
  BY DEF HInv
<1>3. LoggedOK(q, s)
  BY <1>2 DEF CallOK, LoggedOK
<1>4. \A i \in DOMAIN s : EntryOK(c, q, t, s[i])
  <2>1. ASSUME NEW i \in DOMAIN s
        PROVE  EntryOK(c, q, t, s[i])
    <3>1. EntryOK(c, rpc[c], tag[c], s[i])
      BY <1>2 DEF CallOK
    <3>2. s # <<>>
      BY <2>1
    <3> QED BY <3>1, <3>2 DEF EntryOK
  <2> QED BY <2>1
<1>5. CallOK(c, q, t, s, clock) /\ IdOK(c, t) /\ CrashOK(c, q)
  BY <1>3, <1>4 DEF CallOK, IdOK, CrashOK
<1> QED BY <1>1, <1>5, OneCall

\* The kind of an entry is added to those of the others.
LEMMA KindAdded ==
    ASSUME NEW s, IsSeq(s), NEW e
    PROVE  KindsOf(s) \in Seq({s[i].kind : i \in DOMAIN s}) /\ KindsOf(Append(s, e)) = Append(KindsOf(s), e.kind)
<1> DEFINE k == KindsOf(s)
<1> DEFINE b == Append(s, e)
<1>1. DOMAIN s = 1..Len(s) /\ Len(s) \in Nat /\ DOMAIN b = 1..(Len(s) + 1)
      /\ (\A i \in DOMAIN s : b[i] = s[i]) /\ b[Len(s) + 1] = e
  BY Appended
<1>2. k \in Seq({s[i].kind : i \in DOMAIN s}) /\ Len(k) = Len(s) /\ \A i \in DOMAIN s : k[i] = s[i].kind
  BY <1>1 DEF KindsOf
<1> HIDE DEF b
<1>3. k \in Seq({s[i].kind : i \in DOMAIN s} \cup {e.kind})
  <2> HIDE DEF k
  <2>1. k \in [1..Len(k) -> {s[i].kind : i \in DOMAIN s}] /\ Len(k) \in Nat
    BY <1>2
  <2> QED BY <2>1
<1>4. KindsOf(b) = [i \in 1..(Len(s) + 1) |-> IF i = Len(s) + 1 THEN e.kind ELSE k[i]]
  <2>1. \A i \in 1..(Len(s) + 1) : b[i].kind = IF i = Len(s) + 1 THEN e.kind ELSE k[i]
    BY <1>1, <1>2
  <2> QED BY <2>1, <1>1 DEF KindsOf
<1> HIDE DEF k
<1>5. Append(k, e.kind) = [i \in 1..(Len(s) + 1) |-> IF i = Len(s) + 1 THEN e.kind ELSE k[i]]
  BY <1>2, <1>3
<1> QED BY <1>2, <1>4, <1>5 DEF b, k

LEMMA Tuples ==
    ASSUME NEW a, NEW b, NEW d
    PROVE  Append(<<>>, a) = <<a>> /\ Append(<<a>>, b) = <<a, b>> /\ Append(<<a, b>>, d) = <<a, b, d>>
<1>1. Append(<<>>, a) = <<a>>
  OBVIOUS
<1>2. Append(<<a>>, b) = <<a, b>>
  <2>1. <<a>> \in Seq({a, b})
    OBVIOUS
  <2>2. Append(<<a>>, b) = [i \in 1..2 |-> IF i = 2 THEN b ELSE a]
    BY <2>1
  <2>3. <<a, b>> = [i \in 1..2 |-> IF i = 2 THEN b ELSE a]
    OBVIOUS
  <2> QED BY <2>2, <2>3
<1>3. Append(<<a, b>>, d) = <<a, b, d>>
  <2>1. <<a, b>> \in Seq({a, b, d})
    OBVIOUS
  <2>2. Append(<<a, b>>, d) = [i \in 1..3 |-> IF i = 3 THEN d ELSE IF i = 2 THEN b ELSE a]
    BY <2>1
  <2>3. <<a, b, d>> = [i \in 1..3 |-> IF i = 3 THEN d ELSE IF i = 2 THEN b ELSE a]
    OBVIOUS
  <2> QED BY <2>2, <2>3
<1> QED BY <1>1, <1>2, <1>3

\* What was read or sent is logged at the level of debugging.
LEMMA DataLogged ==
    ASSUME HInv, Running, NEW c \in Calls, rpc[c].at \notin {"none", "ended"},
           NEW q \in RpcType, NEW t \in TagType, NEW kind \in {"READ", "SEND"},
           rpc' = [rpc EXCEPT ![c] = q], tag' = [tag EXCEPT ![c] = t],
           Log(c, "debug", Entry(kind, t, q.part, c)),
           UNCHANGED <<level, clock, connSeq, callSeq, conn>>,
           q.at \notin Early, q.at # "ended", t.id = tag[c].id,
           StageOK(c, q, t), TimesOK(q, t, clock), t.peer = q.conn, q.conn # None, t.path = c,
           q.part = rpc[c].part, q.conn = rpc[c].conn,
           Expected(q) = Append(Expected(rpc[c]), kind)
    PROVE  HInv'
<1> DEFINE e == Entry(kind, t, q.part, c)
<1>1. e.kind = kind /\ e.peer = q.conn /\ e.part = q.part /\ e.path = c /\ e.id = t.id /\ e.about = c
  BY DEF Entry
<1> HIDE DEF e
<1> DEFINE s == IF Can("debug") THEN Append(entries[c], e) ELSE entries[c]
<1>2. crashed' = crashed
  BY <1>1 DEF Log, e
<1>3. entries' = [entries EXCEPT ![c] = s]
  <2>1. entries = [x \in Conns \cup Calls |-> entries[x]]
    BY DEF HInv, TypesOK
  <2>2. entries' = IF Can("debug") THEN [entries EXCEPT ![c] = Append(entries[c], e)] ELSE entries
    BY <1>1 DEF Log, e
  <2> QED BY <2>1, <2>2
<1>4. IsSeq(entries[c]) /\ IsSeq(s)
  BY Appended DEF HInv, TypesOK
<1>5. CallOK(c, rpc[c], tag[c], entries[c], clock)
  BY DEF HInv
<1>6. \A i \in DOMAIN entries[c] : EntryOK(c, q, t, entries[c][i])
  BY <1>5 DEF CallOK, EntryOK
<1>7. EntryOK(c, q, t, e)
  BY <1>1 DEF EntryOK
<1>8. \A i \in DOMAIN s : EntryOK(c, q, t, s[i])
  <2>1. CASE Can("debug")
    <3> DEFINE a == Append(entries[c], e)
    <3>1. s = a
      BY <2>1
    <3>2. DOMAIN a = 1..(Len(entries[c]) + 1) /\ DOMAIN entries[c] = 1..Len(entries[c]) /\ Len(entries[c]) \in Nat
          /\ (\A i \in DOMAIN entries[c] : a[i] = entries[c][i]) /\ a[Len(entries[c]) + 1] = e
      BY <1>4, Appended
    <3> HIDE DEF a
    <3>3. ASSUME NEW i \in DOMAIN a
          PROVE  EntryOK(c, q, t, a[i])
      <4>1. i \in DOMAIN entries[c] \/ i = Len(entries[c]) + 1
        BY <3>2
      <4> QED BY <4>1, <3>2, <1>6, <1>7
    <3> QED BY <3>1, <3>3
  <2>2. CASE ~Can("debug")
    BY <2>2, <1>6
  <2> QED BY <2>1, <2>2
<1>9. LoggedOK(q, s)
  <2>1. level = "debug" => KindsOf(s) = Expected(q)
    <3> SUFFICES ASSUME level = "debug"
                 PROVE  KindsOf(s) = Expected(q)
      OBVIOUS
    <3>1. s = Append(entries[c], e)
      BY DEF Can
    <3>2. KindsOf(entries[c]) = Expected(rpc[c])
      BY <1>5 DEF CallOK, LoggedOK
    <3> QED BY <3>1, <3>2, <1>1, <1>4, KindAdded
  <2> QED BY <2>1 DEF LoggedOK
<1>10. CallOK(c, q, t, s, clock) /\ IdOK(c, t) /\ CrashOK(c, q)
  BY <1>2, <1>8, <1>9 DEF CallOK, IdOK, CrashOK
<1> HIDE DEF s
<1> QED BY <1>3, <1>4, <1>10, OneCall DEF Early

-----------------------------------------------------------------------------
(* One lemma per event of an RPC *)

LEMMA NoneKnown == NoCall.at = "none" /\ NoCall \in RpcType /\ NoTag \in TagType /\ NoTag.peer = None
BY DEF NoCall, NoTag, RpcType, TagType, Served, Parts, Zero

\* What is known of c.
LEMMA OfCall ==
    ASSUME HInv, NEW c \in Calls
    PROVE  /\ rpc[c] \in RpcType /\ tag[c] \in TagType /\ clock \in Nat /\ callSeq \in Nat
           /\ CallOK(c, rpc[c], tag[c], entries[c], clock)
           /\ StageOK(c, rpc[c], tag[c]) /\ TimesOK(rpc[c], tag[c], clock)
           /\ IsSeq(entries[c]) /\ rpc = [rpc EXCEPT ![c] = rpc[c]] /\ tag = [tag EXCEPT ![c] = tag[c]]
           /\ entries = [entries EXCEPT ![c] = entries[c]]
BY DEF HInv, TypesOK, CallOK

\* An RPC that begins, of either part.
LEMMA Begins ==
    ASSUME HInv, Running, NEW c \in Calls, rpc[c].at = "none", NEW q \in RpcType,
           rpc' = [rpc EXCEPT ![c] = q], TagRPC(c), q.at = "tagged", q.reader = "idle",
           q.part = "server" => q.conn # None, q.part = "client" => q.conn = None,
           UNCHANGED <<level, clock, connSeq, conn, entries, crashed>>
    PROVE  HInv'
<1> DEFINE t == [NoTag EXCEPT !.id = NextId(callSeq), !.path = c]
<1>1. t \in TagType /\ t.id = callSeq + 1 /\ t.path = c /\ t.peer = None
  <2>1. callSeq \in Nat
    BY OfCall
  <2>2. NextId(callSeq) \in Nat /\ NextId(callSeq) = callSeq + 1
    BY <2>1 DEF NextId
  <2>3. t \in TagType
    BY <2>2, NoneKnown DEF TagType
  <2>4. t.id = NextId(callSeq) /\ t.path = c /\ t.peer = NoTag.peer
    BY NoneKnown DEF TagType
  <2> QED BY <2>2, <2>3, <2>4, NoneKnown
<1>2. tag' = [tag EXCEPT ![c] = t] /\ callSeq' = callSeq + 1
  BY DEF TagRPC, NextId
<1> HIDE DEF t
<1>3. entries[c] = <<>>
  BY OfCall DEF CallOK, LoggedOK, Early
<1>4. StageOK(c, q, t) /\ TimesOK(q, t, clock)
  BY <1>1 DEF StageOK, TimesOK, Served, Called, RpcType, Parts
<1>5. LoggedOK(q, <<>>)
  BY DEF LoggedOK, Expected, KindsOf, Early
<1>6. CallOK(c, q, t, <<>>, clock) /\ IdOK(c, t) /\ CrashOK(c, q)
  BY <1>1, <1>2, <1>4, <1>5 DEF CallOK, IdOK, CrashOK
<1>7. IsSeq(<<>>) /\ entries' = [entries EXCEPT ![c] = <<>>]
  BY <1>3, OfCall
<1> QED BY <1>1, <1>2, <1>6, <1>7, OneCall

LEMMA ServeKeeps == ASSUME HInv, NEW c \in Calls, Serve(c) PROVE HInv'
<1> PICK n \in Conns : rpc' = [rpc EXCEPT ![c] = [NoCall EXCEPT !.at = "tagged", !.conn = n]]
  BY DEF Serve
<1> DEFINE q == [NoCall EXCEPT !.at = "tagged", !.conn = n]
<1>1. q \in RpcType /\ q.at = "tagged" /\ q.reader = "idle" /\ q.part = "server" /\ q.conn = n
  BY DEF NoCall, RpcType, Served, Parts
<1>2. rpc' = [rpc EXCEPT ![c] = q]
  OBVIOUS
<1> HIDE DEF q
<1> QED BY <1>1, <1>2, Begins, ConstantsAssumption DEF Serve

LEMMA CallKeeps == ASSUME HInv, NEW c \in Calls, Call(c) PROVE HInv'
<1> DEFINE q == [NoCall EXCEPT !.at = "tagged", !.part = "client"]
<1>1. q \in RpcType /\ q.at = "tagged" /\ q.reader = "idle" /\ q.part = "client" /\ q.conn = None
  BY DEF NoCall, RpcType, Served, Parts
<1>2. rpc' = [rpc EXCEPT ![c] = q]
  BY DEF Call
<1> HIDE DEF q
<1> QED BY <1>1, <1>2, Begins DEF Call

\* The RPC has gone to another point.
LEMMA Gone ==
    ASSUME HInv, NEW c \in Calls, NEW where \in Served \cup Called, Goes(c, where)
    PROVE  \E q \in RpcType :
              /\ rpc' = [rpc EXCEPT ![c] = q]
              /\ q.at = where /\ q.reader = rpc[c].reader /\ q.part = rpc[c].part
              /\ q.conn = rpc[c].conn /\ q.failed = rpc[c].failed
<1> DEFINE q == [rpc[c] EXCEPT !.at = where]
<1>1. rpc[c] \in RpcType
  BY OfCall
<1>2. q \in RpcType /\ q.at = where /\ q.reader = rpc[c].reader /\ q.part = rpc[c].part
      /\ q.conn = rpc[c].conn /\ q.failed = rpc[c].failed
  BY <1>1 DEF RpcType
<1>3. rpc' = [rpc EXCEPT ![c] = q]
  BY DEF Goes
<1> HIDE DEF q
<1> QED BY <1>2, <1>3

LEMMA ServeHeaderKeeps == ASSUME HInv, NEW c \in Calls, ServeHeader(c) PROVE HInv'
<1> DEFINE t == OnRpcHeader(tag[c], c, "server", rpc[c].conn)
<1>1. rpc[c].part = "server" /\ rpc[c].at = "tagged" /\ Running /\ tag' = [tag EXCEPT ![c] = t]
      /\ UNCHANGED <<level, clock, connSeq, callSeq, conn, entries, crashed>>
  BY DEF ServeHeader, At, Tagged, Kept
<1>2. PICK q \in RpcType : /\ rpc' = [rpc EXCEPT ![c] = q]
                           /\ q.at = "opened" /\ q.part = "server" /\ q.conn = rpc[c].conn
  BY <1>1, Gone DEF ServeHeader, Served
<1>3. StageOK(c, rpc[c], tag[c]) /\ rpc[c] \in RpcType /\ tag[c] \in TagType
  BY OfCall
<1>4. t \in TagType /\ t.id = tag[c].id /\ t.path = c /\ t.peer = q.conn /\ t.inHeader = c
  BY <1>1, <1>2, <1>3 DEF OnRpcHeader, TagType, RpcType, StageOK
<1> HIDE DEF t
<1>5. StageOK(c, q, t) /\ TimesOK(q, t, clock)
  BY <1>1, <1>2, <1>3, <1>4 DEF StageOK, TimesOK, Served
<1>6. Expected(q) = <<>> /\ Expected(rpc[c]) = <<>>
  BY <1>1, <1>2 DEF Expected, Early
<1> QED BY <1>1, <1>2, <1>4, <1>5, <1>6, Unlogged DEF Early

LEMMA ServeBeginKeeps == ASSUME HInv, NEW c \in Calls, ServeBegin(c) PROVE HInv'
<1> DEFINE t == OnRpcBegin(tag[c])
<1>1. rpc[c].part = "server" /\ rpc[c].at = "opened" /\ Running /\ tag' = [tag EXCEPT ![c] = t]
      /\ UNCHANGED <<level, clock, connSeq, callSeq, conn, entries, crashed>>
  BY DEF ServeBegin, At, Tagged, Kept
<1>2. PICK q \in RpcType : /\ rpc' = [rpc EXCEPT ![c] = q]
                           /\ q.at = "begun" /\ q.part = "server" /\ q.conn = rpc[c].conn
  BY <1>1, Gone DEF ServeBegin, Served
<1>3. StageOK(c, rpc[c], tag[c]) /\ rpc[c] \in RpcType /\ tag[c] \in TagType /\ clock \in Nat
  BY OfCall
<1>4. t \in TagType /\ t.id = tag[c].id /\ t.path = tag[c].path /\ t.peer = tag[c].peer
      /\ t.inHeader = tag[c].inHeader /\ t.begin = clock
  BY <1>3 DEF OnRpcBegin, TagType
<1> HIDE DEF t
<1>5. StageOK(c, q, t) /\ TimesOK(q, t, clock)
  BY <1>1, <1>2, <1>3, <1>4 DEF StageOK, TimesOK, Served
<1>6. Expected(q) = <<>> /\ Expected(rpc[c]) = <<>>
  BY <1>1, <1>2 DEF Expected, Early
<1> QED BY <1>1, <1>2, <1>4, <1>5, <1>6, Unlogged DEF Early

LEMMA AnswerKeeps == ASSUME HInv, NEW c \in Calls, Answer(c) PROVE HInv'
<1> DEFINE t == OnOutHeader(tag[c], c, "server", rpc[c].conn)
<1>1. rpc[c].part = "server" /\ rpc[c].at = "read" /\ Running /\ tag' = [tag EXCEPT ![c] = t]
      /\ UNCHANGED <<level, clock, connSeq, callSeq, conn, entries, crashed>>
  BY DEF Answer, At, Tagged, Kept
<1>2. PICK q \in RpcType : /\ rpc' = [rpc EXCEPT ![c] = q]
                           /\ q.at = "headed" /\ q.part = "server" /\ q.conn = rpc[c].conn
  BY <1>1, Gone DEF Answer, Served
<1>3. StageOK(c, rpc[c], tag[c]) /\ TimesOK(rpc[c], tag[c], clock)
      /\ rpc[c] \in RpcType /\ tag[c] \in TagType
  BY OfCall
<1>4. t \in TagType /\ t.id = tag[c].id /\ t.path = tag[c].path /\ t.peer = tag[c].peer
      /\ t.inHeader = tag[c].inHeader /\ t.outHeader = c /\ t.begin = tag[c].begin /\ t.recv = tag[c].recv
  BY <1>3 DEF OnOutHeader, TagType
<1> HIDE DEF t
<1>5. StageOK(c, q, t) /\ TimesOK(q, t, clock)
  BY <1>1, <1>2, <1>3, <1>4 DEF StageOK, TimesOK, Served
<1>6. Expected(q) = <<"READ">> /\ Expected(rpc[c]) = <<"READ">>
  BY <1>1, <1>2 DEF Expected, Early
<1> QED BY <1>1, <1>2, <1>4, <1>5, <1>6, Unlogged DEF Early

LEMMA CallBeginKeeps == ASSUME HInv, NEW c \in Calls, CallBegin(c) PROVE HInv'
<1> DEFINE t == OnRpcBegin(tag[c])
<1>1. rpc[c].part = "client" /\ rpc[c].at = "tagged" /\ Running /\ tag' = [tag EXCEPT ![c] = t]
      /\ UNCHANGED <<level, clock, connSeq, callSeq, conn, entries, crashed>>
  BY DEF CallBegin, At, Tagged, Kept
<1>2. PICK q \in RpcType : /\ rpc' = [rpc EXCEPT ![c] = q]
                           /\ q.at = "begun" /\ q.part = "client" /\ q.conn = rpc[c].conn
                           /\ q.reader = rpc[c].reader
  BY <1>1, Gone DEF CallBegin, Served
<1>3. StageOK(c, rpc[c], tag[c]) /\ rpc[c] \in RpcType /\ tag[c] \in TagType /\ clock \in Nat
  BY OfCall
<1>4. t \in TagType /\ t.id = tag[c].id /\ t.path = tag[c].path /\ t.peer = tag[c].peer
      /\ t.inHeader = tag[c].inHeader /\ t.begin = clock
  BY <1>3 DEF OnRpcBegin, TagType
<1> HIDE DEF t
<1>5. StageOK(c, q, t) /\ TimesOK(q, t, clock)
  BY <1>1, <1>2, <1>3, <1>4 DEF StageOK, TimesOK, Called
<1>6. Expected(q) = <<>> /\ Expected(rpc[c]) = <<>>
  BY <1>1, <1>2 DEF Expected, Early
<1> QED BY <1>1, <1>2, <1>4, <1>5, <1>6, Unlogged DEF Early

LEMMA NewStreamKeeps == ASSUME HInv, NEW c \in Calls, NewStream(c) PROVE HInv'
<1>1. rpc[c].part = "client" /\ rpc[c].at = "begun" /\ Running
      /\ UNCHANGED <<level, clock, connSeq, callSeq, conn, tag, entries, crashed>>
  BY DEF NewStream, At, Kept
<1>2. PICK n \in Conns : rpc' = [rpc EXCEPT ![c].at = "streamed", ![c].conn = n]
  BY DEF NewStream
<1> DEFINE q == [rpc[c] EXCEPT !.at = "streamed", !.conn = n]
<1>3. StageOK(c, rpc[c], tag[c]) /\ TimesOK(rpc[c], tag[c], clock)
      /\ CallOK(c, rpc[c], tag[c], entries[c], clock) /\ tag = [tag EXCEPT ![c] = tag[c]]
      /\ rpc[c] \in RpcType /\ tag[c] \in TagType
  BY OfCall
<1>4. q \in RpcType /\ q.at = "streamed" /\ q.part = "client" /\ q.conn = n /\ q.reader = rpc[c].reader
  BY <1>1, <1>3 DEF RpcType, Called
<1>5. rpc' = [rpc EXCEPT ![c] = q]
  BY <1>2
<1> HIDE DEF q
<1>6. StageOK(c, q, tag[c]) /\ TimesOK(q, tag[c], clock)
  BY <1>1, <1>3, <1>4, ConstantsAssumption DEF StageOK, TimesOK, Called
<1>7. entries[c] = <<>> /\ Expected(q) = Expected(rpc[c])
  BY <1>1, <1>3, <1>4 DEF CallOK, LoggedOK, Expected, Early
<1> QED BY <1>1, <1>3, <1>4, <1>5, <1>6, <1>7, Unlogged DEF Early

LEMMA CallHeaderKeeps == ASSUME HInv, NEW c \in Calls, CallHeader(c) PROVE HInv'
<1> DEFINE t == OnOutHeader(tag[c], c, "client", rpc[c].conn)
<1>1. rpc[c].part = "client" /\ rpc[c].at = "streamed" /\ Running /\ tag' = [tag EXCEPT ![c] = t]
      /\ UNCHANGED <<level, clock, connSeq, callSeq, conn, entries, crashed>>
  BY DEF CallHeader, At, Tagged, Kept
<1>2. PICK q \in RpcType : /\ rpc' = [rpc EXCEPT ![c] = q]
                           /\ q.at = "headed" /\ q.part = "client" /\ q.conn = rpc[c].conn
                           /\ q.reader = rpc[c].reader
  BY <1>1, Gone DEF CallHeader, Served
<1>3. StageOK(c, rpc[c], tag[c]) /\ TimesOK(rpc[c], tag[c], clock)
      /\ rpc[c] \in RpcType /\ tag[c] \in TagType
  BY OfCall
<1>4. t \in TagType /\ t.id = tag[c].id /\ t.path = tag[c].path /\ t.peer = q.conn
      /\ t.inHeader = tag[c].inHeader /\ t.outHeader = c /\ t.begin = tag[c].begin
  BY <1>2, <1>3 DEF OnOutHeader, TagType, RpcType
<1> HIDE DEF t
<1>5. StageOK(c, q, t) /\ TimesOK(q, t, clock)
  BY <1>1, <1>2, <1>3, <1>4 DEF StageOK, TimesOK, Called
<1>6. Expected(q) = <<>> /\ Expected(rpc[c]) = <<>>
  BY <1>1, <1>2 DEF Expected, Early
<1> QED BY <1>1, <1>2, <1>4, <1>5, <1>6, Unlogged DEF Early

\* The answer may be seen before the handler knows of the header that was sent.
LEMMA ReadHeaderKeeps == ASSUME HInv, NEW c \in Calls, ReadHeader(c) PROVE HInv'
<1> DEFINE t == OnRpcHeader(tag[c], c, "client", rpc[c].conn)
<1> DEFINE q == [rpc[c] EXCEPT !.reader = "header"]
<1>1. rpc[c].part = "client" /\ rpc[c].at \in {"streamed", "headed", "sent"} /\ Running
      /\ tag' = [tag EXCEPT ![c] = t] /\ rpc' = [rpc EXCEPT ![c] = q]
      /\ UNCHANGED <<level, clock, connSeq, callSeq, conn, entries, crashed>>
  BY DEF ReadHeader, At, Tagged, Kept
<1>2. StageOK(c, rpc[c], tag[c]) /\ TimesOK(rpc[c], tag[c], clock)
      /\ rpc[c] \in RpcType /\ tag[c] \in TagType
  BY OfCall
<1>3. q \in RpcType /\ q.at = rpc[c].at /\ q.part = "client" /\ q.conn = rpc[c].conn /\ q.reader = "header"
  BY <1>1, <1>2 DEF RpcType
<1>4. t \in TagType /\ t.id = tag[c].id /\ t.path = tag[c].path /\ t.peer = tag[c].peer
      /\ t.inHeader = c /\ t.outHeader = tag[c].outHeader /\ t.begin = tag[c].begin /\ t.sent = tag[c].sent
  BY <1>2 DEF OnRpcHeader, TagType
<1> HIDE DEF t, q
<1>5. StageOK(c, q, t)
  BY <1>1, <1>2, <1>3, <1>4 DEF StageOK
<1>6. TimesOK(q, t, clock)
  BY <1>1, <1>2, <1>3, <1>4 DEF TimesOK
<1>7. Expected(q) = Expected(rpc[c])
  BY <1>1, <1>3 DEF Expected
<1> QED BY <1>1, <1>3, <1>4, <1>5, <1>6, <1>7, Unlogged DEF Early

LEMMA ServeReadKeeps == ASSUME HInv, NEW c \in Calls, ServeRead(c) PROVE HInv'
<1> DEFINE t == [tag[c] EXCEPT !.recv = clock]
<1>1. rpc[c].part = "server" /\ rpc[c].at = "begun" /\ Running /\ tag' = [tag EXCEPT ![c] = t]
      /\ Log(c, "debug", Entry("READ", t, "server", t.inHeader))
      /\ UNCHANGED <<level, clock, connSeq, callSeq, conn>>
  BY DEF ServeRead, At, OnRpcData, Kept
<1>2. PICK q \in RpcType : /\ rpc' = [rpc EXCEPT ![c] = q]
                           /\ q.at = "read" /\ q.part = "server" /\ q.conn = rpc[c].conn
  BY <1>1, Gone DEF ServeRead, Served
<1>3. StageOK(c, rpc[c], tag[c]) /\ TimesOK(rpc[c], tag[c], clock)
      /\ rpc[c] \in RpcType /\ tag[c] \in TagType /\ clock \in Nat
  BY OfCall
<1>4. t \in TagType /\ t.id = tag[c].id /\ t.path = c /\ t.peer = q.conn /\ t.inHeader = c
      /\ t.begin = tag[c].begin /\ t.recv = clock
  BY <1>1, <1>2, <1>3 DEF TagType, StageOK
<1> HIDE DEF t
<1>5. StageOK(c, q, t) /\ TimesOK(q, t, clock) /\ q.conn # None
  BY <1>1, <1>2, <1>3, <1>4 DEF StageOK, TimesOK, Served
<1>6. Expected(q) = Append(Expected(rpc[c]), "READ")
  BY <1>1, <1>2, Tuples DEF Expected, Early
<1> QED BY <1>1, <1>2, <1>4, <1>5, <1>6, DataLogged DEF Early

LEMMA AnswerDataKeeps == ASSUME HInv, NEW c \in Calls, AnswerData(c) PROVE HInv'
<1> DEFINE t == [tag[c] EXCEPT !.sent = clock]
<1>1. rpc[c].part = "server" /\ rpc[c].at = "headed" /\ Running /\ tag' = [tag EXCEPT ![c] = t]
      /\ Log(c, "debug", Entry("SEND", t, "server", t.outHeader))
      /\ UNCHANGED <<level, clock, connSeq, callSeq, conn>>
  BY DEF AnswerData, At, OnOutData, Kept
<1>2. PICK q \in RpcType : /\ rpc' = [rpc EXCEPT ![c] = q]
                           /\ q.at = "sent" /\ q.part = "server" /\ q.conn = rpc[c].conn
  BY <1>1, Gone DEF AnswerData, Served
<1>3. StageOK(c, rpc[c], tag[c]) /\ TimesOK(rpc[c], tag[c], clock)
      /\ rpc[c] \in RpcType /\ tag[c] \in TagType /\ clock \in Nat
  BY OfCall
<1>4. t \in TagType /\ t.id = tag[c].id /\ t.path = c /\ t.peer = q.conn /\ t.inHeader = c
      /\ t.outHeader = c /\ t.begin = tag[c].begin /\ t.recv = tag[c].recv /\ t.sent = clock
  BY <1>1, <1>2, <1>3 DEF TagType, StageOK
<1> HIDE DEF t
<1>5. StageOK(c, q, t) /\ TimesOK(q, t, clock) /\ q.conn # None
  BY <1>1, <1>2, <1>3, <1>4 DEF StageOK, TimesOK, Served
<1>6. Expected(q) = Append(Expected(rpc[c]), "SEND")
  BY <1>1, <1>2, Tuples DEF Expected, Early
<1> QED BY <1>1, <1>2, <1>4, <1>5, <1>6, DataLogged DEF Early

LEMMA CallDataKeeps == ASSUME HInv, NEW c \in Calls, CallData(c) PROVE HInv'
<1> DEFINE t == [tag[c] EXCEPT !.sent = clock]
<1>1. rpc[c].part = "client" /\ rpc[c].at = "headed" /\ Running /\ tag' = [tag EXCEPT ![c] = t]
      /\ Log(c, "debug", Entry("SEND", t, "client", t.outHeader))
      /\ UNCHANGED <<level, clock, connSeq, callSeq, conn>>
  BY DEF CallData, At, OnOutData, Kept
<1>2. PICK q \in RpcType : /\ rpc' = [rpc EXCEPT ![c] = q]
                           /\ q.at = "sent" /\ q.part = "client" /\ q.conn = rpc[c].conn
                           /\ q.reader = rpc[c].reader
  BY <1>1, Gone DEF CallData, Served
<1>3. StageOK(c, rpc[c], tag[c]) /\ TimesOK(rpc[c], tag[c], clock)
      /\ rpc[c] \in RpcType /\ tag[c] \in TagType /\ clock \in Nat
  BY OfCall
<1>4. t \in TagType /\ t.id = tag[c].id /\ t.path = c /\ t.peer = q.conn /\ t.inHeader = tag[c].inHeader
      /\ t.outHeader = c /\ t.begin = tag[c].begin /\ t.sent = clock
  BY <1>1, <1>2, <1>3 DEF TagType, StageOK
<1> HIDE DEF t
<1>5. StageOK(c, q, t) /\ TimesOK(q, t, clock) /\ q.conn # None
  BY <1>1, <1>2, <1>3, <1>4 DEF StageOK, TimesOK, Called
<1>6. Expected(q) = Append(Expected(rpc[c]), "SEND")
  BY <1>1, <1>2, Tuples DEF Expected, Early
<1> QED BY <1>1, <1>2, <1>4, <1>5, <1>6, DataLogged DEF Early

LEMMA ReadDataKeeps == ASSUME HInv, NEW c \in Calls, ReadData(c) PROVE HInv'
<1> DEFINE t == [tag[c] EXCEPT !.recv = clock]
<1>1. rpc[c].part = "client" /\ rpc[c].at = "sent" /\ rpc[c].reader = "header" /\ Running
      /\ tag' = [tag EXCEPT ![c] = t] /\ Log(c, "debug", Entry("READ", t, "client", t.inHeader))
      /\ UNCHANGED <<level, clock, connSeq, callSeq, conn>>
  BY DEF ReadData, At, OnRpcData, Kept
<1>2. PICK q \in RpcType : /\ rpc' = [rpc EXCEPT ![c] = q]
                           /\ q.at = "read" /\ q.part = "client" /\ q.conn = rpc[c].conn
                           /\ q.reader = rpc[c].reader
  BY <1>1, Gone DEF ReadData, Served
<1>3. StageOK(c, rpc[c], tag[c]) /\ TimesOK(rpc[c], tag[c], clock)
      /\ rpc[c] \in RpcType /\ tag[c] \in TagType /\ clock \in Nat
  BY OfCall
<1>4. t \in TagType /\ t.id = tag[c].id /\ t.path = c /\ t.peer = q.conn /\ t.inHeader = c
      /\ t.outHeader = c /\ t.begin = tag[c].begin /\ t.sent = tag[c].sent /\ t.recv = clock
  BY <1>1, <1>2, <1>3 DEF TagType, StageOK
<1> HIDE DEF t
<1>5. StageOK(c, q, t) /\ TimesOK(q, t, clock) /\ q.conn # None
  BY <1>1, <1>2, <1>3, <1>4 DEF StageOK, TimesOK, Called
<1>6. Expected(q) = Append(Expected(rpc[c]), "READ")
  BY <1>1, <1>2, Tuples DEF Expected, Early
<1> QED BY <1>1, <1>2, <1>4, <1>5, <1>6, DataLogged DEF Early

\* The END: an RPC that was answered has been through all of its phases, one
\* that failed may not even have a connection.
LEMMA EndKeeps == ASSUME HInv, NEW c \in Calls, End(c) PROVE HInv'
<1> PICK failed \in BOOLEAN :
          /\ \/ failed /\ At(c, "server", {"begun", "read", "headed"})
             \/ failed /\ At(c, "client", {"begun", "headed", "sent", "read"})
             \/ ~failed /\ (At(c, "server", {"sent"}) \/ At(c, "client", {"read"}))
          /\ rpc' = [rpc EXCEPT ![c].at = "ended", ![c].failed = failed]
          /\ OnRpcEnd(c, rpc[c].part, failed)
  BY DEF End
<1> DEFINE q == [rpc[c] EXCEPT !.at = "ended", !.failed = failed]
<1> DEFINE t == tag[c]
<1> DEFINE time == Took(t, rpc[c].part)
<1> DEFINE e == Entry("END", t, rpc[c].part, [failed |-> failed, time |-> time])
<1>1. /\ Running /\ tag' = [tag EXCEPT ![c] = t] /\ rpc' = [rpc EXCEPT ![c] = q]
      /\ Log(c, EndLevel(failed), e)
      /\ UNCHANGED <<level, clock, connSeq, callSeq, conn>>
  <2>1. tag' = [tag EXCEPT ![c] = t]
    BY OfCall DEF End
  <2> QED BY <2>1 DEF End, At, OnRpcEnd, Kept
<1>2. StageOK(c, rpc[c], t) /\ TimesOK(rpc[c], t, clock) /\ CallOK(c, rpc[c], t, entries[c], clock)
      /\ IsSeq(entries[c]) /\ rpc[c] \in RpcType /\ t \in TagType /\ clock \in Nat
      /\ entries = [entries EXCEPT ![c] = entries[c]]
  BY OfCall
<1>3. q \in RpcType /\ q.at = "ended" /\ q.part = rpc[c].part /\ q.conn = rpc[c].conn
      /\ q.reader = rpc[c].reader /\ q.failed = failed
  BY <1>2 DEF RpcType, Served
<1>4. /\ e.kind = "END" /\ e.part = q.part /\ e.id = t.id /\ e.peer = t.peer /\ e.path = t.path
      /\ e.at = clock /\ e.about.failed = failed /\ e.about.time = time
  BY <1>3 DEF Entry
<1>5. \/ rpc[c].part = "server" /\ rpc[c].at \in {"begun", "read", "headed"} /\ failed
      \/ rpc[c].part = "client" /\ rpc[c].at \in {"begun", "headed", "sent", "read"} /\ failed
      \/ rpc[c].part = "server" /\ rpc[c].at = "sent" /\ ~failed
      \/ rpc[c].part = "client" /\ rpc[c].at = "read" /\ ~failed
  BY DEF At
<1>6. ~failed /\ q.part = "server" =>
          /\ t.begin <= t.recv /\ t.recv <= t.sent /\ t.sent <= clock
          /\ time.recv = t.recv - t.begin /\ time.send = clock - t.sent /\ time.took = clock - t.recv
  BY <1>2, <1>3, <1>5 DEF TimesOK, Took
<1>7. ~failed /\ q.part = "client" =>
          /\ t.begin <= t.sent /\ t.sent <= t.recv /\ t.recv <= clock
          /\ time.recv = t.recv - t.sent /\ time.send = t.sent - t.begin /\ time.took = clock - t.begin
  BY <1>2, <1>3, <1>5 DEF TimesOK, Took
<1>8. t.begin \in Nat /\ t.recv \in Nat /\ t.sent \in Nat
  BY <1>2 DEF TagType
<1> HIDE DEF q, e, time, t
<1>9. StageOK(c, q, t) /\ TimesOK(q, t, clock) /\ t.peer = q.conn /\ t.path = c
  BY <1>2, <1>3, <1>5 DEF StageOK, TimesOK, Served, Called, RpcType, Parts
<1>10. q.part = "client" \/ q.part = "server"
  BY <1>3 DEF RpcType, Parts
<1>11. EntryOK(c, q, t, e)
  <2>1. CASE failed
    BY <2>1, <1>3, <1>4, <1>9 DEF EntryOK
  <2>2. CASE ~failed /\ q.part = "server"
    BY <2>2, <1>3, <1>4, <1>6, <1>8, <1>9, <1>2 DEF EntryOK
  <2>3. CASE ~failed /\ q.part = "client"
    BY <2>3, <1>3, <1>4, <1>7, <1>8, <1>9, <1>2 DEF EntryOK
  <2> QED BY <1>10, <2>1, <2>2, <2>3
<1>12. \A i \in DOMAIN entries[c] : EntryOK(c, q, t, entries[c][i]) /\ entries[c][i].kind # "END"
  BY <1>2, <1>3, <1>5 DEF CallOK, EntryOK
<1> DEFINE a == Append(entries[c], e)
<1> DEFINE written == Can(EndLevel(failed)) /\ q.conn # None
<1> DEFINE s == IF written THEN a ELSE entries[c]
<1>13. IsSeq(a) /\ a # <<>> /\ Len(a) = Len(entries[c]) + 1 /\ DOMAIN a = 1..(Len(entries[c]) + 1)
       /\ DOMAIN entries[c] = 1..Len(entries[c]) /\ Len(entries[c]) \in Nat
       /\ (\A i \in DOMAIN entries[c] : a[i] = entries[c][i]) /\ a[Len(entries[c]) + 1] = e
  BY <1>2, Appended
<1>14. KindsOf(a) = Append(KindsOf(entries[c]), "END")
  BY <1>2, <1>4, KindAdded
<1>15. entries' = [entries EXCEPT ![c] = s]
  BY <1>1, <1>2, <1>4, <1>9 DEF Log
<1>16. crashed' = IF Can(EndLevel(failed)) /\ q.conn = None THEN c ELSE crashed
  BY <1>1, <1>4, <1>9 DEF Log
<1> HIDE DEF a
<1>17. \A i \in DOMAIN a : EntryOK(c, q, t, a[i]) /\ (a[i].kind = "END" <=> i = Len(a))
  <2>1. ASSUME NEW i \in DOMAIN a
        PROVE  EntryOK(c, q, t, a[i]) /\ (a[i].kind = "END" <=> i = Len(a))
    <3>1. PICK n \in Nat : n = Len(entries[c])
      BY <1>13
    <3>2. DOMAIN a = 1..(n + 1) /\ DOMAIN entries[c] = 1..n /\ Len(a) = n + 1 /\ a[n + 1] = e
      BY <3>1, <1>13
    <3>3. (i \in DOMAIN entries[c] /\ i # Len(a)) \/ (i = Len(a) /\ a[i] = e)
      <4>1. i \in 1..(n + 1)
        BY <3>2, <2>1
      <4>2. (i \in 1..n /\ i # n + 1) \/ i = n + 1
        BY <4>1
      <4> QED BY <4>2, <3>2
    <3> QED BY <3>3, <1>4, <1>11, <1>12, <1>13
  <2> QED BY <2>1
<1>18. LoggedOK(q, s)
  <2>1. q.conn # None /\ failed /\ level # "error" => s = a
    <3>1. level \in {"debug", "warn", "error"}
      BY DEF HInv, TypesOK
    <3> QED BY <3>1 DEF Can, EndLevel
  <2>2. ASSUME level = "debug", ~failed
        PROVE  KindsOf(s) = Expected(q)
    <3>1. q.conn # None
      BY <2>2, <1>3, <1>9, ConstantsAssumption, <1>10 DEF StageOK
    <3>2. s = a
      BY <2>2, <3>1 DEF Can
    <3>3. KindsOf(entries[c]) = Expected(rpc[c])
      BY <2>2, <1>2, <1>5 DEF CallOK, LoggedOK
    <3>4. Append(Expected(rpc[c]), "END") = Expected(q)
      BY <2>2, <1>3, <1>5, Tuples DEF Expected, Early
    <3> QED BY <3>2, <3>3, <3>4, <1>14
  <2> QED BY <2>1, <2>2, <1>3, <1>13, <1>17 DEF LoggedOK, Early
<1>19. CallOK(c, q, t, s, clock)
  BY <1>9, <1>12, <1>17, <1>18 DEF CallOK
<1>20. CrashOK(c, q)
  <2>1. CASE Can(EndLevel(failed)) /\ q.conn = None
    <3>1. q.part = "client" /\ failed
      BY <2>1, <1>3, <1>9, <1>10 DEF StageOK, Parts
    <3>2. level # "error"
      BY <2>1 DEF Can
    <3> QED BY <2>1, <3>1, <3>2, <1>3, <1>16 DEF CrashOK
  <2>2. CASE ~(Can(EndLevel(failed)) /\ q.conn = None)
    <3>1. q.conn = None => level = "error"
      <4>1. q.conn = None => failed
        BY <1>3, <1>9, <1>10 DEF StageOK, Parts
      <4>2. level \in {"debug", "warn", "error"}
        BY DEF HInv, TypesOK
      <4> QED BY <2>2, <4>1, <4>2 DEF Can, EndLevel
    <3> QED BY <2>2, <3>1, <1>16 DEF CrashOK
  <2> QED BY <2>1, <2>2
<1>21. IsSeq(s) /\ IdOK(c, t)
  BY <1>1, <1>2, <1>5, <1>13 DEF IdOK, t
<1> HIDE DEF s
<1> QED BY <1>1, <1>2, <1>3, <1>15, <1>19, <1>20, <1>21, OneCall

-----------------------------------------------------------------------------
(* Connections, the clock, and the theorems *)

\* A connection that has an id gets an entry, which is of it.
LEMMA ConnLogged ==
    ASSUME HInv, NEW n \in Conns, NEW k, NEW kind,
           k \in [state : {"open", "closed"}, part : Parts, id : Nat],
           conn' = [conn EXCEPT ![n] = k], LogConn(kind, n, k.part, k.id),
           UNCHANGED <<level, clock, callSeq, rpc, tag, crashed>>,
           \/ connSeq' = connSeq + 1 /\ k.id = connSeq + 1 /\ conn[n].state = "none"
           \/ connSeq' = connSeq /\ k.id = conn[n].id /\ k.part = conn[n].part /\ conn[n].state # "none"
    PROVE  HInv'
<1> USE DEF HInv
<1>1. /\ conn \in [Conns -> [state : {"none", "open", "closed"}, part : Parts, id : Nat]]
      /\ connSeq \in Nat /\ IsSeq(entries[n])
      /\ entries = [x \in Conns \cup Calls |-> entries[x]]
  BY DEF TypesOK
<1>2. conn' \in [Conns -> [state : {"none", "open", "closed"}, part : Parts, id : Nat]]
      /\ conn'[n] = k /\ \A m \in Conns \ {n} : conn'[m] = conn[m]
  <2>1. k \in [state : {"none", "open", "closed"}, part : Parts, id : Nat]
    OBVIOUS
  <2> QED BY <2>1, <1>1
<1> DEFINE e == [kind |-> kind, part |-> k.part, id |-> k.id, peer |-> n]
<1> DEFINE s == IF Can("debug") THEN Append(entries[n], e) ELSE entries[n]
<1>3. entries' = [entries EXCEPT ![n] = s]
  BY <1>1 DEF LogConn
<1>4. e.part = k.part /\ e.id = k.id /\ e.peer = n
  OBVIOUS
<1> HIDE DEF e
<1>5. IsSeq(s)
  BY <1>1, Appended
<1>6. \A i \in DOMAIN s : s[i].peer = n /\ s[i].part = k.part /\ s[i].id = k.id
  <2>1. \A i \in DOMAIN entries[n] :
            entries[n][i].peer = n /\ entries[n][i].part = k.part /\ entries[n][i].id = k.id
    BY DEF ConnsOK
  <2> DEFINE a == Append(entries[n], e)
  <2>2. PICK l \in Nat : l = Len(entries[n])
    BY <1>1, Appended
  <2>3. DOMAIN a = 1..(l + 1) /\ DOMAIN entries[n] = 1..l
        /\ (\A i \in DOMAIN entries[n] : a[i] = entries[n][i]) /\ a[l + 1] = e
    BY <1>1, <2>2, Appended
  <2> HIDE DEF a
  <2>4. ASSUME NEW i \in DOMAIN a
        PROVE  a[i].peer = n /\ a[i].part = k.part /\ a[i].id = k.id
    <3>1. i \in 1..(l + 1)
      BY <2>3, <2>4
    <3>2. i \in 1..l \/ i = l + 1
      BY <3>1
    <3> QED BY <3>2, <2>1, <2>3, <1>4
  <2> QED BY <2>1, <2>4 DEF a
<1> HIDE DEF s
<1>7. /\ entries' = [x \in Conns \cup Calls |-> entries'[x]]
      /\ entries'[n] = s /\ \A x \in (Conns \cup Calls) \ {n} : entries'[x] = entries[x]
  BY <1>1, <1>3
<1>8. TypesOK'
  <2>1. \A x \in Conns \cup Calls : IsSeq(entries'[x])
    BY <1>5, <1>7 DEF TypesOK
  <2>2. connSeq' \in Nat
    BY <1>1
  <2> QED BY <1>2, <1>7, <2>1, <2>2 DEF TypesOK
<1>9. \A c \in Calls : CallOK(c, rpc[c], tag[c], entries[c], clock)'
  <2>1. \A c \in Calls : c # n /\ entries'[c] = entries[c]
    BY <1>7, ConstantsAssumption
  <2> QED BY <2>1 DEF CallOK, LoggedOK
<1>10. ConnsOK'
  <2>1. \A m \in Conns \ {n} : conn[m].state # "none" => conn[m].id # k.id /\ conn[m].id <= connSeq'
    <3>1. \A m \in Conns : conn[m].id \in Nat
      BY <1>1
    <3> QED BY <3>1, <1>1 DEF ConnsOK
  <2>2. k.id <= connSeq' /\ k.state # "none"
    <3>1. conn[n].id \in Nat /\ k.id \in Nat
      BY <1>1
    <3> QED BY <3>1, <1>1 DEF ConnsOK
  <2>3. ASSUME NEW m \in Conns
        PROVE  /\ conn'[m].state = "none" => entries'[m] = <<>>
               /\ conn'[m].state # "none" => conn'[m].id <= connSeq'
               /\ \A i \in DOMAIN entries'[m] : LET f == entries'[m][i]
                     IN  f.peer = m /\ f.part = conn'[m].part /\ f.id = conn'[m].id
    <3>1. CASE m = n
      BY <3>1, <1>2, <1>6, <1>7, <2>2
    <3>2. CASE m # n
      BY <3>2, <1>2, <1>7, <2>1 DEF ConnsOK
    <3> QED BY <3>1, <3>2
  <2>4. ASSUME NEW m \in Conns, NEW o \in Conns,
               conn'[m].state # "none", conn'[o].state # "none", conn'[m].id = conn'[o].id
        PROVE  m = o
    BY <2>4, <1>2, <2>1 DEF ConnsOK
  <2> QED BY <2>3, <2>4 DEF ConnsOK
<1>11. TagsApart' /\ FatalOK' /\ PanicsOnlyUnconnected'
  BY DEF TagsApart, FatalOK, PanicsOnlyUnconnected
<1> QED BY <1>8, <1>9, <1>10, <1>11

LEMMA ConnectKeeps ==
    ASSUME HInv, NEW n \in Conns, NEW part \in Parts, Connect(n, part)
    PROVE  HInv'
<1> DEFINE k == [state |-> "open", part |-> part, id |-> connSeq + 1]
<1>1. connSeq \in Nat
  BY DEF HInv, TypesOK
<1>2. k \in [state : {"open", "closed"}, part : Parts, id : Nat] /\ k.part = part /\ k.id = connSeq + 1
  BY <1>1
<1>3. conn' = [conn EXCEPT ![n] = k] /\ connSeq' = connSeq + 1
      /\ LogConn("BEGIN", n, part, connSeq + 1) /\ conn[n].state = "none"
      /\ UNCHANGED <<level, clock, callSeq, rpc, tag, crashed>>
  BY DEF Connect, TagConn, NextId
<1> HIDE DEF k
<1> QED BY <1>2, <1>3, ConnLogged

LEMMA DisconnectKeeps == ASSUME HInv, NEW n \in Conns, Disconnect(n) PROVE HInv'
<1> DEFINE k == [conn[n] EXCEPT !.state = "closed"]
<1>1. conn[n] \in [state : {"none", "open", "closed"}, part : Parts, id : Nat]
  BY DEF HInv, TypesOK
<1>2. k \in [state : {"open", "closed"}, part : Parts, id : Nat]
      /\ k.part = conn[n].part /\ k.id = conn[n].id
  BY <1>1
<1>3. conn' = [conn EXCEPT ![n] = k] /\ connSeq' = connSeq /\ conn[n].state # "none"
      /\ LogConn("END", n, conn[n].part, conn[n].id)
      /\ UNCHANGED <<level, clock, callSeq, rpc, tag, crashed>>
  BY DEF Disconnect
<1> HIDE DEF k
<1> QED BY <1>2, <1>3, ConnLogged

LEMMA TickKeeps == ASSUME HInv, Tick PROVE HInv'
<1> USE DEF HInv, Tick
<1>1. clock \in Nat /\ clock' = clock + 1 /\ tag \in [Calls -> TagType]
  BY DEF TypesOK
<1>2. TypesOK'
  <2>1. clock' \in Nat
    BY <1>1
  <2> QED BY <2>1 DEF TypesOK
<1>3. ASSUME NEW c \in Calls
      PROVE  CallOK(c, rpc[c], tag[c], entries[c], clock)'
  <2>1. tag[c].begin \in Nat /\ tag[c].recv \in Nat /\ tag[c].sent \in Nat
    BY <1>1 DEF TagType
  <2>2. TimesOK(rpc[c], tag[c], clock) /\ CallOK(c, rpc[c], tag[c], entries[c], clock)
    BY DEF CallOK
  <2>3. TimesOK(rpc[c], tag[c], clock + 1)
    BY <1>1, <2>1, <2>2 DEF TimesOK
  <2> QED BY <1>1, <2>2, <2>3 DEF CallOK, LoggedOK
<1>4. TagsApart' /\ ConnsOK' /\ FatalOK' /\ PanicsOnlyUnconnected'
  BY DEF TagsApart, ConnsOK, FatalOK, PanicsOnlyUnconnected
<1> QED BY <1>2, <1>3, <1>4

LEMMA InitHInv == Init => HInv
<1> SUFFICES ASSUME Init
             PROVE  HInv
  OBVIOUS
<1> USE DEF Init
<1>1. IsSeq(<<>>)
  BY DEF IsSeq
<1>2. TypesOK
  <2>1. rpc \in [Calls -> RpcType] /\ tag \in [Calls -> TagType]
    BY NoneKnown
  <2>2. conn \in [Conns -> [state : {"none", "open", "closed"}, part : Parts, id : Nat]]
    BY DEF NoConn, Parts
  <2> QED BY <1>1, <2>1, <2>2 DEF TypesOK
<1>3. ASSUME NEW c \in Calls
      PROVE  CallOK(c, rpc[c], tag[c], entries[c], clock)
  <2>1. rpc[c].at = "none" /\ rpc[c].part = "server" /\ rpc[c].reader = "idle" /\ entries[c] = <<>>
    BY DEF NoCall
  <2>2. LoggedOK(rpc[c], entries[c])
    BY <2>1 DEF LoggedOK, Expected, KindsOf, Early
  <2>3. StageOK(c, rpc[c], tag[c]) /\ TimesOK(rpc[c], tag[c], clock)
    BY <2>1 DEF StageOK, TimesOK, Served
  <2> QED BY <2>1, <2>2, <2>3 DEF CallOK
<1>4. TagsApart /\ FatalOK /\ PanicsOnlyUnconnected
  BY DEF TagsApart, FatalOK, PanicsOnlyUnconnected, NoCall
<1>5. ConnsOK
  <2>1. \A n \in Conns : conn[n].state = "none" /\ entries[n] = <<>>
    BY DEF NoConn
  <2> QED BY <2>1 DEF ConnsOK
<1> QED BY <1>2, <1>3, <1>4, <1>5 DEF HInv

LEMMA NextHInv == HInv /\ [Next]_vars => HInv'
<1> SUFFICES ASSUME HInv, [Next]_vars
             PROVE  HInv'
  OBVIOUS
<1>1. CASE Tick
  BY <1>1, TickKeeps
<1>2. ASSUME NEW n \in Conns, (\E part \in Parts : Connect(n, part)) \/ Disconnect(n)
      PROVE  HInv'
  BY <1>2, ConnectKeeps, DisconnectKeeps
<1>3. ASSUME NEW c \in Calls,
             \/ Serve(c) \/ ServeHeader(c) \/ ServeBegin(c) \/ ServeRead(c) \/ Answer(c) \/ AnswerData(c)
      PROVE  HInv'
  BY <1>3, ServeKeeps, ServeHeaderKeeps, ServeBeginKeeps, ServeReadKeeps, AnswerKeeps, AnswerDataKeeps
<1>4. ASSUME NEW c \in Calls,
             \/ Call(c) \/ CallBegin(c) \/ NewStream(c) \/ CallHeader(c) \/ CallData(c)
             \/ ReadHeader(c) \/ ReadData(c)
      PROVE  HInv'
  BY <1>4, CallKeeps, CallBeginKeeps, NewStreamKeeps, CallHeaderKeeps, CallDataKeeps, ReadHeaderKeeps,
     ReadDataKeeps
<1>5. ASSUME NEW c \in Calls, End(c)
      PROVE  HInv'
  BY <1>5, EndKeeps
<1>6. CASE UNCHANGED vars
  <2>1. TypesOK'
    BY <1>6 DEF vars, HInv, TypesOK
  <2>2. \A c \in Calls : CallOK(c, rpc[c], tag[c], entries[c], clock)'
    BY <1>6 DEF vars, HInv, CallOK, LoggedOK
  <2>3. TagsApart' /\ ConnsOK' /\ FatalOK' /\ PanicsOnlyUnconnected'
    BY <1>6 DEF vars, HInv, TagsApart, ConnsOK, FatalOK, PanicsOnlyUnconnected
  <2> QED BY <2>1, <2>2, <2>3 DEF HInv
<1> QED BY <1>1, <1>2, <1>3, <1>4, <1>5, <1>6 DEF Next

\* The invariant holds whatever is served, called, connected and disconnected,
\* in the order of grpc-go, with the caller and the reader of the transport in
\* any order.
THEOREM TagsFollowTheirCalls == Spec => []HInv
<1> QED BY InitHInv, NextHInv, PTL DEF Spec

\* Looking at the RPCs takes the process down for one of the service's own
\* calls only, which failed before its header went out, with a connection
\* picked or without (handler.go: the END calls String() of a nil address).
THEOREM PanicsAreOfUnconnected == Spec => []PanicsOnlyUnconnected
<1>1. HInv => PanicsOnlyUnconnected
  BY DEF HInv
<1> QED BY <1>1, TagsFollowTheirCalls, PTL

\* Entries tell their RPC or connection from any other.
LEMMA NamesTheirOwn == HInv => EntriesNameTheirOwn
<1> SUFFICES ASSUME HInv
             PROVE  EntriesNameTheirOwn
  OBVIOUS
<1>1. ASSUME NEW c \in Calls, NEW i \in DOMAIN entries[c]
      PROVE  /\ EntryOK(c, rpc[c], tag[c], entries[c][i]) /\ rpc[c].at # "none"
             /\ entries[c][i].id = tag[c].id
  <2>1. CallOK(c, rpc[c], tag[c], entries[c], clock)
    BY DEF HInv
  <2>2. entries[c] # <<>>
    BY <1>1
  <2> QED BY <1>1, <2>1, <2>2 DEF CallOK, LoggedOK, Early, EntryOK
<1>2. ASSUME NEW c \in Calls, NEW d \in Calls \ {c}, NEW i \in DOMAIN entries[c], NEW j \in DOMAIN entries[d]
      PROVE  entries[d][j].id # entries[c][i].id
  BY <1>1, <1>2 DEF HInv, TagsApart
<1>3. \A c \in Calls : \A i \in DOMAIN entries[c] :
          LET e == entries[c][i]
          IN  /\ e.peer = rpc[c].conn /\ e.part = rpc[c].part /\ e.path = c
              /\ e.kind # "END" => e.about = c
  BY <1>1 DEF EntryOK
<1>4. ASSUME NEW n \in Conns, NEW i \in DOMAIN entries[n]
      PROVE  /\ entries[n][i].peer = n /\ entries[n][i].part = conn[n].part
             /\ entries[n][i].id = conn[n].id /\ conn[n].state # "none"
  <2>1. entries[n] # <<>>
    BY <1>4
  <2> QED BY <1>4, <2>1 DEF HInv, ConnsOK
<1>5. ASSUME NEW n \in Conns, NEW m \in Conns \ {n}, NEW i \in DOMAIN entries[n], NEW j \in DOMAIN entries[m]
      PROVE  entries[m][j].id # entries[n][i].id
  BY <1>4, <1>5 DEF HInv, ConnsOK
<1> QED BY <1>2, <1>3, <1>4, <1>5 DEF EntriesNameTheirOwn

\* What is logged of an RPC is of that RPC, its durations are those of its
\* phases, and its end is never missing, unless the process went down at it.
THEOREM TheLogIsTrue == Spec => []LogIsTrue
<1>1. HInv => TimesWithinCall
  BY DEF HInv, CallOK, EntryOK, TimesWithinCall
<1>2. HInv => EndsAreLogged
  <2> SUFFICES ASSUME HInv, NEW c \in Calls, Running, rpc[c].at = "ended"
               PROVE  /\ ~rpc[c].failed /\ level = "debug" =>
                            Kinds(c) = IF rpc[c].part = "server" THEN <<"READ", "SEND", "END">>
                                       ELSE <<"SEND", "READ", "END">>
                      /\ rpc[c].failed /\ level # "error" =>
                            Kinds(c) # <<>> /\ \A i \in DOMAIN Kinds(c) : Kinds(c)[i] = "END" <=> i = Len(Kinds(c))
    BY DEF EndsAreLogged
  <2>1. LoggedOK(rpc[c], entries[c]) /\ IsSeq(entries[c]) /\ rpc[c].part \in Parts
    BY OfCall DEF CallOK, RpcType
  <2>2. Kinds(c) = KindsOf(entries[c]) /\ DOMAIN entries[c] = 1..Len(entries[c]) /\ Len(entries[c]) \in Nat
    BY <2>1, Appended DEF Kinds, KindsOf
  <2>3. Len(Kinds(c)) = Len(entries[c]) /\ DOMAIN Kinds(c) = DOMAIN entries[c]
        /\ \A i \in DOMAIN entries[c] : Kinds(c)[i] = entries[c][i].kind
    BY <2>2 DEF KindsOf
  <2>4. ASSUME ~rpc[c].failed, level = "debug"
        PROVE  Kinds(c) = IF rpc[c].part = "server" THEN <<"READ", "SEND", "END">>
                          ELSE <<"SEND", "READ", "END">>
    BY <2>1, <2>2, <2>4 DEF LoggedOK, Expected, Early, Parts
  <2>5. ASSUME rpc[c].failed, level # "error"
        PROVE  entries[c] # <<>> /\ \A i \in DOMAIN entries[c] : entries[c][i].kind = "END" <=> i = Len(entries[c])
    BY <2>1, <2>5 DEF LoggedOK, HInv, FatalOK, Running
  <2>6. entries[c] # <<>> => Kinds(c) # <<>>
    BY <2>1, <2>3 DEF IsSeq
  <2> QED BY <2>3, <2>4, <2>5, <2>6
<1>3. HInv => LogIsTrue
  BY <1>1, <1>2, NamesTheirOwn DEF LogIsTrue
<1> QED BY <1>3, TagsFollowTheirCalls, PTL
=============================================================================
