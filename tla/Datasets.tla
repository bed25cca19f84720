------------------------------ MODULE Datasets ------------------------------
(***************************************************************************)
(* Lists in pages: SessionStore.Search and AppStore.Search                 *)
(* (internal/store/postgres), the scanner of their rows                    *)
(* (pgtypex/dataset.go), model.Get, and the RPCs that answer with a page,  *)
(* GetAuthorizations and SearchApps, to clients that walk from page to     *)
(* page while others write to the table.                                   *)
(*                                                                         *)
(* A query is one statement: it sees the rows of one moment, in the order  *)
(* they lie in the table then, as no query has an ORDER BY.  A new row,    *)
(* and every new version of an updated one, may lie anywhere.  The planner *)
(* is assumed to scan an unchanged table in the same order every time.     *)
(* The rows arrive one by one; the stream may end early, at a deadline or  *)
(* with the connection, and neither store looks at rows.Err() then.        *)
(*                                                                         *)
(* A filter is abstracted to a key: the rows of equal key are those it     *)
(* lets through (NoKey: no filter), except a filter by primary key.        *)
(***************************************************************************)
EXTENDS Integers, Subsequences

CONSTANTS
    Clients,      \* who reads
    Ids,          \* primary keys of rows
    Keys,         \* values the filters tell apart
    NoKey,        \* no filter
    Sizes,        \* page sizes clients ask for; 0 is no limit
    MaxRows,      \* bound: rows the table has at first
    MaxChanges,   \* bound: writes to the table
    MaxPage       \* bound: pages of a walk

ASSUME SizesAssumption == Sizes \subseteq Nat
ASSUME BoundsAssumption == MaxRows \in Nat /\ MaxChanges \in Nat /\ MaxPage \in Nat
ASSUME KeysAssumption == NoKey \notin Keys \cup Ids /\ Keys \cap Ids = {}

\* What the scan plan decodes of a row, as far as the filters tell rows apart.
Row == [id : Ids, key : Keys]

\* A lookup: Search of a table, with a filter, page and size as they were sent.
\* "get" is GetSession or GetApplication.
Request ==
    [op : {"list", "get"}, of : {"sessions", "apps"}, filter : Keys \cup Ids \cup {NoKey},
     page : Nat, size : Sizes \cup {1}]

VARIABLES
    store,        \* which of the two tables this is
    table,        \* the rows, in the order a scan meets them
    reader,       \* per client, the Search in progress or its answer
    walk,         \* history, per client: pages read, and what was written since
    changes       \* writes so far

vars == <<store, table, reader, walk, changes>>

PCs == {"idle", "reading", "answered"}
Outcomes == {"none", "page", "row", "nothing", "tooMany", "error"}

-----------------------------------------------------------------------------
(* The statement *)

\* The filters of WHERE.
Passes(row, filter) ==
    \/ filter = NoKey
    \/ row.key = filter
    \/ row.id = filter

\* The rows WHERE lets through, in the order of the scan.
Matching(q) == Kept(table, {i \in DOMAIN table : Passes(table[i], q.filter)})

\* AppStore.Search expects one row of an id, whatever size was asked for.
Limit(q) ==
    IF q.of = "apps" /\ q.filter \in Ids THEN 1 ELSE q.size

\* Mutants: pages are counted from 0; the page is forgotten.
Offset_FromZero(q) == q.page * q.size
Offset_None(q) == 0

\* OFFSET is left out of page 0 and 1, and where no size is asked for.
Offset(q) == IF q.page > 1 THEN (q.page - 1) * q.size ELSE 0

\* Mutant: no row beyond the page is asked for.
Fetched_PageOnly(q, n) ==
    IF Limit(q) > 0 /\ n - Offset(q) > Limit(q) THEN Limit(q)
    ELSE IF n > Offset(q) THEN n - Offset(q) ELSE 0

\* LIMIT size + 1: how many of n matching rows the statement returns.
Fetched(q, n) ==
    IF Limit(q) > 0 /\ n - Offset(q) > Limit(q) THEN Limit(q) + 1
    ELSE IF n > Offset(q) THEN n - Offset(q) ELSE 0

\* The rows the statement returns.
Result(q) ==
    LET all == Matching(q)
    IN  [i \in 1..Fetched(q, Len(all)) |-> all[Offset(q) + i]]

-----------------------------------------------------------------------------
(* Clients *)

NoWalk == [got |-> <<>>, first |-> {}, writes |-> {}]

Idle == [pc |-> "idle", outcome |-> "none",
         req |-> [op |-> "get", of |-> "sessions", filter |-> NoKey, page |-> 1, size |-> 1],
         all |-> <<>>, rows |-> <<>>, at |-> 0,
         data |-> <<>>, next |-> FALSE, broken |-> FALSE]

\* What is in the table when the first client comes.
Tables ==
    {t \in UNION {[1..n -> Row] : n \in 0..MaxRows} :
        \A i, j \in DOMAIN t : t[i].id = t[j].id => i = j}

Init ==
    /\ store \in {"sessions", "apps"}
    /\ table \in Tables
    /\ reader = [c \in Clients |-> Idle]
    /\ walk = [c \in Clients |-> NoWalk]
    /\ changes = 0

\* db.Query: the statement runs, its rows are about to arrive.
Query(c, q) ==
    reader' = [reader EXCEPT ![c] =
        [Idle EXCEPT !.pc = "reading", !.req = q, !.all = Matching(q), !.rows = Result(q)]]

\* Service.GetSession, Service.GetApplication: page 1 of one row.
GetRequest(filter) ==
    [op |-> "get", of |-> store, filter |-> filter, page |-> 1, size |-> 1]

Get(c) ==
    /\ reader[c].pc = "idle"
    /\ \E filter \in Keys \cup Ids : Query(c, GetRequest(filter))
    /\ walk' = [walk EXCEPT ![c] = NoWalk]
    /\ UNCHANGED <<store, table, changes>>

\* A walk starts at page 0, which is what a request without page has, or 1.
StartWalk(c) ==
    /\ reader[c].pc = "idle"
    /\ \E filter \in Keys \cup Ids \cup {NoKey}, page \in {0, 1}, size \in Sizes :
            LET q == [op |-> "list", of |-> store, filter |-> filter,
                      page |-> page, size |-> size]
            IN  /\ Query(c, q)
                /\ walk' = [walk EXCEPT ![c] =
                        [got |-> <<>>, writes |-> {},
                         first |-> {table[i].id : i \in
                                {j \in DOMAIN table : Passes(table[j], filter)}}]]
    /\ UNCHANGED <<store, table, changes>>

\* Mutant: the page is answered as it was asked for.
AnsweredPage_AsAsked(q) == q.page

\* The page the answer says it is.
AnsweredPage(q) == IF q.page > 1 THEN q.page ELSE 1

\* The client asks for the page after the one it was answered.
NextPage(c) ==
    LET q == reader[c].req
    IN  /\ reader[c].pc = "answered" /\ reader[c].next
        /\ AnsweredPage(q) < MaxPage
        /\ Query(c, [q EXCEPT !.page = AnsweredPage(q) + 1])
        /\ UNCHANGED <<store, table, walk, changes>>

\* The client has what it wanted, or loses interest.
Abandon(c) ==
    /\ reader[c].pc = "answered"
    /\ reader' = [reader EXCEPT ![c] = Idle]
    /\ walk' = [walk EXCEPT ![c] = NoWalk]
    /\ UNCHANGED <<store, table, changes>>

-----------------------------------------------------------------------------
(* DatasetScanner and model.Get *)

\* The row beyond the page becomes Next, and Next is never the last word of
\* a page that is not full.
Overflows(r) == Limit(r.req) > 0 /\ Len(r.data) = Limit(r.req)

\* scanRow: a row is appended while there is room, else it is Next; once
\* there is a Next, rows are not decoded at all.
Scanned(r) ==
    IF r.next \/ Overflows(r)
    THEN [r EXCEPT !.at = @ + 1, !.next = TRUE]
    ELSE [r EXCEPT !.at = @ + 1, !.data = Append(@, r.rows[r.at + 1])]

ScanRow(c) ==
    /\ reader[c].pc = "reading" /\ reader[c].at < Len(reader[c].rows)
    /\ reader' = [reader EXCEPT ![c] = Scanned(@)]
    /\ UNCHANGED <<store, table, walk, changes>>

\* Mutant: a second row does not matter.
GetOutcome_First(r) ==
    IF r.data = <<>> THEN "nothing" ELSE "row"

\* model.Get.
GetOutcome(r) ==
    IF r.next \/ Len(r.data) > 1 THEN "tooMany"
    ELSE IF r.data = <<>> THEN "nothing" ELSE "row"

\* What the caller gets once no more rows arrive.
Answered(r) ==
    [r EXCEPT !.pc = "answered",
              !.outcome = IF r.req.op = "list" THEN "page" ELSE GetOutcome(r),
              !.next = r.next /\ r.req.op = "list"]

Noted(c, r) ==
    walk' = [walk EXCEPT ![c].got =
                @ \o [i \in DOMAIN r.data |-> r.data[i].id]]

\* rows.Next is false: all rows were read.
Finish(c) ==
    /\ reader[c].pc = "reading" /\ reader[c].at = Len(reader[c].rows)
    /\ reader' = [reader EXCEPT ![c] = Answered(@)]
    /\ Noted(c, reader[c])
    /\ UNCHANGED <<store, table, changes>>

\* rows.Next is false because of an error that nobody asks rows for.
Broken(r) == [Answered(r) EXCEPT !.broken = TRUE]

StreamBreaks(c) ==
    /\ reader[c].pc = "reading" /\ reader[c].at < Len(reader[c].rows)
    /\ reader' = [reader EXCEPT ![c] = Broken(@)]
    /\ walk' = [walk EXCEPT ![c].writes = @ \cup {"broken"}]
    /\ UNCHANGED <<store, table, changes>>

\* The query is refused at once, or a column of a row can not be decoded.
Fails(c) ==
    /\ reader[c].pc = "reading"
    /\ reader[c].at = 0 \/ (reader[c].at < Len(reader[c].rows) /\ ~reader[c].next)
    /\ reader' = [reader EXCEPT ![c] = [Idle EXCEPT !.pc = "answered",
                                         !.req = reader[c].req, !.outcome = "error"]]
    /\ UNCHANGED <<store, table, walk, changes>>

-----------------------------------------------------------------------------
(* Writers *)

Used == {table[i].id : i \in DOMAIN table}

\* The table with a row put before position i.
With(t, i, row) == SubSeq(t, 1, i - 1) \o <<row>> \o SubSeq(t, i, Len(t))
Without(t, i) == SubSeq(t, 1, i - 1) \o SubSeq(t, i + 1, Len(t))

Wrote(kind) ==
    /\ changes < MaxChanges
    /\ changes' = changes + 1
    /\ walk' = [c \in Clients |-> [walk[c] EXCEPT !.writes = @ \cup {kind}]]
    /\ UNCHANGED <<store, reader>>

\* SessionStore.Create, SessionStore.RegisterDevice, AppStore.Create.
Insert ==
    /\ \E row \in Row, i \in 1..Len(table) + 1 :
        row.id \notin Used /\ table' = With(table, i, row)
    /\ Wrote("insert")

\* SessionStore.Delete; AppStore has no such thing.
Delete ==
    /\ store = "sessions"
    /\ \E i \in DOMAIN table : table' = Without(table, i)
    /\ Wrote("delete")

\* SessionStore.Update, RegisterDevice and UnregisterDevice: the new version
\* of a row lies somewhere else and may pass other filters.
Update ==
    /\ store = "sessions"
    /\ \E i \in DOMAIN table, j \in DOMAIN table, key \in Keys :
        table' = With(Without(table, i), j, [table[i] EXCEPT !.key = key])
    /\ Wrote("update")

Write == Insert \/ Delete \/ Update

Read(c) == ScanRow(c) \/ Finish(c) \/ StreamBreaks(c) \/ Fails(c)

Next ==
    \/ \E c \in Clients : Get(c) \/ StartWalk(c) \/ NextPage(c) \/ Abandon(c) \/ Read(c)
    \/ Write

\* A client that got a page asks for the next or gives up; an answer arrives.
Spec ==
    /\ Init /\ [][Next]_vars
    /\ \A c \in Clients : WF_vars(Read(c)) /\ WF_vars(NextPage(c))

-----------------------------------------------------------------------------
(* Properties *)

TypeOK ==
    /\ store \in {"sessions", "apps"}
    /\ table \in Seq(Row)
    /\ changes \in 0..MaxChanges
    /\ reader \in [Clients ->
            [pc : PCs, outcome : Outcomes, req : Request, all : Seq(Row), rows : Seq(Row),
             at : Nat, data : Seq(Row), next : BOOLEAN, broken : BOOLEAN]]

\* A page whose rows all arrived is the window of the rows that matched when
\* the statement ran, and announces another one exactly when there was more:
\* LIMIT size + 1, OFFSET and the scanner agree on where a page ends.
PageExact(r) ==
    LET size == Limit(r.req)
        before == IF r.req.page < 2 THEN 0 ELSE (r.req.page - 1) * r.req.size
        more == size > 0 /\ Len(r.all) > before + size
    IN  r.outcome = "page" /\ ~r.broken =>
            /\ r.next <=> more
            /\ r.data = SubSeq(r.all, before + 1, IF more THEN before + size ELSE Len(r.all))

PageIsExact == \A c \in Clients : PageExact(reader[c])

\* While rows arrive, the page holds the first of them up to its size, and
\* Next is set by the first that has no room.
ScanOK(r) ==
    LET size == Limit(r.req)
        full == size > 0 /\ r.at > size
    IN  /\ r.at \in 0..Len(r.rows)
        /\ Len(r.data) = IF full THEN size ELSE r.at
        /\ r.next <=> full
        /\ \A i \in DOMAIN r.data : r.data[i] = r.rows[i]

ScansOK == \A c \in Clients : reader[c].pc = "reading" => ScanOK(reader[c])

\* What Get says of the rows that matched: one row is the only one, nothing
\* is none, and too many are more than one, except that a stream that broke
\* may make Get answer with one row of several, or with nothing.
GetExact(r) ==
    /\ r.outcome = "row" /\ ~r.broken => Len(r.all) = 1
    /\ r.outcome = "nothing" /\ ~r.broken => Len(r.all) = 0
    /\ r.outcome = "tooMany" => Len(r.all) > 1

GetIsExact == \A c \in Clients : GetExact(reader[c])

\* The walk of client c came to its last page.
Walked(c) == reader[c].outcome = "page" /\ ~reader[c].next

\* A walk beside inserts only reads every row that was there when it began,
\* wherever the new rows come to lie.
InsertsHideNothing ==
    \A c \in Clients : Walked(c) /\ walk[c].writes \subseteq {"insert"} =>
        \A id \in walk[c].first : \E i \in DOMAIN walk[c].got : walk[c].got[i] = id

\* A walk beside deletions only reads no row twice.
DeletesRepeatNothing ==
    \A c \in Clients : Walked(c) /\ walk[c].writes \subseteq {"delete"} =>
        \A i, j \in DOMAIN walk[c].got : walk[c].got[i] = walk[c].got[j] => i = j

\* A client that keeps asking for the next page comes to the last one.
WalkEnds ==
    \A c \in Clients : reader[c].pc = "reading" ~> (reader[c].pc # "reading" /\ ~reader[c].next)
=============================================================================
