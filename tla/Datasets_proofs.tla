-------------------------- MODULE Datasets_proofs ---------------------------
(***************************************************************************)
(* Theorems about Datasets, for any table, page sizes and number of        *)
(* clients: what a page and what Get say of the rows that matched, and     *)
(* what a client that walks from page to page sees of a table in which     *)
(* rows come and go meanwhile.                                             *)
(*                                                                         *)
(* Theorems about SelectPlan, for any schema and any fields that are asked *)
(* for: what each column of a SELECT is scanned into, in which order the   *)
(* calculations run, and in which order the tables are joined.             *)
(*                                                                         *)
(* A theorem about FieldArguments: what is left of the arguments of a      *)
(* field can be used as it is.                                             *)
(***************************************************************************)
EXTENDS Datasets, SelectPlan, FieldArguments, Subsequences_proofs

\* The fields of a reader, and the sequences among them over what matched.
Values(r) == {r.all[k] : k \in DOMAIN r.all}

ReaderTypeOK(r) ==
    /\ r \in [pc : PCs, outcome : Outcomes, req : Request, all : {r.all}, rows : {r.rows},
              at : Nat, data : {r.data}, next : BOOLEAN, broken : BOOLEAN]
    /\ r.all \in Seq(Values(r))
    /\ r.rows \in Seq(Values(r))
    /\ r.data \in Seq(Values(r))

\* The statement returned the window of what matched.
FetchedOK(r) ==
    /\ Len(r.rows) = Fetched(r.req, Len(r.all))
    /\ \A i \in 1..Len(r.rows) : r.rows[i] = r.all[Offset(r.req) + i]

ReaderInv(r) ==
    /\ ReaderTypeOK(r)
    /\ FetchedOK(r)
    /\ r.req.op = "get" => r.req.page = 1 /\ r.req.size = 1
    /\ r.pc = "answered" /\ r.next => r.req.op = "list"
    /\ r.pc = "reading" => ScanOK(r) /\ r.outcome = "none" /\ ~r.broken
    /\ PageExact(r)
    /\ GetExact(r)

TableOK == table \in Seq(Row)

DomainOK == reader = [c \in Clients |-> reader[c]]

StoreOK == store \in {"sessions", "apps"}

DInv == StoreOK /\ TableOK /\ DomainOK /\ \A c \in Clients : ReaderInv(reader[c])

-----------------------------------------------------------------------------
(* Arithmetic of a page *)

LEMMA SizeType == \A q \in Request : q.size \in Nat /\ q.page \in Nat
  <1> SUFFICES ASSUME NEW q \in Request PROVE q.size \in Nat /\ q.page \in Nat
    OBVIOUS
  <1>1. q.size \in Sizes \cup {1} /\ q.page \in Nat
    BY DEF Request
  <1>2. \A n \in Sizes \cup {1} : n \in Nat
    BY SizesAssumption
  <1> QED BY <1>1, <1>2

LEMMA LimitType == \A q \in Request : Limit(q) \in Nat
  BY SizeType DEF Limit

LEMMA OffsetType == \A q \in Request : Offset(q) \in Nat
  <1> SUFFICES ASSUME NEW q \in Request PROVE Offset(q) \in Nat
    OBVIOUS
  <1>1. q.size \in Nat /\ q.page \in Nat
    BY SizeType
  <1>2. CASE q.page > 1
    <2>1. q.page - 1 \in Nat
      BY <1>1, <1>2
    <2>2. \A x, y \in Nat : x * y \in Nat
      OBVIOUS
    <2> QED BY <1>1, <1>2, <2>1, <2>2 DEF Offset
  <1>3. CASE ~(q.page > 1)
    BY <1>3 DEF Offset
  <1> QED BY <1>2, <1>3

LEMMA FetchedType ==
  ASSUME NEW q \in Request, NEW n \in Nat
  PROVE  /\ Fetched(q, n) \in Nat
         /\ Fetched(q, n) > 0 => Offset(q) + Fetched(q, n) <= n
         /\ Limit(q) = 0 => Fetched(q, n) = IF n > Offset(q) THEN n - Offset(q) ELSE 0
         /\ Limit(q) > 0 => Fetched(q, n) = IF n > Offset(q) + Limit(q) THEN Limit(q) + 1
                                 ELSE IF n > Offset(q) THEN n - Offset(q) ELSE 0
  BY LimitType, OffsetType DEF Fetched

-----------------------------------------------------------------------------
(* The statement *)

\* The rows that match are rows of the table.
LEMMA MatchingRows == ASSUME TableOK, NEW q PROVE Matching(q) \in Seq(Row)
  BY KeptFrom DEF Matching, TableOK

LEMMA MatchingIsSeq ==
  ASSUME TableOK, NEW q
  PROVE  Matching(q) \in Seq({Matching(q)[k] : k \in DOMAIN Matching(q)})
  <1> DEFINE m == Matching(q)
  <1>1. m \in Seq(Row)
    BY MatchingRows
  <1> HIDE DEF m
  <1>2. m \in [1..Len(m) -> {m[k] : k \in DOMAIN m}] /\ Len(m) \in Nat
    BY <1>1
  <1> QED BY <1>2, SeqDef DEF m

\* A reader whose statement just ran.
LEMMA QueryKeeps ==
  ASSUME TableOK, NEW q \in Request, q.op = "get" => q.page = 1 /\ q.size = 1
  PROVE  ReaderInv([Idle EXCEPT !.pc = "reading", !.req = q, !.all = Matching(q),
                                !.rows = Result(q)])
  <1> DEFINE r == [Idle EXCEPT !.pc = "reading", !.req = q, !.all = Matching(q),
                               !.rows = Result(q)]
             all == Matching(q)
             rows == Result(q)
  <1>1. /\ r.pc = "reading" /\ r.outcome = "none" /\ r.req = q /\ r.all = all
        /\ r.rows = rows /\ r.at = 0 /\ r.data = <<>> /\ r.next = FALSE
        /\ r.broken = FALSE
    BY DEF Idle
  <1>2. all \in Seq(Values(r))
    BY <1>1, MatchingIsSeq DEF Values
  <1>3. Len(all) \in Nat /\ DOMAIN all = 1..Len(all)
    BY <1>2, LenProperties
  <1>4. /\ Fetched(q, Len(all)) \in Nat
        /\ Fetched(q, Len(all)) > 0 => Offset(q) + Fetched(q, Len(all)) <= Len(all)
    BY <1>3, FetchedType
  <1>5. rows = [i \in 1..Fetched(q, Len(all)) |-> all[Offset(q) + i]]
    BY DEF Result
  <1>6. \A i \in 1..Fetched(q, Len(all)) : Offset(q) + i \in 1..Len(all)
    BY <1>3, <1>4, OffsetType
  <1>7. rows \in [1..Fetched(q, Len(all)) -> Values(r)]
    BY <1>1, <1>3, <1>5, <1>6 DEF Values
  <1>8. rows \in Seq(Values(r))
    BY <1>4, <1>7, SeqDef
  <1>9. DOMAIN rows = 1..Fetched(q, Len(all))
    BY <1>5
  <1>10. Len(rows) = Fetched(q, Len(all))
    BY <1>4, <1>8, <1>9, LenProperties
  <1>11. <<>> \in Seq(Values(r)) /\ Len(<<>>) = 0 /\ DOMAIN <<>> = {}
    BY EmptySeq
  <1>12. ReaderTypeOK(r)
    BY <1>1, <1>2, <1>8, <1>11 DEF ReaderTypeOK, Idle, PCs, Outcomes
  <1>13. FetchedOK(r)
    BY <1>1, <1>5, <1>10 DEF FetchedOK
  <1>14. ScanOK(r)
    BY <1>1, <1>4, <1>10, <1>11, LimitType DEF ScanOK
  <1>15. PageExact(r) /\ GetExact(r)
    BY <1>1 DEF PageExact, GetExact
  <1> QED BY <1>1, <1>12, <1>13, <1>14, <1>15 DEF ReaderInv

\* A reader that answers nothing but an error, and one that did nothing yet.
LEMMA EmptyReaderKeeps ==
  ASSUME NEW q \in Request, q.op = "get" => q.page = 1 /\ q.size = 1,
         NEW pc \in PCs \ {"reading"}, NEW o \in {"none", "error"}
  PROVE  ReaderInv([Idle EXCEPT !.pc = pc, !.req = q, !.outcome = o])
  <1> DEFINE r == [Idle EXCEPT !.pc = pc, !.req = q, !.outcome = o]
  <1>1. /\ r.pc = pc /\ r.outcome = o /\ r.req = q /\ r.all = <<>>
        /\ r.rows = <<>> /\ r.at = 0 /\ r.data = <<>> /\ r.next = FALSE
        /\ r.broken = FALSE
    BY DEF Idle
  <1>2. <<>> \in Seq(Values(r)) /\ Len(<<>>) = 0 /\ DOMAIN <<>> = {}
    BY EmptySeq
  <1>3. ReaderTypeOK(r)
    BY <1>1, <1>2 DEF ReaderTypeOK, Idle, PCs, Outcomes
  <1>4. Fetched(q, 0) = 0
    BY LimitType, OffsetType DEF Fetched
  <1>5. FetchedOK(r)
    BY <1>1, <1>2, <1>4 DEF FetchedOK
  <1>6. PageExact(r) /\ GetExact(r)
    BY <1>1 DEF PageExact, GetExact
  <1> QED BY <1>1, <1>3, <1>5, <1>6 DEF ReaderInv

LEMMA IdleKeeps == ReaderInv(Idle)
  <1>1. /\ Idle.req.page = 1 /\ Idle.req.size = 1 /\ Idle.req \in Request
    BY DEF Idle, Request
  <1>2. /\ Idle.pc = "idle" /\ Idle.outcome = "none" /\ Idle.all = <<>>
        /\ Idle.rows = <<>> /\ Idle.at = 0 /\ Idle.data = <<>> /\ Idle.next = FALSE
        /\ Idle.broken = FALSE
    BY DEF Idle
  <1>3. <<>> \in Seq(Values(Idle)) /\ Len(<<>>) = 0 /\ DOMAIN <<>> = {}
    BY EmptySeq
  <1>4. ReaderTypeOK(Idle)
    BY <1>1, <1>2, <1>3 DEF ReaderTypeOK, Idle, PCs, Outcomes
  <1>5. Fetched(Idle.req, 0) = 0
    BY <1>1, LimitType, OffsetType DEF Fetched
  <1>6. FetchedOK(Idle)
    BY <1>2, <1>3, <1>5 DEF FetchedOK
  <1>7. PageExact(Idle) /\ GetExact(Idle)
    BY <1>2 DEF PageExact, GetExact
  <1> QED BY <1>1, <1>2, <1>4, <1>6, <1>7 DEF ReaderInv

-----------------------------------------------------------------------------
(* The scanner and Get *)

\* What ReaderTypeOK says of a reader whose fields are read one by one.
LEMMA ReaderFields ==
  ASSUME NEW r, ReaderInv(r)
  PROVE  /\ r.req \in Request /\ r.at \in Nat /\ r.next \in BOOLEAN /\ r.broken \in BOOLEAN
         /\ Len(r.all) \in Nat /\ DOMAIN r.all = 1..Len(r.all)
         /\ Len(r.rows) \in Nat /\ DOMAIN r.rows = 1..Len(r.rows)
         /\ Len(r.data) \in Nat /\ DOMAIN r.data = 1..Len(r.data)
         /\ \A i \in 1..Len(r.rows) : r.rows[i] \in Values(r)
  <1>1. /\ r.all \in Seq(Values(r)) /\ r.rows \in Seq(Values(r)) /\ r.data \in Seq(Values(r))
        /\ r.req \in Request /\ r.at \in Nat /\ r.next \in BOOLEAN /\ r.broken \in BOOLEAN
    BY DEF ReaderInv, ReaderTypeOK
  <1> QED BY <1>1, LenProperties, ElementOfSeq

\* The scanner keeps the first rows and remembers that there was one more.
LEMMA ScannedKeeps ==
  ASSUME NEW r, ReaderInv(r), r.pc = "reading", r.at < Len(r.rows)
  PROVE  ReaderInv(Scanned(r))
  <1> DEFINE s == Scanned(r)
             row == r.rows[r.at + 1]
  <1>1. /\ r.req \in Request /\ r.at \in Nat /\ r.next \in BOOLEAN
        /\ Len(r.rows) \in Nat /\ Len(r.data) \in Nat
        /\ row \in Values(r) /\ Limit(r.req) \in Nat
    <2>1. /\ r.req \in Request /\ r.at \in Nat /\ r.next \in BOOLEAN
          /\ Len(r.rows) \in Nat /\ Len(r.data) \in Nat
          /\ \A i \in 1..Len(r.rows) : r.rows[i] \in Values(r)
      BY ReaderFields
    <2>2. r.at + 1 \in 1..Len(r.rows)
      BY <2>1
    <2> QED BY <2>1, <2>2, LimitType
  <1>2. ScanOK(r) /\ r.outcome = "none" /\ ~r.broken
    BY DEF ReaderInv
  <1>3. ReaderTypeOK(r) /\ FetchedOK(r)
    BY DEF ReaderInv
  <1>4. CASE r.next \/ Overflows(r)
    <2>1. s = [r EXCEPT !.at = @ + 1, !.next = TRUE]
      BY <1>4 DEF Scanned
    <2>2. /\ s.pc = r.pc /\ s.outcome = r.outcome /\ s.req = r.req /\ s.all = r.all
          /\ s.rows = r.rows /\ s.at = r.at + 1 /\ s.data = r.data /\ s.next = TRUE
          /\ s.broken = r.broken
      BY <1>3, <2>1 DEF ReaderTypeOK
    <2>3. Values(s) = Values(r)
      BY <2>2 DEF Values
    <2>4. ReaderTypeOK(s)
      <3>1. s \in [pc : PCs, outcome : Outcomes, req : Request, all : {r.all},
                   rows : {r.rows}, at : Nat, data : {r.data}, next : BOOLEAN,
                   broken : BOOLEAN]
        <4>1. s = [pc |-> r.pc, outcome |-> r.outcome, req |-> r.req, all |-> r.all,
                   rows |-> r.rows, at |-> r.at + 1, data |-> r.data, next |-> TRUE,
                   broken |-> r.broken]
          BY <1>3, <2>1 DEF ReaderTypeOK
        <4>2. r.at + 1 \in Nat
          BY <1>1
        <4>3. /\ r.pc \in PCs /\ r.outcome \in Outcomes /\ r.req \in Request
              /\ r.broken \in BOOLEAN
          BY <1>3 DEF ReaderTypeOK
        <4> QED BY <4>1, <4>2, <4>3
      <3> QED BY <1>3, <2>2, <2>3, <3>1 DEF ReaderTypeOK
    <2>5. FetchedOK(s)
      BY <1>3, <2>2 DEF FetchedOK
    <2>6. r.at >= Limit(r.req) /\ Limit(r.req) > 0 /\ Len(r.data) = Limit(r.req)
      BY <1>1, <1>2, <1>4 DEF ScanOK, Overflows
    <2>7. ScanOK(s)
      BY <1>1, <1>2, <2>2, <2>6 DEF ScanOK
    <2> QED BY <1>2, <2>2, <2>4, <2>5, <2>7 DEF ReaderInv, PageExact, GetExact
  <1>5. CASE ~(r.next \/ Overflows(r))
    <2>1. s = [r EXCEPT !.at = @ + 1, !.data = Append(r.data, row)]
      BY <1>5 DEF Scanned
    <2>2. /\ s.pc = r.pc /\ s.outcome = r.outcome /\ s.req = r.req /\ s.all = r.all
          /\ s.rows = r.rows /\ s.at = r.at + 1 /\ s.data = Append(r.data, row)
          /\ s.next = r.next /\ s.broken = r.broken
      BY <1>3, <2>1 DEF ReaderTypeOK
    <2>3. Values(s) = Values(r)
      BY <2>2 DEF Values
    <2>4. /\ s.data \in Seq(Values(r)) /\ Len(s.data) = Len(r.data) + 1
          /\ \A i \in 1..Len(r.data) : s.data[i] = r.data[i]
          /\ s.data[Len(r.data) + 1] = row
          /\ DOMAIN s.data = 1..Len(s.data)
      <3>1. r.data \in Seq(Values(r))
        BY <1>3 DEF ReaderTypeOK
      <3> QED BY <1>1, <2>2, <3>1, AppendProperties, LenProperties
    <2>5. ReaderTypeOK(s)
      <3>1. s \in [pc : PCs, outcome : Outcomes, req : Request, all : {r.all},
                   rows : {r.rows}, at : Nat, data : {Append(r.data, row)},
                   next : BOOLEAN, broken : BOOLEAN]
        <4>1. s = [pc |-> r.pc, outcome |-> r.outcome, req |-> r.req, all |-> r.all,
                   rows |-> r.rows, at |-> r.at + 1, data |-> Append(r.data, row),
                   next |-> r.next, broken |-> r.broken]
          BY <1>3, <2>1 DEF ReaderTypeOK
        <4>2. r.at + 1 \in Nat
          BY <1>1
        <4>3. /\ r.pc \in PCs /\ r.outcome \in Outcomes /\ r.req \in Request
              /\ r.next \in BOOLEAN /\ r.broken \in BOOLEAN
          BY <1>3 DEF ReaderTypeOK
        <4> QED BY <4>1, <4>2, <4>3
      <3> QED BY <1>3, <2>2, <2>3, <2>4, <3>1 DEF ReaderTypeOK
    <2>6. FetchedOK(s)
      BY <1>3, <2>2 DEF FetchedOK
    <2>7. Len(r.data) = r.at /\ r.next = FALSE /\ (Limit(r.req) = 0 \/ r.at < Limit(r.req))
      BY <1>1, <1>2, <1>5 DEF ScanOK, Overflows
    <2>8. DOMAIN r.data = 1..Len(r.data)
      BY ReaderFields
    <2>9. \A i \in DOMAIN s.data : s.data[i] = s.rows[i]
      BY <1>1, <1>2, <2>2, <2>4, <2>7, <2>8 DEF ScanOK
    <2>10. ScanOK(s)
      BY <1>1, <1>2, <2>2, <2>4, <2>7, <2>9 DEF ScanOK
    <2> QED BY <1>2, <2>2, <2>5, <2>6, <2>10 DEF ReaderInv, PageExact, GetExact
  <1> QED BY <1>4, <1>5

\* The answer once all rows were read.
LEMMA AnsweredKeeps ==
  ASSUME NEW r, ReaderInv(r), r.pc = "reading", r.at = Len(r.rows)
  PROVE  ReaderInv(Answered(r))
  <1> DEFINE s == Answered(r)
             q == r.req
             before == IF q.page < 2 THEN 0 ELSE (q.page - 1) * q.size
             more == Limit(q) > 0 /\ Len(r.all) > before + Limit(q)
             last == IF more THEN before + Limit(q) ELSE Len(r.all)
  <1>1. /\ q \in Request /\ r.next \in BOOLEAN /\ Len(r.all) \in Nat
        /\ DOMAIN r.all = 1..Len(r.all) /\ Len(r.rows) \in Nat /\ Len(r.data) \in Nat
        /\ DOMAIN r.data = 1..Len(r.data)
    BY ReaderFields
  <1>2. ScanOK(r) /\ ReaderTypeOK(r) /\ FetchedOK(r) /\ ~r.broken
    BY DEF ReaderInv
  <1>3. /\ s.pc = "answered" /\ s.outcome = (IF q.op = "list" THEN "page" ELSE GetOutcome(r))
        /\ s.next = (r.next /\ q.op = "list") /\ s.req = q /\ s.all = r.all
        /\ s.rows = r.rows /\ s.at = r.at /\ s.data = r.data /\ s.broken = r.broken
    BY <1>2 DEF Answered, ReaderTypeOK
  <1>4. ReaderTypeOK(s)
    <2>1. GetOutcome(r) \in Outcomes
      BY DEF GetOutcome, Outcomes
    <2>2. Values(s) = Values(r)
      BY <1>3 DEF Values
    <2> QED BY <1>1, <1>2, <1>3, <2>1, <2>2 DEF ReaderTypeOK, Answered, PCs, Outcomes
  <1>5. FetchedOK(s)
    BY <1>2, <1>3 DEF FetchedOK
  <1>6. /\ Limit(q) \in Nat /\ Offset(q) \in Nat /\ q.page \in Nat /\ q.size \in Nat
        /\ before = Offset(q)
    BY <1>1, LimitType, OffsetType, SizeType DEF Offset
  <1>7. /\ Limit(q) = 0 => Len(r.rows) = IF Len(r.all) > before THEN Len(r.all) - before ELSE 0
        /\ Limit(q) > 0 => Len(r.rows) = IF Len(r.all) > before + Limit(q) THEN Limit(q) + 1
                               ELSE IF Len(r.all) > before THEN Len(r.all) - before ELSE 0
    BY <1>1, <1>2, <1>6, FetchedType DEF FetchedOK
  <1>8. /\ r.next <=> more
        /\ Len(r.data) = IF before + 1 <= last THEN last - before ELSE 0
    BY <1>1, <1>2, <1>6, <1>7 DEF ScanOK
  <1>9. Len(r.data) <= Len(r.rows)
    BY <1>1, <1>2, <1>6 DEF ScanOK
  <1>10. \A i \in 1..Len(r.data) : r.data[i] = r.all[before + i]
    BY <1>1, <1>2, <1>6, <1>9 DEF ScanOK, FetchedOK
  <1>11. r.data = SubSeq(r.all, before + 1, last)
    <2>1. \A i \in before + 1 .. last : r.all[i] \in Values(r)
      BY <1>1, <1>6 DEF Values
    <2>2. before + 1 \in Int /\ last \in Int
      BY <1>1, <1>6
    <2>3. /\ SubSeq(r.all, before + 1, last) \in Seq(Values(r))
          /\ Len(SubSeq(r.all, before + 1, last)) =
                IF before + 1 <= last THEN last - (before + 1) + 1 ELSE 0
          /\ \A i \in 1..last - (before + 1) + 1 :
                SubSeq(r.all, before + 1, last)[i] = r.all[before + 1 + i - 1]
      BY <2>1, <2>2, SubSeqProperties
    <2>4. Len(SubSeq(r.all, before + 1, last)) = Len(r.data)
      BY <1>1, <1>6, <1>8, <2>2, <2>3
    <2>5. \A i \in 1..Len(r.data) : SubSeq(r.all, before + 1, last)[i] = r.data[i]
      <3>1. \A i \in 1..Len(r.data) :
                i \in 1..last - (before + 1) + 1 /\ before + 1 + i - 1 = before + i
        <4>1. \A b, l \in Nat, n, i \in Nat :
                 n = (IF b + 1 <= l THEN l - b ELSE 0) /\ i \in 1..n
                    => i \in 1..l - (b + 1) + 1 /\ b + 1 + i - 1 = b + i
          OBVIOUS
        <4>2. before \in Nat /\ last \in Nat
          BY <1>1, <1>6
        <4>3. \A i \in 1..Len(r.data) : i \in Nat
          BY <1>1
        <4> HIDE DEF before, last
        <4> QED BY <1>1, <1>8, <4>1, <4>2, <4>3
      <3> QED BY <1>10, <2>3, <3>1
    <2>6. r.data \in Seq(Values(r))
      BY <1>2 DEF ReaderTypeOK
    <2> QED BY <2>3, <2>4, <2>5, <2>6, SeqEqual
  <1>12. PageExact(s)
    <2>1. CASE q.op = "list"
      BY <1>3, <1>8, <1>11, <2>1 DEF PageExact
    <2>2. CASE q.op # "list"
      BY <1>3, <2>2 DEF PageExact, GetOutcome
    <2> QED BY <2>1, <2>2
  <1>13. GetExact(s)
    <2>1. CASE q.op = "list"
      BY <1>3, <2>1 DEF GetExact
    <2>2. CASE q.op # "list"
      <3>1. q.page = 1 /\ q.size = 1
        BY <1>1, <2>2 DEF ReaderInv, Request
      <3>2. Limit(q) = 1 /\ before = 0
        BY <3>1 DEF Limit
      <3>3. r.data = <<>> <=> Len(r.data) = 0
        BY <1>2, EmptySeq DEF ReaderTypeOK
      <3>4. s.outcome = GetOutcome(r) /\ s.all = r.all /\ s.broken = r.broken
        BY <1>3, <2>2
      <3>5. /\ r.next <=> Len(r.all) > 1
            /\ Len(r.data) = IF Len(r.all) > 1 THEN 1 ELSE Len(r.all)
        BY <1>1, <1>8, <3>2
      <3>6. CASE Len(r.all) > 1
        <4>1. s.outcome = "tooMany"
          BY <3>4, <3>5, <3>6 DEF GetOutcome
        <4> QED BY <3>4, <3>6, <4>1 DEF GetExact
      <3>7. CASE Len(r.all) = 1
        <4>1. s.outcome = "row"
          BY <3>3, <3>4, <3>5, <3>7 DEF GetOutcome
        <4> QED BY <3>4, <3>7, <4>1 DEF GetExact
      <3>8. CASE Len(r.all) = 0
        <4>1. s.outcome = "nothing"
          BY <3>3, <3>4, <3>5, <3>8 DEF GetOutcome
        <4> QED BY <3>4, <3>8, <4>1 DEF GetExact
      <3>9. Len(r.all) > 1 \/ Len(r.all) = 1 \/ Len(r.all) = 0
        <4>1. Len(r.all) \in Nat
          BY <1>1
        <4>2. \A n \in Nat : n > 1 \/ n = 1 \/ n = 0
          OBVIOUS
        <4> QED BY <4>1, <4>2
      <3> HIDE DEF s
      <3> QED BY <3>6, <3>7, <3>8, <3>9
    <2> QED BY <2>1, <2>2
  <1> QED BY <1>3, <1>4, <1>5, <1>12, <1>13 DEF ReaderInv

\* The answer of a stream that broke: it may hold too little, but a row too
\* many that was seen was there.
LEMMA BrokenKeeps ==
  ASSUME NEW r, ReaderInv(r), r.pc = "reading", r.at < Len(r.rows)
  PROVE  ReaderInv(Broken(r))
  <1> DEFINE s == Broken(r)
             q == r.req
  <1>1. /\ q \in Request /\ r.next \in BOOLEAN /\ Len(r.all) \in Nat
        /\ Len(r.rows) \in Nat /\ Len(r.data) \in Nat /\ r.at \in Nat
    BY ReaderFields
  <1>2. ScanOK(r) /\ ReaderTypeOK(r) /\ FetchedOK(r)
    BY DEF ReaderInv
  <1>3. /\ s.pc = "answered" /\ s.outcome = (IF q.op = "list" THEN "page" ELSE GetOutcome(r))
        /\ s.next = (r.next /\ q.op = "list") /\ s.req = q /\ s.all = r.all
        /\ s.rows = r.rows /\ s.at = r.at /\ s.data = r.data /\ s.broken = TRUE
    BY <1>2 DEF Broken, Answered, ReaderTypeOK
  <1>4. ReaderTypeOK(s)
    <2>1. GetOutcome(r) \in Outcomes
      BY DEF GetOutcome, Outcomes
    <2>2. Values(s) = Values(r)
      BY <1>3 DEF Values
    <2> QED BY <1>1, <1>2, <1>3, <2>1, <2>2 DEF ReaderTypeOK, Broken, Answered, PCs, Outcomes
  <1>5. FetchedOK(s)
    BY <1>2, <1>3 DEF FetchedOK
  <1>6. PageExact(s)
    BY <1>3 DEF PageExact
  <1>7. GetExact(s)
    <2> SUFFICES ASSUME s.outcome = "tooMany" PROVE Len(r.all) > 1
      BY <1>3 DEF GetExact
    <2>1. q.op = "get" /\ GetOutcome(r) = "tooMany"
      BY <1>1, <1>3 DEF Request
    <2>2. q.page = 1 /\ q.size = 1
      BY <2>1 DEF ReaderInv
    <2>3. Limit(q) = 1 /\ Offset(q) = 0
      BY <2>2 DEF Limit, Offset
    <2>4. r.next \/ Len(r.data) > 1
      BY <2>1 DEF GetOutcome
    <2>5. r.at > 1
      BY <1>1, <1>2, <2>3, <2>4 DEF ScanOK
    <2>6. Len(r.rows) = IF Len(r.all) > 1 THEN 2 ELSE IF Len(r.all) > 0 THEN Len(r.all) ELSE 0
      <3>1. Len(r.rows) = Fetched(q, Len(r.all))
        BY <1>2 DEF FetchedOK
      <3>2. Fetched(q, Len(r.all)) =
                IF Len(r.all) > Offset(q) + Limit(q) THEN Limit(q) + 1
                ELSE IF Len(r.all) > Offset(q) THEN Len(r.all) - Offset(q) ELSE 0
        <4>1. Len(r.all) \in Nat /\ Limit(q) > 0
          BY <1>1, <2>3
        <4> QED BY <1>1, <4>1, FetchedType
      <3> QED BY <1>1, <2>3, <3>1, <3>2
    <2> QED BY <1>1, <2>5, <2>6
  <1> QED BY <1>3, <1>4, <1>5, <1>6, <1>7 DEF ReaderInv

-----------------------------------------------------------------------------
(* Writers *)

\* A piece of a table.
LEMMA Piece ==
  ASSUME NEW t \in Seq(Row), NEW m \in Nat \ {0}, NEW n \in Nat, n <= Len(t), m <= n + 1
  PROVE  /\ SubSeq(t, m, n) \in Seq(Row)
         /\ Len(SubSeq(t, m, n)) = n - m + 1
         /\ \A k \in 1..n - m + 1 : SubSeq(t, m, n)[k] = t[m + k - 1]
  <1>1. Len(t) \in Nat /\ \A k \in m..n : t[k] \in Row
    BY ElementOfSeq
  <1>2. m \in Int /\ n \in Int
    OBVIOUS
  <1>3. /\ SubSeq(t, m, n) \in Seq(Row)
        /\ Len(SubSeq(t, m, n)) = IF m <= n THEN n - m + 1 ELSE 0
        /\ \A k \in 1 .. n - m + 1 : SubSeq(t, m, n)[k] = t[m + k - 1]
    BY <1>1, <1>2, SubSeqProperties
  <1>4. ~(m <= n) => n - m + 1 = 0
    OBVIOUS
  <1> QED BY <1>3, <1>4

LEMMA WithAt ==
  ASSUME NEW t \in Seq(Row), NEW i \in 1..Len(t) + 1, NEW row \in Row
  PROVE  /\ With(t, i, row) \in Seq(Row) /\ Len(With(t, i, row)) = Len(t) + 1
         /\ \A k \in 1..Len(t) + 1 :
                With(t, i, row)[k] = IF k < i THEN t[k] ELSE IF k = i THEN row ELSE t[k - 1]
  <1> DEFINE n == Len(t)
             a == SubSeq(t, 1, i - 1)
             b == SubSeq(t, i, n)
             ab == a \o <<row>>
  <1>1. n \in Nat /\ i \in Nat \ {0} /\ i - 1 \in Nat /\ i - 1 <= n /\ i <= n + 1
    BY LenProperties
  <1>2. a \in Seq(Row) /\ Len(a) = i - 1 /\ \A k \in 1..i - 1 : a[k] = t[k]
    <2>1. /\ a \in Seq(Row) /\ Len(a) = i - 1 - 1 + 1
          /\ \A k \in 1..i - 1 - 1 + 1 : a[k] = t[1 + k - 1]
      BY <1>1, Piece
    <2> QED BY <1>1, <2>1
  <1>3. b \in Seq(Row) /\ Len(b) = n - i + 1 /\ \A k \in 1..n - i + 1 : b[k] = t[i + k - 1]
    BY <1>1, Piece
  <1> HIDE DEF a, b
  <1>4. /\ ab \in Seq(Row) /\ Len(ab) = i
        /\ \A k \in 1..i : ab[k] = IF k < i THEN t[k] ELSE row
    <2>1. <<row>> \in Seq(Row) /\ Len(<<row>>) = 1 /\ <<row>>[1] = row
      OBVIOUS
    <2>2. /\ ab \in Seq(Row) /\ Len(ab) = Len(a) + 1
          /\ \A k \in 1..Len(a) + 1 : ab[k] = IF k <= Len(a) THEN a[k] ELSE <<row>>[k - Len(a)]
      BY <1>2, <2>1, ConcatProperties
    <2> HIDE DEF ab
    <2> QED BY <1>1, <1>2, <2>1, <2>2
  <1>5. With(t, i, row) = ab \o b
    BY DEF With, a, b
  <1> HIDE DEF ab
  <1>6. /\ ab \o b \in Seq(Row) /\ Len(ab \o b) = i + (n - i + 1)
        /\ \A k \in 1..i + (n - i + 1) :
              (ab \o b)[k] = IF k <= i THEN ab[k] ELSE b[k - i]
    <2>1. /\ ab \o b \in Seq(Row) /\ Len(ab \o b) = Len(ab) + Len(b)
          /\ \A k \in 1..Len(ab) + Len(b) :
                (ab \o b)[k] = IF k <= Len(ab) THEN ab[k] ELSE b[k - Len(ab)]
      BY <1>3, <1>4, ConcatProperties
    <2>2. Len(ab) = i /\ Len(b) = n - i + 1
      BY <1>3, <1>4
    <2> QED BY <2>1, <2>2
  <1> HIDE DEF n
  <1>7. i + (n - i + 1) = n + 1
    BY <1>1
  <1>8. ASSUME NEW k \in 1..n + 1
        PROVE  (ab \o b)[k] = IF k < i THEN t[k] ELSE IF k = i THEN row ELSE t[k - 1]
    <2>1. CASE k <= i
      <3>1. k \in 1..i
        BY <1>1, <2>1
      <3> QED BY <1>1, <1>4, <1>6, <1>7, <2>1, <3>1
    <2>2. CASE ~(k <= i)
      <3>1. k - i \in 1..n - i + 1 /\ i + (k - i) - 1 = k - 1
        BY <1>1, <2>2
      <3> QED BY <1>1, <1>3, <1>6, <1>7, <2>2, <3>1
    <2> QED BY <2>1, <2>2
  <1> QED BY <1>5, <1>6, <1>7, <1>8 DEF n

LEMMA WithoutAt ==
  ASSUME NEW t \in Seq(Row), NEW i \in DOMAIN t
  PROVE  /\ Without(t, i) \in Seq(Row) /\ Len(Without(t, i)) = Len(t) - 1
         /\ \A k \in 1..Len(t) - 1 : Without(t, i)[k] = IF k < i THEN t[k] ELSE t[k + 1]
  <1> DEFINE n == Len(t)
             a == SubSeq(t, 1, i - 1)
             b == SubSeq(t, i + 1, n)
  <1>1. n \in Nat /\ i \in 1..n
    BY LenProperties
  <1>2. a \in Seq(Row) /\ Len(a) = i - 1 /\ \A k \in 1..i - 1 : a[k] = t[k]
    <2>1. i - 1 \in Nat /\ i - 1 <= n /\ 1 <= i - 1 + 1 /\ i - 1 - 1 + 1 = i - 1
      BY <1>1
    <2>2. /\ a \in Seq(Row) /\ Len(a) = i - 1 - 1 + 1
          /\ \A k \in 1..i - 1 - 1 + 1 : a[k] = t[1 + k - 1]
      BY <2>1, Piece
    <2> QED BY <1>1, <2>1, <2>2
  <1>3. b \in Seq(Row) /\ Len(b) = n - i /\ \A k \in 1..n - i : b[k] = t[i + k]
    <2>1. i + 1 \in Nat \ {0} /\ n <= n /\ i + 1 <= n + 1 /\ n - (i + 1) + 1 = n - i
      BY <1>1
    <2>2. /\ b \in Seq(Row) /\ Len(b) = n - (i + 1) + 1
          /\ \A k \in 1..n - (i + 1) + 1 : b[k] = t[i + 1 + k - 1]
      BY <1>1, <2>1, Piece
    <2> QED BY <1>1, <2>1, <2>2
  <1>4. Without(t, i) = a \o b
    BY DEF Without
  <1> HIDE DEF a, b
  <1>5. /\ a \o b \in Seq(Row) /\ Len(a \o b) = i - 1 + (n - i)
        /\ \A k \in 1..i - 1 + (n - i) :
              (a \o b)[k] = IF k <= i - 1 THEN a[k] ELSE b[k - (i - 1)]
    <2>1. /\ a \o b \in Seq(Row) /\ Len(a \o b) = Len(a) + Len(b)
          /\ \A k \in 1..Len(a) + Len(b) :
                (a \o b)[k] = IF k <= Len(a) THEN a[k] ELSE b[k - Len(a)]
      BY <1>2, <1>3, ConcatProperties
    <2>2. Len(a) = i - 1 /\ Len(b) = n - i
      BY <1>2, <1>3
    <2> QED BY <2>1, <2>2
  <1> HIDE DEF n
  <1>6. i - 1 + (n - i) = n - 1
    BY <1>1
  <1>7. ASSUME NEW k \in 1..n - 1 PROVE (a \o b)[k] = IF k < i THEN t[k] ELSE t[k + 1]
    <2>1. CASE k < i
      <3>1. k \in 1..i - 1 /\ k <= i - 1
        BY <1>1, <2>1
      <3> QED BY <1>2, <1>5, <1>6, <2>1, <3>1
    <2>2. CASE ~(k < i)
      <3>1. k - (i - 1) \in 1..n - i /\ i + (k - (i - 1)) = k + 1 /\ ~(k <= i - 1)
        BY <1>1, <2>2
      <3> QED BY <1>3, <1>5, <1>6, <2>2, <3>1
    <2> QED BY <2>1, <2>2
  <1> QED BY <1>4, <1>5, <1>6, <1>7 DEF n

LEMMA TableKeeps ==
  ASSUME TableOK, Write
  PROVE  TableOK'
  <1>1. table \in Seq(Row) /\ Len(table) \in Nat /\ DOMAIN table = 1..Len(table)
        /\ \A k \in 1..Len(table) : table[k] \in Row
    BY LenProperties, ElementOfSeq DEF TableOK
  <1>2. CASE Insert
    BY <1>1, <1>2, WithAt DEF Insert, TableOK
  <1>3. CASE Delete
    BY <1>1, <1>3, WithoutAt DEF Delete, TableOK
  <1>4. CASE Update
    <2>1. PICK i \in DOMAIN table, j \in DOMAIN table, key \in Keys :
              table' = With(Without(table, i), j, [table[i] EXCEPT !.key = key])
      BY <1>4 DEF Update
    <2>2. [table[i] EXCEPT !.key = key] \in Row
      BY <1>1 DEF Row
    <2>3. Without(table, i) \in Seq(Row) /\ Len(Without(table, i)) = Len(table) - 1
      BY <1>1, WithoutAt
    <2>4. j \in 1..Len(Without(table, i)) + 1
      BY <1>1, <2>3
    <2> QED BY <2>1, <2>2, <2>3, <2>4, WithAt DEF TableOK
  <1> QED BY <1>2, <1>3, <1>4 DEF Write

-----------------------------------------------------------------------------
(* The invariant *)

LEMMA InitDInv == Init => DInv
  <1> SUFFICES ASSUME Init PROVE DInv
    OBVIOUS
  <1>1. TableOK
    <2>1. PICK n \in 0..MaxRows : table \in [1..n -> Row]
      BY DEF Init, Tables
    <2>2. n \in Nat
      BY <2>1, BoundsAssumption
    <2> QED BY <2>1, <2>2, SeqDef DEF TableOK
  <1> QED BY <1>1, IdleKeeps DEF Init, DInv, StoreOK, DomainOK

\* One reader changes, the others and the table do not.
LEMMA OneReader ==
  ASSUME DInv, NEW c \in Clients, NEW s, ReaderInv(s),
         reader' = [reader EXCEPT ![c] = s], UNCHANGED <<store, table>>
  PROVE  DInv'
  <1>1. StoreOK' /\ TableOK' /\ DomainOK'
    BY DEF DInv, StoreOK, TableOK, DomainOK
  <1>2. \A d \in Clients : reader'[d] = s \/ reader'[d] = reader[d]
    BY DEF DInv, DomainOK
  <1>3. \A d \in Clients : ReaderInv(reader[d])'
    BY <1>2 DEF DInv
  <1> QED BY <1>1, <1>3 DEF DInv

LEMMA NextDInv == DInv /\ [Next]_vars => DInv'
  <1> SUFFICES ASSUME DInv, [Next]_vars PROVE DInv'
    OBVIOUS
  <1> USE DEF DInv
  <1>1. ASSUME NEW c \in Clients, NEW q \in Request, q.op = "get" => q.page = 1 /\ q.size = 1,
               Query(c, q), UNCHANGED <<store, table>>
        PROVE  DInv'
    BY <1>1, QueryKeeps, OneReader DEF Query
  <1>2. ASSUME NEW c \in Clients, Get(c) PROVE DInv'
    <2>1. PICK filter \in Keys \cup Ids : Query(c, GetRequest(filter))
      BY <1>2 DEF Get
    <2>2. GetRequest(filter) \in Request /\ GetRequest(filter).page = 1
          /\ GetRequest(filter).size = 1
      BY DEF GetRequest, Request, StoreOK
    <2>3. UNCHANGED <<store, table>>
      BY <1>2 DEF Get
    <2> QED BY <1>1, <2>1, <2>2, <2>3
  <1>3. ASSUME NEW c \in Clients, StartWalk(c) PROVE DInv'
    <2>1. PICK filter \in Keys \cup Ids \cup {NoKey}, page \in {0, 1}, size \in Sizes :
              Query(c, [op |-> "list", of |-> store, filter |-> filter,
                        page |-> page, size |-> size])
      BY <1>3 DEF StartWalk
    <2> DEFINE q == [op |-> "list", of |-> store, filter |-> filter,
                     page |-> page, size |-> size]
    <2>2. q \in Request /\ q.op # "get"
      BY DEF Request, DInv, StoreOK
    <2>3. UNCHANGED <<store, table>>
      BY <1>3 DEF StartWalk
    <2> QED BY <1>1, <2>1, <2>2, <2>3
  <1>4. ASSUME NEW c \in Clients, NextPage(c) PROVE DInv'
    <2> DEFINE q == reader[c].req
               p == AnsweredPage(q) + 1
    <2>1. q \in Request /\ reader[c].next /\ ReaderInv(reader[c])
      BY <1>4, ReaderFields DEF NextPage
    <2>2. p \in Nat
      BY <2>1, SizeType DEF AnsweredPage
    <2>3. [q EXCEPT !.page = p] \in Request
      BY <2>1, <2>2 DEF Request
    <2>4. [q EXCEPT !.page = p].op = "list"
      BY <1>4, <2>1 DEF NextPage, ReaderInv, PageExact, GetExact, Request
    <2> QED BY <1>1, <1>4, <2>3, <2>4 DEF NextPage
  <1>5. ASSUME NEW c \in Clients, Abandon(c) PROVE DInv'
    BY <1>5, IdleKeeps, OneReader DEF Abandon
  <1>6. ASSUME NEW c \in Clients, ScanRow(c) PROVE DInv'
    BY <1>6, ScannedKeeps, OneReader DEF ScanRow
  <1>7. ASSUME NEW c \in Clients, Finish(c) PROVE DInv'
    BY <1>7, AnsweredKeeps, OneReader DEF Finish
  <1>8. ASSUME NEW c \in Clients, StreamBreaks(c) PROVE DInv'
    BY <1>8, BrokenKeeps, OneReader DEF StreamBreaks
  <1>9. ASSUME NEW c \in Clients, Fails(c) PROVE DInv'
    <2> DEFINE q == reader[c].req
    <2>1. q \in Request /\ (q.op = "get" => q.page = 1 /\ q.size = 1)
      BY ReaderFields DEF ReaderInv
    <2>2. "answered" \in PCs \ {"reading"} /\ "error" \in {"none", "error"}
      BY DEF PCs
    <2>3. ReaderInv([Idle EXCEPT !.pc = "answered", !.req = q, !.outcome = "error"])
      BY <2>1, <2>2, EmptyReaderKeeps
    <2> QED BY <1>9, <2>3, OneReader DEF Fails
  <1>10. CASE Write
    <2>1. reader' = reader
      BY <1>10 DEF Write, Insert, Delete, Update, Wrote
    <2>2. TableOK'
      BY <1>10, TableKeeps
    <2>3. StoreOK'
      BY <1>10 DEF Write, Insert, Delete, Update, Wrote, StoreOK
    <2> QED BY <2>1, <2>2, <2>3 DEF DomainOK
  <1>11. CASE UNCHANGED vars
    BY <1>11 DEF vars, StoreOK, TableOK, DomainOK
  <1> QED BY <1>2, <1>3, <1>4, <1>5, <1>6, <1>7, <1>8, <1>9, <1>10, <1>11 DEF Next, Read

-----------------------------------------------------------------------------
(* Walks from page to page *)

\* The rows t have different ids; a sequence names no id twice.
IdsApart(t) == \A i, j \in DOMAIN t : t[i].id = t[j].id => i = j

Once(s) == \A i, j \in DOMAIN s : s[i] = s[j] => i = j

\* The ids a walk was given, and the rows that match before the page after q.
Got(w) == {w.got[i] : i \in DOMAIN w.got}
Shown(q) == AnsweredPage(q) * q.size

\* The snapshot a reader reads: rows that pass, each once.
SnapshotOK(r) ==
    /\ r.all \in Seq(Row) /\ IdsApart(r.all)
    /\ \A k \in DOMAIN r.all : Passes(r.all[k], r.req.filter)

WalkTypeOK(w) ==
    w \in [got : Seq(Ids), first : SUBSET Ids,
           writes : SUBSET {"insert", "delete", "update", "broken"}]

\* Beside inserts only, a row of the beginning that was not given yet lies
\* ahead: in the snapshot, beyond the pages before, and in the table, whose
\* rows m match now, not nearer than in the snapshot.
RestAhead(r, w, m) ==
    r.req.op = "list" /\ w.writes \subseteq {"insert"} =>
        /\ r.pc = "reading" => \A id \in w.first \ Got(w) : \E k \in DOMAIN r.all :
                /\ r.all[k].id = id /\ k > Offset(r.req)
                /\ \E l \in DOMAIN m : l >= k /\ m[l].id = id
        /\ r.outcome = "page" /\ r.next => \A id \in w.first \ Got(w) :
                \E l \in DOMAIN m : l > Shown(r.req) /\ m[l].id = id
        /\ r.outcome = "page" /\ ~r.next => w.first \subseteq Got(w)

\* Beside deletions only, a row that was given lies behind, if it is still
\* there, and no row is further ahead in the table than in the snapshot.
GivenBehind(r, w, m) ==
    r.req.op = "list" /\ w.writes \subseteq {"delete"} =>
        /\ Once(w.got)
        /\ r.pc = "reading" =>
              /\ \A k \in DOMAIN r.all : k > Offset(r.req) => r.all[k].id \notin Got(w)
              /\ \A l \in DOMAIN m : m[l].id \in Got(w) => l <= Offset(r.req)
              /\ \A l \in DOMAIN m, k \in DOMAIN r.all : m[l].id = r.all[k].id => l <= k
        /\ r.outcome = "page" /\ r.next =>
              \A l \in DOMAIN m : m[l].id \in Got(w) => l <= Shown(r.req)

ClientOK(r, w, m) ==
    /\ WalkTypeOK(w)
    /\ r.pc = "reading" => SnapshotOK(r)
    /\ r.pc = "answered" /\ r.next => r.outcome = "page"
    /\ r.outcome = "page" => r.req.op = "list"
    /\ RestAhead(r, w, m) /\ GivenBehind(r, w, m)

WInv ==
    /\ IdsApart(table)
    /\ walk = [c \in Clients |-> walk[c]]
    /\ \A c \in Clients : ClientOK(reader[c], walk[c], Matching(reader[c].req))

-----------------------------------------------------------------------------
(* Rows that match, before and after a write *)

MatchingIn(t, f) == Kept(t, {i \in DOMAIN t : Passes(t[i], f)})

\* What matches are all rows that pass, each once.
LEMMA MatchingOnce ==
  ASSUME NEW t \in Seq(Row), IdsApart(t), NEW f
  PROVE  /\ MatchingIn(t, f) \in Seq(Row) /\ IdsApart(MatchingIn(t, f))
         /\ \A k \in DOMAIN MatchingIn(t, f) : Passes(MatchingIn(t, f)[k], f)
         /\ \A i \in DOMAIN t : Passes(t[i], f) =>
                \E k \in DOMAIN MatchingIn(t, f) : MatchingIn(t, f)[k] = t[i]
  <1> DEFINE P == {i \in DOMAIN t : Passes(t[i], f)}
             m == Kept(t, P)
  <1>1. MatchingIn(t, f) = m
    BY DEF MatchingIn
  <1>2. m \in Seq(Row) /\ \E pos : From(pos, m, t, P, Len(t))
    <2> HIDE DEF P
    <2> QED BY KeptFrom
  <1>3. PICK pos : From(pos, m, t, P, Len(t))
    BY <1>2
  <1>4. DOMAIN m = 1..Len(m) /\ Len(m) \in Nat /\ DOMAIN t = 1..Len(t) /\ Len(t) \in Nat
    <2> HIDE DEF m
    <2> QED BY <1>2
  <1>5. \A k \in DOMAIN m : pos[k] \in P /\ pos[k] \in 1..Len(t) /\ m[k] = t[pos[k]]
    <2> HIDE DEF m, P
    <2> QED BY <1>3, <1>4 DEF From
  <1>6. \A k \in DOMAIN m : Passes(m[k], f)
    <2> HIDE DEF m
    <2> QED BY <1>5
  <1>7. ASSUME NEW j \in DOMAIN m, NEW k \in DOMAIN m, m[j].id = m[k].id PROVE j = k
    <2> HIDE DEF m, P
    <2>1. pos[j] = pos[k]
      BY <1>4, <1>5, <1>7 DEF IdsApart
    <2>2. (j < k => pos[j] < pos[k]) /\ (k < j => pos[k] < pos[j])
      BY <1>3, <1>4 DEF From
    <2> QED BY <1>4, <1>5, <2>1, <2>2
  <1>8. ASSUME NEW i \in DOMAIN t, Passes(t[i], f) PROVE \E k \in DOMAIN m : m[k] = t[i]
    <2>1. i \in P \cap (1..Len(t))
      BY <1>4, <1>8
    <2> HIDE DEF m, P
    <2>2. PICK k \in 1..Len(m) : pos[k] = i
      BY <1>3, <2>1 DEF From
    <2> QED BY <1>4, <1>5, <2>2
  <1> HIDE DEF m
  <1> QED BY <1>1, <1>2, <1>6, <1>7, <1>8 DEF IdsApart

\* No row that matches is nearer in the longer table.
LEMMA MatchingLiesIn ==
  ASSUME NEW s \in Seq(Row), NEW t \in Seq(Row), NEW e, LiesIn(e, s, t), NEW f
  PROVE  \A k \in DOMAIN MatchingIn(s, f) :
            \E l \in DOMAIN MatchingIn(t, f) : l >= k /\ MatchingIn(t, f)[l] = MatchingIn(s, f)[k]
  <1> DEFINE P == {i \in DOMAIN s : Passes(s[i], f)}
             Q == {i \in DOMAIN t : Passes(t[i], f)}
  <1>1. \A i \in P \cap DOMAIN s : e[i] \in Q
    BY DEF LiesIn
  <1> HIDE DEF P, Q
  <1>2. \A k \in DOMAIN Kept(s, P) :
            \E l \in DOMAIN Kept(t, Q) : l >= k /\ Kept(t, Q)[l] = Kept(s, P)[k]
    BY <1>1, KeptLiesIn
  <1> QED BY <1>2 DEF MatchingIn, P, Q

LEMMA InsertedLiesIn ==
  ASSUME NEW t \in Seq(Row), IdsApart(t), NEW i \in 1..Len(t) + 1, NEW row \in Row,
         \A k \in DOMAIN t : t[k].id # row.id
  PROVE  IdsApart(With(t, i, row)) /\ \E e : LiesIn(e, t, With(t, i, row))
  <1> DEFINE w == With(t, i, row)
             e == [k \in DOMAIN t |-> IF k < i THEN k ELSE k + 1]
  <1>1. /\ w \in Seq(Row) /\ Len(w) = Len(t) + 1
        /\ \A k \in 1..Len(t) + 1 :
              w[k] = IF k < i THEN t[k] ELSE IF k = i THEN row ELSE t[k - 1]
    BY WithAt
  <1> HIDE DEF w
  <1>2. DOMAIN t = 1..Len(t) /\ Len(t) \in Nat /\ DOMAIN w = 1..Len(t) + 1
    BY <1>1
  <1>3. \A k \in DOMAIN t : e[k] = IF k < i THEN k ELSE k + 1
    OBVIOUS
  <1>4. e \in [DOMAIN t -> DOMAIN w]
    BY <1>2
  <1> HIDE DEF e
  <1>5. ASSUME NEW k \in DOMAIN t PROVE w[e[k]] = t[k]
    <2>1. CASE k < i
      BY <1>1, <1>2, <1>3, <2>1
    <2>2. CASE ~(k < i)
      <3>1. k + 1 \in 1..Len(t) + 1 /\ ~(k + 1 < i) /\ k + 1 # i /\ k + 1 - 1 = k
        BY <1>2, <2>2
      <3> QED BY <1>1, <1>3, <2>2, <3>1
    <2> QED BY <2>1, <2>2
  <1>6. \A j, k \in DOMAIN t : j < k => e[j] < e[k]
    BY <1>2, <1>3
  <1>7. LiesIn(e, t, w)
    BY <1>4, <1>5, <1>6 DEF LiesIn
  <1>8. ASSUME NEW k \in DOMAIN w
        PROVE  (w[k] = row /\ k = i) \/ \E j \in DOMAIN t : k = e[j]
    <2>1. CASE k < i
      BY <1>2, <1>3, <2>1
    <2>2. CASE k = i
      BY <1>1, <1>2, <2>2
    <2>3. CASE k > i
      <3>1. k - 1 \in DOMAIN t /\ ~(k - 1 < i) /\ k - 1 + 1 = k
        BY <1>2, <2>3
      <3> QED BY <1>3, <3>1
    <2> QED BY <1>2, <2>1, <2>2, <2>3
  <1>9. ASSUME NEW j \in DOMAIN w, NEW k \in DOMAIN w, w[j].id = w[k].id PROVE j = k
    <2>1. CASE \E a, b \in DOMAIN t : j = e[a] /\ k = e[b]
      BY <1>5, <1>9, <2>1 DEF IdsApart
    <2>2. CASE w[j] = row /\ j = i
      BY <1>5, <1>8, <1>9, <2>2
    <2>3. CASE w[k] = row /\ k = i
      BY <1>5, <1>8, <1>9, <2>3
    <2> QED BY <1>8, <2>1, <2>2, <2>3
  <1> QED BY <1>7, <1>9 DEF IdsApart, w

LEMMA DeletedLiesIn ==
  ASSUME NEW t \in Seq(Row), IdsApart(t), NEW i \in DOMAIN t
  PROVE  /\ IdsApart(Without(t, i))
         /\ \A k \in DOMAIN Without(t, i) : Without(t, i)[k].id # t[i].id
         /\ \E e : LiesIn(e, Without(t, i), t)
  <1> DEFINE w == Without(t, i)
             e == [k \in DOMAIN w |-> IF k < i THEN k ELSE k + 1]
  <1>1. /\ w \in Seq(Row) /\ Len(w) = Len(t) - 1
        /\ \A k \in 1..Len(t) - 1 : w[k] = IF k < i THEN t[k] ELSE t[k + 1]
    BY WithoutAt
  <1> HIDE DEF w
  <1>2. DOMAIN t = 1..Len(t) /\ Len(t) \in Nat /\ DOMAIN w = 1..Len(t) - 1 /\ i \in 1..Len(t)
    BY <1>1
  <1>3. \A k \in DOMAIN w : e[k] = IF k < i THEN k ELSE k + 1
    OBVIOUS
  <1>4. e \in [DOMAIN w -> DOMAIN t]
    BY <1>2
  <1> HIDE DEF e
  <1>5. \A k \in DOMAIN w : t[e[k]] = w[k]
    BY <1>1, <1>2, <1>3
  <1>6. \A j, k \in DOMAIN w : j < k => e[j] < e[k]
    BY <1>2, <1>3
  <1>7. \A k \in DOMAIN w : e[k] # i /\ e[k] \in DOMAIN t
    BY <1>2, <1>3, <1>4
  <1>8. \A j, k \in DOMAIN w : e[j] = e[k] => j = k
    BY <1>2, <1>3
  <1>9. IdsApart(w)
    BY <1>5, <1>7, <1>8 DEF IdsApart
  <1>10. \A k \in DOMAIN w : w[k].id # t[i].id
    BY <1>5, <1>7 DEF IdsApart
  <1> QED BY <1>4, <1>5, <1>6, <1>9, <1>10 DEF LiesIn, w

\* A write leaves the rows different; an insert keeps what matched, a delete
\* brings nothing new.
LEMMA WriteKeepsApart ==
  ASSUME TableOK, IdsApart(table), Write
  PROVE  /\ IdsApart(table')
         /\ Insert => \E e : LiesIn(e, table, table')
         /\ Delete => \E e : LiesIn(e, table', table)
  <1>1. table \in Seq(Row) /\ DOMAIN table = 1..Len(table) /\ Len(table) \in Nat
    BY DEF TableOK
  <1>2. ASSUME Insert PROVE IdsApart(table') /\ \E e : LiesIn(e, table, table')
    <2>1. PICK row \in Row, i \in 1..Len(table) + 1 :
            row.id \notin Used /\ table' = With(table, i, row)
      BY <1>2 DEF Insert
    <2>2. \A k \in DOMAIN table : table[k].id # row.id
      BY <2>1 DEF Used
    <2> QED BY <1>1, <2>1, <2>2, InsertedLiesIn
  <1>3. ASSUME Delete PROVE IdsApart(table') /\ \E e : LiesIn(e, table', table)
    BY <1>1, <1>3, DeletedLiesIn DEF Delete
  <1>4. ASSUME Update PROVE IdsApart(table')
    <2>1. PICK i \in DOMAIN table, j \in DOMAIN table, key \in Keys :
              table' = With(Without(table, i), j, [table[i] EXCEPT !.key = key])
      BY <1>4 DEF Update
    <2> DEFINE row == [table[i] EXCEPT !.key = key]
               w == Without(table, i)
    <2>2. table[i] \in Row
      BY <1>1
    <2>3. row \in Row /\ row.id = table[i].id
      BY <2>2 DEF Row
    <2>4. w \in Seq(Row) /\ Len(w) = Len(table) - 1
      BY <1>1, WithoutAt
    <2>5. IdsApart(w) /\ \A k \in DOMAIN w : w[k].id # table[i].id
      BY <1>1, DeletedLiesIn
    <2>6. j \in 1..Len(w) + 1
      BY <1>1, <2>4
    <2> HIDE DEF row, w
    <2>7. IdsApart(With(w, j, row))
      BY <2>3, <2>4, <2>5, <2>6, InsertedLiesIn
    <2> QED BY <2>1, <2>7 DEF row, w
  <1> QED BY <1>2, <1>3, <1>4 DEF Write

-----------------------------------------------------------------------------
(* What a step does to a walk *)

LEMMA ShownType == \A q \in Request : AnsweredPage(q) \in Nat \ {0} /\ Shown(q) \in Nat
  <1> SUFFICES ASSUME NEW q \in Request
               PROVE  AnsweredPage(q) \in Nat \ {0} /\ Shown(q) \in Nat
    OBVIOUS
  <1>1. q.size \in Nat /\ q.page \in Nat
    BY SizeType
  <1>2. AnsweredPage(q) \in Nat \ {0}
    BY <1>1 DEF AnsweredPage
  <1>3. \A x, y \in Nat : x * y \in Nat
    OBVIOUS
  <1> QED BY <1>1, <1>2, <1>3 DEF Shown

\* What is shown with a page is what is before it and the page.
LEMMA ShownIsWindow ==
  ASSUME NEW q \in Request
  PROVE  Shown(q) = Offset(q) + q.size
  <1>1. q.size \in Nat /\ q.page \in Nat
    BY SizeType
  <1>2. CASE q.page > 1
    <2>1. \A p, s \in Nat : p * s = (p - 1) * s + s
      OBVIOUS
    <2>2. Shown(q) = q.page * q.size /\ Offset(q) = (q.page - 1) * q.size
      BY <1>2 DEF Shown, AnsweredPage, Offset
    <2> QED BY <1>1, <2>1, <2>2
  <1>3. CASE ~(q.page > 1)
    BY <1>1, <1>3 DEF Shown, AnsweredPage, Offset
  <1> QED BY <1>2, <1>3

\* A row that lies ahead does so still when the rows that match only move away.
LEMMA RestStaysAhead ==
  ASSUME NEW r, ReaderInv(r), NEW w, NEW v, NEW m \in Seq(Row), NEW n \in Seq(Row),
         \A k \in DOMAIN m : \E l \in DOMAIN n : l >= k /\ n[l] = m[k],
         v.got = w.got, v.first = w.first,
         v.writes \subseteq {"insert"} => w.writes \subseteq {"insert"},
         RestAhead(r, w, m)
  PROVE  RestAhead(r, v, n)
  <1>1. r.req \in Request /\ DOMAIN r.all = 1..Len(r.all) /\ Len(r.all) \in Nat
    BY ReaderFields
  <1>2. Offset(r.req) \in Nat /\ Shown(r.req) \in Nat
    BY <1>1, OffsetType, ShownType
  <1>3. /\ DOMAIN m = 1..Len(m) /\ Len(m) \in Nat
        /\ DOMAIN n = 1..Len(n) /\ Len(n) \in Nat
    OBVIOUS
  <1>4. Got(v) = Got(w)
    BY DEF Got
  <1> SUFFICES ASSUME r.req.op = "list", w.writes \subseteq {"insert"}
               PROVE  /\ r.pc = "reading" => \A id \in w.first \ Got(w) : \E k \in DOMAIN r.all :
                            /\ r.all[k].id = id /\ k > Offset(r.req)
                            /\ \E l \in DOMAIN n : l >= k /\ n[l].id = id
                      /\ r.outcome = "page" /\ r.next => \A id \in w.first \ Got(w) :
                            \E l \in DOMAIN n : l > Shown(r.req) /\ n[l].id = id
                      /\ r.outcome = "page" /\ ~r.next => w.first \subseteq Got(w)
    BY <1>4 DEF RestAhead
  <1>5. ASSUME r.pc = "reading", NEW id \in w.first \ Got(w)
        PROVE  \E k \in DOMAIN r.all :
                  /\ r.all[k].id = id /\ k > Offset(r.req)
                  /\ \E l \in DOMAIN n : l >= k /\ n[l].id = id
    <2>1. PICK k \in DOMAIN r.all : /\ r.all[k].id = id /\ k > Offset(r.req)
                                    /\ \E l \in DOMAIN m : l >= k /\ m[l].id = id
      BY <1>5 DEF RestAhead
    <2>2. PICK l \in DOMAIN m : l >= k /\ m[l].id = id
      BY <2>1
    <2>3. PICK i \in DOMAIN n : i >= l /\ n[i] = m[l]
      BY <2>2
    <2>4. i >= k
      BY <1>1, <1>3, <2>2, <2>3
    <2> QED BY <2>1, <2>2, <2>3, <2>4
  <1>6. ASSUME r.outcome = "page", r.next, NEW id \in w.first \ Got(w)
        PROVE  \E l \in DOMAIN n : l > Shown(r.req) /\ n[l].id = id
    <2>1. PICK l \in DOMAIN m : l > Shown(r.req) /\ m[l].id = id
      BY <1>6 DEF RestAhead
    <2>2. PICK i \in DOMAIN n : i >= l /\ n[i] = m[l]
      BY <2>1
    <2>3. i > Shown(r.req)
      BY <1>2, <1>3, <2>1, <2>2
    <2> QED BY <2>1, <2>2, <2>3
  <1>7. r.outcome = "page" /\ ~r.next => w.first \subseteq Got(w)
    BY DEF RestAhead
  <1> QED BY <1>5, <1>6, <1>7

\* A row that lies behind does so still when the rows that match only move up.
LEMMA GivenStaysBehind ==
  ASSUME NEW r, ReaderInv(r), NEW w, NEW v, NEW m \in Seq(Row), NEW n \in Seq(Row),
         \A l \in DOMAIN n : \E k \in DOMAIN m : k >= l /\ m[k] = n[l],
         v.got = w.got,
         v.writes \subseteq {"delete"} => w.writes \subseteq {"delete"},
         GivenBehind(r, w, m)
  PROVE  GivenBehind(r, v, n)
  <1>1. r.req \in Request /\ DOMAIN r.all = 1..Len(r.all) /\ Len(r.all) \in Nat
    BY ReaderFields
  <1>2. Offset(r.req) \in Nat /\ Shown(r.req) \in Nat
    BY <1>1, OffsetType, ShownType
  <1>3. /\ DOMAIN m = 1..Len(m) /\ Len(m) \in Nat
        /\ DOMAIN n = 1..Len(n) /\ Len(n) \in Nat
    OBVIOUS
  <1>4. Got(v) = Got(w)
    BY DEF Got
  <1> SUFFICES ASSUME r.req.op = "list", w.writes \subseteq {"delete"}
      PROVE  /\ Once(w.got)
             /\ r.pc = "reading" =>
                  /\ \A k \in DOMAIN r.all : k > Offset(r.req) => r.all[k].id \notin Got(w)
                  /\ \A l \in DOMAIN n : n[l].id \in Got(w) => l <= Offset(r.req)
                  /\ \A l \in DOMAIN n, k \in DOMAIN r.all : n[l].id = r.all[k].id => l <= k
             /\ r.outcome = "page" /\ r.next =>
                  \A l \in DOMAIN n : n[l].id \in Got(w) => l <= Shown(r.req)
    BY <1>4 DEF GivenBehind
  <1>5. Once(w.got)
    BY DEF GivenBehind
  <1>6. ASSUME r.pc = "reading"
        PROVE  \A k \in DOMAIN r.all : k > Offset(r.req) => r.all[k].id \notin Got(w)
    BY <1>6 DEF GivenBehind
  <1>7. ASSUME r.pc = "reading", NEW l \in DOMAIN n, n[l].id \in Got(w)
        PROVE  l <= Offset(r.req)
    <2>1. PICK k \in DOMAIN m : k >= l /\ m[k] = n[l]
      OBVIOUS
    <2>2. k <= Offset(r.req)
      BY <1>7, <2>1 DEF GivenBehind
    <2> QED BY <1>2, <1>3, <2>1, <2>2
  <1>8. ASSUME r.pc = "reading", NEW l \in DOMAIN n, NEW k \in DOMAIN r.all,
               n[l].id = r.all[k].id
        PROVE  l <= k
    <2>1. PICK i \in DOMAIN m : i >= l /\ m[i] = n[l]
      OBVIOUS
    <2>2. i <= k
      BY <1>8, <2>1 DEF GivenBehind
    <2> QED BY <1>1, <1>3, <2>1, <2>2
  <1>9. ASSUME r.outcome = "page", r.next, NEW l \in DOMAIN n, n[l].id \in Got(w)
        PROVE  l <= Shown(r.req)
    <2>1. PICK k \in DOMAIN m : k >= l /\ m[k] = n[l]
      OBVIOUS
    <2>2. k <= Shown(r.req)
      BY <1>9, <2>1 DEF GivenBehind
    <2> QED BY <1>2, <1>3, <2>1, <2>2
  <1> QED BY <1>5, <1>6, <1>7, <1>8, <1>9

\* The reader whose statement just ran.
Queried(q) ==
    [Idle EXCEPT !.pc = "reading", !.req = q, !.all = Matching(q), !.rows = Result(q)]

\* A query: its snapshot is what matches.
LEMMA QuerySnapshot ==
  ASSUME TableOK, IdsApart(table), NEW q, NEW r, r = Queried(q)
  PROVE  /\ r.pc = "reading" /\ r.req = q /\ r.all = Matching(q) /\ r.outcome = "none"
         /\ SnapshotOK(r)
         /\ \A i \in DOMAIN table : Passes(table[i], q.filter) =>
                \E k \in DOMAIN r.all : r.all[k] = table[i]
  <1>1. r.pc = "reading" /\ r.req = q /\ r.all = Matching(q) /\ r.outcome = "none"
    BY DEF Idle, Queried
  <1>2. Matching(q) = MatchingIn(table, q.filter)
    BY DEF Matching, MatchingIn
  <1> QED BY <1>1, <1>2, MatchingOnce DEF TableOK, SnapshotOK

LEMMA StartKeeps ==
  ASSUME TableOK, IdsApart(table), NEW q \in Request, q.op = "list", q.page \in {0, 1}, NEW w,
         w = [got |-> <<>>, writes |-> {},
              first |-> {table[i].id : i \in {j \in DOMAIN table : Passes(table[j], q.filter)}}],
         NEW r, r = Queried(q)
  PROVE  ClientOK(r, w, Matching(q))
  <1>1. /\ r.pc = "reading" /\ r.req = q /\ r.all = Matching(q) /\ r.outcome = "none"
        /\ SnapshotOK(r)
        /\ \A i \in DOMAIN table : Passes(table[i], q.filter) =>
              \E k \in DOMAIN r.all : r.all[k] = table[i]
    BY QuerySnapshot
  <1>2. /\ DOMAIN r.all = 1..Len(r.all) /\ Len(r.all) \in Nat
        /\ \A i \in DOMAIN table : table[i] \in Row
    BY <1>1 DEF SnapshotOK, TableOK
  <1>3. w.got = <<>> /\ w.writes = {} /\ Got(w) = {}
    BY DEF Got
  <1>4. \A id \in w.first : \E k \in DOMAIN r.all : r.all[k].id = id
    BY <1>1
  <1>5. WalkTypeOK(w)
    <2>1. w.first \subseteq Ids
      BY <1>2 DEF Row
    <2>2. <<>> \in Seq(Ids) /\ {} \in SUBSET {"insert", "delete", "update", "broken"}
      OBVIOUS
    <2>3. w = [got |-> <<>>, first |-> w.first, writes |-> {}]
      OBVIOUS
    <2> HIDE DEF WalkTypeOK
    <2> QED BY <2>1, <2>2, <2>3 DEF WalkTypeOK
  <1>6. Offset(q) = 0
    BY DEF Offset
  <1>7. RestAhead(r, w, Matching(q))
    <2>1. ASSUME NEW id \in w.first
          PROVE  \E k \in DOMAIN r.all : /\ r.all[k].id = id /\ k > 0
                    /\ \E l \in DOMAIN Matching(q) : l >= k /\ Matching(q)[l].id = id
      <3>1. PICK k \in DOMAIN r.all : r.all[k].id = id
        BY <1>4
      <3>2. k > 0 /\ k >= k
        BY <1>2
      <3> QED BY <1>1, <3>1, <3>2
    <2> QED BY <1>1, <1>6, <2>1 DEF RestAhead
  <1>8. GivenBehind(r, w, Matching(q))
    <2>1. Once(w.got)
      BY <1>3 DEF Once
    <2>2. \A l \in DOMAIN Matching(q), k \in DOMAIN r.all :
              Matching(q)[l].id = r.all[k].id => l <= k
      BY <1>1, <1>2 DEF SnapshotOK, IdsApart
    <2> QED BY <1>1, <1>3, <2>1, <2>2 DEF GivenBehind
  <1> QED BY <1>1, <1>5, <1>7, <1>8 DEF ClientOK

\* The next page: what was left is ahead of its offset, what was given is not.
LEMMA ContinueKeeps ==
  ASSUME TableOK, IdsApart(table), NEW r, ReaderInv(r), r.pc = "answered", r.next, NEW w,
         ClientOK(r, w, Matching(r.req)), NEW q,
         q = [r.req EXCEPT !.page = AnsweredPage(r.req) + 1],
         NEW s, s = Queried(q)
  PROVE  ClientOK(s, w, Matching(q))
  <1> DEFINE m == Matching(q)
  <1>1. r.req \in Request /\ r.outcome = "page" /\ r.req.op = "list"
    BY ReaderFields DEF ClientOK, ReaderInv
  <1>2. AnsweredPage(r.req) \in Nat \ {0} /\ Shown(r.req) \in Nat
    BY <1>1, ShownType
  <1>3. /\ q.page = AnsweredPage(r.req) + 1 /\ q.size = r.req.size
        /\ q.filter = r.req.filter /\ q.op = "list"
    BY <1>1 DEF Request
  <1>4. Offset(q) = Shown(r.req)
    BY <1>2, <1>3 DEF Offset, Shown
  <1>5. Matching(r.req) = m
    BY <1>3 DEF Matching
  <1>6. s.pc = "reading" /\ s.req = q /\ s.all = m /\ s.outcome = "none" /\ SnapshotOK(s)
    BY QuerySnapshot
  <1> HIDE DEF m
  <1>7. DOMAIN m = 1..Len(m) /\ Len(m) \in Nat /\ IdsApart(m)
    BY <1>6 DEF SnapshotOK
  <1>8. RestAhead(s, w, m)
    <2> SUFFICES ASSUME w.writes \subseteq {"insert"}, NEW id \in w.first \ Got(w)
                 PROVE  \E k \in DOMAIN m : /\ m[k].id = id /\ k > Offset(q)
                            /\ \E l \in DOMAIN m : l >= k /\ m[l].id = id
      BY <1>6 DEF RestAhead
    <2>1. PICK l \in DOMAIN m : l > Shown(r.req) /\ m[l].id = id
      BY <1>1, <1>5 DEF ClientOK, RestAhead
    <2>2. l >= l
      BY <1>7
    <2> QED BY <1>4, <2>1, <2>2
  <1>9. GivenBehind(s, w, m)
    <2> SUFFICES ASSUME w.writes \subseteq {"delete"}
        PROVE  /\ Once(w.got)
               /\ \A k \in DOMAIN m : k > Offset(q) => m[k].id \notin Got(w)
               /\ \A l \in DOMAIN m : m[l].id \in Got(w) => l <= Offset(q)
               /\ \A l \in DOMAIN m, k \in DOMAIN m : m[l].id = m[k].id => l <= k
      BY <1>6 DEF GivenBehind
    <2>1. Once(w.got) /\ \A l \in DOMAIN m : m[l].id \in Got(w) => l <= Offset(q)
      BY <1>1, <1>4, <1>5 DEF ClientOK, GivenBehind
    <2>2. \A k \in DOMAIN m : k > Offset(q) => ~(k <= Offset(q))
      BY <1>2, <1>4, <1>7
    <2>3. \A l \in DOMAIN m, k \in DOMAIN m : m[l].id = m[k].id => l <= k
      BY <1>7 DEF IdsApart
    <2> QED BY <2>1, <2>2, <2>3
  <1> QED BY <1>6, <1>8, <1>9 DEF ClientOK, m

\* A lookup of one row, and a reader that does nothing.
LEMMA NoWalkKeeps ==
  ASSUME NEW r, r.pc = "reading" => SnapshotOK(r), r.pc = "answered" => ~r.next,
         r.outcome # "page", r.req.op = "get", NEW m
  PROVE  ClientOK(r, NoWalk, m)
  <1>1. WalkTypeOK(NoWalk)
    <2>1. <<>> \in Seq(Ids) /\ {} \in SUBSET {"insert", "delete", "update", "broken"}
      OBVIOUS
    <2> QED BY <2>1 DEF WalkTypeOK, NoWalk
  <1> QED BY <1>1 DEF ClientOK, RestAhead, GivenBehind

\* A reader that keeps its request and snapshot, and answers nothing yet or an
\* error.
LEMMA SameKeeps ==
  ASSUME NEW r, NEW s, NEW w, NEW m, ClientOK(r, w, m), s.req = r.req, s.all = r.all,
         s.pc = "reading" => r.pc = "reading", s.pc = "answered" => ~s.next,
         s.outcome # "page"
  PROVE  ClientOK(s, w, m)
  BY DEF ClientOK, SnapshotOK, RestAhead, GivenBehind

\* An error leaves no snapshot.
LEMMA ErrorKeeps ==
  ASSUME NEW r, NEW s, NEW w, NEW m, ClientOK(r, w, m), s.req = r.req,
         s.pc = "answered", ~s.next, s.outcome = "error"
  PROVE  ClientOK(s, w, m)
  BY DEF ClientOK, RestAhead, GivenBehind

\* What the page holds so far is the window of the snapshot, from its start.
LEMMA DataIsWindow ==
  ASSUME NEW r, ReaderInv(r), r.pc = "reading"
  PROVE  /\ Offset(r.req) \in Nat
         /\ \A i \in 1..Len(r.data) :
                Offset(r.req) + i \in 1..Len(r.all) /\ r.data[i] = r.all[Offset(r.req) + i]
  <1> DEFINE o == Offset(r.req)
             f == Fetched(r.req, Len(r.all))
  <1>1. /\ r.req \in Request /\ r.at \in Nat /\ Len(r.all) \in Nat /\ Len(r.rows) \in Nat
        /\ Len(r.data) \in Nat /\ DOMAIN r.data = 1..Len(r.data)
    BY ReaderFields
  <1>2. o \in Nat /\ Limit(r.req) \in Nat
    BY <1>1, LimitType, OffsetType
  <1>3. ScanOK(r) /\ FetchedOK(r)
    BY DEF ReaderInv
  <1>4. f \in Nat /\ (f > 0 => o + f <= Len(r.all)) /\ Len(r.rows) = f
    BY <1>1, <1>3, FetchedType DEF FetchedOK
  <1>5. Len(r.data) <= f
    BY <1>1, <1>2, <1>3, <1>4 DEF ScanOK
  <1> HIDE DEF f
  <1>6. ASSUME NEW i \in 1..Len(r.data)
        PROVE  o + i \in 1..Len(r.all) /\ r.data[i] = r.all[o + i]
    <2>1. i \in 1..Len(r.rows) /\ i \in Nat
      BY <1>1, <1>4, <1>5
    <2>2. r.data[i] = r.rows[i]
      BY <1>1, <1>3 DEF ScanOK
    <2>3. r.rows[i] = r.all[o + i]
      BY <1>3, <2>1 DEF FetchedOK
    <2>4. o + i \in 1..Len(r.all)
      BY <1>1, <1>2, <1>4, <2>1
    <2> QED BY <2>2, <2>3, <2>4
  <1> QED BY <1>2, <1>6

\* At the end of the rows the page is full and there is more, or the snapshot
\* ends with it.
LEMMA DataAtEnd ==
  ASSUME NEW r, ReaderInv(r), r.pc = "reading", r.at = Len(r.rows)
  PROVE  /\ r.next => Limit(r.req) > 0 /\ Len(r.data) = Limit(r.req)
                      /\ Len(r.all) > Offset(r.req) + Limit(r.req)
         /\ ~r.next => Len(r.all) <= Offset(r.req) + Len(r.data)
  <1> DEFINE o == Offset(r.req)
             size == Limit(r.req)
             f == Fetched(r.req, Len(r.all))
  <1>1. /\ r.req \in Request /\ r.at \in Nat /\ Len(r.all) \in Nat /\ Len(r.rows) \in Nat
        /\ Len(r.data) \in Nat /\ r.next \in BOOLEAN
    BY ReaderFields
  <1>2. o \in Nat /\ size \in Nat
    BY <1>1, LimitType, OffsetType
  <1>3. ScanOK(r) /\ Len(r.rows) = f
    BY DEF ReaderInv, FetchedOK
  <1>4. /\ size = 0 => f = IF Len(r.all) > o THEN Len(r.all) - o ELSE 0
        /\ size > 0 => f = IF Len(r.all) > o + size THEN size + 1
                           ELSE IF Len(r.all) > o THEN Len(r.all) - o ELSE 0
    BY <1>1, FetchedType
  <1>5. /\ Len(r.data) = IF size > 0 /\ f > size THEN size ELSE f
        /\ r.next <=> size > 0 /\ f > size
    BY <1>3 DEF ScanOK
  <1> HIDE DEF o, size, f
  <1> QED BY <1>1, <1>2, <1>4, <1>5 DEF o, size

\* More of one row's id there can not be: where there is a next page, the page
\* has the size that was asked for.
LEMMA NextOfSize ==
  ASSUME NEW r, ReaderInv(r), SnapshotOK(r), r.pc = "reading", Len(r.all) > 1
  PROVE  Limit(r.req) = r.req.size
  <1> SUFFICES ASSUME r.req.filter \in Ids PROVE FALSE
    BY DEF Limit
  <1>1. /\ DOMAIN r.all = 1..Len(r.all) /\ Len(r.all) \in Nat
        /\ \A k \in 1..Len(r.all) : r.all[k] \in Row
    BY DEF SnapshotOK
  <1>2. 1 \in DOMAIN r.all /\ 2 \in DOMAIN r.all
    BY <1>1
  <1>3. \A k \in DOMAIN r.all : r.all[k].id = r.req.filter
    <2>1. r.req.filter # NoKey /\ r.req.filter \notin Keys
      BY KeysAssumption
    <2> QED BY <1>1, <2>1 DEF SnapshotOK, Passes, Row
  <1>4. r.all[1].id = r.all[2].id
    BY <1>2, <1>3
  <1> QED BY <1>2, <1>4 DEF SnapshotOK, IdsApart

\* Two sequences one after the other: what they name, and when nothing twice.
LEMMA Joined ==
  ASSUME NEW S, NEW g \in Seq(S), NEW d \in Seq(S)
  PROVE  /\ g \o d \in Seq(S)
         /\ {(g \o d)[j] : j \in DOMAIN (g \o d)} =
                {g[j] : j \in DOMAIN g} \cup {d[j] : j \in DOMAIN d}
         /\ Once(g) /\ Once(d) /\ (\A i \in DOMAIN g, j \in DOMAIN d : g[i] # d[j])
                => Once(g \o d)
  <1> DEFINE h == g \o d
  <1>1. PICK n \in Nat : n = Len(g) /\ DOMAIN g = 1..n
    OBVIOUS
  <1>2. PICK l \in Nat : l = Len(d) /\ DOMAIN d = 1..l
    OBVIOUS
  <1>3. /\ h \in Seq(S) /\ Len(h) = n + l
        /\ \A i \in 1..n + l : h[i] = IF i <= n THEN g[i] ELSE d[i - n]
    BY <1>1, <1>2, ConcatProperties
  <1> HIDE DEF h
  <1>4. DOMAIN h = 1..n + l
    BY <1>3
  <1>5. \A i \in 1..n : i \in 1..n + l /\ h[i] = g[i]
    BY <1>3
  <1>6. ASSUME NEW i \in 1..l PROVE n + i \in 1..n + l /\ h[n + i] = d[i]
    <2>1. n + i \in 1..n + l /\ ~(n + i <= n) /\ n + i - n = i
      OBVIOUS
    <2> QED BY <1>3, <2>1
  <1>7. ASSUME NEW j \in 1..n + l, j \notin 1..n PROVE \E i \in 1..l : j = n + i
    <2>1. j - n \in 1..l /\ j = n + (j - n)
      BY <1>7
    <2> QED BY <2>1
  <1>8. {h[j] : j \in DOMAIN h} = {g[j] : j \in DOMAIN g} \cup {d[j] : j \in DOMAIN d}
    <2>1. ASSUME NEW j \in DOMAIN h
          PROVE  h[j] \in {g[i] : i \in DOMAIN g} \cup {d[i] : i \in DOMAIN d}
      <3>1. CASE j \in 1..n
        BY <1>1, <1>5, <3>1
      <3>2. CASE j \notin 1..n
        <4>1. PICK i \in 1..l : j = n + i
          BY <1>4, <1>7, <3>2
        <4> QED BY <1>2, <1>6, <4>1
      <3> QED BY <3>1, <3>2
    <2>2. \A i \in DOMAIN g : g[i] \in {h[j] : j \in DOMAIN h}
      BY <1>1, <1>4, <1>5
    <2>3. \A i \in DOMAIN d : d[i] \in {h[j] : j \in DOMAIN h}
      <3> SUFFICES ASSUME NEW i \in DOMAIN d PROVE d[i] \in {h[j] : j \in DOMAIN h}
        OBVIOUS
      <3>1. n + i \in DOMAIN h /\ h[n + i] = d[i]
        BY <1>2, <1>4, <1>6
      <3> QED BY <3>1
    <2> QED BY <2>1, <2>2, <2>3
  <1>9. ASSUME Once(g), Once(d), \A i \in DOMAIN g, j \in DOMAIN d : g[i] # d[j],
               NEW a \in DOMAIN h, NEW b \in DOMAIN h, h[a] = h[b]
        PROVE  a = b
    <2>1. CASE a \in 1..n /\ b \in 1..n
      BY <1>1, <1>5, <1>9, <2>1 DEF Once
    <2>2. CASE a \in 1..n /\ b \notin 1..n
      <3>1. PICK j \in 1..l : b = n + j
        BY <1>4, <1>7, <2>2
      <3> QED BY <1>1, <1>2, <1>5, <1>6, <1>9, <2>2, <3>1
    <2>3. CASE a \notin 1..n /\ b \in 1..n
      <3>1. PICK i \in 1..l : a = n + i
        BY <1>4, <1>7, <2>3
      <3> QED BY <1>1, <1>2, <1>5, <1>6, <1>9, <2>3, <3>1
    <2>4. CASE a \notin 1..n /\ b \notin 1..n
      <3>1. PICK i \in 1..l : a = n + i
        BY <1>4, <1>7, <2>4
      <3>2. PICK j \in 1..l : b = n + j
        BY <1>4, <1>7, <2>4
      <3>3. d[i] = d[j]
        BY <1>6, <1>9, <3>1, <3>2
      <3> QED BY <1>2, <1>9, <3>1, <3>2, <3>3 DEF Once
    <2> QED BY <2>1, <2>2, <2>3, <2>4
  <1> QED BY <1>3, <1>8, <1>9 DEF h, Once

\* What a page adds to what was given.
WithPage(w, r) == [w EXCEPT !.got = @ \o [i \in DOMAIN r.data |-> r.data[i].id]]

LEMMA PageAdds ==
  ASSUME NEW r, ReaderInv(r), SnapshotOK(r), r.pc = "reading", NEW w, WalkTypeOK(w)
  PROVE  /\ WalkTypeOK(WithPage(w, r))
         /\ WithPage(w, r).first = w.first /\ WithPage(w, r).writes = w.writes
         /\ Got(WithPage(w, r)) = Got(w) \cup {r.data[i].id : i \in 1..Len(r.data)}
         /\ Once(w.got) /\ (\A i \in 1..Len(r.data) : r.data[i].id \notin Got(w))
                => Once(WithPage(w, r).got)
  <1> DEFINE d == [i \in DOMAIN r.data |-> r.data[i].id]
             g == w.got
             v == WithPage(w, r)
  <1>1. PICK l \in Nat : l = Len(r.data) /\ DOMAIN r.data = 1..l
    BY ReaderFields
  <1>2. /\ Offset(r.req) \in Nat
        /\ \A i \in 1..l : /\ Offset(r.req) + i \in 1..Len(r.all)
                           /\ r.data[i] = r.all[Offset(r.req) + i]
    BY <1>1, DataIsWindow
  <1>3. \A i \in 1..l : r.data[i].id \in Ids
    <2>1. \A k \in 1..Len(r.all) : r.all[k] \in Row
      BY DEF SnapshotOK
    <2> QED BY <1>2, <2>1 DEF Row
  <1>4. d \in Seq(Ids) /\ DOMAIN d = 1..l /\ \A i \in 1..l : d[i] = r.data[i].id
    BY <1>1, <1>3
  <1>5. /\ w = [got |-> g, first |-> w.first, writes |-> w.writes] /\ g \in Seq(Ids)
        /\ w.first \in SUBSET Ids
        /\ w.writes \in SUBSET {"insert", "delete", "update", "broken"}
    BY DEF WalkTypeOK
  <1>6. v = [w EXCEPT !.got = g \o d]
    BY DEF WithPage
  <1> HIDE DEF d, g, v
  <1>7. v = [got |-> g \o d, first |-> w.first, writes |-> w.writes]
    <2> DEFINE s == g \o d
    <2>1. v = [w EXCEPT !.got = s]
      BY <1>6
    <2> HIDE DEF s
    <2>2. v = [got |-> s, first |-> w.first, writes |-> w.writes]
      BY <1>5, <2>1
    <2> QED BY <2>2 DEF s
  <1>8. /\ g \o d \in Seq(Ids)
        /\ {(g \o d)[j] : j \in DOMAIN (g \o d)} =
                {g[j] : j \in DOMAIN g} \cup {d[j] : j \in DOMAIN d}
        /\ Once(g) /\ Once(d) /\ (\A i \in DOMAIN g, j \in DOMAIN d : g[i] # d[j])
                => Once(g \o d)
    BY <1>4, <1>5, Joined
  <1>9. v.got = g \o d /\ v.first = w.first /\ v.writes = w.writes
    BY <1>7
  <1>10. WalkTypeOK(v)
    BY <1>5, <1>7, <1>8 DEF WalkTypeOK
  <1>11. {d[j] : j \in DOMAIN d} = {r.data[i].id : i \in 1..l}
    BY <1>4
  <1>12. Got(v) = Got(w) \cup {r.data[i].id : i \in 1..l}
    BY <1>8, <1>9, <1>11 DEF Got, g
  <1>13. Once(d)
    <2>1. ASSUME NEW i \in 1..l, NEW j \in 1..l, d[i] = d[j] PROVE i = j
      <3>1. DOMAIN r.all = 1..Len(r.all)
        BY DEF SnapshotOK
      <3>2. r.all[Offset(r.req) + i].id = r.all[Offset(r.req) + j].id
        BY <1>2, <1>4, <2>1
      <3>3. Offset(r.req) + i = Offset(r.req) + j
        BY <1>2, <3>1, <3>2 DEF SnapshotOK, IdsApart
      <3> QED BY <1>2, <3>3
    <2> QED BY <1>4, <2>1 DEF Once
  <1>14. ASSUME Once(g), \A i \in 1..l : r.data[i].id \notin Got(w) PROVE Once(v.got)
    <2>1. \A i \in DOMAIN g, j \in DOMAIN d : g[i] # d[j]
      BY <1>4, <1>14 DEF Got, g
    <2> QED BY <1>8, <1>9, <1>13, <1>14, <2>1
  <1> QED BY <1>1, <1>9, <1>10, <1>12, <1>14 DEF v, g

\* The answer of a stream that was read to its end.
LEMMA FinishKeeps ==
  ASSUME NEW r, ReaderInv(r), r.pc = "reading", r.at = Len(r.rows),
         NEW w, NEW m \in Seq(Row), ClientOK(r, w, m)
  PROVE  ClientOK(Answered(r), WithPage(w, r), m)
  <1> DEFINE s == Answered(r)
             v == WithPage(w, r)
             o == Offset(r.req)
  <1>1. /\ s.pc = "answered" /\ s.req = r.req
        /\ s.outcome = (IF r.req.op = "list" THEN "page" ELSE GetOutcome(r))
        /\ s.next = (r.next /\ r.req.op = "list")
    BY DEF Answered, ReaderInv, ReaderTypeOK
  <1>2. SnapshotOK(r) /\ WalkTypeOK(w) /\ RestAhead(r, w, m) /\ GivenBehind(r, w, m)
    BY DEF ClientOK
  <1>3. /\ WalkTypeOK(v) /\ v.first = w.first /\ v.writes = w.writes
        /\ Got(v) = Got(w) \cup {r.data[i].id : i \in 1..Len(r.data)}
        /\ Once(w.got) /\ (\A i \in 1..Len(r.data) : r.data[i].id \notin Got(w)) => Once(v.got)
    BY <1>2, PageAdds
  <1>4. /\ o \in Nat
        /\ \A i \in 1..Len(r.data) : o + i \in 1..Len(r.all) /\ r.data[i] = r.all[o + i]
    BY DataIsWindow
  <1>5. /\ r.req \in Request /\ r.next \in BOOLEAN /\ Len(r.data) \in Nat
        /\ Len(r.all) \in Nat /\ DOMAIN r.all = 1..Len(r.all)
    BY ReaderFields
  <1>6. /\ r.next => Limit(r.req) > 0 /\ Len(r.data) = Limit(r.req)
                     /\ Len(r.all) > o + Limit(r.req)
        /\ ~r.next => Len(r.all) <= o + Len(r.data)
    BY DataAtEnd
  <1>7. r.next => Shown(r.req) = o + Len(r.data)
    <2> SUFFICES ASSUME r.next PROVE Shown(r.req) = o + Len(r.data)
      OBVIOUS
    <2>1. Len(r.all) > 1
      BY <1>4, <1>5, <1>6
    <2>2. Limit(r.req) = r.req.size
      BY <1>2, <2>1, NextOfSize
    <2> QED BY <1>5, <1>6, <2>2, ShownIsWindow
  <1> HIDE DEF s, v, o
  <1>8. \A k \in DOMAIN r.all :
            k > o /\ k <= o + Len(r.data) => r.all[k].id \in Got(v)
    <2> SUFFICES ASSUME NEW k \in DOMAIN r.all, k > o, k <= o + Len(r.data)
                 PROVE  r.all[k].id \in Got(v)
      OBVIOUS
    <2>1. k - o \in 1..Len(r.data) /\ o + (k - o) = k
      BY <1>4, <1>5
    <2>2. r.data[k - o].id = r.all[k].id
      BY <1>4, <2>1
    <2> QED BY <1>3, <2>1, <2>2
  <1>9. RestAhead(s, v, m)
    <2> SUFFICES ASSUME r.req.op = "list", w.writes \subseteq {"insert"}
        PROVE  /\ r.next => \A id \in w.first \ Got(v) :
                                \E l \in DOMAIN m : l > Shown(r.req) /\ m[l].id = id
               /\ ~r.next => w.first \subseteq Got(v)
      BY <1>1, <1>3, <1>5 DEF RestAhead
    <2>1. ASSUME NEW id \in w.first \ Got(v)
          PROVE  \E k \in DOMAIN r.all : /\ r.all[k].id = id /\ k > o + Len(r.data)
                    /\ \E l \in DOMAIN m : l >= k /\ m[l].id = id
      <3>1. id \in w.first \ Got(w)
        BY <1>3, <2>1
      <3>2. PICK k \in DOMAIN r.all : /\ r.all[k].id = id /\ k > o
                    /\ \E l \in DOMAIN m : l >= k /\ m[l].id = id
        BY <1>2, <3>1 DEF RestAhead, o
      <3>3. ~(k <= o + Len(r.data))
        BY <1>8, <2>1, <3>2
      <3>4. k > o + Len(r.data)
        BY <1>4, <1>5, <3>3
      <3> QED BY <3>2, <3>4
    <2>2. ASSUME r.next, NEW id \in w.first \ Got(v)
          PROVE  \E l \in DOMAIN m : l > Shown(r.req) /\ m[l].id = id
      <3>1. PICK k \in DOMAIN r.all : k > o + Len(r.data)
                    /\ \E l \in DOMAIN m : l >= k /\ m[l].id = id
        BY <2>1, <2>2
      <3>2. PICK l \in DOMAIN m : l >= k /\ m[l].id = id
        BY <3>1
      <3>3. l > Shown(r.req)
        <4>1. DOMAIN m = 1..Len(m) /\ Len(m) \in Nat
          OBVIOUS
        <4> QED BY <1>4, <1>5, <1>7, <2>2, <3>1, <3>2, <4>1
      <3> QED BY <3>2, <3>3
    <2>3. ASSUME ~r.next, NEW id \in w.first, id \notin Got(v) PROVE FALSE
      <3>1. PICK k \in DOMAIN r.all : k > o + Len(r.data)
        BY <2>1, <2>3
      <3> QED BY <1>4, <1>5, <1>6, <2>3, <3>1
    <2> QED BY <2>2, <2>3
  <1>10. GivenBehind(s, v, m)
    <2> SUFFICES ASSUME r.req.op = "list", w.writes \subseteq {"delete"}
        PROVE  /\ Once(v.got)
               /\ r.next => \A l \in DOMAIN m : m[l].id \in Got(v) => l <= Shown(r.req)
      BY <1>1, <1>3, <1>5 DEF GivenBehind
    <2>1. \A i \in 1..Len(r.data) : r.data[i].id \notin Got(w)
      <3> SUFFICES ASSUME NEW i \in 1..Len(r.data) PROVE r.data[i].id \notin Got(w)
        OBVIOUS
      <3>1. o + i \in DOMAIN r.all /\ o + i > o
        BY <1>4, <1>5
      <3>2. r.all[o + i].id \notin Got(w)
        BY <1>2, <3>1 DEF GivenBehind, o
      <3> QED BY <1>4, <3>2
    <2>2. Once(v.got)
      BY <1>2, <1>3, <2>1 DEF GivenBehind
    <2>3. ASSUME r.next, NEW l \in DOMAIN m, m[l].id \in Got(v) PROVE l <= Shown(r.req)
      <3>1. DOMAIN m = 1..Len(m) /\ Len(m) \in Nat
        OBVIOUS
      <3>2. CASE m[l].id \in Got(w)
        <4>1. l <= o
          BY <1>2, <3>2 DEF GivenBehind, o
        <4> QED BY <1>4, <1>5, <1>7, <2>3, <3>1, <4>1
      <3>3. CASE m[l].id \notin Got(w)
        <4>1. PICK i \in 1..Len(r.data) : m[l].id = r.data[i].id
          BY <1>3, <2>3, <3>3
        <4>2. o + i \in DOMAIN r.all /\ r.all[o + i].id = m[l].id
          BY <1>4, <1>5, <4>1
        <4>3. l <= o + i
          BY <1>2, <4>2 DEF GivenBehind
        <4> QED BY <1>4, <1>5, <1>7, <2>3, <3>1, <4>3
      <3> QED BY <3>2, <3>3
    <2> QED BY <2>2, <2>3
  <1>11. /\ s.pc = "answered" /\ (s.next => s.outcome = "page")
         /\ s.outcome = "page" => s.req.op = "list"
    BY <1>1 DEF GetOutcome
  <1> QED BY <1>3, <1>9, <1>10, <1>11 DEF ClientOK, s, v

\* A walk with a stream that broke is none of which anything is said.
LEMMA BrokenWalkKeeps ==
  ASSUME NEW r, NEW w, NEW v, NEW m, ClientOK(r, w, m), r.pc = "reading", ReaderInv(r),
         v = [w EXCEPT !.writes = @ \cup {"broken"}]
  PROVE  ClientOK(Broken(r), v, m)
  <1> DEFINE s == Broken(r)
  <1>1. /\ s.pc = "answered" /\ s.req = r.req
        /\ s.outcome = (IF r.req.op = "list" THEN "page" ELSE GetOutcome(r))
        /\ s.next = (r.next /\ r.req.op = "list")
    BY DEF Broken, Answered, ReaderInv, ReaderTypeOK
  <1>2. WalkTypeOK(v) /\ "broken" \in v.writes
    BY DEF ClientOK, WalkTypeOK
  <1>3. GetOutcome(r) # "page"
    BY DEF GetOutcome
  <1> HIDE DEF s
  <1> QED BY <1>1, <1>2, <1>3 DEF ClientOK, RestAhead, GivenBehind, s

LEMMA InitWInv == Init => WInv
  <1> SUFFICES ASSUME Init PROVE WInv
    OBVIOUS
  <1>1. IdsApart(table)
    BY DEF Init, Tables, IdsApart
  <1>2. \A c \in Clients : reader[c] = Idle /\ walk[c] = NoWalk
    BY DEF Init
  <1>3. Idle.pc = "idle" /\ Idle.req.op = "get" /\ Idle.outcome = "none"
    BY DEF Idle
  <1>4. \A m : ClientOK(Idle, NoWalk, m)
    BY <1>3, NoWalkKeeps
  <1> QED BY <1>1, <1>2, <1>4 DEF Init, WInv

\* One reader and its walk change, the others and the table do not.
LEMMA OneWalk ==
  ASSUME DInv, WInv, NEW c \in Clients, NEW s, NEW v, ClientOK(s, v, Matching(s.req)),
         reader' = [reader EXCEPT ![c] = s], walk' = [walk EXCEPT ![c] = v], table' = table
  PROVE  WInv'
  <1>1. \A d \in Clients : \/ reader'[d] = s /\ walk'[d] = v
                           \/ reader'[d] = reader[d] /\ walk'[d] = walk[d]
    BY DEF DInv, DomainOK, WInv
  <1>2. \A q : Matching(q)' = Matching(q)
    BY DEF Matching
  <1>3. ASSUME NEW d \in Clients
        PROVE  ClientOK(reader'[d], walk'[d], Matching(reader'[d].req))
    BY <1>1, <1>3 DEF WInv
  <1>4. \A d \in Clients : ClientOK(reader[d], walk[d], Matching(reader[d].req))'
    <2>1. ASSUME NEW d \in Clients
          PROVE  ClientOK(reader[d], walk[d], Matching(reader[d].req))'
      <3>1. Matching(reader[d].req)' = Matching(reader'[d].req)
        BY DEF Matching
      <3> QED BY <1>3, <3>1
    <2> QED BY <2>1
  <1>5. IdsApart(table)' /\ (walk = [d \in Clients |-> walk[d]])'
    BY DEF WInv, IdsApart
  <1> QED BY <1>4, <1>5 DEF WInv

\* A write moves rows under every walk.
LEMMA WriteKeepsWalks == ASSUME DInv, WInv, Write PROVE WInv'
  <1>1. TableOK /\ IdsApart(table) /\ TableOK'
    BY TableKeeps DEF DInv, WInv
  <1>2. /\ IdsApart(table')
        /\ Insert => \E e : LiesIn(e, table, table')
        /\ Delete => \E e : LiesIn(e, table', table)
    BY <1>1, WriteKeepsApart
  <1>3. PICK kind \in {"insert", "delete", "update"} :
          /\ Wrote(kind)
          /\ kind = "insert" => Insert
          /\ kind = "delete" => Delete
    BY DEF Write, Insert, Delete, Update
  <1>4. /\ reader' = reader
        /\ walk' = [c \in Clients |-> [walk[c] EXCEPT !.writes = @ \cup {kind}]]
    BY <1>3 DEF Wrote
  <1>5. ASSUME NEW c \in Clients
        PROVE  ClientOK(reader[c], walk[c], Matching(reader[c].req))'
    <2> DEFINE r == reader[c]
               w == walk[c]
               v == [w EXCEPT !.writes = @ \cup {kind}]
               f == r.req.filter
               m == MatchingIn(table, f)
               n == MatchingIn(table', f)
    <2>1. walk'[c] = v /\ reader'[c] = r
      BY <1>4
    <2>2. ReaderInv(r) /\ ClientOK(r, w, m)
      BY DEF DInv, WInv, Matching, MatchingIn
    <2>3. m \in Seq(Row) /\ n \in Seq(Row)
      BY <1>1, <1>2, MatchingOnce DEF TableOK
    <2>4. /\ WalkTypeOK(v) /\ v.got = w.got /\ v.first = w.first
          /\ v.writes = w.writes \cup {kind}
      BY <2>2 DEF ClientOK, WalkTypeOK
    <2> HIDE DEF v, m, n
    <2>5. RestAhead(r, v, n)
      <3>1. CASE kind = "insert"
        <4>1. \A k \in DOMAIN m : \E l \in DOMAIN n : l >= k /\ n[l] = m[k]
          BY <1>1, <1>2, <1>3, <3>1, MatchingLiesIn DEF TableOK, m, n
        <4> QED BY <2>2, <2>3, <2>4, <4>1, RestStaysAhead DEF ClientOK
      <3>2. CASE kind # "insert"
        BY <2>4, <3>2 DEF RestAhead
      <3> QED BY <3>1, <3>2
    <2>6. GivenBehind(r, v, n)
      <3>1. CASE kind = "delete"
        <4>1. \A l \in DOMAIN n : \E k \in DOMAIN m : k >= l /\ m[k] = n[l]
          BY <1>1, <1>2, <1>3, <3>1, MatchingLiesIn DEF TableOK, m, n
        <4> QED BY <2>2, <2>3, <2>4, <4>1, GivenStaysBehind DEF ClientOK
      <3>2. CASE kind # "delete"
        BY <2>4, <3>2 DEF GivenBehind
      <3> QED BY <3>1, <3>2
    <2>7. ClientOK(r, v, n)
      BY <2>2, <2>4, <2>5, <2>6 DEF ClientOK
    <2>8. Matching(reader[c].req)' = n
      BY <2>1 DEF Matching, MatchingIn, n
    <2> QED BY <2>1, <2>7, <2>8
  <1>6. (walk = [c \in Clients |-> walk[c]])' /\ IdsApart(table)'
    BY <1>2, <1>4 DEF IdsApart
  <1> QED BY <1>5, <1>6 DEF WInv

\* One step per action.
LEMMA NextWInv == ASSUME DInv, WInv, [Next]_vars PROVE WInv'
  <1>1. TableOK /\ IdsApart(table) /\ \A c \in Clients : ReaderInv(reader[c])
    BY DEF DInv, WInv
  <1>2. \A c \in Clients : ClientOK(reader[c], walk[c], Matching(reader[c].req))
    BY DEF WInv
  <1>3. Idle.pc = "idle" /\ Idle.req.op = "get" /\ Idle.outcome = "none"
    BY DEF Idle
  <1>4. ASSUME walk' = walk, NEW c \in Clients PROVE walk' = [walk EXCEPT ![c] = walk[c]]
    BY <1>4 DEF WInv
  <1>5. ASSUME NEW c \in Clients, Get(c) PROVE WInv'
    <2>1. PICK filter \in Keys \cup Ids : Query(c, GetRequest(filter))
      BY <1>5 DEF Get
    <2> DEFINE q == GetRequest(filter)
               s == Queried(q)
    <2>2. s.pc = "reading" /\ s.req = q /\ SnapshotOK(s) /\ s.outcome = "none"
      BY <1>1, QuerySnapshot
    <2>3. q.op = "get"
      BY DEF GetRequest
    <2>4. reader' = [reader EXCEPT ![c] = s] /\ walk' = [walk EXCEPT ![c] = NoWalk]
          /\ table' = table
      BY <1>5, <2>1 DEF Get, Query, Queried
    <2> HIDE DEF s, q
    <2>5. ClientOK(s, NoWalk, Matching(s.req))
      BY <2>2, <2>3, NoWalkKeeps
    <2> QED BY <2>4, <2>5, OneWalk
  <1>6. ASSUME NEW c \in Clients, StartWalk(c) PROVE WInv'
    <2>1. PICK filter \in Keys \cup Ids \cup {NoKey}, page \in {0, 1}, size \in Sizes :
            LET q == [op |-> "list", of |-> store, filter |-> filter,
                      page |-> page, size |-> size]
            IN  /\ Query(c, q)
                /\ walk' = [walk EXCEPT ![c] =
                        [got |-> <<>>, writes |-> {},
                         first |-> {table[i].id : i \in
                                {j \in DOMAIN table : Passes(table[j], filter)}}]]
      BY <1>6 DEF StartWalk
    <2> DEFINE q == [op |-> "list", of |-> store, filter |-> filter,
                     page |-> page, size |-> size]
               s == Queried(q)
               v == [got |-> <<>>, writes |-> {},
                     first |-> {table[i].id : i \in
                                {j \in DOMAIN table : Passes(table[j], q.filter)}}]
    <2>2. q \in Request /\ q.op = "list" /\ q.page \in {0, 1} /\ q.filter = filter
      BY DEF Request, DInv, StoreOK
    <2>3. reader' = [reader EXCEPT ![c] = s] /\ walk' = [walk EXCEPT ![c] = v]
          /\ table' = table
      BY <1>6, <2>1, <2>2 DEF StartWalk, Query, Queried
    <2> HIDE DEF q
    <2>4. ClientOK(s, v, Matching(q)) /\ s.req = q
      BY <1>1, <2>2, StartKeeps, QuerySnapshot
    <2> HIDE DEF s, v
    <2> QED BY <2>3, <2>4, OneWalk
  <1>7. ASSUME NEW c \in Clients, NextPage(c) PROVE WInv'
    <2> DEFINE r == reader[c]
               q == [r.req EXCEPT !.page = AnsweredPage(r.req) + 1]
               s == Queried(q)
    <2>1. r.pc = "answered" /\ r.next /\ ReaderInv(r)
          /\ ClientOK(r, walk[c], Matching(r.req))
      BY <1>1, <1>2, <1>7 DEF NextPage
    <2>2. reader' = [reader EXCEPT ![c] = s] /\ walk' = walk /\ table' = table
      BY <1>7 DEF NextPage, Query, Queried
    <2>3. ClientOK(s, walk[c], Matching(q)) /\ s.req = q
      BY <1>1, <2>1, ContinueKeeps, QuerySnapshot
    <2> HIDE DEF s, q
    <2> QED BY <1>4, <2>2, <2>3, OneWalk
  <1>8. ASSUME NEW c \in Clients, Abandon(c) PROVE WInv'
    BY <1>3, <1>8, NoWalkKeeps, OneWalk DEF Abandon
  <1>9. ASSUME NEW c \in Clients, ScanRow(c) PROVE WInv'
    <2> DEFINE r == reader[c]
               s == Scanned(r)
    <2>1. r.pc = "reading" /\ r.outcome = "none" /\ ReaderTypeOK(r)
      BY <1>1, <1>9 DEF ScanRow, ReaderInv
    <2>2. s.pc = "reading" /\ s.outcome = "none" /\ s.req = r.req /\ s.all = r.all
      BY <2>1 DEF Scanned, ReaderTypeOK
    <2>3. ClientOK(s, walk[c], Matching(s.req))
      BY <1>2, <2>1, <2>2, SameKeeps
    <2>4. reader' = [reader EXCEPT ![c] = s] /\ walk' = walk /\ table' = table
      BY <1>9 DEF ScanRow
    <2> HIDE DEF s
    <2> QED BY <1>4, <2>3, <2>4, OneWalk
  <1>10. ASSUME NEW c \in Clients, Finish(c) PROVE WInv'
    <2> DEFINE r == reader[c]
               s == Answered(r)
               v == WithPage(walk[c], r)
    <2>1. r.pc = "reading" /\ r.at = Len(r.rows) /\ ReaderInv(r)
      BY <1>1, <1>10 DEF Finish
    <2>2. Matching(r.req) \in Seq(Row)
      BY <1>1, MatchingRows
    <2>3. s.req = r.req
      BY <2>1 DEF Answered, ReaderInv, ReaderTypeOK
    <2>4. ClientOK(s, v, Matching(s.req))
      BY <1>2, <2>1, <2>2, <2>3, FinishKeeps
    <2>5. reader' = [reader EXCEPT ![c] = s] /\ walk' = [walk EXCEPT ![c] = v]
          /\ table' = table
      BY <1>10 DEF Finish, Noted, WithPage
    <2> HIDE DEF s, v
    <2> QED BY <2>4, <2>5, OneWalk
  <1>11. ASSUME NEW c \in Clients, StreamBreaks(c) PROVE WInv'
    <2> DEFINE r == reader[c]
               s == Broken(r)
               v == [walk[c] EXCEPT !.writes = @ \cup {"broken"}]
    <2>1. r.pc = "reading" /\ ReaderInv(r)
      BY <1>1, <1>11 DEF StreamBreaks
    <2>2. s.req = r.req
      BY <2>1 DEF Broken, Answered, ReaderInv, ReaderTypeOK
    <2>3. ClientOK(s, v, Matching(s.req))
      BY <1>2, <2>1, <2>2, BrokenWalkKeeps
    <2>4. reader' = [reader EXCEPT ![c] = s] /\ walk' = [walk EXCEPT ![c] = v]
          /\ table' = table
      BY <1>11 DEF StreamBreaks
    <2> HIDE DEF s, v
    <2> QED BY <2>3, <2>4, OneWalk
  <1>12. ASSUME NEW c \in Clients, Fails(c) PROVE WInv'
    <2> DEFINE r == reader[c]
               s == [Idle EXCEPT !.pc = "answered", !.req = r.req, !.outcome = "error"]
    <2>1. s.pc = "answered" /\ s.req = r.req /\ s.outcome = "error" /\ ~s.next
      BY DEF Idle
    <2>2. reader' = [reader EXCEPT ![c] = s] /\ walk' = walk /\ table' = table
      BY <1>12 DEF Fails
    <2> HIDE DEF s
    <2>3. ClientOK(s, walk[c], Matching(s.req))
      BY <1>2, <2>1, ErrorKeeps
    <2> QED BY <1>4, <2>2, <2>3, OneWalk
  <1>13. CASE Write
    BY <1>13, WriteKeepsWalks
  <1>14. CASE UNCHANGED vars
    <2>1. \A c \in Clients : Matching(reader[c].req)' = Matching(reader[c].req)
      BY <1>14 DEF vars, Matching
    <2>2. \A c \in Clients : reader'[c] = reader[c] /\ walk'[c] = walk[c]
      BY <1>14 DEF vars
    <2>3. ASSUME NEW c \in Clients
          PROVE  ClientOK(reader[c], walk[c], Matching(reader[c].req))'
      BY <1>2, <2>1, <2>2
    <2> QED BY <1>14, <2>3 DEF vars, WInv, IdsApart
  <1> QED
    BY <1>5, <1>6, <1>7, <1>8, <1>9, <1>10, <1>11, <1>12, <1>13, <1>14 DEF Next, Read

-----------------------------------------------------------------------------
(* The theorems *)

\* A page that was read to its end is the window of what matched.
THEOREM PagesAreExact == Spec => []PageIsExact
  <1>1. DInv => PageIsExact
    BY DEF DInv, ReaderInv, PageIsExact
  <1> QED BY <1>1, InitDInv, NextDInv, PTL DEF Spec

\* While its rows arrive, a page holds the first of them, and Next is set
\* exactly by a row too many.
THEOREM ScansAreOK == Spec => []ScansOK
  <1>1. DInv => ScansOK
    BY DEF DInv, ReaderInv, ScansOK
  <1> QED BY <1>1, InitDInv, NextDInv, PTL DEF Spec

\* What Get answers is true of all rows that matched.
THEOREM GetsAreExact == Spec => []GetIsExact
  <1>1. DInv => GetIsExact
    BY DEF DInv, ReaderInv, GetIsExact
  <1> QED BY <1>1, InitDInv, NextDInv, PTL DEF Spec

\* A walk beside inserts only reads every row that was there when it began: one
\* that was not given yet is never nearer than the offset of the next page.
THEOREM WalksSeeEverything == Spec => []InsertsHideNothing
  <1>1. WInv => InsertsHideNothing
    <2> SUFFICES ASSUME WInv, NEW c \in Clients, Walked(c), walk[c].writes \subseteq {"insert"}
                 PROVE  walk[c].first \subseteq Got(walk[c])
      BY DEF InsertsHideNothing, Got
    <2> QED BY DEF WInv, ClientOK, RestAhead, Walked
  <1> QED BY <1>1, InitDInv, NextDInv, InitWInv, NextWInv, PTL DEF Spec

\* A walk beside deletions only reads no row twice: one that was given never
\* lies beyond the offset of the next page.
THEOREM WalksRepeatNothing == Spec => []DeletesRepeatNothing
  <1>1. WInv => DeletesRepeatNothing
    <2> SUFFICES ASSUME WInv, NEW c \in Clients, Walked(c), walk[c].writes \subseteq {"delete"}
                 PROVE  Once(walk[c].got)
      BY DEF DeletesRepeatNothing, Once
    <2> QED BY DEF WInv, ClientOK, GivenBehind, Walked
  <1> QED BY <1>1, InitDInv, NextDInv, InitWInv, NextWInv, PTL DEF Spec

-----------------------------------------------------------------------------
(* The calls of Columns *)

\* The calls are a sequence.
AreCalls(cs) == cs \in Seq({cs[k] : k \in DOMAIN cs})

SchemaTables == {Fields} \cup {Fields[f].rows : f \in Records(Fields)}

CallOK(c) == c \in [table : SchemaTables, fields : {c.fields}, at : Nat \ {0}, plan : Plans]

NameAt(c) == Field(c).name

\* A call is open while the field it is at is being selected.
Open(cs, busy, k) == k \in 1..Len(cs) /\ (k < Len(cs) \/ busy)

\* The call d is made by the call c, for what a calculated field needs or for
\* the columns of a record.
CalcCall(c, d) ==
    /\ c.table = Fields /\ NameAt(c) \in Calcs
    /\ d.table = Fields /\ d.fields = Needed(Fields[NameAt(c)].needs)

RecordCall(c, d) ==
    /\ c.table = Fields /\ NameAt(c) \in Records(Fields)
    /\ d.table = Fields[NameAt(c)].rows /\ d.plan.calcs = <<>>

\* The field of an open call is a name that is taken; each call was made by the
\* one below it, and the columns of a record make none.
FramesOK(cs, names, busy) ==
    /\ AreCalls(cs) /\ cs # <<>> /\ cs[1].table = Fields
    /\ \A k \in 1..Len(cs) : CallOK(cs[k])
    /\ \A k \in 1..Len(cs) : Open(cs, busy, k) =>
          /\ NameAt(cs[k]) \in ToSet(names) \cap DOMAIN cs[k].table
          /\ cs[k].at <= Len(cs[k].fields)
    /\ \A k \in 1..Len(cs) - 1 :
          \/ CalcCall(cs[k], cs[k + 1])
          \/ RecordCall(cs[k], cs[k + 1]) /\ k + 1 = Len(cs)

\* The scans of the calls, from the outermost to the innermost, are the columns:
\* those of the k-th are the ones after mark[k].
Marks(mark, cs, columns) ==
    /\ mark \in [1..Len(cs) + 1 -> 0..Len(columns)]
    /\ mark[1] = 0 /\ mark[Len(cs) + 1] = Len(columns)
    /\ \A k \in 1..Len(cs) + 1 : \A l \in 1..k : mark[l] <= mark[k]
    /\ \A k \in 1..Len(cs) :
          /\ mark[k + 1] = mark[k] + Len(cs[k].plan.scans)
          /\ \A j \in 1..Len(cs[k].plan.scans) : columns[mark[k] + j] = cs[k].plan.scans[j]

MarksOK(cs, columns) == \E mark : Marks(mark, cs, columns)

\* What is scanned, by all the calls together, follows the columns up to the
\* first record.
ScannedOK(cs, columns) ==
    \E all \in Seq(ColumnNames) : MarksOK(cs, all) /\ ScannedInto(all, columns)

\* The name is in the plan of one of the first l calls.
Planned(cs, x, l) == \E m \in 1..l : x \in ToSet(cs[m].plan.calcs)

\* What a planned calculation needs is taken, and planned before it.
PlansOK(cs, names) ==
    \A l \in 1..Len(cs) : \A i \in DOMAIN cs[l].plan.calcs :
        /\ cs[l].plan.calcs[i] \in DOMAIN Fields
        /\ cs[l].plan.calcs[i] \in Calcs =>
              \A x \in ToSet(Fields[cs[l].plan.calcs[i]].needs) :
                  /\ x \in ToSet(names)
                  /\ x \in Calcs => \/ Planned(cs, x, l - 1)
                                    \/ \E j \in 1..i - 1 : cs[l].plan.calcs[j] = x

\* A calculated field that is taken is planned or being selected.
TakenOK(cs, names, busy) ==
    \A x \in ToSet(names) \cap Calcs :
        \/ Planned(cs, x, Len(cs))
        \/ \E k \in 1..Len(cs) : Open(cs, busy, k) /\ NameAt(cs[k]) = x

\* A need the call is past.
Past(c, d, x) ==
    \E j \in DOMAIN Fields[NameAt(c)].needs : j < d.at /\ Fields[NameAt(c)].needs[j] = x

\* The needs a call for a calculated field is past are taken, and planned in it
\* or below it.
NeedsOK(cs, names) ==
    \A l \in 1..Len(cs) - 1 : CalcCall(cs[l], cs[l + 1]) =>
        \A x : Past(cs[l], cs[l + 1], x) =>
            /\ x \in ToSet(names)
            /\ x \in Calcs => Planned(cs, x, l + 1)

\* The calls ds are those of cs below the m-th, which is c.
Follow(cs, ds, m, c) ==
    /\ AreCalls(ds) /\ Len(ds) = m /\ m \in Nat /\ DOMAIN ds = 1..m
    /\ m \in 1..m /\ ds[m] = c
    /\ \A k \in 1..m - 1 : k \in 1..m /\ ds[k] = cs[k]

\* One sequence after another.
LEMMA OneAfterAnother ==
  ASSUME NEW S, NEW s \in Seq(S), NEW t \in Seq(S)
  PROVE  /\ s \o t \in Seq(S) /\ Len(s) \in Nat /\ Len(t) \in Nat
         /\ DOMAIN (s \o t) = 1..Len(s) + Len(t) /\ Len(s \o t) = Len(s) + Len(t)
         /\ \A k \in 1..Len(s) : (s \o t)[k] = s[k]
         /\ \A k \in 1..Len(t) : (s \o t)[Len(s) + k] = t[k]
  OBVIOUS

LEMMA OwnElements ==
  ASSUME NEW S, NEW s \in Seq(S)
  PROVE  AreCalls(s)
  <1> DEFINE own == {s[k] : k \in DOMAIN s}
  <1>1. Len(s) \in Nat /\ DOMAIN s = 1..Len(s) /\ s = [k \in 1..Len(s) |-> s[k]]
    OBVIOUS
  <1>2. \A k \in 1..Len(s) : s[k] \in own
    BY <1>1
  <1> HIDE DEF own
  <1>3. s \in [1..Len(s) -> own]
    BY <1>1, <1>2
  <1>4. s \in Seq(own)
    BY <1>1, <1>3
  <1> QED BY <1>4 DEF AreCalls, own

LEMMA Changed ==
  ASSUME NEW cs, AreCalls(cs), cs # <<>>, NEW c
  PROVE  Follow(cs, [cs EXCEPT ![Len(cs)] = c], Len(cs), c)
  <1> DEFINE S == {cs[k] : k \in DOMAIN cs} \cup {c}
             n == Len(cs)
             ds == [cs EXCEPT ![n] = c]
  <1>1. cs \in Seq({cs[k] : k \in DOMAIN cs})
    BY DEF AreCalls
  <1>2. n \in Nat /\ DOMAIN cs = 1..n /\ n > 0 /\ \A k \in 1..n : cs[k] \in S
    BY <1>1
  <1>3. cs \in Seq(S)
    BY <1>1, <1>2
  <1>4. c \in S
    OBVIOUS
  <1> HIDE DEF S
  <1>5. ds \in Seq(S) /\ Len(ds) = n /\ DOMAIN ds = 1..n /\ ds[n] = c
        /\ \A k \in 1..n - 1 : k \in 1..n /\ ds[k] = cs[k]
    BY <1>2, <1>3, <1>4
  <1>6. AreCalls(ds)
    BY <1>5, OwnElements
  <1> QED BY <1>2, <1>5, <1>6 DEF Follow

LEMMA Pushed ==
  ASSUME NEW cs, AreCalls(cs), NEW c
  PROVE  Follow(cs, Append(cs, c), Len(cs) + 1, c)
  <1> DEFINE S == {cs[k] : k \in DOMAIN cs} \cup {c}
             n == Len(cs)
             ds == Append(cs, c)
  <1>1. cs \in Seq({cs[k] : k \in DOMAIN cs})
    BY DEF AreCalls
  <1>2. n \in Nat /\ DOMAIN cs = 1..n /\ \A k \in 1..n : cs[k] \in S
    BY <1>1
  <1>3. cs \in Seq(S)
    BY <1>1, <1>2
  <1>4. c \in S
    OBVIOUS
  <1> HIDE DEF S
  <1>5. ds \in Seq(S) /\ Len(ds) = n + 1 /\ DOMAIN ds = 1..n + 1 /\ ds[n + 1] = c
        /\ \A k \in 1..n : k \in 1..n + 1 /\ ds[k] = cs[k]
    BY <1>2, <1>3, <1>4
  <1>6. AreCalls(ds)
    BY <1>5, OwnElements
  <1>7. n + 1 - 1 = n /\ n + 1 \in Nat /\ n + 1 \in 1..n + 1
    BY <1>2
  <1> HIDE DEF ds, n
  <1> QED BY <1>5, <1>6, <1>7 DEF Follow, ds, n

LEMMA Popped ==
  ASSUME NEW cs, AreCalls(cs), Len(cs) > 1, NEW c
  PROVE  Follow(cs, Append(SubSeq(cs, 1, Len(cs) - 2), c), Len(cs) - 1, c)
  <1> DEFINE S == {cs[k] : k \in DOMAIN cs}
             n == Len(cs) - 2
             below == SubSeq(cs, 1, n)
  <1>1. cs \in Seq(S)
    BY DEF AreCalls
  <1>2. n \in Nat /\ DOMAIN cs = 1..n + 2 /\ Len(cs) = n + 2
    BY <1>1
  <1> HIDE DEF S
  <1>3. below \in Seq(S) /\ Len(below) = n /\ \A k \in 1..n : below[k] = cs[k]
    BY <1>1, <1>2
  <1> HIDE DEF below
  <1>4. AreCalls(below)
    BY <1>3, OwnElements
  <1>5. Follow(below, Append(below, c), n + 1, c)
    BY <1>3, <1>4, Pushed
  <1>6. n + 1 = Len(cs) - 1 /\ n + 1 - 1 = n
    BY <1>2
  <1>7. Follow(cs, Append(below, c), n + 1, c)
    <2> HIDE DEF n
    <2> QED BY <1>2, <1>3, <1>5, <1>6 DEF Follow
  <1> QED BY <1>6, <1>7 DEF below

\* What an entry of the calls is.
LEMMA CallIs ==
  ASSUME NEW c, CallOK(c)
  PROVE  /\ c.table \in SchemaTables /\ c.at \in Nat /\ c.at > 0 /\ c.plan \in Plans
         /\ DOMAIN c.table \subseteq ColumnNames
  <1>1. c.table \in SchemaTables /\ c.at \in Nat /\ c.at > 0 /\ c.plan \in Plans
    BY DEF CallOK
  <1> QED BY <1>1 DEF SchemaTables, ColumnNames

LEMMA AdvancedIs ==
  ASSUME NEW c, CallOK(c), NEW p \in Plans
  PROVE  LET d == Advanced(c, p)
         IN  /\ CallOK(d) /\ d.table = c.table /\ d.fields = c.fields
             /\ d.at = c.at + 1 /\ d.plan = p
  <1> DEFINE d == Advanced(c, p)
             F == {c.fields}
  <1>1. c \in [table : SchemaTables, fields : F, at : Nat \ {0}, plan : Plans]
    BY DEF CallOK
  <1>2. /\ d \in [table : SchemaTables, fields : F, at : Nat \ {0}, plan : Plans]
        /\ d.table = c.table /\ d.fields = c.fields /\ d.at = c.at + 1 /\ d.plan = p
    <2> HIDE DEF F
    <2> DEFINE at == c.at + 1
    <2>1. /\ DOMAIN c = {"table", "fields", "at", "plan"} /\ at \in Nat \ {0}
          /\ c.table \in SchemaTables /\ c.fields \in F /\ c.plan \in Plans
      BY <1>1
    <2>2. d = [c EXCEPT !.at = at, !.plan = p]
      BY DEF Advanced
    <2> HIDE DEF d, at
    <2>3. /\ DOMAIN d = DOMAIN c /\ d.at = at /\ d.plan = p
          /\ d.table = c.table /\ d.fields = c.fields
      BY <1>1, <2>1, <2>2
    <2>4. d \in [table : SchemaTables, fields : F, at : Nat \ {0}, plan : Plans]
      BY <1>1, <2>1, <2>2
    <2> QED BY <2>3, <2>4 DEF at
  <1> HIDE DEF d
  <1>3. CallOK(d)
    BY <1>2 DEF CallOK
  <1> QED BY <1>2, <1>3 DEF d

\* A column has not the name of a calculated field.
LEMMA ColumnNotCalc ==
  ASSUME NEW c, CallOK(c), NEW x \in DOMAIN c.table
  PROVE  /\ c.table[x].kind = "column" => x \notin Calcs
         /\ c.table[x].kind # "column" => c.table = Fields
  <1>1. CASE c.table = Fields
    BY <1>1 DEF Calcs
  <1>2. CASE c.table \in {Fields[f].rows : f \in Records(Fields)}
    <2>1. PICK f \in Records(Fields) : c.table = Fields[f].rows
      BY <1>2
    <2> QED BY <2>1, RowsAssumption
  <1> QED BY <1>1, <1>2, CallIs DEF SchemaTables

\* A call for what a calculated field needs goes through its needs.
LEMMA NeedAt ==
  ASSUME NEW c, NEW d, CalcCall(c, d), CallOK(d)
  PROVE  LET needs == Fields[NameAt(c)].needs
         IN  /\ needs \in Seq(STRING) /\ Len(d.fields) = Len(needs)
             /\ DOMAIN needs = 1..Len(needs) /\ Len(needs) \in Nat
             /\ d.at <= Len(d.fields) => d.at \in DOMAIN needs /\ NameAt(d) = needs[d.at]
  <1> DEFINE needs == Fields[NameAt(c)].needs
  <1>1. NameAt(c) \in DOMAIN Fields /\ d.fields = Needed(needs)
    BY DEF CalcCall, Calcs
  <1>2. needs \in Seq(STRING)
    BY <1>1, SchemaAssumption
  <1> HIDE DEF needs
  <1>3. d.at \in Nat /\ d.at > 0
    BY CallIs
  <1>4. /\ DOMAIN needs = 1..Len(needs) /\ Len(needs) \in Nat
        /\ d.fields = [i \in 1..Len(needs) |-> [name |-> needs[i], fields |-> <<>>]]
    BY <1>1, <1>2 DEF Needed
  <1>5. Len(d.fields) = Len(needs)
    BY <1>4
  <1>6. ASSUME d.at <= Len(d.fields) PROVE d.at \in DOMAIN needs /\ NameAt(d) = needs[d.at]
    <2>1. d.at \in 1..Len(needs)
      BY <1>3, <1>4, <1>5, <1>6
    <2>2. d.fields[d.at] = [name |-> needs[d.at], fields |-> <<>>]
      BY <1>4, <2>1
    <2> QED BY <1>4, <2>1, <2>2 DEF NameAt, Field
  <1> QED BY <1>2, <1>4, <1>5, <1>6 DEF needs

\* What is planned by the first calls.
LEMMA PlannedBelow ==
  ASSUME NEW cs, NEW ds, NEW m, NEW c, Follow(cs, ds, m, c), NEW x
  PROVE  /\ \A l \in 0..m - 1 : Planned(ds, x, l) <=> Planned(cs, x, l)
         /\ Planned(ds, x, m) <=> (Planned(cs, x, m - 1) \/ x \in ToSet(c.plan.calcs))
  <1>1. m \in Nat /\ m > 0 /\ ds[m] = c /\ \A k \in 1..m - 1 : ds[k] = cs[k]
    BY DEF Follow
  <1>2. ASSUME NEW l \in 0..m - 1 PROVE Planned(ds, x, l) <=> Planned(cs, x, l)
    <2>1. \A k \in 1..l : k \in 1..m - 1
      BY <1>1
    <2> QED BY <1>1, <2>1 DEF Planned
  <1>3. Planned(ds, x, m) <=> (Planned(ds, x, m - 1) \/ x \in ToSet(c.plan.calcs))
    <2>1. \A k \in 1..m : k = m \/ k \in 1..m - 1
      BY <1>1
    <2>2. \A k \in 1..m - 1 : k \in 1..m
      BY <1>1
    <2>3. m \in 1..m
      BY <1>1
    <2> QED BY <1>1, <2>1, <2>2, <2>3 DEF Planned
  <1>4. m - 1 \in 0..m - 1
    BY <1>1
  <1> QED BY <1>2, <1>3, <1>4

\* No call is for a field that needs itself.
LEMMA NotInACircle ==
  ASSUME NEW cs, NEW names, FramesOK(cs, names, FALSE), Len(cs) > 1,
         CalcCall(cs[Len(cs) - 1], cs[Len(cs)]), cs[Len(cs)].at <= Len(cs[Len(cs)].fields),
         NEW k \in 1..Len(cs) - 1
  PROVE  NameAt(cs[k]) # NameAt(cs[Len(cs)])
  <1> SUFFICES ASSUME NameAt(cs[k]) = NameAt(cs[Len(cs)]) PROVE FALSE
    OBVIOUS
  <1> DEFINE n == Len(cs)
             S == {NameAt(cs[m]) : m \in k..n - 1}
  <1>1. n \in Nat /\ n > 1 /\ \A m \in 1..n : CallOK(cs[m])
    BY DEF FramesOK, AreCalls
  <1> HIDE DEF n
  <1>2. ASSUME NEW m \in k..n - 1
        PROVE  /\ CalcCall(cs[m], cs[m + 1]) /\ NameAt(cs[m]) \in Calcs
               /\ NameAt(cs[m + 1]) \in ToSet(Fields[NameAt(cs[m])].needs)
               /\ NameAt(cs[m + 1]) \in S
    <2>1. m \in 1..n - 1 /\ m + 1 \in 1..n /\ (m + 1 = n \/ m + 1 \in k..n - 1)
      BY <1>1 DEF n
    <2>2. CalcCall(cs[m], cs[m + 1])
      <3>1. CASE m + 1 = n
        <4>1. m = n - 1
          BY <2>1, <3>1
        <4> QED BY <3>1, <4>1 DEF n
      <3>2. CASE m + 1 # n
        BY <2>1, <3>2 DEF FramesOK, n
      <3> QED BY <3>1, <3>2
    <2>3. cs[m + 1].at <= Len(cs[m + 1].fields)
      <3>1. CASE m + 1 = n
        BY <3>1 DEF n
      <3>2. CASE m + 1 # n
        <4>1. m + 1 \in 1..Len(cs) /\ m + 1 < Len(cs)
          BY <1>1, <2>1, <3>2 DEF n
        <4> QED BY <4>1 DEF FramesOK, Open
      <3> QED BY <3>1, <3>2
    <2>4. CallOK(cs[m + 1])
      BY <1>1, <2>1
    <2>5. NameAt(cs[m + 1]) \in ToSet(Fields[NameAt(cs[m])].needs)
      BY <2>2, <2>3, <2>4, NeedAt DEF ToSet
    <2>6. NameAt(cs[m + 1]) \in S
      <3>1. CASE m + 1 = n
        <4>1. k \in k..n - 1
          BY <1>1 DEF n
        <4> QED BY <3>1, <4>1 DEF n
      <3>2. CASE m + 1 \in k..n - 1
        BY <3>2
      <3> QED BY <2>1, <3>1, <3>2
    <2> QED BY <2>2, <2>5, <2>6 DEF CalcCall
  <1>3. S \in SUBSET Calcs /\ S # {}
    <2>1. k \in k..n - 1
      BY <1>1 DEF n
    <2> QED BY <1>2, <2>1
  <1>4. PICK f \in S : \A x \in ToSet(Fields[f].needs) : x \notin S
    BY <1>3, NeedsAssumption
  <1>5. PICK m \in k..n - 1 : f = NameAt(cs[m])
    BY <1>4
  <1> QED BY <1>2, <1>4, <1>5

\* The m-th call goes on to its next field with the plan p, and those above it
\* are gone.
Advances(cs, ds, m, p) ==
    m \in 1..Len(cs) /\ p \in Plans /\ Follow(cs, ds, m, Advanced(cs[m], p))

LEMMA AdvanceFrames ==
  ASSUME NEW cs, NEW ds, NEW names, NEW busy, NEW m, NEW p,
         FramesOK(cs, names, busy), Advances(cs, ds, m, p),
         m > 1 /\ ~CalcCall(cs[m - 1], cs[m]) => m = Len(cs) /\ p.calcs = cs[m].plan.calcs
  PROVE  FramesOK(ds, names, FALSE)
  <1> DEFINE n == Len(cs)
             c == Advanced(cs[m], p)
  <1>1. /\ n \in Nat /\ m \in 1..n /\ m \in Nat /\ m > 0 /\ p \in Plans
        /\ CallOK(cs[m])
    BY DEF Advances, FramesOK, AreCalls
  <1>2. /\ CallOK(c) /\ c.table = cs[m].table /\ c.fields = cs[m].fields /\ c.plan = p
    BY <1>1, AdvancedIs
  <1>3. /\ AreCalls(ds) /\ Len(ds) = m /\ DOMAIN ds = 1..m /\ ds[m] = c
        /\ \A k \in 1..m - 1 : ds[k] = cs[k]
    BY DEF Advances, Follow
  <1> HIDE DEF c, n
  <1>4. ds # <<>> /\ ds[1].table = Fields
    <2>1. ds # <<>>
      BY <1>1, <1>3
    <2>2. CASE m = 1
      <3>1. ds[1] = c /\ c.table = cs[1].table
        BY <1>2, <1>3, <2>2
      <3> QED BY <2>1, <3>1 DEF FramesOK
    <2>3. CASE m > 1
      BY <1>1, <1>3, <2>3 DEF FramesOK
    <2> QED BY <1>1, <2>1, <2>2, <2>3
  <1>5. \A k \in 1..m : CallOK(ds[k])
    <2>1. \A k \in 1..m : k = m \/ (k \in 1..m - 1 /\ k \in 1..n)
      BY <1>1
    <2> QED BY <1>2, <1>3, <2>1 DEF FramesOK, n
  <1>6. ASSUME NEW k \in 1..m, Open(ds, FALSE, k)
        PROVE  /\ NameAt(ds[k]) \in ToSet(names) \cap DOMAIN ds[k].table
               /\ ds[k].at <= Len(ds[k].fields)
    <2>1. k \in 1..m - 1 /\ k \in 1..Len(cs) /\ k < Len(cs)
      BY <1>1, <1>3, <1>6 DEF Open, n
    <2> QED BY <1>3, <2>1 DEF FramesOK, Open
  <1>7. ASSUME NEW k \in 1..m - 1
        PROVE  CalcCall(ds[k], ds[k + 1]) \/ (RecordCall(ds[k], ds[k + 1]) /\ k + 1 = m)
    <2>1. k \in 1..Len(cs) - 1 /\ k + 1 \in 1..m
      BY <1>1 DEF n
    <2>2. CalcCall(cs[k], cs[k + 1]) \/ (RecordCall(cs[k], cs[k + 1]) /\ k + 1 = Len(cs))
      BY <2>1 DEF FramesOK
    <2>3. CASE k + 1 < m
      <3>1. ds[k] = cs[k] /\ ds[k + 1] = cs[k + 1] /\ k + 1 # Len(cs)
        BY <1>1, <1>3, <2>3 DEF n
      <3> QED BY <2>2, <3>1
    <2>4. CASE k + 1 = m
      <3>1. ds[k] = cs[k] /\ ds[k + 1] = c /\ k = m - 1 /\ m > 1
        BY <1>1, <1>3, <2>4
      <3>2. CASE CalcCall(cs[k], cs[m])
        BY <1>2, <3>1, <3>2 DEF CalcCall
      <3>3. CASE ~CalcCall(cs[k], cs[m])
        <4>1. RecordCall(cs[k], cs[m]) /\ p.calcs = cs[m].plan.calcs
          BY <2>2, <2>4, <3>1, <3>3
        <4>2. RecordCall(cs[k], c)
          BY <1>2, <4>1 DEF RecordCall
        <4> QED BY <2>4, <3>1, <4>2
      <3> QED BY <3>2, <3>3
    <2> QED BY <1>1, <2>3, <2>4
  <1> QED BY <1>3, <1>4, <1>5, <1>6, <1>7 DEF FramesOK

LEMMA AdvancePlans ==
  ASSUME NEW cs, NEW ds, NEW names, NEW m, NEW p, Len(cs) \in Nat,
         PlansOK(cs, names), Advances(cs, ds, m, p), CallOK(cs[m]),
         \A i \in DOMAIN p.calcs :
            /\ p.calcs[i] \in DOMAIN Fields
            /\ p.calcs[i] \in Calcs => \A x \in ToSet(Fields[p.calcs[i]].needs) :
                  /\ x \in ToSet(names)
                  /\ x \in Calcs => \/ Planned(cs, x, m - 1)
                                    \/ \E j \in 1..i - 1 : p.calcs[j] = x
  PROVE  PlansOK(ds, names)
  <1> DEFINE c == Advanced(cs[m], p)
  <1>1. /\ m \in Nat /\ m > 0 /\ m <= Len(cs) /\ Follow(cs, ds, m, c) /\ c.plan = p
        /\ Len(ds) = m /\ ds[m] = c /\ \A k \in 1..m - 1 : ds[k] = cs[k]
    BY AdvancedIs DEF Advances, Follow
  <1> HIDE DEF c
  <1>2. \A x : \A l \in 0..m - 1 : Planned(cs, x, l) => Planned(ds, x, l)
    BY <1>1, PlannedBelow
  <1>3. ASSUME NEW l \in 1..m, NEW i \in DOMAIN ds[l].plan.calcs
        PROVE  /\ ds[l].plan.calcs[i] \in DOMAIN Fields
               /\ ds[l].plan.calcs[i] \in Calcs =>
                    \A x \in ToSet(Fields[ds[l].plan.calcs[i]].needs) :
                        /\ x \in ToSet(names)
                        /\ x \in Calcs => \/ Planned(ds, x, l - 1)
                                          \/ \E j \in 1..i - 1 : ds[l].plan.calcs[j] = x
    <2>1. l - 1 \in 0..m - 1 /\ (l = m \/ l \in 1..m - 1)
      BY <1>1
    <2>2. CASE l = m
      <3>1. ds[l].plan.calcs = p.calcs
        BY <1>1, <2>2
      <3> QED BY <1>2, <1>3, <2>1, <2>2, <3>1
    <2>3. CASE l \in 1..m - 1
      <3>1. ds[l] = cs[l] /\ l \in 1..Len(cs)
        BY <1>1, <2>3
      <3> QED BY <1>2, <1>3, <2>1, <3>1 DEF PlansOK
    <2> QED BY <2>1, <2>2, <2>3
  <1> QED BY <1>1, <1>3 DEF PlansOK

LEMMA AdvanceTaken ==
  ASSUME NEW cs, NEW ds, NEW names, NEW busy, NEW m, NEW p, Len(cs) \in Nat,
         TakenOK(cs, names, busy), Advances(cs, ds, m, p),
         \A x : Planned(cs, x, Len(cs)) => Planned(ds, x, m),
         \A k \in m..Len(cs) : Open(cs, busy, k) /\ NameAt(cs[k]) \in Calcs =>
                                  Planned(ds, NameAt(cs[k]), m)
  PROVE  TakenOK(ds, names, FALSE)
  <1>1. /\ m \in Nat /\ m > 0 /\ m <= Len(cs) /\ Len(ds) = m
        /\ \A k \in 1..m - 1 : ds[k] = cs[k]
    BY DEF Advances, Follow
  <1> SUFFICES ASSUME NEW x \in ToSet(names) \cap Calcs
               PROVE  \/ Planned(ds, x, m)
                      \/ \E k \in 1..m : Open(ds, FALSE, k) /\ NameAt(ds[k]) = x
    BY <1>1 DEF TakenOK
  <1>2. CASE Planned(cs, x, Len(cs))
    BY <1>2
  <1>3. CASE \E k \in 1..Len(cs) : Open(cs, busy, k) /\ NameAt(cs[k]) = x
    <2>1. PICK k \in 1..Len(cs) : Open(cs, busy, k) /\ NameAt(cs[k]) = x
      BY <1>3
    <2>2. CASE k < m
      <3>1. k \in 1..m /\ Open(ds, FALSE, k) /\ ds[k] = cs[k]
        BY <1>1, <2>1, <2>2 DEF Open
      <3> QED BY <2>1, <3>1
    <2>3. CASE k >= m
      <3>1. k \in m..Len(cs)
        BY <1>1, <2>1, <2>3
      <3> QED BY <2>1, <3>1
    <2>4. k < m \/ k >= m
      BY <1>1, <2>1
    <2> QED BY <2>2, <2>3, <2>4
  <1> QED BY <1>2, <1>3 DEF TakenOK

LEMMA AdvanceNeeds ==
  ASSUME NEW cs, NEW ds, NEW names, NEW m, NEW p, Len(cs) \in Nat,
         NeedsOK(cs, names), Advances(cs, ds, m, p), CallOK(cs[m]),
         \A x : Planned(cs, x, m) => Planned(ds, x, m),
         m > 1 /\ CalcCall(cs[m - 1], cs[m]) =>
            /\ cs[m].at <= Len(cs[m].fields)
            /\ NameAt(cs[m]) \in ToSet(names)
            /\ NameAt(cs[m]) \in Calcs => Planned(ds, NameAt(cs[m]), m)
  PROVE  NeedsOK(ds, names)
  <1> DEFINE c == Advanced(cs[m], p)
  <1>1. /\ m \in Nat /\ m > 0 /\ m <= Len(cs) /\ Follow(cs, ds, m, c)
        /\ c.table = cs[m].table /\ c.fields = cs[m].fields /\ c.at = cs[m].at + 1
        /\ Len(ds) = m /\ ds[m] = c /\ \A k \in 1..m - 1 : ds[k] = cs[k]
    BY AdvancedIs DEF Advances, Follow
  <1> HIDE DEF c
  <1>2. cs[m].at \in Nat
    BY CallIs
  <1> SUFFICES ASSUME NEW l \in 1..m - 1, CalcCall(ds[l], ds[l + 1]),
                      NEW x, Past(ds[l], ds[l + 1], x)
               PROVE  /\ x \in ToSet(names)
                      /\ x \in Calcs => Planned(ds, x, l + 1)
    BY <1>1 DEF NeedsOK
  <1>3. l \in 1..Len(cs) - 1 /\ ds[l] = cs[l]
    BY <1>1
  <1>4. CASE l + 1 < m
    <2>1. ds[l + 1] = cs[l + 1] /\ l + 1 \in 0..m - 1
      BY <1>1, <1>4
    <2>2. /\ x \in ToSet(names)
          /\ x \in Calcs => Planned(cs, x, l + 1)
      BY <1>3, <2>1 DEF NeedsOK
    <2> QED BY <1>1, <2>1, <2>2, PlannedBelow
  <1>5. CASE l + 1 = m
    <2>1. ds[l + 1] = c /\ l = m - 1 /\ m > 1
      BY <1>1, <1>5
    <2>2. CalcCall(cs[m - 1], cs[m]) /\ CalcCall(cs[l], cs[l + 1])
      BY <1>1, <1>3, <1>5, <2>1 DEF CalcCall
    <2> DEFINE needs == Fields[NameAt(cs[l])].needs
    <2>3. PICK j \in DOMAIN needs : j < cs[m].at + 1 /\ needs[j] = x
      BY <1>1, <1>3, <2>1 DEF Past
    <2>4. j \in Nat /\ cs[m].at \in DOMAIN needs /\ NameAt(cs[m]) = needs[cs[m].at]
      BY <2>1, <2>2, NeedAt
    <2>5. CASE j < cs[m].at
      <3>1. Past(cs[l], cs[l + 1], x)
        BY <1>5, <2>3, <2>5 DEF Past
      <3>2. /\ x \in ToSet(names)
            /\ x \in Calcs => Planned(cs, x, m)
        BY <1>3, <1>5, <2>2, <3>1 DEF NeedsOK
      <3> QED BY <1>5, <3>2
    <2>6. CASE j = cs[m].at
      <3>1. x = NameAt(cs[m])
        BY <2>3, <2>4, <2>6
      <3> QED BY <1>5, <2>1, <2>2, <3>1
    <2> QED BY <1>2, <2>3, <2>4, <2>5, <2>6
  <1> QED BY <1>1, <1>4, <1>5

LEMMA RowsNotFields ==
  ASSUME NEW f \in Records(Fields)
  PROVE  Fields[f].rows # Fields
  BY RowsAssumption DEF Records

\* A call is made for the field the innermost one is at.
LEMMA PushKeeps ==
  ASSUME NEW cs, NEW ds, NEW names, NEW d,
         FramesOK(cs, names, TRUE), PlansOK(cs, names), TakenOK(cs, names, TRUE),
         NeedsOK(cs, names), Follow(cs, ds, Len(cs) + 1, d),
         CallOK(d), d.at = 1, d.plan.calcs = <<>>,
         CalcCall(cs[Len(cs)], d) \/ RecordCall(cs[Len(cs)], d)
  PROVE  /\ FramesOK(ds, names, FALSE) /\ PlansOK(ds, names)
         /\ TakenOK(ds, names, FALSE) /\ NeedsOK(ds, names)
  <1> DEFINE n == Len(cs)
             m == n + 1
  <1>1. n \in Nat /\ n > 0 /\ m \in Nat /\ n \in 1..n /\ m - 1 = n
    BY DEF FramesOK, AreCalls
  <1>2. /\ AreCalls(ds) /\ Len(ds) = m /\ DOMAIN ds = 1..m /\ ds[m] = d
        /\ \A k \in 1..n : ds[k] = cs[k]
    BY <1>1 DEF Follow
  <1>3. /\ \A x : \A l \in 0..n : Planned(ds, x, l) <=> Planned(cs, x, l)
        /\ \A x : Planned(ds, x, m) <=> Planned(cs, x, n)
    <2>1. ToSet(d.plan.calcs) = {}
      BY DEF ToSet
    <2>2. n \in 0..m - 1
      BY <1>1
    <2> QED BY <1>1, <2>1, <2>2, PlannedBelow
  <1>4. \A k \in 1..m : k = m \/ k \in 1..n
    BY <1>1
  <1>5. FramesOK(ds, names, FALSE)
    <2>1. ds # <<>> /\ ds[1].table = Fields
      <3>1. ds[1] = cs[1]
        BY <1>1, <1>2
      <3>2. ds # <<>>
        <4> HIDE DEF m
        <4> QED BY <1>1, <1>2
      <3>3. cs[1].table = Fields
        BY DEF FramesOK
      <3> QED BY <3>1, <3>2, <3>3
    <2>2. \A k \in 1..m : CallOK(ds[k])
      BY <1>2, <1>4 DEF FramesOK
    <2>3. ASSUME NEW k \in 1..m, Open(ds, FALSE, k)
          PROVE  /\ NameAt(ds[k]) \in ToSet(names) \cap DOMAIN ds[k].table
                 /\ ds[k].at <= Len(ds[k].fields)
      <3>1. k \in 1..n /\ k \in 1..Len(cs) /\ Open(cs, TRUE, k) /\ ds[k] = cs[k]
        BY <1>1, <1>2, <1>4, <2>3 DEF Open
      <3> QED BY <3>1 DEF FramesOK
    <2>4. ASSUME NEW k \in 1..n
          PROVE  CalcCall(ds[k], ds[k + 1]) \/ (RecordCall(ds[k], ds[k + 1]) /\ k + 1 = m)
      <3>1. CASE k = n
        BY <1>2, <3>1
      <3>2. CASE k < n
        <4>1. k \in 1..Len(cs) - 1 /\ ds[k] = cs[k] /\ ds[k + 1] = cs[k + 1]
          BY <1>1, <1>2, <3>2
        <4>2. CalcCall(cs[k], cs[k + 1]) \/ (RecordCall(cs[k], cs[k + 1]) /\ k + 1 = n)
          BY <4>1 DEF FramesOK
        <4>3. ASSUME RecordCall(cs[k], cs[k + 1]), k + 1 = n PROVE FALSE
          BY <4>3, RowsNotFields DEF RecordCall, CalcCall
        <4> QED BY <4>1, <4>2, <4>3
      <3>3. k = n \/ k < n
        <4> HIDE DEF n
        <4> QED BY <1>1
      <3> QED BY <3>1, <3>2, <3>3
    <2> HIDE DEF m, n
    <2> QED BY <1>1, <1>2, <2>1, <2>2, <2>3, <2>4 DEF FramesOK
  <1>6. PlansOK(ds, names)
    <2> SUFFICES ASSUME NEW l \in 1..m, NEW i \in DOMAIN ds[l].plan.calcs
                 PROVE  /\ ds[l].plan.calcs[i] \in DOMAIN Fields
                        /\ ds[l].plan.calcs[i] \in Calcs =>
                             \A x \in ToSet(Fields[ds[l].plan.calcs[i]].needs) :
                                 /\ x \in ToSet(names)
                                 /\ x \in Calcs => \/ Planned(ds, x, l - 1)
                                                   \/ \E j \in 1..i - 1 : ds[l].plan.calcs[j] = x
      BY <1>2 DEF PlansOK
    <2>1. CASE l = m
      BY <1>2, <2>1
    <2>2. CASE l \in 1..n
      <3>1. ds[l] = cs[l] /\ l - 1 \in 0..n /\ l \in 1..Len(cs)
        BY <1>1, <1>2, <2>2
      <3>2. \A x : Planned(ds, x, l - 1) <=> Planned(cs, x, l - 1)
        BY <1>3, <3>1
      <3> HIDE DEF m, n
      <3> QED BY <3>1, <3>2 DEF PlansOK
    <2> QED BY <1>4, <2>1, <2>2
  <1>7. TakenOK(ds, names, FALSE)
    <2>1. \A k \in 1..n : Open(cs, TRUE, k) =>
            k \in 1..m /\ Open(ds, FALSE, k) /\ NameAt(ds[k]) = NameAt(cs[k])
      BY <1>1, <1>2 DEF Open
    <2> HIDE DEF m
    <2> QED BY <1>1, <1>2, <1>3, <2>1 DEF TakenOK
  <1>8. NeedsOK(ds, names)
    <2> SUFFICES ASSUME NEW l \in 1..n, CalcCall(ds[l], ds[l + 1]),
                        NEW x, Past(ds[l], ds[l + 1], x)
                 PROVE  /\ x \in ToSet(names)
                        /\ x \in Calcs => Planned(ds, x, l + 1)
      BY <1>1, <1>2 DEF NeedsOK
    <2>1. CASE l = n
      <3>1. ds[l + 1] = d
        BY <1>2, <2>1
      <3>2. PICK j \in DOMAIN Fields[NameAt(ds[l])].needs : j < 1
        BY <3>1 DEF Past
      <3>3. j \in Nat /\ j > 0
        BY <3>1, NeedAt
      <3> QED BY <3>2, <3>3
    <2>2. CASE l < n
      <3>1. /\ l \in 1..Len(cs) - 1 /\ ds[l] = cs[l] /\ ds[l + 1] = cs[l + 1] /\ l + 1 \in 0..n
        BY <1>1, <1>2, <2>2
      <3> QED BY <1>3, <3>1 DEF NeedsOK
    <2> QED BY <1>1, <2>1, <2>2
  <1> QED BY <1>5, <1>6, <1>7, <1>8

\* The name of the field the innermost call is at is taken.
LEMMA TakeKeeps ==
  ASSUME NEW cs, NEW names, NEW more,
         FramesOK(cs, names, FALSE), PlansOK(cs, names), TakenOK(cs, names, FALSE),
         NeedsOK(cs, names),
         NameAt(cs[Len(cs)]) \in DOMAIN cs[Len(cs)].table,
         cs[Len(cs)].at <= Len(cs[Len(cs)].fields),
         ToSet(more) = ToSet(names) \cup {NameAt(cs[Len(cs)])}
  PROVE  /\ FramesOK(cs, more, TRUE) /\ PlansOK(cs, more)
         /\ TakenOK(cs, more, TRUE) /\ NeedsOK(cs, more)
  <1> DEFINE n == Len(cs)
  <1>1. n \in Nat /\ n > 0 /\ n \in 1..n
    BY DEF FramesOK, AreCalls
  <1>2. \A k \in 1..n : k = n \/ Open(cs, FALSE, k)
    BY <1>1 DEF Open
  <1>3. \A k \in 1..n : Open(cs, TRUE, k)
    BY DEF Open
  <1>4. FramesOK(cs, more, TRUE)
    <2>1. ASSUME NEW k \in 1..n
          PROVE  /\ NameAt(cs[k]) \in ToSet(more) \cap DOMAIN cs[k].table
                 /\ cs[k].at <= Len(cs[k].fields)
      BY <1>2, <2>1 DEF FramesOK
    <2> QED BY <2>1 DEF FramesOK
  <1>5. PlansOK(cs, more)
    BY DEF PlansOK
  <1>6. TakenOK(cs, more, TRUE)
    <2> SUFFICES ASSUME NEW x \in ToSet(more) \cap Calcs
                 PROVE  \/ Planned(cs, x, Len(cs))
                        \/ \E k \in 1..Len(cs) : Open(cs, TRUE, k) /\ NameAt(cs[k]) = x
      BY DEF TakenOK
    <2>1. CASE x = NameAt(cs[n])
      BY <1>1, <1>3, <2>1
    <2>2. CASE x \in ToSet(names)
      BY <1>3, <2>2 DEF TakenOK
    <2> QED BY <2>1, <2>2
  <1>7. NeedsOK(cs, more)
    BY DEF NeedsOK
  <1> QED BY <1>4, <1>5, <1>6, <1>7

-----------------------------------------------------------------------------
(* The columns and their scans *)

\* A mark that is not below the others is put after them.
LEMMA Ordered1 ==
  ASSUME NEW m \in Nat, NEW mark, NEW next, NEW w \in Nat, NEW n \in Nat, n <= w,
         \A k \in 1..m : mark[k] \in 0..n,
         \A k \in 1..m : \A l \in 1..k : mark[l] <= mark[k],
         \A k \in 1..m + 1 : next[k] = IF k = m + 1 THEN w ELSE mark[k]
  PROVE  \A k \in 1..m + 1 : \A l \in 1..k : next[l] <= next[k]
  <1> SUFFICES ASSUME NEW k \in 1..m + 1, NEW l \in 1..k PROVE next[l] <= next[k]
    OBVIOUS
  <1>1. CASE k = m + 1 /\ l = k
    BY <1>1
  <1>2. CASE k = m + 1 /\ l # k
    <2>1. l \in 1..m /\ l # m + 1 /\ l \in 1..m + 1
      BY <1>2
    <2>2. next[k] = w /\ next[l] = mark[l] /\ mark[l] \in 0..n
      BY <1>2, <2>1
    <2> QED BY <2>2
  <1>3. CASE k # m + 1
    <2>1. k \in 1..m /\ l # m + 1 /\ l \in 1..m + 1
      BY <1>3
    <2> QED BY <2>1
  <1> QED BY <1>1, <1>2, <1>3

\* The innermost call goes on, with at most one column more.
LEMMA ScansAdvance ==
  ASSUME NEW cs, NEW ds, NEW columns, NEW m, NEW p,
         Len(cs) \in Nat, m = Len(cs), m > 0, Advances(cs, ds, m, p), CallOK(cs[m]),
         MarksOK(cs, columns), p.scans = cs[m].plan.scans
  PROVE  MarksOK(ds, columns)
  <1>1. /\ ds[m].plan = p /\ Len(ds) = m /\ \A k \in 1..m - 1 : ds[k] = cs[k]
    BY AdvancedIs DEF Advances, Follow
  <1>2. \A k \in 1..m : ds[k].plan.scans = cs[k].plan.scans
    <2>1. \A k \in 1..m : k = m \/ k \in 1..m - 1
      OBVIOUS
    <2> QED BY <1>1, <2>1
  <1>3. PICK mark : Marks(mark, cs, columns)
    BY DEF MarksOK
  <1>4. Marks(mark, ds, columns)
    <2>1. /\ mark \in [1..m + 1 -> 0..Len(columns)]
          /\ mark[1] = 0 /\ mark[m + 1] = Len(columns)
          /\ \A k \in 1..m + 1 : \A l \in 1..k : mark[l] <= mark[k]
          /\ \A k \in 1..m :
                /\ mark[k + 1] = mark[k] + Len(cs[k].plan.scans)
                /\ \A j \in 1..Len(cs[k].plan.scans) :
                      columns[mark[k] + j] = cs[k].plan.scans[j]
      BY <1>3 DEF Marks
    <2>2. ASSUME NEW k \in 1..m
          PROVE  /\ mark[k + 1] = mark[k] + Len(ds[k].plan.scans)
                 /\ \A j \in 1..Len(ds[k].plan.scans) :
                       columns[mark[k] + j] = ds[k].plan.scans[j]
      <3>1. ds[k].plan.scans = cs[k].plan.scans
        BY <1>2
      <3> QED BY <2>1, <3>1
    <2> QED BY <1>1, <2>1, <2>2 DEF Marks
  <1> QED BY <1>4 DEF MarksOK

LEMMA ScansColumn ==
  ASSUME NEW cs, NEW ds, NEW columns \in Seq(ColumnNames), NEW m, NEW p, NEW x \in ColumnNames,
         Len(cs) \in Nat, m = Len(cs), m > 0, Advances(cs, ds, m, p),
         \A k \in 1..m : CallOK(cs[k]),
         MarksOK(cs, columns), p.scans = Append(cs[m].plan.scans, x)
  PROVE  MarksOK(ds, Append(columns, x))
  <1> DEFINE more == Append(columns, x)
             n == Len(columns)
             s == cs[m].plan.scans
             w == Len(s)
  <1>1. /\ ds[m].plan = p /\ Len(ds) = m /\ \A k \in 1..m - 1 : ds[k] = cs[k]
        /\ CallOK(cs[m])
    BY AdvancedIs DEF Advances, Follow
  <1>2. PICK mark : Marks(mark, cs, columns)
    BY DEF MarksOK
  <1> DEFINE b == mark[m]
             next == [k \in 1..m + 1 |-> IF k = m + 1 THEN n + 1 ELSE mark[k]]
  <1>3. /\ n \in Nat /\ Len(more) = n + 1 /\ more[n + 1] = x
        /\ \A j \in 1..n : j \in 1..n + 1 /\ more[j] = columns[j]
    OBVIOUS
  <1>4. /\ s \in Seq(ColumnNames) /\ w \in Nat
        /\ Len(p.scans) = w + 1 /\ p.scans[w + 1] = x
        /\ \A j \in 1..w : p.scans[j] = s[j]
    BY <1>1, CallIs DEF Plans
  <1>5. /\ m \in 1..m /\ b \in 0..n /\ b + w = n /\ mark[m + 1] = n
        /\ \A j \in 1..w : columns[b + j] = s[j]
    BY <1>2 DEF Marks
  <1>6. next \in [1..m + 1 -> 0..n + 1]
    BY <1>2, <1>3 DEF Marks
  <1>7. /\ next[1] = 0 /\ next[m + 1] = n + 1 /\ next[m] = b
        /\ \A k \in 1..m - 1 : next[k] = mark[k] /\ next[k + 1] = mark[k + 1]
    BY <1>2 DEF Marks
  <1>7a. \A k \in 1..m + 1 : \A l \in 1..k : next[l] <= next[k]
    <2>1. /\ \A k \in 1..m + 1 : mark[k] \in 0..n
          /\ \A k \in 1..m + 1 : \A l \in 1..k : mark[l] <= mark[k]
      BY <1>2 DEF Marks
    <2>2. \A k \in 1..m + 1 : next[k] = IF k = m + 1 THEN n + 1 ELSE mark[k]
      OBVIOUS
    <2> QED BY <1>3, <2>1, <2>2, Ordered1
  <1> HIDE DEF next, more, n, s, w, b
  <1>8. ASSUME NEW k \in 1..m
        PROVE  /\ next[k + 1] = next[k] + Len(ds[k].plan.scans)
               /\ \A j \in 1..Len(ds[k].plan.scans) : more[next[k] + j] = ds[k].plan.scans[j]
    <2>1. CASE k = m
      <3>1. ASSUME NEW j \in 1..w + 1 PROVE more[b + j] = p.scans[j]
        <4>1. CASE j = w + 1
          <5>1. b + j = n + 1
            BY <1>3, <1>4, <1>5, <4>1
          <5> QED BY <1>3, <1>4, <4>1, <5>1
        <4>2. CASE j \in 1..w
          <5>1. b + j \in 1..n /\ columns[b + j] = s[j]
            BY <1>3, <1>4, <1>5, <4>2
          <5> QED BY <1>3, <1>4, <4>2, <5>1
        <4> QED BY <1>4, <4>1, <4>2
      <3>2. n \in Nat /\ w \in Nat /\ b \in Nat /\ b + w = n
        BY <1>3, <1>4, <1>5
      <3>3. n + 1 = b + (w + 1)
        BY <3>2
      <3> QED BY <1>1, <1>4, <1>7, <2>1, <3>1, <3>3
    <2>2. CASE k \in 1..m - 1
      <3>1. /\ ds[k] = cs[k] /\ next[k] = mark[k] /\ next[k + 1] = mark[k + 1]
        BY <1>1, <1>7, <2>2
      <3>2. /\ mark[k] \in 0..n /\ mark[k + 1] \in 0..n
            /\ mark[k + 1] = mark[k] + Len(cs[k].plan.scans)
            /\ \A j \in 1..Len(cs[k].plan.scans) : columns[mark[k] + j] = cs[k].plan.scans[j]
        <4>1. k \in 1..m + 1 /\ k + 1 \in 1..m + 1
          OBVIOUS
        <4> QED BY <1>2, <4>1 DEF Marks, n
      <3>3. ASSUME NEW j \in 1..Len(cs[k].plan.scans)
            PROVE  more[mark[k] + j] = cs[k].plan.scans[j]
        <4> DEFINE u == Len(cs[k].plan.scans)
                   a == mark[k]
        <4>1. a \in 0..n /\ a + u \in 0..n /\ j \in 1..u /\ u \in Nat
          <5>1. cs[k].plan.scans \in Seq(ColumnNames)
            BY CallIs DEF Plans
          <5> QED BY <3>2, <5>1
        <4> HIDE DEF a, u
        <4>2. a + j \in 1..n
          BY <1>3, <4>1
        <4> QED BY <1>3, <3>2, <4>2 DEF a
      <3> QED BY <3>1, <3>2, <3>3
    <2> QED BY <2>1, <2>2
  <1>9. Marks(next, ds, more)
    BY <1>1, <1>3, <1>6, <1>7, <1>7a, <1>8 DEF Marks
  <1> QED BY <1>9 DEF MarksOK, more

LEMMA ScansPush ==
  ASSUME NEW cs, NEW ds, NEW columns \in Seq(ColumnNames), NEW d, NEW n \in Nat, n = Len(cs),
         Follow(cs, ds, n + 1, d), d.plan.scans = <<>>, MarksOK(cs, columns)
  PROVE  MarksOK(ds, columns)
  <1>1. /\ ds[n + 1] = d /\ Len(ds) = n + 1 /\ \A k \in 1..n : ds[k] = cs[k]
    BY DEF Follow
  <1>2. PICK mark : Marks(mark, cs, columns)
    BY DEF MarksOK
  <1> DEFINE w == Len(columns)
             next == [k \in 1..n + 2 |-> IF k = n + 2 THEN w ELSE mark[k]]
  <1>3. w \in Nat /\ Len(d.plan.scans) = 0 /\ n + 1 + 1 = n + 2
    OBVIOUS
  <1>4. next \in [1..n + 2 -> 0..w]
    BY <1>2, <1>3 DEF Marks
  <1>5. /\ next[1] = 0 /\ next[n + 2] = w /\ next[n + 1] = w
        /\ \A k \in 1..n : next[k] = mark[k] /\ next[k + 1] = mark[k + 1]
    BY <1>2 DEF Marks
  <1>5a. \A k \in 1..n + 2 : \A l \in 1..k : next[l] <= next[k]
    <2>1. /\ \A k \in 1..n + 1 : mark[k] \in 0..w
          /\ \A k \in 1..n + 1 : \A l \in 1..k : mark[l] <= mark[k]
      BY <1>2 DEF Marks
    <2>2. \A k \in 1..n + 1 + 1 : next[k] = IF k = n + 1 + 1 THEN w ELSE mark[k]
      OBVIOUS
    <2>3. \A k \in 1..n + 1 + 1 : \A l \in 1..k : next[l] <= next[k]
      <3>1. n + 1 \in Nat /\ w <= w
        BY <1>3
      <3> HIDE DEF next, w
      <3> QED BY <1>3, <2>1, <2>2, <3>1, Ordered1
    <2>4. n + 1 + 1 = n + 2
      OBVIOUS
    <2> HIDE DEF next
    <2> QED BY <2>3, <2>4
  <1> HIDE DEF next, w
  <1>6. ASSUME NEW k \in 1..n + 1
        PROVE  /\ next[k + 1] = next[k] + Len(ds[k].plan.scans)
               /\ \A j \in 1..Len(ds[k].plan.scans) : columns[next[k] + j] = ds[k].plan.scans[j]
    <2>1. CASE k = n + 1
      BY <1>1, <1>3, <1>5, <2>1
    <2>2. CASE k \in 1..n
      BY <1>1, <1>2, <1>5, <2>2 DEF Marks
    <2> QED BY <2>1, <2>2
  <1>7. Marks(next, ds, columns)
    BY <1>1, <1>3, <1>4, <1>5, <1>5a, <1>6 DEF Marks, w
  <1> QED BY <1>7 DEF MarksOK

\* The innermost call returns what it scans to the call below it.
LEMMA ScansPop ==
  ASSUME NEW cs, NEW ds, NEW columns \in Seq(ColumnNames), NEW m \in Nat, NEW p,
         Len(cs) = m + 1, m > 0, Advances(cs, ds, m, p), CallOK(cs[m]), CallOK(cs[m + 1]),
         MarksOK(cs, columns), p.scans = cs[m].plan.scans \o cs[m + 1].plan.scans
  PROVE  MarksOK(ds, columns)
  <1> DEFINE n == Len(columns)
             s == cs[m].plan.scans
             t == cs[m + 1].plan.scans
             w == Len(s)
             v == Len(t)
  <1>1. /\ ds[m].plan = p /\ Len(ds) = m /\ \A k \in 1..m - 1 : ds[k] = cs[k]
    BY AdvancedIs DEF Advances, Follow
  <1>2. PICK mark : Marks(mark, cs, columns)
    BY DEF MarksOK
  <1> DEFINE b == mark[m]
             next == [k \in 1..m + 1 |-> IF k = m + 1 THEN n ELSE mark[k]]
  <1>3. n \in Nat
    OBVIOUS
  <1>4. /\ s \in Seq(ColumnNames) /\ t \in Seq(ColumnNames) /\ p.scans = s \o t
    BY CallIs DEF Plans
  <1>5. /\ b \in 0..n /\ mark[m + 1] = b + w /\ n = mark[m + 1] + v
        /\ \A j \in 1..w : columns[b + j] = s[j]
        /\ \A j \in 1..v : columns[mark[m + 1] + j] = t[j]
    <2>1. m \in 1..m + 1 /\ m + 1 \in 1..m + 1 /\ m \in 1..m + 2 /\ m + 1 + 1 = m + 2
      OBVIOUS
    <2>2. /\ mark \in [1..m + 2 -> 0..n] /\ mark[m + 2] = n
          /\ \A k \in 1..m + 1 :
                /\ mark[k + 1] = mark[k] + Len(cs[k].plan.scans)
                /\ \A j \in 1..Len(cs[k].plan.scans) :
                      columns[mark[k] + j] = cs[k].plan.scans[j]
      BY <1>2, <2>1 DEF Marks
    <2> HIDE DEF n
    <2> QED BY <2>1, <2>2
  <1>6. next \in [1..m + 1 -> 0..n]
    BY <1>2, <1>3 DEF Marks
  <1>7. /\ next[1] = 0 /\ next[m + 1] = n /\ next[m] = b
        /\ \A k \in 1..m - 1 : next[k] = mark[k] /\ next[k + 1] = mark[k + 1]
    BY <1>2 DEF Marks
  <1>7a. \A k \in 1..m + 1 : \A l \in 1..k : next[l] <= next[k]
    <2>1. /\ \A k \in 1..m : mark[k] \in 0..n
          /\ \A k \in 1..m : \A l \in 1..k : mark[l] <= mark[k]
      <3>1. \A k \in 1..m : k \in 1..m + 2
        OBVIOUS
      <3>2. /\ mark \in [1..m + 2 -> 0..n]
            /\ \A k \in 1..m + 2 : \A l \in 1..k : mark[l] <= mark[k]
        <4>1. m + 1 + 1 = m + 2
          OBVIOUS
        <4> QED BY <1>2, <4>1 DEF Marks
      <3> HIDE DEF n
      <3> QED BY <3>1, <3>2
    <2>2. \A k \in 1..m + 1 : next[k] = IF k = m + 1 THEN n ELSE mark[k]
      OBVIOUS
    <2> HIDE DEF next, n, s, t, b, w, v
    <2> QED BY <1>3, <2>1, <2>2, Ordered1
  <1> HIDE DEF next, n, s, t, b
  <1>8. /\ w \in Nat /\ v \in Nat /\ Len(p.scans) = w + v
        /\ \A j \in 1..w : p.scans[j] = s[j]
        /\ \A j \in 1..v : p.scans[w + j] = t[j]
    BY <1>4, OneAfterAnother
  <1> HIDE DEF w, v
  <1>9. ASSUME NEW k \in 1..m
        PROVE  /\ next[k + 1] = next[k] + Len(ds[k].plan.scans)
               /\ \A j \in 1..Len(ds[k].plan.scans) : columns[next[k] + j] = ds[k].plan.scans[j]
    <2>1. CASE k = m
      <3>1. ASSUME NEW j \in 1..w + v PROVE columns[b + j] = p.scans[j]
        <4>1. CASE j \in 1..w
          BY <1>5, <1>8, <4>1
        <4>2. CASE j \notin 1..w
          <5>1. j - w \in 1..v /\ w + (j - w) = j /\ mark[m + 1] + (j - w) = b + j
            BY <1>3, <1>5, <1>8, <4>2
          <5>2. p.scans[w + (j - w)] = t[j - w] /\ columns[mark[m + 1] + (j - w)] = t[j - w]
            BY <1>5, <1>8, <5>1
          <5> QED BY <5>1, <5>2
        <4> QED BY <4>1, <4>2
      <3>2. n = b + (w + v)
        BY <1>3, <1>5, <1>8
      <3> QED BY <1>1, <1>7, <1>8, <2>1, <3>1, <3>2
    <2>2. CASE k \in 1..m - 1
      <3>1. /\ ds[k] = cs[k] /\ next[k] = mark[k] /\ next[k + 1] = mark[k + 1]
            /\ k \in 1..Len(cs)
        BY <1>1, <1>7, <2>2
      <3> QED BY <1>2, <3>1 DEF Marks
    <2> QED BY <2>1, <2>2
  <1>10. Marks(next, ds, columns)
    BY <1>1, <1>6, <1>7, <1>7a, <1>9 DEF Marks, n
  <1> QED BY <1>10 DEF MarksOK

\* A column that is selected and scanned is one more on both sides.
LEMMA ColumnIsScanned ==
  ASSUME NEW all \in Seq(ColumnNames), NEW columns \in Seq(ColumnNames),
         NEW x \in ColumnNames, ScannedInto(all, columns)
  PROVE  ScannedInto(Append(all, x), Append(columns, x))
  <1> DEFINE n == Len(all)
             w == Len(columns)
             more == Append(all, x)
             cols == Append(columns, x)
  <1>1. /\ n \in Nat /\ Len(more) = n + 1 /\ more[n + 1] = x
        /\ \A j \in 1..n : more[j] = all[j]
        /\ w \in Nat /\ Len(cols) = w + 1 /\ cols[w + 1] = x
        /\ \A j \in 1..w : cols[j] = columns[j]
    OBVIOUS
  <1>2. /\ \A i \in 1..n : WithoutRecord(all, i) => i \in 1..w /\ columns[i] = all[i]
        /\ WithoutRecord(all, n) => w = n
    BY DEF ScannedInto
  <1> HIDE DEF n, w, more, cols
  <1>3. ASSUME NEW i \in 1..n + 1, WithoutRecord(more, i)
        PROVE  i \in 1..w + 1 /\ cols[i] = more[i]
    <2>1. CASE i \in 1..n
      <3>1. WithoutRecord(all, i)
        <4>1. \A k \in 1..i : k \in 1..n
          BY <1>1, <2>1
        <4> QED BY <1>1, <1>3, <4>1 DEF WithoutRecord
      <3> QED BY <1>1, <1>2, <2>1, <3>1
    <2>2. CASE i = n + 1
      <3>1. WithoutRecord(all, n)
        <4>1. \A k \in 1..n : k \in 1..i
          BY <1>1, <2>2
        <4> QED BY <1>1, <1>3, <4>1 DEF WithoutRecord
      <3> QED BY <1>1, <1>2, <2>2, <3>1
    <2> QED BY <1>1, <2>1, <2>2
  <1>4. ASSUME WithoutRecord(more, n + 1) PROVE w + 1 = n + 1
    <2>1. WithoutRecord(all, n)
      <3>1. \A k \in 1..n : k \in 1..n + 1
        BY <1>1
      <3> QED BY <1>1, <1>4, <3>1 DEF WithoutRecord
    <2> QED BY <1>1, <1>2, <2>1
  <1>5. ScannedInto(more, cols)
    BY <1>1, <1>3, <1>4 DEF ScannedInto
  <1> QED BY <1>5 DEF more, cols

\* A call for the columns of a record returns: its scans are given up for the
\* one of the record, after which nothing is said of any.
LEMMA ScansRecord ==
  ASSUME NEW cs, NEW ds, NEW all \in Seq(ColumnNames), NEW columns \in Seq(ColumnNames),
         NEW m \in Nat, NEW p, NEW x \in ColumnNames, x \in Records(Fields),
         Len(cs) = m + 1, m > 0, Advances(cs, ds, m, p), \A k \in 1..m : CallOK(cs[k]),
         MarksOK(cs, all), ScannedInto(all, columns),
         p.scans = Append(cs[m].plan.scans, x)
  PROVE  ScannedOK(ds, columns)
  <1> DEFINE n == Len(all)
             s == cs[m].plan.scans
             w == Len(s)
  <1>0. m \in 1..m /\ CallOK(cs[m])
    OBVIOUS
  <1>1. /\ ds[m].plan = p /\ Len(ds) = m /\ \A k \in 1..m - 1 : ds[k] = cs[k]
    BY <1>0, AdvancedIs DEF Advances, Follow
  <1>2. PICK mark : Marks(mark, cs, all)
    BY DEF MarksOK
  <1> DEFINE b == mark[m]
             e == mark[m + 1]
             kept == SubSeq(all, 1, e)
             less == Append(kept, x)
             next == [k \in 1..m + 1 |-> IF k = m + 1 THEN e + 1 ELSE mark[k]]
  <1>3. n \in Nat
    OBVIOUS
  <1>4. /\ s \in Seq(ColumnNames) /\ w \in Nat
        /\ Len(p.scans) = w + 1 /\ p.scans[w + 1] = x
        /\ \A j \in 1..w : p.scans[j] = s[j]
    BY <1>0, CallIs DEF Plans
  <1>5. /\ mark \in [1..m + 2 -> 0..n] /\ mark[1] = 0 /\ mark[m + 2] = n
        /\ \A k \in 1..m + 2 : \A l \in 1..k : mark[l] <= mark[k]
        /\ \A k \in 1..m + 1 :
              /\ mark[k + 1] = mark[k] + Len(cs[k].plan.scans)
              /\ \A j \in 1..Len(cs[k].plan.scans) : all[mark[k] + j] = cs[k].plan.scans[j]
    <2>1. m + 1 + 1 = m + 2
      OBVIOUS
    <2> HIDE DEF n
    <2> QED BY <1>2, <2>1 DEF Marks, n
  <1>6. /\ b \in 0..n /\ e \in 0..n /\ e = b + w
        /\ \A j \in 1..w : all[b + j] = s[j]
    <2>1. m \in 1..m + 1 /\ m \in 1..m + 2 /\ m + 1 \in 1..m + 2
      OBVIOUS
    <2> HIDE DEF n
    <2> QED BY <1>5, <2>1
  <1>7. /\ kept \in Seq(ColumnNames) /\ Len(kept) = e /\ \A j \in 1..e : kept[j] = all[j]
    BY <1>3, <1>6
  <1> HIDE DEF kept
  <1>8. /\ less \in Seq(ColumnNames) /\ Len(less) = e + 1 /\ less[e + 1] = x
        /\ \A j \in 1..e : less[j] = all[j]
    BY <1>3, <1>6, <1>7
  <1> HIDE DEF less
  <1>9. /\ next[1] = 0 /\ next[m + 1] = e + 1 /\ next[m] = b
        /\ \A k \in 1..m - 1 : next[k] = mark[k] /\ next[k + 1] = mark[k + 1]
    BY <1>5
  <1>10. /\ next \in [1..m + 1 -> 0..e + 1]
         /\ \A k \in 1..m + 1 : \A l \in 1..k : next[l] <= next[k]
    <2>1. /\ \A k \in 1..m : mark[k] \in 0..e
          /\ \A k \in 1..m : \A l \in 1..k : mark[l] <= mark[k]
      <3>1. \A k \in 1..m : k \in 1..m + 2 /\ k \in 1..m + 1
        OBVIOUS
      <3>2. m + 1 \in 1..m + 2
        OBVIOUS
      <3> HIDE DEF n, s, w
      <3>3. ASSUME NEW k \in 1..m PROVE mark[k] \in 0..n /\ mark[k] <= e
        <4>1. k \in 1..m + 1 /\ k \in 1..m + 2
          BY <3>1
        <4> QED BY <1>5, <3>2, <4>1
      <3>4. \A k \in 1..m : \A l \in 1..k : mark[l] <= mark[k]
        BY <1>5, <3>1
      <3>5. e \in 0..n
        BY <1>6
      <3> HIDE DEF e
      <3>6. \A k \in 1..m : mark[k] \in 0..e
        BY <1>3, <3>3, <3>5
      <3> QED BY <3>4, <3>6 DEF e
    <2>2. \A k \in 1..m + 1 : next[k] = IF k = m + 1 THEN e + 1 ELSE mark[k]
      OBVIOUS
    <2>3. next = [k \in 1..m + 1 |-> IF k = m + 1 THEN e + 1 ELSE mark[k]]
      OBVIOUS
    <2> HIDE DEF next, n, s, w, b
    <2>4. e \in Nat /\ e + 1 \in Nat /\ e <= e + 1
      BY <1>3, <1>6
    <2>5. \A k \in 1..m + 1 : next[k] \in 0..e + 1
      <3> SUFFICES ASSUME NEW k \in 1..m + 1 PROVE next[k] \in 0..e + 1
        OBVIOUS
      <3>1. CASE k = m + 1
        BY <2>2, <2>4, <3>1
      <3>2. CASE k # m + 1
        <4>1. k \in 1..m
          BY <3>2
        <4>2. next[k] = mark[k] /\ mark[k] \in 0..e
          BY <2>1, <2>2, <3>2, <4>1
        <4> HIDE DEF e
        <4> QED BY <2>4, <4>2
      <3> QED BY <3>1, <3>2
    <2>6. next \in [1..m + 1 -> 0..e + 1]
      BY <2>3, <2>5
    <2>7. \A k \in 1..m + 1 : \A l \in 1..k : next[l] <= next[k]
      <3> HIDE DEF e
      <3> QED BY <2>1, <2>2, <2>4, Ordered1
    <2> QED BY <2>6, <2>7
  <1> HIDE DEF next, n, s, w, b, e
  <1>11. ASSUME NEW k \in 1..m
         PROVE  /\ next[k + 1] = next[k] + Len(ds[k].plan.scans)
                /\ \A j \in 1..Len(ds[k].plan.scans) : less[next[k] + j] = ds[k].plan.scans[j]
    <2>1. CASE k = m
      <3>1. ASSUME NEW j \in 1..w + 1 PROVE less[b + j] = p.scans[j]
        <4>1. CASE j = w + 1
          <5>1. b + j = e + 1
            BY <1>3, <1>4, <1>6, <4>1
          <5> QED BY <1>4, <1>8, <4>1, <5>1
        <4>2. CASE j \in 1..w
          <5>1. b + j \in 1..e /\ all[b + j] = s[j]
            BY <1>3, <1>4, <1>6, <4>2
          <5> QED BY <1>4, <1>8, <4>2, <5>1
        <4> QED BY <1>4, <4>1, <4>2
      <3>2. w \in Nat /\ b \in Nat /\ e = b + w
        BY <1>3, <1>4, <1>6
      <3>3. e + 1 = b + (w + 1)
        BY <3>2
      <3> QED BY <1>1, <1>4, <1>9, <2>1, <3>1, <3>3
    <2>2. CASE k \in 1..m - 1
      <3>1. /\ ds[k] = cs[k] /\ next[k] = mark[k] /\ next[k + 1] = mark[k + 1]
        BY <1>1, <1>9, <2>2
      <3>2. /\ mark[k + 1] = mark[k] + Len(cs[k].plan.scans)
            /\ \A j \in 1..Len(cs[k].plan.scans) : all[mark[k] + j] = cs[k].plan.scans[j]
            /\ mark[k] \in 0..n /\ mark[k + 1] \in 0..n /\ mark[k + 1] <= e
        <4>1. /\ k \in 1..m + 1 /\ k \in 1..m + 2 /\ k + 1 \in 1..m + 2
              /\ k + 1 \in 1..m + 1 /\ m + 1 \in 1..m + 2
          BY <2>2
        <4> QED BY <1>5, <4>1 DEF e
      <3>3. ASSUME NEW j \in 1..Len(cs[k].plan.scans)
            PROVE  less[mark[k] + j] = cs[k].plan.scans[j]
        <4> DEFINE u == Len(cs[k].plan.scans)
                   a == mark[k]
        <4>1. a \in 0..n /\ a + u \in 0..n /\ a + u <= e /\ j \in 1..u /\ u \in Nat
          <5>1. cs[k].plan.scans \in Seq(ColumnNames)
            <6>1. k \in 1..m
              BY <2>2
            <6> QED BY <6>1, CallIs DEF Plans
          <5> QED BY <3>2, <5>1
        <4> HIDE DEF a, u
        <4>2. a + j \in 1..e
          BY <1>3, <1>6, <4>1
        <4> QED BY <1>8, <3>2, <4>2 DEF a
      <3> QED BY <3>1, <3>2, <3>3
    <2> QED BY <2>1, <2>2
  <1>12. Marks(next, ds, less)
    BY <1>1, <1>8, <1>9, <1>10, <1>11 DEF Marks
  <1>13. ScannedInto(less, columns)
    <2>1. /\ \A i \in 1..n : WithoutRecord(all, i) =>
                i \in 1..Len(columns) /\ columns[i] = all[i]
      BY DEF ScannedInto, n
    <2>2. e \in Nat /\ e <= n
      BY <1>3, <1>6
    <2>3. ~WithoutRecord(less, e + 1)
      <3>1. e + 1 \in 1..e + 1
        BY <2>2
      <3> QED BY <1>8, <3>1 DEF WithoutRecord
    <2>4. ASSUME NEW i \in 1..e + 1, WithoutRecord(less, i)
          PROVE  i \in 1..Len(columns) /\ columns[i] = less[i]
      <3>1. i \in 1..e /\ i \in 1..n
        BY <1>3, <2>2, <2>3, <2>4
      <3>2. WithoutRecord(all, i)
        <4>1. \A k \in 1..i : k \in 1..e
          BY <2>2, <3>1
        <4> QED BY <1>8, <2>4, <4>1 DEF WithoutRecord
      <3> QED BY <1>8, <2>1, <3>1, <3>2
    <2> QED BY <1>8, <2>3, <2>4 DEF ScannedInto
  <1> QED BY <1>8, <1>12, <1>13 DEF ScannedOK, MarksOK

\* When one call is left, its scans are the columns.
LEMMA ScansAll ==
  ASSUME NEW cs, NEW columns \in Seq(ColumnNames), Len(cs) = 1, CallOK(cs[1]),
         MarksOK(cs, columns)
  PROVE  cs[1].plan.scans = columns
  <1> DEFINE s == cs[1].plan.scans
  <1>1. s \in Seq(ColumnNames)
    BY CallIs DEF Plans
  <1>2. PICK mark : Marks(mark, cs, columns)
    BY DEF MarksOK
  <1>3. mark[1] = 0 /\ mark[2] = Len(columns) /\ mark[2] = mark[1] + Len(s)
        /\ \A j \in 1..Len(s) : columns[mark[1] + j] = s[j]
    BY <1>2 DEF Marks
  <1> HIDE DEF s
  <1>4. Len(s) \in Nat /\ Len(columns) \in Nat /\ Len(s) = Len(columns)
    BY <1>1, <1>3
  <1>5. \A j \in 1..Len(s) : columns[j] = s[j]
    <2> SUFFICES ASSUME NEW j \in 1..Len(s) PROVE columns[j] = s[j]
      OBVIOUS
    <2>1. 0 + j = j
      OBVIOUS
    <2> QED BY <1>3, <2>1
  <1> QED BY <1>1, <1>4, <1>5 DEF s

-----------------------------------------------------------------------------
(* The steps of Columns *)

CallsInv(cs, names, columns, busy) ==
    /\ FramesOK(cs, names, busy)
    /\ PlansOK(cs, names)
    /\ TakenOK(cs, names, busy)
    /\ NeedsOK(cs, names)
    /\ ScannedOK(cs, columns)

LEMMA CallsAre ==
  ASSUME NEW cs, NEW names, NEW busy, FramesOK(cs, names, busy)
  PROVE  LET n == Len(cs)
         IN  n \in Nat /\ n > 0 /\ n \in 1..n /\ \A k \in 1..n : CallOK(cs[k])
  <1>1. /\ cs \in Seq({cs[k] : k \in DOMAIN cs}) /\ cs # <<>>
        /\ \A k \in 1..Len(cs) : CallOK(cs[k])
    BY DEF FramesOK, AreCalls
  <1>2. Len(cs) \in Nat /\ Len(cs) > 0
    BY <1>1
  <1> QED BY <1>1, <1>2

\* The innermost call goes on with nothing more to calculate.
LEMMA SamePlans ==
  ASSUME NEW cs, NEW ds, NEW m, NEW p, m = Len(cs), CallOK(cs[m]),
         Advances(cs, ds, m, p), p.calcs = cs[m].plan.calcs, NEW x
  PROVE  Planned(ds, x, m) <=> Planned(cs, x, m)
  <1>1. m \in Nat /\ m \in 1..m /\ m > 0 /\ Follow(cs, ds, m, Advanced(cs[m], p))
        /\ Advanced(cs[m], p).plan = p
    BY AdvancedIs DEF Advances, Follow
  <1>2. Planned(ds, x, m) <=> (Planned(cs, x, m - 1) \/ x \in ToSet(p.calcs))
    BY <1>1, PlannedBelow
  <1>3. Planned(cs, x, m) <=> (Planned(cs, x, m - 1) \/ x \in ToSet(p.calcs))
    <2>1. \A k \in 1..m : k = m \/ k \in 1..m - 1
      BY <1>1
    <2>2. \A k \in 1..m - 1 : k \in 1..m
      BY <1>1
    <2> QED BY <1>1, <2>1, <2>2 DEF Planned
  <1> QED BY <1>2, <1>3

LEMMA SkipCalls ==
  ASSUME NEW cs, NEW ds, NEW names, NEW columns \in Seq(ColumnNames),
         CallsInv(cs, names, columns, FALSE),
         Advances(cs, ds, Len(cs), cs[Len(cs)].plan),
         cs[Len(cs)].at <= Len(cs[Len(cs)].fields),
         NameAt(cs[Len(cs)]) \in ToSet(names)
  PROVE  CallsInv(ds, names, columns, FALSE)
  <1> DEFINE n == Len(cs)
             p == cs[n].plan
  <1>1. /\ n \in Nat /\ n > 0 /\ n \in 1..n /\ \A k \in 1..n : CallOK(cs[k])
        /\ FramesOK(cs, names, FALSE) /\ PlansOK(cs, names) /\ TakenOK(cs, names, FALSE)
        /\ NeedsOK(cs, names)
    BY CallsAre DEF CallsInv
  <1>2. Advances(cs, ds, n, p) /\ CallOK(cs[n])
    BY <1>1
  <1>3. \A x : Planned(ds, x, n) <=> Planned(cs, x, n)
    BY <1>2, SamePlans
  <1>4. FramesOK(ds, names, FALSE)
    BY <1>1, <1>2, AdvanceFrames
  <1>5. PlansOK(ds, names)
    <2>1. \A i \in DOMAIN p.calcs :
            /\ p.calcs[i] \in DOMAIN Fields
            /\ p.calcs[i] \in Calcs => \A x \in ToSet(Fields[p.calcs[i]].needs) :
                  /\ x \in ToSet(names)
                  /\ x \in Calcs => \/ Planned(cs, x, n - 1)
                                    \/ \E j \in 1..i - 1 : p.calcs[j] = x
      BY <1>1 DEF PlansOK
    <2> HIDE DEF p, n
    <2> QED BY <1>1, <1>2, <2>1, AdvancePlans
  <1>6. TakenOK(ds, names, FALSE)
    <2>1. \A k \in n..Len(cs) : ~Open(cs, FALSE, k)
      BY <1>1 DEF Open
    <2> QED BY <1>1, <1>2, <1>3, <2>1, AdvanceTaken
  <1>7. NeedsOK(ds, names)
    <2>1. ASSUME n > 1, CalcCall(cs[n - 1], cs[n]), NameAt(cs[n]) \in Calcs
          PROVE  Planned(ds, NameAt(cs[n]), n)
      <3>1. \/ Planned(cs, NameAt(cs[n]), n)
            \/ \E k \in 1..n : Open(cs, FALSE, k) /\ NameAt(cs[k]) = NameAt(cs[n])
        BY <1>1, <2>1 DEF TakenOK
      <3>2. ASSUME NEW k \in 1..n, Open(cs, FALSE, k), NameAt(cs[k]) = NameAt(cs[n]) PROVE FALSE
        <4>1. k \in 1..Len(cs) - 1
          BY <1>1, <3>2 DEF Open
        <4> QED BY <1>1, <2>1, <3>2, <4>1, NotInACircle
      <3> QED BY <1>3, <3>1, <3>2
    <2> QED BY <1>1, <1>2, <1>3, <2>1, AdvanceNeeds
  <1>8. ScannedOK(ds, columns)
    <2>1. PICK all \in Seq(ColumnNames) : MarksOK(cs, all) /\ ScannedInto(all, columns)
      BY DEF CallsInv, ScannedOK
    <2>2. MarksOK(ds, all)
      BY <1>1, <1>2, <2>1, ScansAdvance
    <2> QED BY <2>1, <2>2 DEF ScannedOK
  <1> QED BY <1>4, <1>5, <1>6, <1>7, <1>8 DEF CallsInv

LEMMA ColumnCalls ==
  ASSUME NEW cs, NEW ds, NEW names, NEW columns \in Seq(ColumnNames), NEW p \in Plans,
         CallsInv(cs, names, columns, TRUE), Advances(cs, ds, Len(cs), p),
         cs[Len(cs)].table[NameAt(cs[Len(cs)])].kind = "column",
         p.calcs = cs[Len(cs)].plan.calcs,
         p.scans = Append(cs[Len(cs)].plan.scans, NameAt(cs[Len(cs)]))
  PROVE  CallsInv(ds, names, Append(columns, NameAt(cs[Len(cs)])), FALSE)
  <1> DEFINE n == Len(cs)
             name == NameAt(cs[n])
  <1>1. /\ n \in Nat /\ n > 0 /\ n \in 1..n /\ \A k \in 1..n : CallOK(cs[k])
        /\ FramesOK(cs, names, TRUE) /\ PlansOK(cs, names) /\ TakenOK(cs, names, TRUE)
        /\ NeedsOK(cs, names)
    BY CallsAre DEF CallsInv
  <1>2. Advances(cs, ds, n, p) /\ CallOK(cs[n])
    BY <1>1
  <1>3. \A x : Planned(ds, x, n) <=> Planned(cs, x, n)
    BY <1>2, SamePlans
  <1>4. /\ name \in ToSet(names) /\ name \in DOMAIN cs[n].table
        /\ cs[n].at <= Len(cs[n].fields)
    BY <1>1 DEF FramesOK, Open
  <1>5. name \notin Calcs /\ name \in ColumnNames
    BY <1>2, <1>4, ColumnNotCalc, CallIs
  <1>6. FramesOK(ds, names, FALSE)
    BY <1>1, <1>2, AdvanceFrames
  <1>7. PlansOK(ds, names)
    <2>1. \A i \in DOMAIN p.calcs :
            /\ p.calcs[i] \in DOMAIN Fields
            /\ p.calcs[i] \in Calcs => \A x \in ToSet(Fields[p.calcs[i]].needs) :
                  /\ x \in ToSet(names)
                  /\ x \in Calcs => \/ Planned(cs, x, n - 1)
                                    \/ \E j \in 1..i - 1 : p.calcs[j] = x
      BY <1>1 DEF PlansOK
    <2> HIDE DEF n
    <2> QED BY <1>1, <1>2, <2>1, AdvancePlans
  <1>8. TakenOK(ds, names, FALSE)
    <2>1. \A k \in n..Len(cs) : k = n
      BY <1>1
    <2> QED BY <1>1, <1>2, <1>3, <1>5, <2>1, AdvanceTaken
  <1>9. NeedsOK(ds, names)
    BY <1>1, <1>2, <1>3, <1>4, <1>5, AdvanceNeeds
  <1>10. ScannedOK(ds, Append(columns, name))
    <2>1. PICK all \in Seq(ColumnNames) : MarksOK(cs, all) /\ ScannedInto(all, columns)
      BY DEF CallsInv, ScannedOK
    <2> HIDE DEF n, name
    <2>2. p.scans = Append(cs[n].plan.scans, name) /\ n = Len(cs)
      BY DEF n, name
    <2>3. MarksOK(ds, Append(all, name))
      BY <1>1, <1>2, <1>5, <2>1, <2>2, ScansColumn
    <2>4. ScannedInto(Append(all, name), Append(columns, name))
      BY <1>5, <2>1, ColumnIsScanned
    <2>5. Append(all, name) \in Seq(ColumnNames)
      BY <1>5
    <2> QED BY <2>3, <2>4, <2>5 DEF ScannedOK
  <1> QED BY <1>6, <1>7, <1>8, <1>9, <1>10 DEF CallsInv

LEMMA PushCalls ==
  ASSUME NEW cs, NEW ds, NEW names, NEW columns \in Seq(ColumnNames), NEW d,
         CallsInv(cs, names, columns, TRUE), Follow(cs, ds, Len(cs) + 1, d),
         CallOK(d), d.at = 1, d.plan = NoPlan,
         CalcCall(cs[Len(cs)], d) \/ RecordCall(cs[Len(cs)], d)
  PROVE  CallsInv(ds, names, columns, FALSE)
  <1>1. d.plan.calcs = <<>> /\ d.plan.scans = <<>>
    BY DEF NoPlan
  <1>2. /\ FramesOK(ds, names, FALSE) /\ PlansOK(ds, names)
        /\ TakenOK(ds, names, FALSE) /\ NeedsOK(ds, names)
    BY <1>1, PushKeeps DEF CallsInv
  <1>3. Len(cs) \in Nat
    BY DEF CallsInv, FramesOK, AreCalls
  <1>4. ScannedOK(ds, columns)
    <2>1. PICK all \in Seq(ColumnNames) : MarksOK(cs, all) /\ ScannedInto(all, columns)
      BY DEF CallsInv, ScannedOK
    <2>2. MarksOK(ds, all)
      BY <1>1, <1>3, <2>1, ScansPush
    <2> QED BY <2>1, <2>2 DEF ScannedOK
  <1> QED BY <1>2, <1>4 DEF CallsInv

LEMMA TakeCalls ==
  ASSUME NEW cs, NEW names, NEW columns, NEW more,
         CallsInv(cs, names, columns, FALSE),
         NameAt(cs[Len(cs)]) \in DOMAIN cs[Len(cs)].table,
         cs[Len(cs)].at <= Len(cs[Len(cs)].fields),
         ToSet(more) = ToSet(names) \cup {NameAt(cs[Len(cs)])}
  PROVE  CallsInv(cs, more, columns, TRUE)
  <1>1. /\ FramesOK(cs, more, TRUE) /\ PlansOK(cs, more)
        /\ TakenOK(cs, more, TRUE) /\ NeedsOK(cs, more)
    BY TakeKeeps DEF CallsInv
  <1> QED BY <1>1 DEF CallsInv

LEMMA PlannedAt ==
  ASSUME NEW cs, NEW l \in Nat, l > 0, NEW x
  PROVE  Planned(cs, x, l) <=> (Planned(cs, x, l - 1) \/ x \in ToSet(cs[l].plan.calcs))
  <1>1. \A k \in 1..l : k = l \/ k \in 1..l - 1
    OBVIOUS
  <1>2. l \in 1..l /\ \A k \in 1..l - 1 : k \in 1..l
    OBVIOUS
  <1> QED BY <1>1, <1>2 DEF Planned

\* Two sequences and one element more.
LEMMA BothAndOne ==
  ASSUME NEW S, NEW s \in Seq(S), NEW t \in Seq(S), NEW x \in S
  PROVE  LET u == s \o t \o <<x>>
         IN  /\ u \in Seq(S) /\ Len(s) \in Nat /\ Len(t) \in Nat
             /\ DOMAIN u = 1..Len(s) + Len(t) + 1
             /\ \A i \in 1..Len(s) : u[i] = s[i]
             /\ \A i \in 1..Len(t) : u[Len(s) + i] = t[i]
             /\ u[Len(s) + Len(t) + 1] = x
  <1> DEFINE st == s \o t
             one == <<x>>
  <1>1. /\ st \in Seq(S) /\ Len(s) \in Nat /\ Len(t) \in Nat /\ Len(st) = Len(s) + Len(t)
        /\ \A i \in 1..Len(s) : st[i] = s[i]
        /\ \A i \in 1..Len(t) : st[Len(s) + i] = t[i]
    BY OneAfterAnother
  <1>2. one \in Seq(S) /\ Len(one) = 1 /\ one[1] = x
    OBVIOUS
  <1> HIDE DEF st, one
  <1>3. /\ st \o one \in Seq(S) /\ DOMAIN (st \o one) = 1..Len(st) + 1
        /\ \A i \in 1..Len(st) : (st \o one)[i] = st[i]
        /\ (st \o one)[Len(st) + 1] = x
    <2>1. /\ st \o one \in Seq(S) /\ DOMAIN (st \o one) = 1..Len(st) + Len(one)
          /\ \A i \in 1..Len(st) : (st \o one)[i] = st[i]
          /\ \A i \in 1..Len(one) : (st \o one)[Len(st) + i] = one[i]
      <3>1. st \in Seq(S) /\ one \in Seq(S)
        BY <1>1, <1>2
      <3> QED BY <3>1, OneAfterAnother
    <2> QED BY <1>2, <2>1
  <1>4. /\ \A i \in 1..Len(s) : i \in 1..Len(st)
        /\ \A i \in 1..Len(t) : Len(s) + i \in 1..Len(st)
    <2> DEFINE a == Len(s)
               b == Len(t)
    <2>1. a \in Nat /\ b \in Nat /\ Len(st) = a + b
      BY <1>1
    <2> HIDE DEF a, b
    <2>2. /\ \A i \in 1..a : i \in 1..a + b
          /\ \A i \in 1..b : a + i \in 1..a + b
      BY <2>1
    <2> QED BY <2>1, <2>2 DEF a, b
  <1>5. /\ \A i \in 1..Len(s) : (st \o one)[i] = s[i]
        /\ \A i \in 1..Len(t) : (st \o one)[Len(s) + i] = t[i]
    BY <1>1, <1>3, <1>4
  <1>6. /\ DOMAIN (st \o one) = 1..Len(s) + Len(t) + 1
        /\ (st \o one)[Len(s) + Len(t) + 1] = x
    BY <1>1, <1>3
  <1> QED BY <1>1, <1>3, <1>5, <1>6 DEF st, one

\* Where the calls are when one returns to the one below.
LEMMA ReturnFrom ==
  ASSUME NEW cs, NEW names, NEW m \in Nat, m > 0, Len(cs) = m + 1, FramesOK(cs, names, FALSE)
  PROVE  /\ m \in 1..Len(cs) /\ m + 1 \in 1..Len(cs) /\ m + 1 - 1 = m
         /\ CallOK(cs[m]) /\ CallOK(cs[m + 1])
         /\ NameAt(cs[m]) \in ToSet(names) /\ NameAt(cs[m]) \in DOMAIN cs[m].table
         /\ cs[m].at <= Len(cs[m].fields)
         /\ CalcCall(cs[m], cs[m + 1]) \/ RecordCall(cs[m], cs[m + 1])
         /\ m > 1 => CalcCall(cs[m - 1], cs[m])
  <1>1. m \in 1..Len(cs) /\ m + 1 \in 1..Len(cs) /\ m \in 1..Len(cs) - 1 /\ m < Len(cs)
    OBVIOUS
  <1>2. Open(cs, FALSE, m)
    BY <1>1 DEF Open
  <1>3. /\ NameAt(cs[m]) \in ToSet(names) /\ NameAt(cs[m]) \in DOMAIN cs[m].table
        /\ cs[m].at <= Len(cs[m].fields)
    BY <1>1, <1>2 DEF FramesOK
  <1>4. CalcCall(cs[m], cs[m + 1]) \/ RecordCall(cs[m], cs[m + 1])
    BY <1>1 DEF FramesOK
  <1>5. ASSUME m > 1 PROVE CalcCall(cs[m - 1], cs[m])
    <2>1. m - 1 \in 1..Len(cs) - 1 /\ m - 1 + 1 = m /\ m # Len(cs)
      BY <1>5
    <2> QED BY <2>1 DEF FramesOK
  <1>6. CallOK(cs[m]) /\ CallOK(cs[m + 1])
    BY <1>1 DEF FramesOK
  <1> QED BY <1>1, <1>3, <1>4, <1>5, <1>6

\* What c makes of the plan of a call d for what a calculated field needs.
CalcPlan(p, c, d) ==
    /\ p.scans = c.plan.scans \o d.plan.scans
    /\ p.calcs = c.plan.calcs \o d.plan.calcs \o <<NameAt(c)>>

\* A call for what a calculated field needs returns.
LEMMA CalcReturns ==
  ASSUME NEW cs, NEW ds, NEW names, NEW columns \in Seq(ColumnNames), NEW m \in Nat, m > 0,
         Len(cs) = m + 1, CallsInv(cs, names, columns, FALSE),
         CalcCall(cs[m], cs[m + 1]), cs[m + 1].at > Len(cs[m + 1].fields),
         NEW p, CalcPlan(p, cs[m], cs[m + 1]),
         Advances(cs, ds, m, p)
  PROVE  CallsInv(ds, names, columns, FALSE)
  <1> DEFINE s == cs[m].plan.calcs
             t == cs[m + 1].plan.calcs
             name == NameAt(cs[m])
             a == Len(s)
             b == Len(t)
             u == p.calcs
  <1>1. /\ FramesOK(cs, names, FALSE) /\ PlansOK(cs, names) /\ TakenOK(cs, names, FALSE)
        /\ NeedsOK(cs, names)
    BY DEF CallsInv
  <1>2. /\ m \in 1..Len(cs) /\ m + 1 \in 1..Len(cs) /\ m + 1 - 1 = m
        /\ CallOK(cs[m]) /\ CallOK(cs[m + 1])
        /\ name \in ToSet(names) /\ name \in DOMAIN cs[m].table
        /\ cs[m].at <= Len(cs[m].fields)
        /\ m > 1 => CalcCall(cs[m - 1], cs[m])
    BY <1>1, ReturnFrom
  <1>3. name \in Calcs /\ name \in DOMAIN Fields /\ name \in ColumnNames
    BY <1>2, CallIs DEF CalcCall, Calcs
  <1>4. /\ s \in Seq(ColumnNames) /\ t \in Seq(ColumnNames)
        /\ p.scans = cs[m].plan.scans \o cs[m + 1].plan.scans
        /\ u = s \o t \o <<name>>
    BY <1>2, CallIs DEF Plans, CalcPlan
  <1> HIDE DEF s, t, u, name
  <1>5. /\ a \in Nat /\ b \in Nat /\ DOMAIN u = 1..a + b + 1
        /\ \A i \in 1..a : u[i] = s[i]
        /\ \A i \in 1..b : u[a + i] = t[i]
        /\ u[a + b + 1] = name
        /\ DOMAIN s = 1..a /\ DOMAIN t = 1..b
    <2>1. DOMAIN s = 1..a /\ DOMAIN t = 1..b
      BY <1>4
    <2> QED BY <1>3, <1>4, <2>1, BothAndOne
  <1> HIDE DEF a, b
  <1>6. /\ \A x \in ToSet(s) : \E j \in 1..a : u[j] = x
        /\ \A x \in ToSet(t) : \E j \in 1..a + b : u[j] = x
    <2>1. \A x \in ToSet(s) : \E j \in 1..a : u[j] = x
      BY <1>5 DEF ToSet
    <2>2. ASSUME NEW x \in ToSet(t) PROVE \E j \in 1..a + b : u[j] = x
      <3>1. PICK j \in 1..b : t[j] = x
        BY <1>5 DEF ToSet
      <3>2. a + j \in 1..a + b
        BY <1>5
      <3> QED BY <1>5, <3>1, <3>2
    <2> QED BY <2>1, <2>2
  <1>7. /\ ToSet(s) \subseteq ToSet(u) /\ ToSet(t) \subseteq ToSet(u) /\ name \in ToSet(u)
    <2>1. a + b + 1 \in DOMAIN u /\ (\A j \in 1..a : j \in DOMAIN u)
          /\ (\A j \in 1..a + b : j \in DOMAIN u)
      BY <1>5
    <2> QED BY <1>5, <1>6, <2>1 DEF ToSet
  <1>8. \A x : /\ Planned(cs, x, m) <=> (Planned(cs, x, m - 1) \/ x \in ToSet(s))
               /\ Planned(cs, x, m + 1) <=> (Planned(cs, x, m) \/ x \in ToSet(t))
               /\ Planned(ds, x, m) <=> (Planned(cs, x, m - 1) \/ x \in ToSet(u))
    <2> TAKE x
    <2>1. Planned(cs, x, m) <=> (Planned(cs, x, m - 1) \/ x \in ToSet(s))
      BY PlannedAt DEF s
    <2>2. Planned(cs, x, m + 1) <=> (Planned(cs, x, m) \/ x \in ToSet(t))
      <3>1. m + 1 \in Nat /\ m + 1 > 0 /\ m + 1 - 1 = m
        OBVIOUS
      <3> QED BY <3>1, PlannedAt DEF t
    <2>3. Planned(ds, x, m) <=> (Planned(cs, x, m - 1) \/ x \in ToSet(u))
      <3>1. Follow(cs, ds, m, Advanced(cs[m], p)) /\ Advanced(cs[m], p).plan = p
        BY <1>2, AdvancedIs DEF Advances
      <3> QED BY <3>1, PlannedBelow DEF u
    <2> QED BY <2>1, <2>2, <2>3
  <1>9. \A x : Planned(cs, x, m + 1) => Planned(ds, x, m)
    BY <1>7, <1>8
  <1>10. FramesOK(ds, names, FALSE)
    <2>1. m > 1 /\ ~CalcCall(cs[m - 1], cs[m]) => m = Len(cs) /\ p.calcs = cs[m].plan.calcs
      BY <1>2
    <2>2. FramesOK(cs, names, FALSE)
      BY <1>1
    <2> QED BY <2>1, <2>2, AdvanceFrames
  <1>15. \A i \in DOMAIN u : i \in 1..a \/ i \in a + 1..a + b \/ i = a + b + 1
    <2>1. a \in Nat /\ b \in Nat /\ DOMAIN u = 1..a + b + 1
      BY <1>5
    <2>2. \A i \in 1..a + b + 1 : i \in 1..a \/ i \in a + 1..a + b \/ i = a + b + 1
      BY <2>1
    <2> QED BY <2>1, <2>2
  <1>11. PlansOK(ds, names)
    <2>1. ASSUME NEW i \in DOMAIN u, u[i] \in Calcs, NEW x \in ToSet(Fields[u[i]].needs)
          PROVE  /\ x \in ToSet(names)
                 /\ x \in Calcs => \/ Planned(cs, x, m - 1)
                                   \/ \E j \in 1..i - 1 : u[j] = x
      <3>1. CASE i \in 1..a
        <4>1. /\ x \in ToSet(names)
              /\ x \in Calcs => \/ Planned(cs, x, m - 1)
                                \/ \E j \in 1..i - 1 : s[j] = x
          <5>1. u[i] = s[i] /\ i \in DOMAIN s
            BY <1>5, <3>1
          <5> QED BY <1>1, <1>2, <2>1, <5>1 DEF PlansOK, s
        <4>2. \A j \in 1..i - 1 : u[j] = s[j]
          BY <1>5, <3>1
        <4> QED BY <4>1, <4>2
      <3>2. CASE i \in a + 1..a + b
        <4> DEFINE h == i - a
        <4>1. h \in 1..b /\ a + h = i
          BY <1>5, <3>2
        <4> HIDE DEF h
        <4>2. u[i] = t[h]
          BY <1>5, <4>1
        <4>3. /\ x \in ToSet(names)
              /\ x \in Calcs => \/ Planned(cs, x, m)
                                \/ \E j \in 1..h - 1 : t[j] = x
          <5>1. h \in DOMAIN t
            BY <1>5, <4>1
          <5> QED BY <1>1, <1>2, <2>1, <4>2, <5>1 DEF PlansOK, t
        <4>4. \A j \in 1..h - 1 : a + j \in 1..i - 1 /\ u[a + j] = t[j]
          <5> SUFFICES ASSUME NEW j \in 1..h - 1 PROVE a + j \in 1..i - 1 /\ u[a + j] = t[j]
            OBVIOUS
          <5>1. a + j \in 1..i - 1 /\ j \in 1..b
            BY <1>5, <4>1
          <5> QED BY <1>5, <5>1
        <4>5. \A j \in 1..a : j \in 1..i - 1
          BY <1>5, <4>1
        <4> QED BY <1>6, <1>8, <4>3, <4>4, <4>5
      <3>3. CASE i = a + b + 1
        <4>1. u[i] = name /\ 1..i - 1 = 1..a + b /\ \A j \in 1..a : j \in 1..a + b
          BY <1>5, <3>3
        <4>2. Past(cs[m], cs[m + 1], x)
          <5> DEFINE needs == Fields[NameAt(cs[m])].needs
          <5>1. /\ DOMAIN needs = 1..Len(needs) /\ Len(needs) \in Nat
                /\ Len(cs[m + 1].fields) = Len(needs)
            BY <1>2, NeedAt
          <5>2. cs[m + 1].at \in Nat
            BY <1>2, CallIs
          <5>3. x \in ToSet(needs)
            BY <2>1, <4>1 DEF name
          <5> HIDE DEF needs
          <5>4. PICK j \in 1..Len(needs) : needs[j] = x
            BY <5>1, <5>3 DEF ToSet
          <5>5. j < cs[m + 1].at /\ j \in DOMAIN needs
            BY <5>1, <5>2
          <5> QED BY <5>4, <5>5 DEF Past, needs
        <4>3. m \in 1..Len(cs) - 1
          OBVIOUS
        <4>4. /\ x \in ToSet(names)
              /\ x \in Calcs => Planned(cs, x, m + 1)
          BY <1>1, <4>2, <4>3 DEF NeedsOK
        <4> QED BY <1>6, <1>8, <4>1, <4>4
      <3> QED BY <1>15, <3>1, <3>2, <3>3
    <2>2. ASSUME NEW i \in DOMAIN u PROVE u[i] \in DOMAIN Fields
      <3>1. CASE i \in 1..a
        <4>1. u[i] = s[i] /\ i \in DOMAIN s
          BY <1>5, <3>1
        <4> QED BY <1>1, <1>2, <4>1 DEF PlansOK, s
      <3>2. CASE i \in a + 1..a + b
        <4>1. i - a \in 1..b /\ a + (i - a) = i
          BY <1>5, <3>2
        <4>2. u[i] = t[i - a] /\ i - a \in DOMAIN t
          BY <1>5, <4>1
        <4> QED BY <1>1, <1>2, <4>2 DEF PlansOK, t
      <3>3. CASE i = a + b + 1
        BY <1>3, <1>5, <3>3
      <3> QED BY <1>15, <3>1, <3>2, <3>3
    <2>3. Len(cs) \in Nat
      OBVIOUS
    <2> QED BY <1>1, <1>2, <2>1, <2>2, <2>3, AdvancePlans DEF u
  <1>12. TakenOK(ds, names, FALSE)
    <2>1. ASSUME NEW k \in m..Len(cs), Open(cs, FALSE, k), NameAt(cs[k]) \in Calcs
          PROVE  Planned(ds, NameAt(cs[k]), m)
      <3>1. k = m
        BY <2>1 DEF Open
      <3> QED BY <1>7, <1>8, <3>1 DEF name
    <2>2. Len(cs) \in Nat /\ \A x : Planned(cs, x, Len(cs)) => Planned(ds, x, m)
      BY <1>9
    <2> QED BY <1>1, <2>1, <2>2, AdvanceTaken
  <1>13. NeedsOK(ds, names)
    <2>1. \A x : Planned(cs, x, m) => Planned(ds, x, m)
      BY <1>8, <1>9
    <2>2. Planned(ds, NameAt(cs[m]), m) /\ NameAt(cs[m]) \in ToSet(names)
      BY <1>2, <1>7, <1>8 DEF name
    <2>3. Len(cs) \in Nat
      OBVIOUS
    <2> QED BY <1>1, <1>2, <2>1, <2>2, <2>3, AdvanceNeeds
  <1>14. ScannedOK(ds, columns)
    <2>1. PICK all \in Seq(ColumnNames) : MarksOK(cs, all) /\ ScannedInto(all, columns)
      BY DEF CallsInv, ScannedOK
    <2>2. MarksOK(ds, all)
      BY <1>2, <1>4, <2>1, ScansPop
    <2> QED BY <2>1, <2>2 DEF ScannedOK
  <1> QED BY <1>10, <1>11, <1>12, <1>13, <1>14 DEF CallsInv

\* A call for the columns of a record returns.
LEMMA RecordReturns ==
  ASSUME NEW cs, NEW ds, NEW names, NEW columns \in Seq(ColumnNames), NEW m \in Nat, m > 0,
         Len(cs) = m + 1, CallsInv(cs, names, columns, FALSE), RecordCall(cs[m], cs[m + 1]),
         NEW p, p.calcs = Append(cs[m].plan.calcs, NameAt(cs[m])),
         p.scans = Append(cs[m].plan.scans, NameAt(cs[m])),
         Advances(cs, ds, m, p)
  PROVE  CallsInv(ds, names, columns, FALSE)
  <1> DEFINE s == cs[m].plan.calcs
             name == NameAt(cs[m])
             a == Len(s)
             u == p.calcs
  <1>1. /\ FramesOK(cs, names, FALSE) /\ PlansOK(cs, names) /\ TakenOK(cs, names, FALSE)
        /\ NeedsOK(cs, names)
    BY DEF CallsInv
  <1>2. /\ m \in 1..Len(cs) /\ m + 1 \in 1..Len(cs) /\ m + 1 - 1 = m
        /\ CallOK(cs[m]) /\ CallOK(cs[m + 1])
        /\ name \in ToSet(names) /\ name \in DOMAIN cs[m].table
        /\ cs[m].at <= Len(cs[m].fields)
        /\ m > 1 => CalcCall(cs[m - 1], cs[m])
    BY <1>1, ReturnFrom
  <1>3. /\ name \in Records(Fields) /\ name \notin Calcs
        /\ name \in DOMAIN Fields /\ name \in ColumnNames
    BY <1>2, CallIs DEF RecordCall, Records, Calcs
  <1>4. s \in Seq(ColumnNames) /\ u = Append(s, name)
    BY <1>2, CallIs DEF Plans
  <1> HIDE DEF s, u, name
  <1>5. /\ a \in Nat /\ DOMAIN u = 1..a + 1 /\ DOMAIN s = 1..a
        /\ \A i \in 1..a : u[i] = s[i]
        /\ u[a + 1] = name
    BY <1>3, <1>4
  <1> HIDE DEF a
  <1>6. ToSet(s) \subseteq ToSet(u)
    <2>1. \A j \in 1..a : j \in DOMAIN u
      BY <1>5
    <2> QED BY <1>5, <2>1 DEF ToSet
  <1>7. \A x : /\ Planned(cs, x, m) <=> (Planned(cs, x, m - 1) \/ x \in ToSet(s))
               /\ Planned(cs, x, m + 1) <=> Planned(cs, x, m)
               /\ Planned(ds, x, m) <=> (Planned(cs, x, m - 1) \/ x \in ToSet(u))
    <2> TAKE x
    <2>1. Planned(cs, x, m) <=> (Planned(cs, x, m - 1) \/ x \in ToSet(s))
      BY PlannedAt DEF s
    <2>2. Planned(cs, x, m + 1) <=> Planned(cs, x, m)
      <3>1. m + 1 \in Nat /\ m + 1 > 0 /\ m + 1 - 1 = m
        OBVIOUS
      <3>2. ToSet(cs[m + 1].plan.calcs) = {}
        BY DEF RecordCall, ToSet
      <3> QED BY <3>1, <3>2, PlannedAt
    <2>3. Planned(ds, x, m) <=> (Planned(cs, x, m - 1) \/ x \in ToSet(u))
      <3>1. Follow(cs, ds, m, Advanced(cs[m], p)) /\ Advanced(cs[m], p).plan = p
        BY <1>2, AdvancedIs DEF Advances
      <3> QED BY <3>1, PlannedBelow DEF u
    <2> QED BY <2>1, <2>2, <2>3
  <1>8. \A x : Planned(cs, x, m + 1) => Planned(ds, x, m)
    BY <1>6, <1>7
  <1>9. FramesOK(ds, names, FALSE)
    <2>1. m > 1 /\ ~CalcCall(cs[m - 1], cs[m]) => m = Len(cs) /\ p.calcs = cs[m].plan.calcs
      BY <1>2
    <2> QED BY <1>1, <2>1, AdvanceFrames
  <1>10. PlansOK(ds, names)
    <2>1. ASSUME NEW i \in DOMAIN u
          PROVE  /\ u[i] \in DOMAIN Fields
                 /\ u[i] \in Calcs => \A x \in ToSet(Fields[u[i]].needs) :
                       /\ x \in ToSet(names)
                       /\ x \in Calcs => \/ Planned(cs, x, m - 1)
                                         \/ \E j \in 1..i - 1 : u[j] = x
      <3>1. CASE i \in 1..a
        <4>1. u[i] = s[i] /\ i \in DOMAIN s /\ \A j \in 1..i - 1 : u[j] = s[j]
          BY <1>5, <3>1
        <4>2. /\ s[i] \in DOMAIN Fields
              /\ s[i] \in Calcs => \A x \in ToSet(Fields[s[i]].needs) :
                    /\ x \in ToSet(names)
                    /\ x \in Calcs => \/ Planned(cs, x, m - 1)
                                      \/ \E j \in 1..i - 1 : s[j] = x
          BY <1>1, <1>2, <4>1 DEF PlansOK, s
        <4> QED BY <4>1, <4>2
      <3>2. CASE i = a + 1
        BY <1>3, <1>5, <3>2
      <3>3. i \in 1..a \/ i = a + 1
        BY <1>5
      <3> QED BY <3>1, <3>2, <3>3
    <2>2. Len(cs) \in Nat
      OBVIOUS
    <2> QED BY <1>1, <1>2, <2>1, <2>2, AdvancePlans DEF u
  <1>11. TakenOK(ds, names, FALSE)
    <2>1. ASSUME NEW k \in m..Len(cs), Open(cs, FALSE, k), NameAt(cs[k]) \in Calcs
          PROVE  Planned(ds, NameAt(cs[k]), m)
      <3>1. k = m
        BY <2>1 DEF Open
      <3> QED BY <1>3, <2>1, <3>1 DEF name
    <2>2. Len(cs) \in Nat /\ \A x : Planned(cs, x, Len(cs)) => Planned(ds, x, m)
      BY <1>8
    <2> QED BY <1>1, <2>1, <2>2, AdvanceTaken
  <1>12. NeedsOK(ds, names)
    <2>1. \A x : Planned(cs, x, m) => Planned(ds, x, m)
      BY <1>7, <1>8
    <2>2. NameAt(cs[m]) \notin Calcs /\ NameAt(cs[m]) \in ToSet(names)
      BY <1>2, <1>3 DEF name
    <2>3. Len(cs) \in Nat
      OBVIOUS
    <2> QED BY <1>1, <1>2, <2>1, <2>2, <2>3, AdvanceNeeds
  <1>13. ScannedOK(ds, columns)
    <2>1. PICK all \in Seq(ColumnNames) : MarksOK(cs, all) /\ ScannedInto(all, columns)
      BY DEF CallsInv, ScannedOK
    <2>2. p.scans = Append(cs[m].plan.scans, name)
      BY DEF name
    <2>3. \A k \in 1..m : CallOK(cs[k])
      <3>1. \A k \in 1..m : k \in 1..Len(cs)
        OBVIOUS
      <3> QED BY <1>1, <3>1 DEF FramesOK
    <2> QED BY <1>3, <2>1, <2>2, <2>3, ScansRecord
  <1> QED BY <1>9, <1>10, <1>11, <1>12, <1>13 DEF CallsInv

\* What the plan of all has to be.
PlanScans(plan, names, columns) ==
    /\ plan \in Plans
    /\ ScannedInto(plan.scans, columns)
    /\ \A i \in DOMAIN plan.calcs : Fields[plan.calcs[i]].kind = "calc" =>
          \A j \in DOMAIN Fields[plan.calcs[i]].needs :
              LET x == Fields[plan.calcs[i]].needs[j]
              IN  /\ x \in ToSet(names)
                  /\ Fields[x].kind = "calc" => \E k \in 1..i - 1 : plan.calcs[k] = x

\* The outermost call has returned.
LEMMA AllReturned ==
  ASSUME NEW cs, NEW names, NEW columns \in Seq(ColumnNames), Len(cs) = 1,
         CallsInv(cs, names, columns, FALSE)
  PROVE  PlanScans(cs[1].plan, names, columns)
  <1>1. FramesOK(cs, names, FALSE) /\ PlansOK(cs, names) /\ CallOK(cs[1]) /\ 1 \in 1..Len(cs)
    BY CallsAre DEF CallsInv
  <1>2. cs[1].plan \in Plans
    BY <1>1, CallIs
  <1>3. ScannedInto(cs[1].plan.scans, columns)
    <2>1. PICK all \in Seq(ColumnNames) : MarksOK(cs, all) /\ ScannedInto(all, columns)
      BY DEF CallsInv, ScannedOK
    <2>2. cs[1].plan.scans = all
      BY <1>1, <2>1, ScansAll
    <2> QED BY <2>1, <2>2
  <1>4. ASSUME NEW i \in DOMAIN cs[1].plan.calcs, Fields[cs[1].plan.calcs[i]].kind = "calc",
               NEW j \in DOMAIN Fields[cs[1].plan.calcs[i]].needs
        PROVE  LET x == Fields[cs[1].plan.calcs[i]].needs[j]
               IN  /\ x \in ToSet(names)
                   /\ Fields[x].kind = "calc" => \E k \in 1..i - 1 : cs[1].plan.calcs[k] = x
    <2> DEFINE y == cs[1].plan.calcs[i]
               x == Fields[y].needs[j]
    <2>1. y \in DOMAIN Fields /\ y \in Calcs /\ x \in ToSet(Fields[y].needs)
      BY <1>1, <1>4 DEF PlansOK, Calcs, ToSet
    <2>2. x \in DOMAIN Fields
      BY <2>1, NeedsAssumption
    <2>3. /\ x \in ToSet(names)
          /\ x \in Calcs => \/ Planned(cs, x, 1 - 1)
                            \/ \E k \in 1..i - 1 : cs[1].plan.calcs[k] = x
      BY <1>1, <1>4, <2>1 DEF PlansOK
    <2>4. ~Planned(cs, x, 1 - 1)
      BY DEF Planned
    <2> QED BY <2>2, <2>3, <2>4 DEF Calcs
  <1> QED BY <1>2, <1>3, <1>4 DEF PlanScans

-----------------------------------------------------------------------------
(* The joins of a SELECT *)

\* The alias a is on the left of one of S, and besides in a list of w or on the
\* left of another.
Twice(w, S, a) ==
    \E x \in S :
        /\ a \in ToSet(Deps[x])
        /\ \/ \E n \in DOMAIN w : a \in ToSet(w[n])
           \/ \E y \in S \ {x} : a \in ToSet(Deps[y])

\* A table is joined after its left unless that is needed twice.
InOrder(joins, w) ==
    \A k \in DOMAIN joins : \A left \in ToSet(Deps[joins[k]]) :
        \/ \E j \in 1..k - 1 : joins[j] = left
        \/ left \in DOMAIN Deps /\ Twice(w, ToSet(joins), left)

\* What is joined is joined once.
JoinedOK == IsInjective(select.joins) /\ InOrder(select.joins, select.wanted)

\* Each alias found was wanted, or is on the left of one found before; its own
\* left is to be resolved yet, is joined already, was found later, or is needed
\* twice.
FoundOK ==
    LET found == join.found
        joined == ToSet(select.joins)
    IN  /\ IsInjective(found)
        /\ \A i \in DOMAIN found : found[i] \notin joined
        /\ \A i \in DOMAIN found :
              \/ found[i] \in ToSet(join.aliases)
              \/ \E l \in 1..i - 1 : found[i] \in ToSet(Deps[found[l]])
        /\ \A a \in ToSet(join.todo) :
              \/ a \in ToSet(join.aliases)
              \/ \E l \in DOMAIN found : a \in ToSet(Deps[found[l]])
        /\ \A i \in DOMAIN found : \A left \in ToSet(Deps[found[i]]) :
              \/ left \in ToSet(join.todo) \cup joined
              \/ \E j \in DOMAIN found : j > i /\ found[j] = left
              \/ /\ left \in DOMAIN Deps
                 /\ Twice(Append(select.wanted, join.aliases), joined \cup ToSet(found), left)

JoinTypeOK ==
    /\ join \in [aliases : Seq(STRING), todo : Seq(STRING), found : Seq(DOMAIN Deps)]
    /\ select \in [names : Seq(ColumnNames), columns : Seq(ColumnNames),
                   joins : Seq(DOMAIN Deps), wanted : Seq(Seq(STRING))]

JoinInv ==
    /\ JoinTypeOK
    /\ JoinedOK
    /\ making = "join" => FoundOK

LEMMA TwiceGrows ==
  ASSUME NEW w, NEW v, NEW S, NEW T, NEW a, Twice(w, S, a), S \subseteq T,
         \A n \in DOMAIN w : n \in DOMAIN v /\ v[n] = w[n]
  PROVE  Twice(v, T, a)
  <1>1. PICK x \in S : /\ a \in ToSet(Deps[x])
                       /\ \/ \E n \in DOMAIN w : a \in ToSet(w[n])
                          \/ \E y \in S \ {x} : a \in ToSet(Deps[y])
    BY DEF Twice
  <1>2. x \in T
    BY <1>1
  <1>3. CASE \E n \in DOMAIN w : a \in ToSet(w[n])
    <2>1. \E n \in DOMAIN v : a \in ToSet(v[n])
      BY <1>3
    <2> QED BY <1>1, <1>2, <2>1 DEF Twice
  <1>4. CASE \E y \in S \ {x} : a \in ToSet(Deps[y])
    <2>1. \E y \in T \ {x} : a \in ToSet(Deps[y])
      BY <1>4
    <2> QED BY <1>1, <1>2, <2>1 DEF Twice
  <1> QED BY <1>1, <1>3, <1>4

LEMMA FiniteElements ==
  ASSUME NEW S, NEW s \in Seq(S)
  PROVE  IsFiniteSet(ToSet(s)) /\ IsFiniteSet(DOMAIN s)
  <1>1. DOMAIN s = 1..Len(s) /\ Len(s) \in Nat
    OBVIOUS
  <1>2. IsFiniteSet(DOMAIN s)
    BY <1>1, FS_Interval
  <1>3. s \in Surjection(DOMAIN s, ToSet(s))
    BY <1>1 DEF Surjection, ToSet
  <1> QED BY <1>2, <1>3, FS_Surjection

\* How many a set has at least.
LEMMA AtLeast ==
  ASSUME NEW S, IsFiniteSet(S), NEW x \in S
  PROVE  /\ Cardinality(S) \in Nat /\ Cardinality(S) >= 1
         /\ \A y \in S : x # y => Cardinality(S) >= 2
  <1>1. Cardinality(S) \in Nat
    BY FS_CardinalityType
  <1>2. IsFiniteSet({x}) /\ Cardinality({x}) = 1
    BY FS_Singleton
  <1>3. Cardinality({x}) <= Cardinality(S)
    <2>1. {x} \in SUBSET S
      OBVIOUS
    <2> QED BY <2>1, FS_Subset
  <1>4. ASSUME NEW y \in S, x # y PROVE Cardinality(S) >= 2
    <2>1. IsFiniteSet({x} \cup {y}) /\ Cardinality({x} \cup {y}) = 2
      <3> DEFINE P == {x}
      <3>1. y \notin P
        BY <1>4
      <3>2. IsFiniteSet(P) /\ Cardinality(P) = 1
        BY <1>2
      <3> HIDE DEF P
      <3>3. IsFiniteSet(P \cup {y}) /\ Cardinality(P \cup {y}) = Cardinality(P) + 1
        BY <3>1, <3>2, FS_AddElement
      <3> QED BY <3>2, <3>3 DEF P
    <2>2. ({x} \cup {y}) \in SUBSET S
      OBVIOUS
    <2>3. Cardinality({x} \cup {y}) <= Cardinality(S)
      BY <2>2, FS_Subset
    <2> QED BY <1>1, <2>1, <2>3
  <1> QED BY <1>1, <1>2, <1>3, <1>4

\* What Twice finds is what NeededTwice counts.
LEMMA TwiceCounts ==
  ASSUME JoinTypeOK, NEW a \in DOMAIN Deps, Twice(select.wanted, ToSet(select.joins), a)
  PROVE  NeededTwice
  <1> DEFINE lists == {n \in DOMAIN select.wanted : a \in ToSet(select.wanted[n])}
             rights == {other \in ToSet(select.joins) : a \in ToSet(Deps[other])}
  <1>1. /\ select.wanted \in Seq(Seq(STRING)) /\ select.joins \in Seq(DOMAIN Deps)
    BY DEF JoinTypeOK
  <1>2. IsFiniteSet(lists)
    <2>1. IsFiniteSet(DOMAIN select.wanted) /\ lists \in SUBSET DOMAIN select.wanted
      BY <1>1, FiniteElements
    <2> QED BY <2>1, FS_Subset
  <1>3. IsFiniteSet(rights)
    <2>1. IsFiniteSet(ToSet(select.joins)) /\ rights \in SUBSET ToSet(select.joins)
      BY <1>1, FiniteElements
    <2> QED BY <2>1, FS_Subset
  <1>4. PICK x \in ToSet(select.joins) :
            /\ a \in ToSet(Deps[x])
            /\ \/ \E n \in DOMAIN select.wanted : a \in ToSet(select.wanted[n])
               \/ \E y \in ToSet(select.joins) \ {x} : a \in ToSet(Deps[y])
    BY DEF Twice
  <1>5. Cardinality(lists) \in Nat /\ Cardinality(rights) \in Nat
    BY <1>2, <1>3, FS_CardinalityType
  <1>6. x \in rights /\ Cardinality(rights) >= 1
    <2>1. x \in rights
      BY <1>4
    <2> QED BY <1>3, <2>1, AtLeast
  <1>7. Cardinality(lists) + Cardinality(rights) > 1
    <2>1. CASE \E n \in DOMAIN select.wanted : a \in ToSet(select.wanted[n])
      <3>1. PICK n \in lists : TRUE
        BY <2>1
      <3>2. Cardinality(lists) >= 1
        BY <1>2, <3>1, AtLeast
      <3> HIDE DEF lists, rights
      <3> QED BY <1>5, <1>6, <3>2
    <2>2. CASE \E y \in ToSet(select.joins) \ {x} : a \in ToSet(Deps[y])
      <3>1. PICK y \in rights : x # y
        BY <2>2
      <3>2. Cardinality(rights) >= 2
        BY <1>3, <1>6, <3>1, AtLeast
      <3> HIDE DEF lists, rights
      <3> QED BY <1>5, <3>2
    <2> QED BY <1>4, <2>1, <2>2
  <1> QED BY <1>7 DEF NeededTwice

LEMMA JoinsInOrder ==
  ASSUME JoinTypeOK, JoinedOK
  PROVE  JoinsFollowLeft
  <1>1. ASSUME ~NeededTwice, NEW i \in DOMAIN select.joins,
               NEW left \in ToSet(Deps[select.joins[i]])
        PROVE  \E j \in 1..i - 1 : select.joins[j] = left
    BY <1>1, TwiceCounts DEF JoinedOK, InOrder
  <1> QED BY <1>1 DEF JoinsFollowLeft, JoinedOK

LEMMA ElementsOfBoth ==
  ASSUME NEW S, NEW s \in Seq(S), NEW t \in Seq(S)
  PROVE  ToSet(s \o t) = ToSet(s) \cup ToSet(t)
  <1>1. /\ Len(s) \in Nat /\ Len(t) \in Nat /\ Len(s \o t) = Len(s) + Len(t)
        /\ DOMAIN s = 1..Len(s) /\ DOMAIN t = 1..Len(t) /\ DOMAIN (s \o t) = 1..Len(s \o t)
        /\ \A k \in 1..Len(s) : (s \o t)[k] = s[k]
        /\ \A k \in 1..Len(t) : (s \o t)[k + Len(s)] = t[k]
    OBVIOUS
  <1>2. ASSUME NEW k \in 1..Len(s \o t) PROVE (s \o t)[k] \in ToSet(s) \cup ToSet(t)
    <2>1. CASE k <= Len(s)
      BY <1>1, <2>1 DEF ToSet
    <2>2. CASE k > Len(s)
      <3>1. k - Len(s) \in 1..Len(t) /\ (s \o t)[k] = t[k - Len(s)]
        BY <1>1, <2>2
      <3> QED BY <1>1, <3>1 DEF ToSet
    <2> QED BY <1>1, <2>1, <2>2
  <1>3. \A k \in 1..Len(s) : s[k] \in ToSet(s \o t)
    BY <1>1 DEF ToSet
  <1>4. ASSUME NEW k \in 1..Len(t) PROVE t[k] \in ToSet(s \o t)
    <2>1. k + Len(s) \in 1..Len(s \o t)
      BY <1>1
    <2> QED BY <1>1, <2>1 DEF ToSet
  <1> QED BY <1>1, <1>2, <1>3, <1>4 DEF ToSet

LEMMA ResolveJoin ==
  ASSUME JoinInv, Resolve
  PROVE  JoinInv'
  <1> DEFINE a == Head(join.todo)
             rest == Tail(join.todo)
             found == join.found
             joined == ToSet(select.joins)
             wanted == Append(select.wanted, join.aliases)
  <1>1. /\ making = "join" /\ join.todo # <<>> /\ select' = select
        /\ JoinTypeOK /\ JoinedOK /\ FoundOK
    BY DEF JoinInv, Resolve
  <1>2. /\ join \in [aliases : Seq(STRING), todo : Seq(STRING), found : Seq(DOMAIN Deps)]
        /\ join.todo \in Seq(STRING) /\ found \in Seq(DOMAIN Deps) /\ rest \in Seq(STRING)
        /\ a \in ToSet(join.todo)
    BY <1>1 DEF JoinTypeOK, ToSet
  <1>3. ToSet(join.todo) = {a} \cup ToSet(rest)
    <2>1. join.todo = <<a>> \o rest
      BY <1>1, <1>2
    <2>2. /\ Len(join.todo) = 1 + Len(rest) /\ Len(rest) \in Nat /\ join.todo[1] = a
          /\ \A k \in 1..Len(rest) : join.todo[k + 1] = rest[k]
      BY <1>1, <1>2
    <2>3. \A k \in 1..Len(join.todo) : k = 1 \/ (k - 1 \in 1..Len(rest) /\ join.todo[k] = rest[k - 1])
      BY <2>2
    <2>4. DOMAIN join.todo = 1..Len(join.todo) /\ DOMAIN rest = 1..Len(rest)
      BY <1>2
    <2>5. ToSet(join.todo) \subseteq {a} \cup ToSet(rest)
      <3> SUFFICES ASSUME NEW k \in 1..Len(join.todo) PROVE join.todo[k] \in {a} \cup ToSet(rest)
        BY <2>4 DEF ToSet
      <3> HIDE DEF a, rest
      <3> QED BY <2>2, <2>3, <2>4 DEF ToSet
    <2>6. ToSet(rest) \subseteq ToSet(join.todo)
      <3> SUFFICES ASSUME NEW k \in 1..Len(rest) PROVE rest[k] \in ToSet(join.todo)
        BY <2>4 DEF ToSet
      <3>1. k + 1 \in 1..Len(join.todo) /\ join.todo[k + 1] = rest[k]
        BY <2>2
      <3> QED BY <2>4, <3>1 DEF ToSet
    <2> QED BY <2>5, <2>6, <1>2
  <1>4. JoinedOK'
    BY <1>1 DEF JoinedOK, InOrder, Twice
  <1>5. CASE /\ a \in joined \cup ToSet(found)
             /\ join' = [join EXCEPT !.todo = rest]
    <2>1. /\ join'.todo = rest /\ join'.found = found /\ join'.aliases = join.aliases
          /\ JoinTypeOK'
      BY <1>1, <1>2, <1>5 DEF JoinTypeOK
    <2>2. ASSUME NEW i \in DOMAIN found, NEW left \in ToSet(Deps[found[i]])
          PROVE  \/ left \in ToSet(rest) \cup joined
                 \/ \E j \in DOMAIN found : j > i /\ found[j] = left
                 \/ left \in DOMAIN Deps /\ Twice(wanted, joined \cup ToSet(found), left)
      <3>1. CASE left # a
        BY <1>1, <1>3, <3>1 DEF FoundOK
      <3>2. CASE left = a /\ a \in joined
        BY <3>2
      <3>3. CASE left = a /\ a \in ToSet(found)
        <4>1. PICK j \in DOMAIN found : found[j] = a
          BY <3>3 DEF ToSet
        <4>2. DOMAIN found = 1..Len(found) /\ Len(found) \in Nat /\ i \in Nat /\ j \in Nat
          BY <1>2
        <4>3. CASE j > i
          BY <3>3, <4>1, <4>3
        <4>4. CASE j <= i
          <5>1. found[i] \in ToSet(found) /\ a \in DOMAIN Deps
            BY <1>2, <4>1 DEF ToSet
          <5>2. CASE a \in ToSet(join.aliases)
            <6>1. /\ Len(select.wanted) + 1 \in DOMAIN wanted
                  /\ wanted[Len(select.wanted) + 1] = join.aliases
              BY <1>1 DEF JoinTypeOK
            <6>2. \E n \in DOMAIN wanted : a \in ToSet(wanted[n])
              BY <5>2, <6>1
            <6> HIDE DEF wanted, a
            <6> QED BY <3>3, <5>1, <6>2 DEF Twice
          <5>3. CASE \E l \in 1..j - 1 : a \in ToSet(Deps[found[l]])
            <6>1. PICK l \in 1..j - 1 : a \in ToSet(Deps[found[l]])
              BY <5>3
            <6>2. l \in DOMAIN found /\ l # i
              BY <4>2, <4>4, <6>1
            <6>3. found[l] \in ToSet(found) /\ found[l] # found[i]
              BY <1>1, <6>2 DEF FoundOK, IsInjective, ToSet
            <6> HIDE DEF wanted, a
            <6> QED BY <3>3, <5>1, <6>1, <6>3 DEF Twice
          <5> QED BY <1>1, <4>1, <5>2, <5>3 DEF FoundOK
        <4> QED BY <4>2, <4>3, <4>4
      <3> QED BY <1>5, <3>1, <3>2, <3>3
    <2>3. FoundOK'
      <3>1. \A b \in ToSet(rest) : \/ b \in ToSet(join.aliases)
                                   \/ \E l \in DOMAIN found : b \in ToSet(Deps[found[l]])
        BY <1>1, <1>3 DEF FoundOK
      <3> QED BY <1>1, <2>1, <2>2, <3>1 DEF FoundOK, Twice
    <2> QED BY <2>1, <2>3, <1>4 DEF JoinInv
  <1>6. CASE /\ making' = "refused" /\ join' = join
    BY <1>1, <1>4, <1>6 DEF JoinInv, JoinTypeOK
  <1>7. CASE /\ a \in DOMAIN Deps \ (joined \cup ToSet(found))
             /\ join' = [join EXCEPT !.todo = Deps[a] \o rest, !.found = Append(@, a)]
    <2> DEFINE more == Append(found, a)
               todo == Deps[a] \o rest
               n == Len(found)
    <2>1. /\ join'.todo = todo /\ join'.found = more /\ join'.aliases = join.aliases
          /\ JoinTypeOK'
      <3>1. Deps[a] \in Seq(STRING)
        BY <1>7, SchemaAssumption
      <3>2. todo \in Seq(STRING) /\ more \in Seq(DOMAIN Deps)
        BY <3>1, <1>2, <1>7
      <3> HIDE DEF todo, more
      <3>3. join' = [join EXCEPT !.todo = todo, !.found = more]
        BY <1>7 DEF todo, more
      <3> QED BY <1>1, <1>2, <3>2, <3>3 DEF JoinTypeOK
    <2>2. /\ DOMAIN found = 1..n /\ n \in Nat /\ DOMAIN more = 1..n + 1
          /\ more[n + 1] = a
          /\ \A k \in 1..n : more[k] = found[k]
      BY <1>2
    <2>3. ToSet(more) = ToSet(found) \cup {a}
      BY <2>2 DEF ToSet
    <2>4. ToSet(todo) = ToSet(Deps[a]) \cup ToSet(rest)
      <3>1. Deps[a] \in Seq(STRING)
        BY <1>7, SchemaAssumption
      <3> QED BY <1>2, <3>1, ElementsOfBoth
    <2>5. /\ IsInjective(more)
          /\ \A i \in DOMAIN more : more[i] \notin joined
      <3>1. \A i \in 1..n : found[i] # a /\ found[i] \notin joined
        BY <1>1, <1>7, <2>2 DEF FoundOK, ToSet
      <3>2. \A i, j \in 1..n : found[i] = found[j] => i = j
        BY <1>1, <2>2 DEF FoundOK, IsInjective
      <3> HIDE DEF more, a
      <3> QED BY <1>7, <2>2, <3>1, <3>2 DEF IsInjective
    <2>6. ASSUME NEW i \in DOMAIN more
          PROVE  \/ more[i] \in ToSet(join.aliases)
                 \/ \E l \in 1..i - 1 : more[i] \in ToSet(Deps[more[l]])
      <3>1. CASE i \in 1..n
        <4>1. \/ found[i] \in ToSet(join.aliases)
              \/ \E l \in 1..i - 1 : found[i] \in ToSet(Deps[found[l]])
          BY <1>1, <2>2, <3>1 DEF FoundOK
        <4>2. \A l \in 1..i - 1 : l \in 1..n
          BY <2>2, <3>1
        <4> HIDE DEF more
        <4> QED BY <2>2, <3>1, <4>1, <4>2
      <3>2. CASE i = n + 1
        <4>1. \/ a \in ToSet(join.aliases)
              \/ \E l \in 1..n : a \in ToSet(Deps[found[l]])
          BY <1>1, <1>2, <2>2 DEF FoundOK
        <4>2. 1..i - 1 = 1..n
          BY <2>2, <3>2
        <4> HIDE DEF more, a
        <4> QED BY <2>2, <3>2, <4>1, <4>2
      <3> QED BY <2>2, <3>1, <3>2
    <2>7. ASSUME NEW b \in ToSet(todo)
          PROVE  \/ b \in ToSet(join.aliases)
                 \/ \E l \in DOMAIN more : b \in ToSet(Deps[more[l]])
      <3>1. CASE b \in ToSet(Deps[a])
        <4>1. n + 1 \in DOMAIN more /\ more[n + 1] = a
          BY <2>2
        <4> HIDE DEF more, a
        <4> QED BY <3>1, <4>1
      <3>2. CASE b \in ToSet(rest)
        <4>1. \/ b \in ToSet(join.aliases)
              \/ \E l \in 1..n : b \in ToSet(Deps[found[l]])
          BY <1>1, <1>3, <2>2, <3>2 DEF FoundOK
        <4> HIDE DEF more, a
        <4> QED BY <2>2, <4>1
      <3> QED BY <2>4, <3>1, <3>2
    <2>8. ASSUME NEW i \in DOMAIN more, NEW left \in ToSet(Deps[more[i]])
          PROVE  \/ left \in ToSet(todo) \cup joined
                 \/ \E j \in DOMAIN more : j > i /\ more[j] = left
                 \/ left \in DOMAIN Deps /\ Twice(wanted, joined \cup ToSet(more), left)
      <3>1. CASE i = n + 1
        <4>1. more[i] = a
          BY <2>2, <3>1
        <4> HIDE DEF more, todo, a
        <4> QED BY <2>4, <4>1
      <3>2. CASE i \in 1..n /\ left = a
        <4>1. n + 1 \in DOMAIN more /\ more[n + 1] = a /\ n + 1 > i
          BY <2>2, <3>2
        <4> HIDE DEF more, a
        <4> QED BY <3>2, <4>1
      <3>3. CASE i \in 1..n /\ left # a
        <4>1. more[i] = found[i] /\ i \in DOMAIN found
          BY <2>2, <3>3
        <4>2. \/ left \in ToSet(join.todo) \cup joined
              \/ \E j \in DOMAIN found : j > i /\ found[j] = left
              \/ left \in DOMAIN Deps /\ Twice(wanted, joined \cup ToSet(found), left)
          BY <1>1, <2>8, <4>1 DEF FoundOK
        <4>3. CASE left \in ToSet(join.todo) \cup joined
          <5> HIDE DEF todo, a, rest
          <5> QED BY <1>3, <2>4, <3>3, <4>3
        <4>4. CASE \E j \in DOMAIN found : j > i /\ found[j] = left
          <5> HIDE DEF more
          <5> QED BY <2>2, <4>4
        <4>5. CASE left \in DOMAIN Deps /\ Twice(wanted, joined \cup ToSet(found), left)
          <5>1. joined \cup ToSet(found) \subseteq joined \cup ToSet(more)
            BY <2>3
          <5>2. Twice(wanted, joined \cup ToSet(more), left)
            <6> HIDE DEF wanted, joined, more
            <6> QED BY <4>5, <5>1, TwiceGrows
          <5> QED BY <4>5, <5>2
        <4> QED BY <4>2, <4>3, <4>4, <4>5
      <3> QED BY <2>2, <3>1, <3>2, <3>3
    <2>9. FoundOK'
      <3> HIDE DEF more, todo, a
      <3> QED BY <1>1, <2>1, <2>5, <2>6, <2>7, <2>8 DEF FoundOK, Twice
    <2> QED BY <2>1, <2>9, <1>4 DEF JoinInv
  <1> QED BY <1>1, <1>5, <1>6, <1>7 DEF Resolve

\* An order from the last to the first.
LEMMA ReverseIs ==
  ASSUME NEW S, NEW s \in Seq(S)
  PROVE  /\ Reverse(s) \in Seq(S) /\ Len(Reverse(s)) = Len(s)
         /\ \A k \in 1..Len(s) : Reverse(s)[k] = s[Len(s) - k + 1]
  <1>1. Len(s) \in Nat /\ \A k \in 1..Len(s) : s[k] \in S
    OBVIOUS
  <1>2. \A k \in 1..Len(s) : Len(s) - k + 1 \in 1..Len(s)
    BY <1>1
  <1>3. Reverse(s) \in [1..Len(s) -> S]
    BY <1>1, <1>2 DEF Reverse
  <1> QED BY <1>1, <1>2, <1>3 DEF Reverse

\* The tables in the order they were found in: the left of each is joined
\* already, was found later, or is needed twice.
AsFound(found, joins, w) ==
    \A i \in DOMAIN found : \A left \in ToSet(Deps[found[i]]) :
        \/ left \in ToSet(joins)
        \/ \E j \in DOMAIN found : j > i /\ found[j] = left
        \/ left \in DOMAIN Deps /\ Twice(w, ToSet(joins) \cup ToSet(found), left)

LEMMA OrderAfter ==
  ASSUME NEW S, NEW joins \in Seq(S), NEW found \in Seq(S)
  PROVE  LET all == joins \o JoinOrder(found)
             n == Len(joins)
             m == Len(found)
         IN  /\ all \in Seq(S) /\ DOMAIN all = 1..n + m
             /\ \A k \in 1..n : all[k] = joins[k]
             /\ \A k \in 1..m : all[n + k] = found[m - k + 1]
  <1> DEFINE order == JoinOrder(found)
  <1>1. /\ order \in Seq(S) /\ Len(order) = Len(found)
        /\ \A k \in 1..Len(found) : order[k] = found[Len(found) - k + 1]
    BY ReverseIs DEF JoinOrder
  <1> HIDE DEF order
  <1>2. /\ joins \o order \in Seq(S) /\ DOMAIN (joins \o order) = 1..Len(joins) + Len(order)
        /\ \A k \in 1..Len(joins) : (joins \o order)[k] = joins[k]
        /\ \A k \in 1..Len(order) : (joins \o order)[Len(joins) + k] = order[k]
    <2>1. order \in Seq(S)
      BY <1>1
    <2> QED BY <2>1, OneAfterAnother
  <1> QED BY <1>1, <1>2 DEF order

\* The tables that were found are joined after those that are, the last first.
LEMMA JoinedAfter ==
  ASSUME NEW joins \in Seq(DOMAIN Deps), NEW found \in Seq(DOMAIN Deps),
         NEW w, NEW v, \A i \in DOMAIN w : i \in DOMAIN v /\ v[i] = w[i],
         IsInjective(joins), IsInjective(found),
         \A i \in DOMAIN found : found[i] \notin ToSet(joins),
         InOrder(joins, w), AsFound(found, joins, v)
  PROVE  LET all == joins \o JoinOrder(found)
         IN  all \in Seq(DOMAIN Deps) /\ IsInjective(all) /\ InOrder(all, v)
  <1> DEFINE all == joins \o JoinOrder(found)
             n == Len(joins)
             m == Len(found)
  <1>1. /\ n \in Nat /\ n = Len(joins) /\ DOMAIN joins = 1..n
        /\ m \in Nat /\ m = Len(found) /\ DOMAIN found = 1..m
    OBVIOUS
  <1>2. /\ all \in Seq(DOMAIN Deps) /\ DOMAIN all = 1..n + m
        /\ \A k \in 1..n : all[k] = joins[k]
        /\ \A k \in 1..m : all[n + k] = found[m - k + 1]
    BY OrderAfter
  <1> HIDE DEF all, n, m
  <1>3. \A i \in 1..m : n + (m - i + 1) \in 1..n + m /\ all[n + (m - i + 1)] = found[i]
    <2> SUFFICES ASSUME NEW i \in 1..m
                 PROVE  n + (m - i + 1) \in 1..n + m /\ all[n + (m - i + 1)] = found[i]
      OBVIOUS
    <2>1. m - i + 1 \in 1..m /\ m - (m - i + 1) + 1 = i /\ n + (m - i + 1) \in 1..n + m
      BY <1>1
    <2>2. all[n + (m - i + 1)] = found[m - (m - i + 1) + 1]
      BY <1>2, <2>1
    <2> QED BY <2>1, <2>2
  <1>4. \A k \in 1..n + m : k \in 1..n \/ \E i \in 1..m : k = n + (m - i + 1)
    <2> SUFFICES ASSUME NEW k \in 1..n + m, k \notin 1..n
                 PROVE  \E i \in 1..m : k = n + (m - i + 1)
      OBVIOUS
    <2>1. n + m - k + 1 \in 1..m /\ k = n + (m - (n + m - k + 1) + 1)
      BY <1>1
    <2> QED BY <2>1
  <1>5. ToSet(all) = ToSet(joins) \cup ToSet(found)
    <2>1. ASSUME NEW k \in 1..n + m PROVE all[k] \in ToSet(joins) \cup ToSet(found)
      <3>1. CASE k \in 1..n
        BY <1>1, <1>2, <3>1 DEF ToSet
      <3>2. CASE \E i \in 1..m : k = n + (m - i + 1)
        BY <1>1, <1>3, <3>2 DEF ToSet
      <3> QED BY <1>4, <3>1, <3>2
    <2>2. ASSUME NEW k \in 1..n PROVE joins[k] \in ToSet(all)
      <3>1. k \in DOMAIN all /\ all[k] = joins[k]
        BY <1>1, <1>2
      <3> QED BY <3>1 DEF ToSet
    <2>3. \A i \in 1..m : found[i] \in ToSet(all)
      BY <1>2, <1>3 DEF ToSet
    <2>4. ToSet(all) \subseteq ToSet(joins) \cup ToSet(found)
      <3> SUFFICES ASSUME NEW x \in ToSet(all) PROVE x \in ToSet(joins) \cup ToSet(found)
        OBVIOUS
      <3>1. PICK k \in 1..n + m : x = all[k]
        <4>1. PICK k \in DOMAIN all : x = all[k]
          BY DEF ToSet
        <4> QED BY <1>2, <4>1
      <3> QED BY <2>1, <3>1
    <2>5. ToSet(joins) \subseteq ToSet(all)
      <3> SUFFICES ASSUME NEW x \in ToSet(joins) PROVE x \in ToSet(all)
        OBVIOUS
      <3>1. PICK k \in 1..n : x = joins[k]
        BY <1>1 DEF ToSet
      <3> QED BY <2>2, <3>1
    <2>6. ToSet(found) \subseteq ToSet(all)
      <3> SUFFICES ASSUME NEW x \in ToSet(found) PROVE x \in ToSet(all)
        OBVIOUS
      <3>1. PICK k \in 1..m : x = found[k]
        BY <1>1 DEF ToSet
      <3> QED BY <2>3, <3>1
    <2> QED BY <2>4, <2>5, <2>6
  <1>6. IsInjective(all)
    <2> SUFFICES ASSUME NEW k \in 1..n + m, NEW l \in 1..n + m, all[k] = all[l]
                 PROVE  k = l
      BY <1>2 DEF IsInjective
    <2>1. \A i \in 1..m : found[i] \notin ToSet(joins)
      BY <1>1
    <2>2. \A i \in 1..n : joins[i] \in ToSet(joins)
      BY <1>1 DEF ToSet
    <2>3. \A i, j \in 1..n : joins[i] = joins[j] => i = j
      BY <1>1 DEF IsInjective
    <2>4. \A i, j \in 1..m : found[i] = found[j] => i = j
      BY <1>1 DEF IsInjective
    <2>5. CASE k \in 1..n /\ l \in 1..n
      BY <1>2, <2>3, <2>5
    <2>6. CASE k \in 1..n /\ \E i \in 1..m : l = n + (m - i + 1)
      <3>1. PICK i \in 1..m : l = n + (m - i + 1)
        BY <2>6
      <3>2. all[l] = found[i] /\ all[k] = joins[k]
        BY <1>2, <1>3, <2>6, <3>1
      <3> QED BY <2>1, <2>2, <2>6, <3>2
    <2>7. CASE l \in 1..n /\ \E i \in 1..m : k = n + (m - i + 1)
      <3>1. PICK i \in 1..m : k = n + (m - i + 1)
        BY <2>7
      <3>2. all[k] = found[i] /\ all[l] = joins[l]
        BY <1>2, <1>3, <2>7, <3>1
      <3> QED BY <2>1, <2>2, <2>7, <3>2
    <2>8. CASE /\ \E i \in 1..m : k = n + (m - i + 1)
               /\ \E i \in 1..m : l = n + (m - i + 1)
      <3>1. PICK i \in 1..m : k = n + (m - i + 1)
        BY <2>8
      <3>2. PICK j \in 1..m : l = n + (m - j + 1)
        BY <2>8
      <3>3. all[k] = found[i] /\ all[l] = found[j]
        BY <1>3, <3>1, <3>2
      <3>4. i = j
        BY <2>4, <3>3
      <3> QED BY <3>1, <3>2, <3>4
    <2> QED BY <1>4, <2>5, <2>6, <2>7, <2>8
  <1>7. ASSUME NEW k \in 1..n + m, NEW left \in ToSet(Deps[all[k]])
        PROVE  \/ \E j \in 1..k - 1 : all[j] = left
               \/ left \in DOMAIN Deps /\ Twice(v, ToSet(all), left)
    <2>1. CASE k \in 1..n
      <3>1. all[k] = joins[k] /\ k \in DOMAIN joins
        BY <1>1, <1>2, <2>1
      <3>2. \/ \E j \in 1..k - 1 : joins[j] = left
            \/ left \in DOMAIN Deps /\ Twice(w, ToSet(joins), left)
        BY <1>7, <3>1 DEF InOrder
      <3>3. CASE \E j \in 1..k - 1 : joins[j] = left
        <4>1. PICK j \in 1..k - 1 : joins[j] = left
          BY <3>3
        <4>2. j \in 1..n
          BY <1>1, <2>1
        <4> QED BY <1>2, <4>1, <4>2
      <3>4. CASE left \in DOMAIN Deps /\ Twice(w, ToSet(joins), left)
        <4>1. Twice(v, ToSet(all), left)
          BY <1>5, <3>4, TwiceGrows
        <4> QED BY <3>4, <4>1
      <3> QED BY <3>2, <3>3, <3>4
    <2>2. CASE \E i \in 1..m : k = n + (m - i + 1)
      <3>1. PICK i \in 1..m : k = n + (m - i + 1)
        BY <2>2
      <3>2. all[k] = found[i] /\ i \in DOMAIN found
        BY <1>1, <1>3, <3>1
      <3>3. \/ left \in ToSet(joins)
            \/ \E j \in DOMAIN found : j > i /\ found[j] = left
            \/ left \in DOMAIN Deps /\ Twice(v, ToSet(joins) \cup ToSet(found), left)
        BY <1>7, <3>2 DEF AsFound
      <3>4. CASE left \in ToSet(joins)
        <4>1. PICK j \in 1..n : joins[j] = left
          BY <1>1, <3>4 DEF ToSet
        <4>2. j \in 1..k - 1
          BY <1>1, <3>1
        <4> QED BY <1>2, <4>1, <4>2
      <3>5. CASE \E j \in DOMAIN found : j > i /\ found[j] = left
        <4>1. PICK j \in 1..m : j > i /\ found[j] = left
          BY <1>1, <3>5
        <4>2. n + (m - j + 1) \in 1..k - 1
          BY <1>1, <3>1, <4>1
        <4> QED BY <1>3, <4>1, <4>2
      <3>6. CASE left \in DOMAIN Deps /\ Twice(v, ToSet(joins) \cup ToSet(found), left)
        BY <1>5, <3>6
      <3> QED BY <3>3, <3>4, <3>5, <3>6
    <2> QED BY <1>4, <2>1, <2>2
  <1> QED BY <1>2, <1>6, <1>7 DEF all, InOrder

LEMMA JoinTables ==
  ASSUME JoinInv, DepsJoined
  PROVE  JoinInv'
  <1> DEFINE found == join.found
             joins == select.joins
             all == joins \o JoinOrder(found)
             wanted == Append(select.wanted, join.aliases)
  <1>1. /\ making = "join" /\ join.todo = <<>>
        /\ select' = [select EXCEPT !.joins = all, !.wanted = wanted]
        /\ join' = Join(<<>>) /\ making' # "join"
        /\ JoinTypeOK /\ JoinedOK /\ FoundOK
    BY DEF JoinInv, DepsJoined
  <1>2. /\ found \in Seq(DOMAIN Deps) /\ joins \in Seq(DOMAIN Deps)
        /\ select.wanted \in Seq(Seq(STRING)) /\ join.aliases \in Seq(STRING)
        /\ Len(joins) \in Nat /\ Len(found) \in Nat
    BY <1>1 DEF JoinTypeOK
  <1>3. \A i \in DOMAIN select.wanted : i \in DOMAIN wanted /\ wanted[i] = select.wanted[i]
    BY <1>2
  <1>4. ToSet(join.todo) = {}
    BY <1>1 DEF ToSet
  <1>5. all \in Seq(DOMAIN Deps) /\ IsInjective(all) /\ InOrder(all, wanted)
    <2>1. /\ IsInjective(joins) /\ IsInjective(found)
          /\ \A i \in DOMAIN found : found[i] \notin ToSet(joins)
          /\ InOrder(joins, select.wanted)
      BY <1>1 DEF JoinedOK, FoundOK, InOrder
    <2>2. AsFound(found, joins, wanted)
      BY <1>1, <1>4 DEF FoundOK, AsFound
    <2> HIDE DEF joins, found, wanted
    <2> QED BY <1>2, <1>3, <2>1, <2>2, JoinedAfter
  <1>6. select'.joins = all /\ select'.wanted = wanted /\ JoinTypeOK'
    <2>1. wanted \in Seq(Seq(STRING)) /\ <<>> \in Seq(STRING) /\ <<>> \in Seq(DOMAIN Deps)
      BY <1>2
    <2>2. Join(<<>>) \in [aliases : Seq(STRING), todo : Seq(STRING), found : Seq(DOMAIN Deps)]
      BY <2>1 DEF Join
    <2> HIDE DEF all, wanted
    <2> QED BY <1>1, <1>5, <2>1, <2>2 DEF JoinTypeOK
  <1>7. JoinedOK'
    <2> HIDE DEF all, wanted
    <2> QED BY <1>5, <1>6 DEF JoinedOK, InOrder, Twice
  <1> QED BY <1>1, <1>6, <1>7 DEF JoinInv

\* JoinDeps is called with nothing found yet.
LEMMA JoinBegins ==
  ASSUME JoinTypeOK, JoinedOK, JoinTypeOK', NEW aliases \in Seq(STRING),
         join' = Join(aliases),
         select'.joins = select.joins, select'.wanted = select.wanted
  PROVE  JoinInv'
  <1>1. JoinedOK'
    BY DEF JoinedOK, InOrder, Twice
  <1>2. FoundOK'
    <2>1. join'.found = <<>> /\ join'.todo = join'.aliases
      BY DEF Join
    <2>2. DOMAIN join'.found = {}
      BY <2>1
    <2> QED BY <2>1, <2>2 DEF FoundOK, IsInjective, ToSet
  <1> QED BY <1>1, <1>2 DEF JoinInv

-----------------------------------------------------------------------------
(* The SELECT *)

Busy == making \in {"join", "query"}

StageOK ==
    /\ making = "idle" => calls = <<>> /\ select = NoSelect /\ scanning = NoPlan
    /\ making \in {"columns", "query"} => calls # <<>>
    /\ making \in {"made", "done"} => calls = <<>>

PlanInv ==
    /\ PlanTypeOK
    /\ StageOK
    /\ JoinInv
    /\ calls # <<>> /\ making # "refused" =>
          CallsInv(calls, select.names, select.columns, Busy)
    /\ SelectIsExact

\* What a step of a call of Columns has to show.
LEMMA StepOfCalls ==
  ASSUME PlanInv, JoinTypeOK', NEW aliases \in Seq(STRING),
         select'.joins = select.joins, select'.wanted = select.wanted,
         scanning' = scanning, making' \in {"columns", "join", "query"},
         making' = "join" => join' = Join(aliases),
         CallsInv(calls', select'.names, select'.columns, Busy')
  PROVE  PlanInv'
  <1>1. FramesOK(calls', select'.names, Busy')
    BY DEF CallsInv
  <1>2. calls' # <<>>
    BY <1>1 DEF FramesOK
  <1>3. PlanTypeOK'
    <2>1. calls' \in Seq({calls'[k] : k \in DOMAIN calls'})
      BY <1>1 DEF FramesOK, AreCalls
    <2>2. DOMAIN calls' = 1..Len(calls')
      BY <2>1
    <2>3. \A k \in DOMAIN calls' : CallOK(calls'[k])
      BY <1>1, <2>2 DEF FramesOK
    <2>4. scanning' \in Plans
      BY DEF PlanInv, PlanTypeOK
    <2> QED BY <2>1, <2>3, <2>4 DEF PlanTypeOK, JoinTypeOK, CallOK, SchemaTables
  <1>4. JoinInv'
    <2>1. JoinTypeOK /\ JoinedOK
      BY DEF PlanInv, JoinInv
    <2>2. CASE making' = "join"
      BY <2>1, <2>2, JoinBegins
    <2>3. CASE making' # "join"
      BY <2>1, <2>3 DEF JoinInv, JoinedOK, InOrder, Twice
    <2> QED BY <2>2, <2>3
  <1>5. StageOK'
    BY <1>2 DEF StageOK
  <1>6. SelectIsExact'
    BY <1>2 DEF SelectIsExact, PlanMatchesColumns, CalcsFollowNeeds, Selected
  <1> QED BY <1>3, <1>4, <1>5, <1>6 DEF PlanInv

\* The calls of a SELECT that is being made.
LEMMA CallsOfSelect ==
  ASSUME PlanInv, making \in {"columns", "query"}
  PROVE  LET n == Len(calls)
         IN  /\ CallsInv(calls, select.names, select.columns, making = "query")
             /\ AreCalls(calls) /\ calls # <<>> /\ n \in Nat /\ n > 0 /\ n \in 1..n
             /\ \A k \in 1..n : CallOK(calls[k])
             /\ select.columns \in Seq(ColumnNames) /\ select.names \in Seq(ColumnNames)
             /\ JoinTypeOK /\ <<>> \in Seq(STRING)
  <1>1. calls # <<>> /\ making # "refused" /\ (Busy <=> making = "query")
    BY DEF PlanInv, StageOK, Busy
  <1>2. CallsInv(calls, select.names, select.columns, making = "query")
    <2>1. CallsInv(calls, select.names, select.columns, Busy)
      BY <1>1 DEF PlanInv
    <2>2. CASE making = "query"
      <3>1. Busy = TRUE /\ (making = "query") = TRUE
        BY <2>2 DEF Busy
      <3> QED BY <2>1, <3>1
    <2>3. CASE making = "columns"
      <3>1. Busy = FALSE /\ (making = "query") = FALSE
        BY <2>3 DEF Busy
      <3> QED BY <2>1, <3>1
    <2> QED BY <2>2, <2>3
  <1>3. FramesOK(calls, select.names, making = "query")
    BY <1>2 DEF CallsInv
  <1>4. select.columns \in Seq(ColumnNames) /\ select.names \in Seq(ColumnNames) /\ JoinTypeOK
    BY DEF PlanInv, JoinInv, JoinTypeOK
  <1> QED BY <1>1, <1>2, <1>3, <1>4, CallsAre DEF FramesOK

LEMMA SkipStep ==
  ASSUME PlanInv, Skip
  PROVE  PlanInv'
  <1> DEFINE n == Len(calls)
  <1>1. /\ making = "columns" /\ making' = "columns" /\ select' = select /\ join' = join
        /\ scanning' = scanning /\ calls[n].at <= Len(calls[n].fields)
        /\ NameAt(calls[n]) \in ToSet(select.names)
        /\ calls' = [calls EXCEPT ![n] = Advanced(calls[n], calls[n].plan)]
    BY DEF Skip, More, Inner, Depth, NameAt, PlanInv, PlanTypeOK
  <1>2. /\ CallsInv(calls, select.names, select.columns, FALSE)
        /\ AreCalls(calls) /\ calls # <<>> /\ n \in Nat /\ n > 0 /\ n \in 1..n
        /\ CallOK(calls[n]) /\ select.columns \in Seq(ColumnNames)
        /\ JoinTypeOK /\ <<>> \in Seq(STRING)
    <2>1. (making = "query") = FALSE
      BY <1>1
    <2> QED BY <1>1, <2>1, CallsOfSelect
  <1>3. Advances(calls, calls', n, calls[n].plan)
    <2>1. calls[n].plan \in Plans
      BY <1>2, CallIs
    <2> QED BY <1>1, <1>2, <2>1, Changed DEF Advances
  <1>4. CallsInv(calls', select.names, select.columns, FALSE)
    BY <1>1, <1>2, <1>3, SkipCalls
  <1>5. JoinTypeOK' /\ Busy' = FALSE
    BY <1>1, <1>2 DEF JoinTypeOK, Busy
  <1> QED BY <1>1, <1>2, <1>4, <1>5, StepOfCalls

LEMMA TakeStep ==
  ASSUME PlanInv, Take
  PROVE  PlanInv'
  <1> DEFINE n == Len(calls)
             name == NameAt(calls[n])
             from == calls[n].table[name].from
             more == Append(select.names, name)
  <1>1. /\ making = "columns" /\ calls[n].at <= Len(calls[n].fields)
        /\ name \in DOMAIN calls[n].table
        /\ select' = [select EXCEPT !.names = more]
        /\ join' = Join(from) /\ making' \in {"query", "join"}
        /\ calls' = calls /\ scanning' = scanning
    BY DEF Take, More, Inner, Depth, NameAt, Described
  <1>2. /\ CallsInv(calls, select.names, select.columns, FALSE)
        /\ CallOK(calls[n]) /\ select.names \in Seq(ColumnNames) /\ JoinTypeOK
    <2>1. (making = "query") = FALSE
      BY <1>1
    <2> QED BY <1>1, <2>1, CallsOfSelect
  <1>3. name \in ColumnNames /\ from \in Seq(STRING)
    <2>1. name \in ColumnNames /\ calls[n].table \in SchemaTables
      BY <1>1, <1>2, CallIs
    <2>2. CASE calls[n].table = Fields
      BY <1>1, <2>1, <2>2, SchemaAssumption
    <2>3. CASE calls[n].table # Fields
      <3>1. PICK f \in Records(Fields) : calls[n].table = Fields[f].rows
        BY <2>1, <2>3 DEF SchemaTables
      <3> QED BY <1>1, <2>1, <3>1, RowsAssumption
    <2> QED BY <2>2, <2>3
  <1> HIDE DEF name, from
  <1>4. more \in Seq(ColumnNames) /\ ToSet(more) = ToSet(select.names) \cup {name}
    <2> DEFINE names == select.names
               m == Len(names)
    <2>1. names \in Seq(ColumnNames)
      BY <1>2
    <2> HIDE DEF names
    <2>2. /\ Append(names, name) \in Seq(ColumnNames) /\ m \in Nat
          /\ DOMAIN names = 1..m /\ DOMAIN Append(names, name) = 1..m + 1
          /\ Append(names, name)[m + 1] = name
          /\ \A k \in 1..m : Append(names, name)[k] = names[k]
      BY <1>3, <2>1
    <2> DEFINE longer == Append(names, name)
    <2> HIDE DEF longer, m
    <2>3. /\ m \in Nat /\ DOMAIN names = 1..m /\ DOMAIN longer = 1..m + 1
          /\ longer[m + 1] = name /\ \A k \in 1..m : longer[k] = names[k]
      BY <2>2 DEF longer
    <2>4. \A k \in 1..m + 1 : k \in 1..m \/ k = m + 1
      BY <2>3
    <2>5. m + 1 \in 1..m + 1 /\ \A k \in 1..m : k \in 1..m + 1
      BY <2>3
    <2>6. ToSet(longer) = ToSet(names) \cup {name}
      BY <2>3, <2>4, <2>5 DEF ToSet
    <2> QED BY <2>2, <2>6 DEF longer, names
  <1> HIDE DEF more
  <1>5. /\ select'.names = more /\ select'.columns = select.columns
        /\ select'.joins = select.joins /\ select'.wanted = select.wanted /\ JoinTypeOK'
    <2>1. Join(from) \in [aliases : Seq(STRING), todo : Seq(STRING), found : Seq(DOMAIN Deps)]
      BY <1>3 DEF Join
    <2> QED BY <1>1, <1>2, <1>4, <2>1 DEF JoinTypeOK
  <1>6. CallsInv(calls, more, select.columns, TRUE)
    BY <1>1, <1>2, <1>4, TakeCalls DEF name
  <1>7. Busy' = TRUE
    BY <1>1 DEF Busy
  <1> QED BY <1>1, <1>3, <1>5, <1>6, <1>7, StepOfCalls

LEMMA SelectColumnStep ==
  ASSUME PlanInv, SelectColumn
  PROVE  PlanInv'
  <1> DEFINE n == Len(calls)
             name == NameAt(calls[n])
             plan == calls[n].plan
             p == [plan EXCEPT !.scans = Append(@, name)]
             more == Append(select.columns, name)
  <1>1. /\ making = "query" /\ calls[n].table[name].kind = "column"
        /\ select' = [select EXCEPT !.columns = more]
        /\ calls' = [calls EXCEPT ![n] = Advanced(calls[n], p)]
        /\ making' = "columns" /\ join' = join /\ scanning' = scanning
    BY DEF SelectColumn, Inner, Depth, NameAt, Described
  <1>2. /\ CallsInv(calls, select.names, select.columns, TRUE)
        /\ AreCalls(calls) /\ calls # <<>> /\ n \in Nat /\ n > 0 /\ n \in 1..n
        /\ CallOK(calls[n]) /\ select.columns \in Seq(ColumnNames)
        /\ JoinTypeOK /\ <<>> \in Seq(STRING)
    <2>1. (making = "query") = TRUE
      BY <1>1
    <2> QED BY <1>1, <2>1, CallsOfSelect
  <1>3. name \in ColumnNames
    <2>1. Open(calls, TRUE, n) /\ n \in 1..Len(calls)
      BY <1>2 DEF Open
    <2>2. name \in DOMAIN calls[n].table
      BY <1>2, <2>1 DEF CallsInv, FramesOK
    <2> QED BY <1>2, <2>2, CallIs
  <1> HIDE DEF name
  <1>4. /\ p \in Plans /\ p.calcs = plan.calcs /\ p.scans = Append(plan.scans, name)
    <2>1. plan \in Plans
      BY <1>2, CallIs
    <2> DEFINE scans == Append(plan.scans, name)
    <2>2. scans \in Seq(ColumnNames)
      BY <1>3, <2>1 DEF Plans
    <2> HIDE DEF plan, scans
    <2>3. p = [plan EXCEPT !.scans = scans]
      BY DEF scans
    <2>4. p \in Plans /\ p.calcs = plan.calcs /\ p.scans = scans
      BY <2>1, <2>2, <2>3 DEF Plans
    <2> QED BY <2>4 DEF scans
  <1> HIDE DEF p
  <1>5. Advances(calls, calls', n, p)
    BY <1>1, <1>2, <1>4, Changed DEF Advances
  <1>6. CallsInv(calls', select.names, more, FALSE)
    BY <1>1, <1>2, <1>4, <1>5, ColumnCalls DEF name
  <1>7. more \in Seq(ColumnNames)
    BY <1>2, <1>3
  <1> HIDE DEF more
  <1>8. /\ select'.names = select.names /\ select'.columns = more
        /\ select'.joins = select.joins /\ select'.wanted = select.wanted /\ JoinTypeOK'
    BY <1>1, <1>2, <1>7 DEF JoinTypeOK
  <1>9. Busy' = FALSE
    BY <1>1 DEF Busy
  <1> QED BY <1>1, <1>2, <1>6, <1>8, <1>9, StepOfCalls

LEMMA NestStep ==
  ASSUME PlanInv, Nest
  PROVE  PlanInv'
  <1> DEFINE n == Len(calls)
             name == NameAt(calls[n])
             fd == calls[n].table[name]
  <1>1. /\ making = "query" /\ making' = "columns"
        /\ join' = join /\ select' = select /\ scanning' = scanning
    BY DEF Nest
  <1>2. /\ CallsInv(calls, select.names, select.columns, TRUE)
        /\ AreCalls(calls) /\ calls # <<>> /\ n \in Nat /\ n > 0 /\ n \in 1..n
        /\ CallOK(calls[n]) /\ select.columns \in Seq(ColumnNames)
        /\ JoinTypeOK /\ <<>> \in Seq(STRING)
    <2>1. (making = "query") = TRUE
      BY <1>1
    <2> QED BY <1>1, <2>1, CallsOfSelect
  <1>3. name \in DOMAIN calls[n].table
    <2>1. Open(calls, TRUE, n) /\ n \in 1..Len(calls)
      BY <1>2 DEF Open
    <2> QED BY <1>2, <2>1 DEF CallsInv, FramesOK
  <1>4. \E d : /\ calls' = Append(calls, d)
               /\ CallOK(d) /\ d.at = 1 /\ d.plan = NoPlan
               /\ CalcCall(calls[n], d) \/ RecordCall(calls[n], d)
    <2>1. ASSUME NEW rows \in SchemaTables, NEW fields
          PROVE  /\ CallOK(Call(rows, fields)) /\ Call(rows, fields).at = 1
                 /\ Call(rows, fields).plan = NoPlan
                 /\ Call(rows, fields).table = rows /\ Call(rows, fields).fields = fields
      <3>1. NoPlan \in Plans
        BY DEF NoPlan, Plans
      <3> QED BY <3>1 DEF Call, CallOK
    <2>2. CASE fd.kind = "calc" /\ calls' = Append(calls, Call(calls[n].table, Needed(fd.needs)))
      <3> DEFINE d == Call(calls[n].table, Needed(fd.needs))
      <3>1. calls[n].table = Fields /\ Fields \in SchemaTables
        BY <1>2, <1>3, <2>2, ColumnNotCalc DEF SchemaTables
      <3>2. /\ CallOK(d) /\ d.at = 1 /\ d.plan = NoPlan
            /\ d.table = Fields /\ d.fields = Needed(Fields[name].needs)
        BY <2>1, <3>1
      <3>3. name \in Calcs
        BY <1>3, <2>2, <3>1 DEF Calcs
      <3> HIDE DEF d
      <3>4. CalcCall(calls[n], d)
        BY <3>1, <3>2, <3>3 DEF CalcCall
      <3> QED BY <2>2, <3>2, <3>4 DEF d
    <2>3. CASE fd.kind = "record"
               /\ calls' = Append(calls, Call(fd.rows, RecordFields(fd, Field(calls[n]))))
      <3> DEFINE d == Call(fd.rows, RecordFields(fd, Field(calls[n])))
      <3>1. calls[n].table = Fields
        BY <1>2, <1>3, <2>3, ColumnNotCalc
      <3>2. name \in Records(Fields) /\ fd.rows = Fields[name].rows
        BY <1>3, <2>3, <3>1 DEF Records
      <3>3. fd.rows \in SchemaTables
        BY <3>2 DEF SchemaTables
      <3>4. /\ CallOK(d) /\ d.at = 1 /\ d.plan = NoPlan /\ d.table = fd.rows
        BY <2>1, <3>3
      <3> HIDE DEF d
      <3>5. RecordCall(calls[n], d)
        BY <3>1, <3>2, <3>4 DEF RecordCall, NoPlan
      <3> QED BY <2>3, <3>4, <3>5 DEF d
    <2> QED BY <2>2, <2>3 DEF Nest, Inner, Depth, NameAt, Described
  <1>5. PICK d : /\ calls' = Append(calls, d)
                 /\ CallOK(d) /\ d.at = 1 /\ d.plan = NoPlan
                 /\ CalcCall(calls[n], d) \/ RecordCall(calls[n], d)
    BY <1>4
  <1>6. Follow(calls, calls', n + 1, d)
    BY <1>2, <1>5, Pushed
  <1>7. CallsInv(calls', select.names, select.columns, FALSE)
    BY <1>2, <1>5, <1>6, PushCalls
  <1>8. JoinTypeOK' /\ Busy' = FALSE
    BY <1>1, <1>2 DEF JoinTypeOK, Busy
  <1> QED BY <1>1, <1>2, <1>7, <1>8, StepOfCalls

LEMMA ReturnStep ==
  ASSUME PlanInv, Return
  PROVE  PlanInv'
  <1> DEFINE n == Len(calls)
             m == n - 1
             outer == calls[m]
             inner == calls[n]
             name == NameAt(outer)
             p == IF outer.table[name].kind = "calc" THEN SubPlan(outer.plan, inner.plan, name)
                  ELSE RecordPlan(outer.plan, name)
  <1>1. /\ making = "columns" /\ making' = "columns" /\ n > 1
        /\ ~(inner.at <= Len(inner.fields))
        /\ calls' = Append(SubSeq(calls, 1, n - 2), Advanced(outer, p))
        /\ join' = join /\ select' = select /\ scanning' = scanning
    BY DEF Return, More, Inner, Depth, NameAt, Described
  <1>2. /\ CallsInv(calls, select.names, select.columns, FALSE)
        /\ AreCalls(calls) /\ calls # <<>> /\ n \in Nat
        /\ select.columns \in Seq(ColumnNames)
        /\ JoinTypeOK /\ <<>> \in Seq(STRING)
    <2>1. (making = "query") = FALSE
      BY <1>1
    <2> QED BY <1>1, <2>1, CallsOfSelect
  <1>3. m \in Nat /\ m > 0 /\ Len(calls) = m + 1 /\ n = m + 1 /\ m \in 1..Len(calls)
    BY <1>1, <1>2
  <1>4. /\ CallOK(outer) /\ CallOK(inner)
        /\ name \in DOMAIN outer.table
        /\ CalcCall(outer, inner) \/ RecordCall(outer, inner)
    <2>1. FramesOK(calls, select.names, FALSE)
      BY <1>2 DEF CallsInv
    <2> HIDE DEF m
    <2> QED BY <1>3, <2>1, ReturnFrom
  <1>5. /\ outer.plan \in Plans /\ inner.plan \in Plans /\ name \in ColumnNames
    BY <1>4, CallIs
  <1>6. CASE CalcCall(outer, inner)
    <2>1. p = SubPlan(outer.plan, inner.plan, name)
      BY <1>6 DEF CalcCall, Calcs
    <2>2. p \in Plans /\ CalcPlan(p, outer, inner)
      <3> DEFINE op == outer.plan
                 ip == inner.plan
                 scans == op.scans \o ip.scans
                 calcs == op.calcs \o ip.calcs \o <<name>>
      <3>1. /\ op.scans \in Seq(ColumnNames) /\ ip.scans \in Seq(ColumnNames)
            /\ op.calcs \in Seq(ColumnNames) /\ ip.calcs \in Seq(ColumnNames)
        BY <1>5 DEF Plans
      <3> HIDE DEF op, ip, name
      <3>2. scans \in Seq(ColumnNames) /\ calcs \in Seq(ColumnNames)
        BY <1>5, <3>1, OneAfterAnother, BothAndOne
      <3>3. p = [scans |-> scans, calcs |-> calcs]
        BY <2>1 DEF SubPlan, op, ip
      <3> HIDE DEF p, scans, calcs
      <3>4. p \in Plans /\ p.scans = scans /\ p.calcs = calcs
        BY <3>2, <3>3 DEF Plans
      <3> QED BY <3>4 DEF CalcPlan, scans, calcs, op, ip, name
    <2> HIDE DEF p
    <2>3. Advances(calls, calls', m, p)
      BY <1>1, <1>2, <1>3, <2>2, Popped DEF Advances
    <2>4. inner.at > Len(inner.fields)
      <3>1. inner.at \in Nat /\ Len(inner.fields) \in Nat
        BY <1>4, <1>6, NeedAt, CallIs
      <3> QED BY <1>1, <3>1
    <2>5. CallsInv(calls', select.names, select.columns, FALSE)
      <3> HIDE DEF m
      <3> QED BY <1>2, <1>3, <1>6, <2>2, <2>3, <2>4, CalcReturns
    <2>6. JoinTypeOK' /\ Busy' = FALSE
      BY <1>1, <1>2 DEF JoinTypeOK, Busy
    <2> QED BY <1>1, <1>2, <2>5, <2>6, StepOfCalls
  <1>7. CASE RecordCall(outer, inner)
    <2>1. p = RecordPlan(outer.plan, name)
      BY <1>7 DEF RecordCall, Records
    <2>2. /\ p \in Plans /\ p.calcs = Append(outer.plan.calcs, name)
          /\ p.scans = Append(outer.plan.scans, name)
      <3> DEFINE op == outer.plan
      <3>1. op.scans \in Seq(ColumnNames) /\ op.calcs \in Seq(ColumnNames)
        BY <1>5 DEF Plans
      <3> HIDE DEF op, name, p
      <3>2. /\ Append(op.scans, name) \in Seq(ColumnNames)
            /\ Append(op.calcs, name) \in Seq(ColumnNames)
        BY <1>5, <3>1
      <3>3. p = [scans |-> Append(op.scans, name), calcs |-> Append(op.calcs, name)]
        BY <2>1 DEF RecordPlan, op
      <3> QED BY <3>2, <3>3 DEF Plans, op
    <2> HIDE DEF p
    <2>3. Advances(calls, calls', m, p)
      BY <1>1, <1>2, <1>3, <2>2, Popped DEF Advances
    <2>4. CallsInv(calls', select.names, select.columns, FALSE)
      <3> HIDE DEF m
      <3> QED BY <1>2, <1>3, <1>7, <2>2, <2>3, RecordReturns
    <2>5. JoinTypeOK' /\ Busy' = FALSE
      BY <1>1, <1>2 DEF JoinTypeOK, Busy
    <2> QED BY <1>1, <1>2, <2>4, <2>5, StepOfCalls
  <1> QED BY <1>4, <1>6, <1>7

\* A step that leaves the calls alone.
LEMMA StepOfJoins ==
  ASSUME PlanInv, JoinInv', calls' = calls, scanning' = scanning,
         select'.names = select.names, select'.columns = select.columns,
         making # "idle", making # "refused",
         \/ making' = "refused"
         \/ making' = "done" /\ calls = <<>>
         \/ making' \in {"join", "query"} /\ making = "join" /\ (making' = "query" => calls # <<>>)
         \/ making' = "join" /\ calls = <<>>
  PROVE  PlanInv'
  <1>1. making' \in {"join", "query", "done", "refused"}
    OBVIOUS
  <1>2. PlanTypeOK'
    BY <1>1 DEF PlanInv, PlanTypeOK, JoinInv, JoinTypeOK
  <1>3. StageOK'
    BY <1>1 DEF PlanInv, StageOK
  <1>4. SelectIsExact'
    BY DEF PlanInv, SelectIsExact, PlanMatchesColumns, CalcsFollowNeeds, Selected
  <1>5. ASSUME calls' # <<>>, making' # "refused"
        PROVE  CallsInv(calls', select'.names, select'.columns, Busy')
    <2>1. making = "join" /\ making' \in {"join", "query"}
      BY <1>5
    <2>2. Busy = TRUE /\ Busy' = TRUE
      BY <2>1 DEF Busy
    <2>3. CallsInv(calls, select.names, select.columns, Busy)
      BY <1>5, <2>1 DEF PlanInv
    <2> QED BY <2>2, <2>3
  <1> QED BY <1>2, <1>3, <1>4, <1>5 DEF PlanInv

LEMMA ResolveStep ==
  ASSUME PlanInv, Resolve
  PROVE  PlanInv'
  <1>1. JoinInv'
    BY ResolveJoin DEF PlanInv
  <1>2. /\ making = "join" /\ making' \in {"join", "refused"}
        /\ calls' = calls /\ select' = select /\ scanning' = scanning
    BY DEF Resolve
  <1> QED BY <1>1, <1>2, StepOfJoins

LEMMA DepsJoinedStep ==
  ASSUME PlanInv, DepsJoined
  PROVE  PlanInv'
  <1>1. JoinInv'
    BY JoinTables DEF PlanInv
  <1>2. /\ making = "join" /\ making' = IF calls = <<>> THEN "done" ELSE "query"
        /\ calls' = calls /\ scanning' = scanning
        /\ select' = [select EXCEPT !.joins = @ \o JoinOrder(join.found),
                                    !.wanted = Append(@, join.aliases)]
    BY DEF DepsJoined
  <1>3. select'.names = select.names /\ select'.columns = select.columns
    BY <1>2 DEF PlanInv, PlanTypeOK
  <1> QED BY <1>1, <1>2, <1>3, StepOfJoins

LEMMA UnknownStep ==
  ASSUME PlanInv, Unknown
  PROVE  PlanInv'
  <1>1. /\ making = "columns" /\ making' = "refused"
        /\ calls' = calls /\ join' = join /\ select' = select /\ scanning' = scanning
    BY DEF Unknown
  <1>2. JoinInv'
    BY <1>1 DEF PlanInv, JoinInv, JoinTypeOK, JoinedOK, InOrder, Twice
  <1> QED BY <1>1, <1>2, StepOfJoins

LEMMA FilterStep ==
  ASSUME PlanInv, Filter
  PROVE  PlanInv'
  <1>1. PICK aliases \in Filters : join' = Join(aliases)
    BY DEF Filter
  <1>2. /\ making = "made" /\ making' = "join"
        /\ calls' = calls /\ select' = select /\ scanning' = scanning
    BY DEF Filter
  <1>3. aliases \in Seq(STRING)
    BY SchemaAssumption
  <1>4. calls = <<>>
    BY <1>2 DEF PlanInv, StageOK
  <1>5. JoinInv'
    <2>1. Join(aliases) \in [aliases : Seq(STRING), todo : Seq(STRING), found : Seq(DOMAIN Deps)]
      BY <1>3 DEF Join
    <2>2. JoinTypeOK' /\ JoinTypeOK /\ JoinedOK
      BY <1>1, <1>2, <2>1 DEF PlanInv, JoinInv, JoinTypeOK
    <2> QED BY <1>1, <1>2, <1>3, <2>2, JoinBegins
  <1> QED BY <1>2, <1>4, <1>5, StepOfJoins

LEMMA ColumnsMadeStep ==
  ASSUME PlanInv, ColumnsMade
  PROVE  PlanInv'
  <1>1. /\ making = "columns" /\ making' = "made" /\ Len(calls) = 1
        /\ scanning' = calls[1].plan /\ calls' = <<>>
        /\ join' = join /\ select' = select
    BY DEF ColumnsMade, Inner, Depth
  <1>2. /\ CallsInv(calls, select.names, select.columns, FALSE)
        /\ select.columns \in Seq(ColumnNames)
    <2>1. (making = "query") = FALSE
      BY <1>1
    <2> QED BY <1>1, <2>1, CallsOfSelect
  <1>3. PlanScans(scanning', select.names, select.columns)
    BY <1>1, <1>2, AllReturned
  <1>4. SelectIsExact'
    BY <1>1, <1>3 DEF PlanScans, SelectIsExact, PlanMatchesColumns, CalcsFollowNeeds
  <1>5. JoinInv'
    BY <1>1 DEF PlanInv, JoinInv, JoinTypeOK, JoinedOK, InOrder, Twice
  <1>6. PlanTypeOK'
    <2>1. calls' \in Seq({calls'[k] : k \in DOMAIN calls'}) /\ DOMAIN calls' = {}
      BY <1>1
    <2> QED BY <1>1, <1>3, <1>5, <2>1 DEF PlanTypeOK, JoinInv, JoinTypeOK, PlanScans
  <1>7. StageOK'
    BY <1>1 DEF StageOK
  <1> QED BY <1>1, <1>4, <1>5, <1>6, <1>7 DEF PlanInv

LEMMA BeginStep ==
  ASSUME PlanInv, NEW fields, Begin(fields)
  PROVE  PlanInv'
  <1> DEFINE c == Call(Fields, fields)
  <1>1. /\ making = "idle" /\ making' = "columns" /\ calls' = <<c>> /\ calls = <<>>
        /\ select = NoSelect
        /\ join' = join /\ select' = select /\ scanning' = scanning
    BY DEF Begin, PlanInv, StageOK
  <1>2. CallOK(c) /\ c.table = Fields /\ c.at = 1 /\ c.plan = NoPlan
    <2>1. NoPlan \in Plans /\ Fields \in SchemaTables
      BY DEF NoPlan, Plans, SchemaTables
    <2> QED BY <2>1 DEF Call, CallOK
  <1> HIDE DEF c
  <1>3. /\ Len(calls') = 1 /\ calls'[1] = c /\ DOMAIN calls' = 1..1 /\ AreCalls(calls')
        /\ calls' # <<>>
    <2>1. <<c>> \in Seq({c})
      OBVIOUS
    <2>2. AreCalls(<<c>>)
      BY <2>1, OwnElements
    <2> QED BY <1>1, <2>2
  <1>4. select.names = <<>> /\ select.columns = <<>> /\ ToSet(select.names) = {}
    BY <1>1 DEF NoSelect, ToSet
  <1>5. FramesOK(calls', <<>>, FALSE)
    BY <1>2, <1>3 DEF FramesOK, Open
  <1>6. PlansOK(calls', <<>>)
    BY <1>2, <1>3 DEF PlansOK, NoPlan
  <1>7. TakenOK(calls', <<>>, FALSE)
    BY <1>4 DEF TakenOK, ToSet
  <1>8. NeedsOK(calls', <<>>)
    BY <1>3 DEF NeedsOK
  <1>9. ScannedOK(calls', <<>>)
    <2> DEFINE mark == [k \in 1..2 |-> 0]
    <2>1. Len(c.plan.scans) = 0 /\ Len(<<>>) = 0
      BY <1>2 DEF NoPlan
    <2>2. mark \in [1..2 -> 0..0] /\ mark[1] = 0 /\ mark[2] = 0
      OBVIOUS
    <2> HIDE DEF mark
    <2>3. Marks(mark, calls', <<>>)
      BY <1>3, <2>1, <2>2 DEF Marks
    <2>4. <<>> \in Seq(ColumnNames) /\ Len(<<>>) = 0
      OBVIOUS
    <2>5. ScannedInto(<<>>, <<>>)
      BY <2>4 DEF ScannedInto
    <2> QED BY <2>3, <2>4, <2>5 DEF ScannedOK, MarksOK
  <1>10. CallsInv(calls', select'.names, select'.columns, FALSE)
    BY <1>1, <1>4, <1>5, <1>6, <1>7, <1>8, <1>9 DEF CallsInv
  <1>11. JoinTypeOK' /\ Busy' = FALSE /\ <<>> \in Seq(STRING)
    BY <1>1 DEF PlanInv, JoinInv, JoinTypeOK, Busy
  <1> QED BY <1>1, <1>10, <1>11, StepOfCalls

LEMMA PlanInit_ ==
  PlanInit => PlanInv
  <1> SUFFICES ASSUME PlanInit PROVE PlanInv
    OBVIOUS
  <1>1. /\ making = "idle" /\ calls = <<>> /\ join = Join(<<>>)
        /\ select = NoSelect /\ scanning = NoPlan
    BY DEF PlanInit
  <1>2. JoinTypeOK
    BY <1>1 DEF JoinTypeOK, Join, NoSelect
  <1>3. scanning \in Plans
    BY <1>1 DEF Plans, NoPlan
  <1>4. PlanTypeOK
    <2>1. calls \in Seq({calls[k] : k \in DOMAIN calls}) /\ DOMAIN calls = {}
      BY <1>1
    <2> QED BY <1>1, <1>2, <1>3, <2>1 DEF PlanTypeOK, JoinTypeOK
  <1>5. JoinInv
    <2>1. select.joins = <<>> /\ DOMAIN select.joins = {}
      BY <1>1 DEF NoSelect
    <2> QED BY <1>1, <1>2, <2>1 DEF JoinInv, JoinedOK, InOrder, IsInjective
  <1>6. SelectIsExact
    BY <1>1 DEF SelectIsExact, PlanMatchesColumns, CalcsFollowNeeds, Selected
  <1> QED BY <1>1, <1>4, <1>5, <1>6 DEF PlanInv, StageOK

LEMMA PlanSteps ==
  ASSUME PlanInv, [PlanNext]_planVars
  PROVE  PlanInv'
  <1>1. CASE \E fields : Begin(fields)
    BY <1>1, BeginStep
  <1>2. CASE PlanStep
    BY <1>2, ResolveStep, DepsJoinedStep, SkipStep, UnknownStep, TakeStep,
       SelectColumnStep, NestStep, ReturnStep, ColumnsMadeStep, FilterStep DEF PlanStep
  <1>3. CASE UNCHANGED planVars
    <2>1. /\ making' = making /\ calls' = calls /\ join' = join /\ select' = select
          /\ scanning' = scanning
      BY <1>3 DEF planVars
    <2>2. PlanTypeOK' /\ StageOK' /\ SelectIsExact'
      BY <2>1 DEF PlanInv, PlanTypeOK, StageOK, SelectIsExact, PlanMatchesColumns,
                  CalcsFollowNeeds, Selected
    <2>3. JoinInv'
      <3>1. JoinTypeOK' /\ JoinedOK'
        <4>1. JoinTypeOK /\ JoinedOK
          BY DEF PlanInv, JoinInv
        <4>2. JoinTypeOK'
          BY <2>1, <4>1 DEF JoinTypeOK
        <4>3. JoinedOK'
          BY <2>1, <4>1 DEF JoinedOK, InOrder, Twice
        <4> QED BY <4>2, <4>3
      <3>2. ASSUME making' = "join" PROVE FoundOK'
        <4>1. FoundOK
          BY <2>1, <3>2 DEF PlanInv, JoinInv
        <4> QED BY <2>1, <4>1 DEF FoundOK, Twice
      <3> QED BY <3>1, <3>2 DEF JoinInv
    <2>4. (Busy' <=> Busy) /\ Busy' = Busy
      BY <2>1 DEF Busy
    <2> QED BY <2>1, <2>2, <2>3, <2>4 DEF PlanInv
  <1> QED BY <1>1, <1>2, <1>3 DEF PlanNext

-----------------------------------------------------------------------------
(* The theorems about a SELECT *)

\* What a SELECT keeps while Columns calls itself and JoinDeps resolves, for
\* any fields that are asked for: every call in progress was made by the one
\* below it, what they scan lies one after another in the columns up to the
\* first record, and a calculation that was taken is planned or being made.
THEOREM PlanInvariant == PlanSpec => []PlanInv
  <1>1. PlanInit => PlanInv
    BY PlanInit_
  <1>2. PlanInv /\ [PlanNext]_planVars => PlanInv'
    BY PlanSteps
  <1> QED BY <1>1, <1>2, PTL DEF PlanSpec

\* When Columns has returned, every column before the first record, and without
\* a record every column, is scanned into the field it was selected for, and
\* every calculation comes after what it needs, however deep the calculations
\* nest.  Of the columns from the first record on nothing is said: its one scan
\* stands for several columns (pgtypex/datatype.go:56).
THEOREM SelectIsScanned == PlanSpec => []SelectIsExact
  <1>1. PlanInv => SelectIsExact
    BY DEF PlanInv
  <1> QED BY <1>1, PlanInvariant, PTL

\* JoinDeps joins a table once and, unless one is needed twice, after those
\* its condition is about (pgtypex/datatype.go:119).
THEOREM TablesInOrder == PlanSpec => []JoinsFollowLeft
  <1>1. PlanInv => JoinsFollowLeft
    BY JoinsInOrder DEF PlanInv, JoinInv
  <1> QED BY <1>1, PlanInvariant, PTL


-----------------------------------------------------------------------------
(* The arguments of a field *)

\* The types of arguments, the sizes and pages that can be given, and lists and
\* texts.  What to sort by when nothing is given is a list of words.
SizeTypes == [kind : {"size"}, max : Nat, default : Int, notNull : BOOLEAN]
PageTypes == [kind : {"page"}, default : Nat, notNull : BOOLEAN]
SortTypes == {type \in [kind : {"sort"}, default : Seq(STRING), notNull : BOOLEAN] :
                  \A i \in DOMAIN type.default : type.default[i] \notin {",", " "}}
ArgumentTypes == SizeTypes \cup PageTypes \cup SortTypes

InputValues ==
    {Null} \cup {OfText(t) : t \in Seq(STRING)} \cup {Number(n) : n \in Int}
           \cup {List(l) : l \in Seq(STRING)}

\* InputArgs.Add refuses a default that is invalid, or null in its type.
Registered(args) ==
    \A a \in DOMAIN args :
        /\ args[a].type \in ArgumentTypes /\ args[a].value \in InputValues
        /\ args[a].value # Null => DefaultOf(args[a]) \notin {Null, Invalid}

\* The value w is of use, and stays what it is when it is given again.
Settled(type, w) ==
    /\ w \in InputValues \ {Invalid} /\ Usable(type, w)
    /\ w # List(<<>>) => InputValue(type, w) = w

LEMMA KindsOfValues ==
  /\ DOMAIN Null = {"null"} /\ DOMAIN Invalid = {"invalid"}
  /\ \A t : DOMAIN OfText(t) = {"text"} /\ OfText(t).text = t
  /\ \A n : DOMAIN Number(n) = {"int"} /\ Number(n).int = n
  /\ \A l : DOMAIN List(l) = {"list"} /\ List(l).list = l
  BY DEF Null, Invalid, OfText, Number, List

\* A value is one of its four kinds only.
LEMMA ValuesDiffer ==
  /\ Null # Invalid /\ Null \in InputValues /\ Invalid \notin InputValues /\ Unset(Null)
  /\ \A n : Number(n) \notin {Null, Invalid} /\ ~Unset(Number(n))
            /\ IsNumber(Number(n)) /\ NumberOf(Number(n)) = n
            /\ \A l : Number(n) # List(l)
  /\ \A l : List(l) \notin {Null, Invalid} /\ ~Unset(List(l)) /\ ~IsNumber(List(l))
  /\ \A t : OfText(t) \notin {Null, Invalid}
  /\ ~IsNumber(Null)
  <1>1. /\ "null" # "invalid" /\ "null" # "text" /\ "null" # "int" /\ "null" # "list"
        /\ "invalid" # "text" /\ "invalid" # "int" /\ "invalid" # "list"
        /\ "text" # "int" /\ "text" # "list" /\ "int" # "list"
    OBVIOUS
  <1>3. /\ Null # Invalid
        /\ \A n : Number(n) # Null /\ Number(n) # Invalid
        /\ \A l : List(l) # Null /\ List(l) # Invalid
        /\ \A t : OfText(t) # Null /\ OfText(t) # Invalid
        /\ \A n, t : Number(n) # OfText(t)
        /\ \A l, t : List(l) # OfText(t)
        /\ \A n, l : Number(n) # List(l)
    <2>1. /\ "int" \notin DOMAIN Null /\ "list" \notin DOMAIN Null /\ "text" \notin DOMAIN Null
          /\ "invalid" \notin DOMAIN Null /\ "invalid" \in DOMAIN Invalid
          /\ "int" \notin DOMAIN Invalid /\ "list" \notin DOMAIN Invalid /\ "text" \notin DOMAIN Invalid
      BY <1>1, KindsOfValues
    <2>2. /\ \A n : "int" \in DOMAIN Number(n)
          /\ \A l : "list" \in DOMAIN List(l) /\ "int" \notin DOMAIN List(l)
          /\ \A t : "text" \in DOMAIN OfText(t) /\ "int" \notin DOMAIN OfText(t)
                   /\ "list" \notin DOMAIN OfText(t)
      BY <1>1, KindsOfValues
    <2> QED BY <2>1, <2>2, Zenon
  <1>4. Null \in InputValues /\ Invalid \notin InputValues
    BY <1>3 DEF InputValues
  <1>5. \A n : IsNumber(Number(n)) /\ NumberOf(Number(n)) = n
    BY KindsOfValues DEF IsNumber, NumberOf
  <1>6. ~IsNumber(Null) /\ \A l : ~IsNumber(List(l))
    BY <1>1, KindsOfValues DEF IsNumber
  <1>7. Unset(Null) /\ \A n : ~Unset(Number(n)) /\ \A l : ~Unset(List(l))
    BY <1>3 DEF Unset
  <1> QED BY <1>3, <1>4, <1>5, <1>6, <1>7

\* What is a number is one.
LEMMA NumbersAre ==
  ASSUME NEW v \in InputValues, IsNumber(v)
  PROVE  NumberOf(v) \in Int
  <1>1. CASE "int" \in DOMAIN v
    <2>1. \E n \in Int : v = Number(n)
      BY <1>1, KindsOfValues DEF InputValues
    <2> QED BY <2>1, ValuesDiffer
  <1>2. CASE "int" \notin DOMAIN v
    BY <1>2, NumbersAssumption DEF IsNumber, NumberOf
  <1> QED BY <1>1, <1>2

LEMMA SizeSettles ==
  ASSUME NEW type \in SizeTypes, NEW v \in InputValues, SizeValue(type, v) # Invalid
  PROVE  LET w == SizeValue(type, v)
         IN  /\ w \in InputValues /\ Usable(type, w)
             /\ SizeValue(type, w) = w
  <1> DEFINE size == IF Unset(v) THEN type.default ELSE NumberOf(v)
             atLeast == IF size < -1 THEN -1 ELSE size
             bounded == IF type.max < atLeast THEN type.max ELSE atLeast
             w == SizeValue(type, v)
  <1>1. type.kind = "size" /\ type.max \in Nat /\ type.default \in Int
    BY DEF SizeTypes
  <1>2. /\ Unset(v) \/ IsNumber(v)
        /\ w = IF Unset(v) /\ (type.default = 0 \/ bounded = 0) THEN Null ELSE Number(bounded)
        /\ ~Unset(v) => bounded # 0
    BY DEF SizeValue
  <1>3. size \in Int
    BY <1>1, <1>2, NumbersAre
  <1> HIDE DEF size
  <1>4. bounded \in -1..type.max
    BY <1>1, <1>3
  <1>5. CASE w = Null
    <2>1. SizeValue(type, Null) = Null
      <3>1. Unset(v) /\ (type.default = 0 \/ bounded = 0) /\ size = type.default
        BY <1>2, <1>5, ValuesDiffer DEF size
      <3> QED BY <3>1, ValuesDiffer DEF SizeValue
    <2> QED BY <1>1, <1>5, <2>1, ValuesDiffer DEF Usable
  <1>6. CASE w # Null
    <2>1. w = Number(bounded) /\ bounded # 0 /\ bounded \in Int
      BY <1>1, <1>2, <1>4, <1>6
    <2> HIDE DEF bounded, w
    <2>2. w \in InputValues
      BY <2>1 DEF InputValues
    <2>3. Usable(type, w)
      BY <1>1, <1>4, <2>1, KindsOfValues DEF Usable
    <2>4. SizeValue(type, Number(bounded)) = Number(bounded)
      <3>1. ~Unset(Number(bounded)) /\ IsNumber(Number(bounded)) /\ NumberOf(Number(bounded)) = bounded
        BY ValuesDiffer
      <3>2. ~(bounded < -1) /\ ~(type.max < bounded)
        BY <1>1, <1>4
      <3> QED BY <2>1, <3>1, <3>2 DEF SizeValue
    <2> QED BY <2>1, <2>2, <2>3, <2>4 DEF w
  <1> QED BY <1>5, <1>6

LEMMA PageSettles ==
  ASSUME NEW type \in PageTypes, NEW v \in InputValues, PageValue(type, v) # Invalid
  PROVE  LET w == PageValue(type, v)
         IN  /\ w \in InputValues /\ Usable(type, w)
             /\ PageValue(type, w) = w
  <1> DEFINE w == PageValue(type, v)
  <1>1. type.kind = "page" /\ type.default \in Nat
    BY DEF PageTypes
  <1>2. CASE w = Null
    <2>1. v = Null
      BY <1>2, ValuesDiffer DEF PageValue
    <2> QED BY <1>1, <1>2, <2>1, ValuesDiffer DEF Usable
  <1>3. CASE w # Null
    <2>1. PICK n \in Int : n > 0 /\ w = Number(n)
      <3>1. CASE v = Null
        BY <1>1, <1>3, <3>1 DEF PageValue
      <3>2. CASE v # Null
        <4>1. IsNumber(v) /\ ~(NumberOf(v) <= 0) /\ w = Number(NumberOf(v))
          BY <3>2 DEF PageValue
        <4>2. NumberOf(v) \in Int
          BY <4>1, NumbersAre
        <4> QED BY <4>1, <4>2
      <3> QED BY <3>1, <3>2
    <2>2. Number(n) \in InputValues /\ Usable(type, Number(n))
      BY <1>1, <2>1, KindsOfValues DEF InputValues, Usable
    <2>3. PageValue(type, Number(n)) = Number(n)
      BY <2>1, ValuesDiffer DEF PageValue
    <2> HIDE DEF w
    <2> QED BY <2>1, <2>2, <2>3 DEF w
  <1> QED BY <1>2, <1>3

\* What was kept of a text has no separator left.
LEMMA WordsStay ==
  ASSUME NEW text \in Seq(STRING)
  PROVE  /\ WordsOf(text) \in Seq(STRING)
         /\ WordsOf(WordsOf(text)) = WordsOf(text)
         /\ (\A i \in DOMAIN text : text[i] \notin {",", " "}) => WordsOf(text) = text
  <1>1. ASSUME NEW s \in Seq(STRING), \A i \in DOMAIN s : s[i] \notin {",", " "}
        PROVE  WordsOf(s) = s
    <2>1. {i \in DOMAIN s : s[i] \notin {",", " "}} = DOMAIN s
      BY <1>1
    <2> QED BY <2>1, KeptWhole DEF WordsOf
  <1> DEFINE P == {i \in DOMAIN text : text[i] \notin {",", " "}}
             w == Kept(text, P)
  <1>2. /\ w \in Seq(STRING)
        /\ \E pos : From(pos, w, text, P, Len(text))
    <2> HIDE DEF P
    <2> QED BY KeptFrom
  <1>3. w = WordsOf(text)
    BY DEF WordsOf
  <1>4. \A k \in DOMAIN w : w[k] \notin {",", " "}
    <2>1. PICK pos : From(pos, w, text, P, Len(text))
      BY <1>2
    <2>2. DOMAIN w = 1..Len(w)
      <3> HIDE DEF w
      <3>1. w \in Seq(STRING)
        BY <1>2
      <3> QED BY <3>1
    <2> HIDE DEF w
    <2> QED BY <2>1, <2>2 DEF From
  <1> HIDE DEF w, P
  <1> QED BY <1>1, <1>2, <1>3, <1>4

LEMMA SortSettles ==
  ASSUME NEW type \in SortTypes, NEW v \in InputValues, SortValue(type, v) # Invalid
  PROVE  LET w == SortValue(type, v)
         IN  /\ w \in InputValues /\ Usable(type, w)
             /\ w # List(<<>>) => SortValue(type, w) = w
  <1> DEFINE w == SortValue(type, v)
             given == IF "list" \in DOMAIN v THEN v.list ELSE v.text
  <1>1. type.kind = "sort" /\ type.default \in Seq(STRING)
        /\ \A i \in DOMAIN type.default : type.default[i] \notin {",", " "}
    BY DEF SortTypes
  <1>2. \A l : List(l) = List(<<>>) => l = <<>>
    BY KindsOfValues
  <1>3. ASSUME NEW l \in Seq(STRING), WordsOf(l) = l, l # <<>>
        PROVE  /\ List(l) \in InputValues /\ Usable(type, List(l))
               /\ SortValue(type, List(l)) = List(l)
    <2>1. List(l) \in InputValues /\ Usable(type, List(l))
      BY <1>1, KindsOfValues DEF InputValues, Usable
    <2>2. /\ ~Unset(List(l)) /\ List(l) # List(<<>>) /\ List(l).list = l
          /\ "list" \in DOMAIN List(l)
      BY <1>2, <1>3, ValuesDiffer, KindsOfValues
    <2>3. SortValue(type, List(l)) = List(WordsOf(l))
      BY <2>2 DEF SortValue
    <2> QED BY <1>3, <2>1, <2>3
  <1>4. CASE Unset(v) \/ v = List(<<>>)
    <2>1. CASE type.default = <<>>
      <3>1. w = Null /\ SortValue(type, Null) = Null
        BY <1>4, <2>1, ValuesDiffer DEF SortValue
      <3> QED BY <1>1, <3>1, ValuesDiffer DEF Usable
    <2>2. CASE type.default # <<>>
      <3>1. w = List(type.default)
        BY <1>4, <2>2 DEF SortValue
      <3>2. WordsOf(type.default) = type.default
        BY <1>1, WordsStay
      <3> HIDE DEF w
      <3>3. w \in InputValues /\ Usable(type, w) /\ SortValue(type, w) = w
        BY <1>1, <1>3, <2>2, <3>1, <3>2
      <3> QED BY <3>3 DEF w
    <2> QED BY <2>1, <2>2
  <1>5. CASE ~(Unset(v) \/ v = List(<<>>))
    <2>1. w = List(WordsOf(given)) /\ {"list", "text"} \cap DOMAIN v # {}
      BY <1>5 DEF SortValue
    <2>2. given \in Seq(STRING)
      <3>1. \/ \E t \in Seq(STRING) : v = OfText(t)
            \/ \E l \in Seq(STRING) : v = List(l)
        BY <2>1, KindsOfValues DEF InputValues
      <3> QED BY <3>1, KindsOfValues
    <2> HIDE DEF w, given
    <2>3. WordsOf(given) \in Seq(STRING) /\ WordsOf(WordsOf(given)) = WordsOf(given)
      BY <2>2, WordsStay
    <2>4. CASE WordsOf(given) = <<>>
      <3>1. w = List(<<>>)
        BY <2>1, <2>4
      <3>2. List(<<>>) \in InputValues /\ Usable(type, List(<<>>))
        <4>1. <<>> \in Seq(STRING)
          OBVIOUS
        <4> QED BY <1>1, <4>1, KindsOfValues DEF InputValues, Usable
      <3> QED BY <3>1, <3>2 DEF w
    <2>5. CASE WordsOf(given) # <<>>
      <3>1. w \in InputValues /\ Usable(type, w) /\ SortValue(type, w) = w
        BY <1>3, <2>1, <2>3, <2>5
      <3> QED BY <3>1 DEF w
    <2> QED BY <2>4, <2>5
  <1> QED BY <1>4, <1>5

LEMMA ValueSettles ==
  ASSUME NEW type \in ArgumentTypes, NEW v \in InputValues, InputValue(type, v) # Invalid
  PROVE  Settled(type, InputValue(type, v))
  <1>1. CASE type \in SizeTypes
    <2>1. type.kind = "size" /\ \A u : InputValue(type, u) =
             IF type.notNull /\ SizeValue(type, u) = Null THEN Invalid ELSE SizeValue(type, u)
      BY <1>1 DEF SizeTypes, InputValue
    <2>2. SizeValue(type, v) # Invalid /\ InputValue(type, v) = SizeValue(type, v)
          /\ ~(type.notNull /\ SizeValue(type, v) = Null)
      BY <2>1
    <2>3. LET w == SizeValue(type, v)
          IN  w \in InputValues /\ Usable(type, w) /\ SizeValue(type, w) = w
      BY <1>1, <2>2, SizeSettles
    <2> QED BY <2>1, <2>2, <2>3, ValuesDiffer DEF Settled
  <1>2. CASE type \in PageTypes
    <2>1. type.kind = "page" /\ \A u : InputValue(type, u) =
             IF type.notNull /\ PageValue(type, u) = Null THEN Invalid ELSE PageValue(type, u)
      BY <1>2 DEF PageTypes, InputValue
    <2>2. PageValue(type, v) # Invalid /\ InputValue(type, v) = PageValue(type, v)
          /\ ~(type.notNull /\ PageValue(type, v) = Null)
      BY <2>1
    <2>3. LET w == PageValue(type, v)
          IN  w \in InputValues /\ Usable(type, w) /\ PageValue(type, w) = w
      BY <1>2, <2>2, PageSettles
    <2> QED BY <2>1, <2>2, <2>3, ValuesDiffer DEF Settled
  <1>3. CASE type \in SortTypes
    <2>1. type.kind = "sort" /\ \A u : InputValue(type, u) =
             IF type.notNull /\ SortValue(type, u) = Null THEN Invalid ELSE SortValue(type, u)
      BY <1>3 DEF SortTypes, InputValue
    <2>2. SortValue(type, v) # Invalid /\ InputValue(type, v) = SortValue(type, v)
          /\ ~(type.notNull /\ SortValue(type, v) = Null)
      BY <2>1
    <2>3. LET w == SortValue(type, v)
          IN  w \in InputValues /\ Usable(type, w) /\ (w # List(<<>>) => SortValue(type, w) = w)
      BY <1>3, <2>2, SortSettles
    <2> QED BY <2>1, <2>2, <2>3, ValuesDiffer DEF Settled
  <1> QED BY <1>1, <1>2, <1>3 DEF ArgumentTypes

\* The arguments that InputArgs.Parse leaves are all there are, each of a value
\* its reader can use, and are left as they are should the query, which Parse
\* writes them back into (graphql/input.go:206), be parsed again; but for an
\* empty list to sort by, which is the default the second time.
THEOREM ArgumentsSettle ==
  ASSUME NEW args, Registered(args),
         NEW given, \A a \in DOMAIN given : given[a] \in InputValues,
         ParseArgs(args, given).outcome = "ok"
  PROVE  LET out == ParseArgs(args, given).args
         IN  /\ DOMAIN out = DOMAIN args
             /\ \A a \in DOMAIN args : Usable(args[a].type, out[a])
             /\ \A a \in DOMAIN given : out[a] = InputValue(args[a].type, given[a])
             /\ (\A a \in DOMAIN args : out[a] # List(<<>>)) =>
                    ParseArgs(args, out) = [outcome |-> "ok", args |-> out]
  <1> DEFINE D == DOMAIN given \cup {a \in DOMAIN args \ DOMAIN given : args[a].value # Null}
             val(a) == IF a \in DOMAIN given THEN InputValue(args[a].type, given[a])
                       ELSE DefaultOf(args[a])
             out == [a \in D |-> val(a)]
  <1>1. /\ DOMAIN given \subseteq DOMAIN args
        /\ \A a \in DOMAIN given : InputValue(args[a].type, given[a]) # Invalid
        /\ \A a \in DOMAIN args \ DOMAIN given : args[a].value # Null
        /\ ParseArgs(args, given).args = out
    BY DEF ParseArgs, Error
  <1>2. D = DOMAIN args
    BY <1>1
  <1> HIDE DEF D
  <1>3. \A a \in DOMAIN args : Settled(args[a].type, val(a))
    <2> SUFFICES ASSUME NEW a \in DOMAIN args PROVE Settled(args[a].type, val(a))
      OBVIOUS
    <2>1. args[a].type \in ArgumentTypes /\ args[a].value \in InputValues
      BY DEF Registered
    <2>2. CASE a \in DOMAIN given
      BY <1>1, <2>1, <2>2, ValueSettles
    <2>3. CASE a \notin DOMAIN given
      <3>1. args[a].value # Null /\ DefaultOf(args[a]) # Invalid
        BY <1>1, <2>3 DEF Registered
      <3>2. DefaultOf(args[a]) = InputValue(args[a].type, args[a].value)
        BY <3>1 DEF DefaultOf
      <3> QED BY <2>1, <2>3, <3>1, <3>2, ValueSettles
    <2> QED BY <2>2, <2>3
  <1>4. \A a \in DOMAIN given : val(a) = InputValue(args[a].type, given[a])
    OBVIOUS
  <1> HIDE DEF val
  <1>5. DOMAIN out = DOMAIN args /\ \A a \in DOMAIN args : out[a] = val(a)
    BY <1>2
  <1>6. ASSUME \A a \in DOMAIN args : out[a] # List(<<>>)
        PROVE  ParseArgs(args, out) = [outcome |-> "ok", args |-> out]
    <2>1. \A a \in DOMAIN args : InputValue(args[a].type, out[a]) = out[a] /\ out[a] # Invalid
      BY <1>3, <1>5, <1>6 DEF Settled
    <2>2. ParseArgs(args, out) =
             [outcome |-> "ok", args |-> [a \in DOMAIN args |-> InputValue(args[a].type, out[a])]]
      <3> HIDE DEF out
      <3>1. DOMAIN out \cup {a \in DOMAIN args \ DOMAIN out : args[a].value # Null} = DOMAIN args
        BY <1>5
      <3>2. /\ DOMAIN out \subseteq DOMAIN args
            /\ ~\E a \in DOMAIN out : InputValue(args[a].type, out[a]) = Invalid
            /\ ~\E a \in DOMAIN args \ DOMAIN out : args[a].value = Null
        BY <1>5, <2>1
      <3> QED BY <1>5, <3>1, <3>2 DEF ParseArgs
    <2>3. [a \in DOMAIN args |-> InputValue(args[a].type, out[a])] = [a \in DOMAIN args |-> val(a)]
      BY <1>5, <2>1
    <2>4. out = [a \in DOMAIN args |-> val(a)]
      BY <1>2
    <2> QED BY <2>2, <2>3, <2>4
  <1>7. \A a \in DOMAIN args : Usable(args[a].type, out[a])
    BY <1>3, <1>5 DEF Settled
  <1> HIDE DEF out
  <1> QED BY <1>1, <1>4, <1>5, <1>6, <1>7
=============================================================================
