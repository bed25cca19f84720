------------------------------- MODULE SelectPlan -------------------------------
(***************************************************************************)
(* The columns and joins of a SELECT for the fields a request is left with *)
(* and the plan of what each column is scanned into                        *)
(* (store/postgres/pgtypex/datatype.go): DataType.Columns, which calls     *)
(* itself for what a calculated field needs and for the columns of a       *)
(* record, and DataType.JoinDeps, which finds the tables to join.          *)
(*                                                                         *)
(* The calls of Columns in progress are a stack, the innermost last; one   *)
(* action is what one of them does with one field up to its next call.     *)
(* Names are looked up in "Fields", and within a record in its rows.       *)
(***************************************************************************)
EXTENDS Naturals, Sequences, FiniteSets, SequencesExt

CONSTANTS
    Fields,    \* of the table: name -> [from, kind, needs, rows]
    Deps,      \* what may be joined: alias -> the aliases on its left
    Filters    \* lists of aliases a filter joins

\* A record among the columns is scanned as one value although its columns
\* are selected one by one.
Records(table) == {name \in DOMAIN table : table[name].kind = "record"}
Calcs == {name \in DOMAIN Fields : Fields[name].kind = "calc"}

ASSUME SchemaAssumption ==
    /\ \A f \in DOMAIN Fields :
          /\ Fields[f].kind \in {"column", "calc", "record"}
          /\ Fields[f].from \in Seq(STRING) /\ Fields[f].needs \in Seq(STRING)
    /\ \A d \in DOMAIN Deps : Deps[d] \in Seq(STRING)
    /\ Filters \subseteq Seq(STRING)

\* schema.go: a record is made of columns, of which none has the name of a
\* calculated field.
ASSUME RowsAssumption ==
    \A f \in Records(Fields) : \A r \in DOMAIN Fields[f].rows :
        /\ Fields[f].rows[r].kind = "column" /\ Fields[f].rows[r].from \in Seq(STRING)
        /\ r \notin Calcs

\* schema.go: calculated fields need fields of the table, and not each other in
\* a circle.
ASSUME NeedsAssumption ==
    /\ \A f \in Calcs : ToSet(Fields[f].needs) \subseteq DOMAIN Fields
    /\ \A S \in SUBSET Calcs :
          S # {} => \E f \in S : \A n \in ToSet(Fields[f].needs) : n \notin S

VARIABLES
    making,    \* where the SELECT is
    calls,     \* the calls of Columns in progress: the descriptors and the
               \* fields they were called with, the field they are at, their plan
    join,      \* JoinDeps in progress: what it was called with, what it has to
               \* resolve yet, what it has found
    select,    \* the SELECT: names taken, columns, joins in their order, and
               \* every list of aliases that was to be joined
    scanning   \* what the columns are scanned into, then what is calculated

planVars == <<making, calls, join, select, scanning>>

NoSelect == [names |-> <<>>, columns |-> <<>>, joins |-> <<>>, wanted |-> <<>>]
NoPlan == [scans |-> <<>>, calcs |-> <<>>]
Join(aliases) == [aliases |-> aliases, todo |-> aliases, found |-> <<>>]

\* The names that can be taken.
ColumnNames == DOMAIN Fields \cup UNION {DOMAIN Fields[f].rows : f \in Records(Fields)}
Plans == [scans : Seq(ColumnNames), calcs : Seq(ColumnNames)]

PlanTypeOK ==
    /\ making \in {"idle", "columns", "join", "query", "made", "done", "refused"}
    /\ calls \in Seq({calls[k] : k \in DOMAIN calls})
    /\ \A k \in DOMAIN calls :
          calls[k] \in [table : {Fields} \cup {Fields[f].rows : f \in Records(Fields)},
                        fields : {calls[k].fields}, at : Nat \ {0}, plan : Plans]
    /\ join \in [aliases : Seq(STRING), todo : Seq(STRING), found : Seq(DOMAIN Deps)]
    /\ select \in [names : Seq(ColumnNames), columns : Seq(ColumnNames),
                   joins : Seq(DOMAIN Deps), wanted : Seq(Seq(STRING))]
    /\ scanning \in Plans

PlanInit ==
    /\ making = "idle" /\ calls = <<>> /\ join = Join(<<>>)
    /\ select = NoSelect /\ scanning = NoPlan

-----------------------------------------------------------------------------
(* JoinDeps *)

\* resolve: an alias that is joined, or to be joined already, is passed over;
\* one that is not known is an error; else what it needs on its left is next.
Resolve ==
    LET alias == Head(join.todo)
        rest == Tail(join.todo)
    IN  /\ making = "join" /\ join.todo # <<>>
        /\ \/ /\ alias \in ToSet(select.joins) \cup ToSet(join.found)
              /\ join' = [join EXCEPT !.todo = rest]
              /\ UNCHANGED making
           \/ /\ alias \notin ToSet(select.joins) \cup ToSet(join.found) \cup DOMAIN Deps
              /\ making' = "refused"
              /\ UNCHANGED join
           \/ /\ alias \in DOMAIN Deps \ (ToSet(select.joins) \cup ToSet(join.found))
              /\ join' = [join EXCEPT !.todo = Deps[alias] \o rest, !.found = Append(@, alias)]
              /\ UNCHANGED making
        /\ UNCHANGED <<calls, select, scanning>>

\* Mutant: in the order they were found in.
JoinOrder_AsFound(found) == found

\* The last that was found is joined first.
JoinOrder(found) == Reverse(found)

\* JoinDeps returns, to Columns or to the filter.
DepsJoined ==
    /\ making = "join" /\ join.todo = <<>>
    /\ select' = [select EXCEPT !.joins = @ \o JoinOrder(join.found),
                                !.wanted = Append(@, join.aliases)]
    /\ join' = Join(<<>>)
    /\ making' = IF calls = <<>> THEN "done" ELSE "query"
    /\ UNCHANGED <<calls, scanning>>

-----------------------------------------------------------------------------
(* Columns *)

Call(table, fields) == [table |-> table, fields |-> fields, at |-> 1, plan |-> NoPlan]

Depth == Len(calls)
Inner == calls[Depth]
More == Inner.at <= Len(Inner.fields)

\* The field a call is at, and its descriptor.
Field(call) == call.fields[call.at]
Described(call) == call.table[Field(call).name]

\* The call goes on to its next field.
Advanced(call, plan) == [call EXCEPT !.at = @ + 1, !.plan = plan]

Needed(names) == [i \in DOMAIN names |-> [name |-> names[i], fields |-> <<>>]]

\* What a record is asked for when nothing is: the columns its query names.
RecordFields(fd, q) == IF q.fields # <<>> THEN q.fields ELSE Needed(fd.needs)

\* Mutant: what a calculation needs is selected and not scanned.
SubPlan_Lost(plan, sub, name) == [plan EXCEPT !.calcs = @ \o sub.calcs \o <<name>>]

\* Mutant: the field comes before what it needs.
SubPlan_First(plan, sub, name) ==
    [scans |-> plan.scans \o sub.scans, calcs |-> plan.calcs \o <<name>> \o sub.calcs]

\* A calculated field comes after what it needs.
SubPlan(plan, sub, name) ==
    [scans |-> plan.scans \o sub.scans, calcs |-> plan.calcs \o sub.calcs \o <<name>>]

\* A record is one scan of its columns and one calculation.
RecordPlan(plan, name) ==
    [scans |-> Append(plan.scans, name), calcs |-> Append(plan.calcs, name)]

\* Select of the data type: Columns is called with the fields of the request.
Begin(fields) ==
    /\ making = "idle"
    /\ calls' = <<Call(Fields, fields)>>
    /\ making' = "columns"
    /\ UNCHANGED <<join, select, scanning>>

\* A name is taken once in the whole SELECT.
Skip ==
    /\ making = "columns" /\ More
    /\ Field(Inner).name \in ToSet(select.names)
    /\ calls' = [calls EXCEPT ![Depth] = Advanced(Inner, Inner.plan)]
    /\ UNCHANGED <<making, join, select, scanning>>

Unknown ==
    /\ making = "columns" /\ More
    /\ Field(Inner).name \notin ToSet(select.names) \cup DOMAIN Inner.table
    /\ making' = "refused"
    /\ UNCHANGED <<calls, join, select, scanning>>

\* The name is taken, then what it comes from is joined.
Take ==
    /\ making = "columns" /\ More
    /\ Field(Inner).name \in DOMAIN Inner.table \ ToSet(select.names)
    /\ select' = [select EXCEPT !.names = Append(@, Field(Inner).name)]
    /\ join' = Join(Described(Inner).from)
    /\ making' = IF Described(Inner).from = <<>> THEN "query" ELSE "join"
    /\ UNCHANGED <<calls, scanning>>

\* A column is one more expression and one more scan.
SelectColumn ==
    /\ making = "query" /\ Described(Inner).kind = "column"
    /\ select' = [select EXCEPT !.columns = Append(@, Field(Inner).name)]
    /\ calls' = [calls EXCEPT ![Depth] =
                    Advanced(Inner, [Inner.plan EXCEPT !.scans = Append(@, Field(Inner).name)])]
    /\ making' = "columns"
    /\ UNCHANGED <<join, scanning>>

\* A calculated field selects what it needs, a record its columns.
Nest ==
    /\ making = "query"
    /\ LET fd == Described(Inner)
       IN  \/ fd.kind = "calc" /\ calls' = Append(calls, Call(Inner.table, Needed(fd.needs)))
           \/ fd.kind = "record" /\ calls' = Append(calls, Call(fd.rows, RecordFields(fd, Field(Inner))))
    /\ making' = "columns"
    /\ UNCHANGED <<join, select, scanning>>

\* The inner call returns its plan: of a calculated field it becomes part of
\* the plan, of a record it is what the one value is scanned into.
Return ==
    /\ making = "columns" /\ ~More /\ Depth > 1
    /\ LET outer == calls[Depth - 1]
           name == Field(outer).name
           plan == IF Described(outer).kind = "calc" THEN SubPlan(outer.plan, Inner.plan, name)
                   ELSE RecordPlan(outer.plan, name)
       IN  calls' = Append(SubSeq(calls, 1, Depth - 2), Advanced(outer, plan))
    /\ UNCHANGED <<making, join, select, scanning>>

\* The outermost call returns.
ColumnsMade ==
    /\ making = "columns" /\ ~More /\ Depth = 1
    /\ scanning' = Inner.plan
    /\ calls' = <<>>
    /\ making' = "made"
    /\ UNCHANGED <<join, select>>

\* A filter on a joined table.
Filter ==
    /\ making = "made"
    /\ \E aliases \in Filters : join' = Join(aliases)
    /\ making' = "join"
    /\ UNCHANGED <<calls, select, scanning>>

PlanStep ==
    \/ Resolve \/ DepsJoined
    \/ Skip \/ Unknown \/ Take \/ SelectColumn \/ Nest \/ Return \/ ColumnsMade
    \/ Filter

\* Whatever the request is.
PlanNext == (\E fields : Begin(fields)) \/ PlanStep

PlanSpec == PlanInit /\ [][PlanNext]_planVars

-----------------------------------------------------------------------------
(* Properties *)

Selected == making # "idle" /\ calls = <<>>

\* Rows are scanned by position.  Up to the first record, the n-th column is
\* scanned into the field it was selected for, the needs of the calculated
\* fields included; without a record, every column is.  A record has one scan
\* for all its columns, and a column whose name is taken already is left out of
\* it (datatype.go:56): past it scans and columns no longer match, and the row
\* of the repository's one SELECT, whose token is a record (schema.go:166),
\* cannot be scanned that way.
WithoutRecord(scans, n) == \A k \in 1..n : scans[k] \notin Records(Fields)

ScannedInto(scans, columns) ==
    /\ \A i \in 1..Len(scans) :
          WithoutRecord(scans, i) => i \in 1..Len(columns) /\ columns[i] = scans[i]
    /\ WithoutRecord(scans, Len(scans)) => Len(columns) = Len(scans)

PlanMatchesColumns == Selected => ScannedInto(scanning.scans, select.columns)

\* A calculated field runs after the calculated fields it needs, and what it
\* needs is in the SELECT.
CalcsFollowNeeds ==
    Selected => \A i \in DOMAIN scanning.calcs :
        LET fd == Fields[scanning.calcs[i]]
        IN  fd.kind = "calc" => \A j \in DOMAIN fd.needs :
                /\ fd.needs[j] \in ToSet(select.names)
                /\ Fields[fd.needs[j]].kind = "calc" =>
                       \E k \in 1 .. i - 1 : scanning.calcs[k] = fd.needs[j]

\* The aliases that are needed by more than one: by a list that is to be
\* joined, or by the left of another.
NeededTwice ==
    \E alias \in DOMAIN Deps :
        LET lists == {n \in DOMAIN select.wanted : alias \in ToSet(select.wanted[n])}
            rights == {other \in ToSet(select.joins) : alias \in ToSet(Deps[other])}
        IN  Cardinality(lists) + Cardinality(rights) > 1

\* A table is joined once, and after the tables that its condition is about.
\* The order is that of a search from the last to the first, which is right
\* as long as no table is needed by two.
JoinsFollowLeft ==
    /\ IsInjective(select.joins)
    /\ ~NeededTwice => \A i \in DOMAIN select.joins : \A left \in ToSet(Deps[select.joins[i]]) :
                           \E j \in 1 .. i - 1 : select.joins[j] = left

\* The rows of the SELECT are scanned as they were selected: every column before
\* the first record into its own field, and every calculation runs after what it
\* needs (pgtypex/datatype.go:56).
SelectIsExact == PlanMatchesColumns /\ CalcsFollowNeeds
=============================================================================
