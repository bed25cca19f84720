----------------------------- MODULE FieldQueries -----------------------------
(***************************************************************************)
(* A list of objects is asked for with its fields: the texts are parsed,   *)
(* held against the metadata and turned into the columns and joins of a    *)
(* SELECT (SelectPlan), as SearchV2 of store/postgres/sessions.go does it: *)
(* the columns first, then the joins that the filters need.                *)
(***************************************************************************)
EXTENDS FieldExpansion, SelectPlan

CONSTANTS
    Texts,     \* what may be asked for: sequences of texts
    Trees,     \* queries that are written, and asked for as they are written
    Syntaxes,  \* the syntaxes a request may have
    Object     \* the metadata of the object

VARIABLES
    pc,        \* "ask", "parse", "expand", "select", or how it ended before
    syntax,
    texts,
    meant,     \* the tree the texts were written from, if they were
    parsed, expanded    \* fields before and after the metadata

request == <<pc, syntax, texts, meant, parsed, expanded>>
vars == <<request, planVars>>

-----------------------------------------------------------------------------
(* What store/postgres/schema.go registers *)

Column == [from |-> <<>>, kind |-> "column", needs |-> <<>>, rows |-> <<>>]
From(alias) == [Column EXCEPT !.from = <<alias>>]
Calc(names) == [Column EXCEPT !.kind = "calc", !.needs = names]

TokenFields ==
    [f \in {"id", "type", "token", "scope", "refresh", "rotated_at", "expires_at", "revoked_at"} |-> Column]

\* The columns of a session, but for its token.
SessionColumns ==
    [f \in {"dc", "id", "ip", "date", "name", "app_id", "user_agent", "device_id", "contact_id", "metadata"} |-> Column]

\* The session: its device is parsed from the user agent, its token is a record.
SessionFields ==
    SessionColumns
    @@ ("device" :> Calc(<<"user_agent">>))
    @@ ("token" :> [From("a") EXCEPT !.kind = "record", !.rows = TokenFields,
        !.needs = <<"type", "token", "scope", "refresh", "rotated_at", "expires_at", "revoked_at">>])

\* The tokens and the devices, joined to the session itself.
SessionDeps == [d \in {"a", "p"} |-> <<>>]

\* What the Select of a session asks for.
SessionMust ==
    << <<"dc">>, <<"id">>, <<"date">>, <<"name">>, <<"ip">>, <<"device">>, <<"device_id">>,
       <<"app_id">>, <<"contact_id">>, <<"metadata">>, <<"token">> >>

NoTree == <<>>

-----------------------------------------------------------------------------
(* The life of a request *)

Init ==
    /\ pc = "ask"
    /\ syntax = Lax /\ texts = <<>> /\ meant = NoTree
    /\ parsed = <<>> /\ expanded = <<>>
    /\ PlanInit

\* A client asks with texts, or writes a tree and asks with that.
Ask ==
    /\ pc = "ask"
    /\ syntax' \in Syntaxes
    /\ \/ texts' \in Texts /\ meant' = NoTree
       \/ \E tree \in Trees : texts' = <<Encode(tree)>> /\ meant' = tree
    /\ pc' = "parse"
    /\ UNCHANGED <<parsed, expanded, planVars>>

Ends(result) == pc' = IF result = Panic THEN "panicked" ELSE "refused"

\* Metadata.ParseFields, its first half: no text stands for the default ones.
Parse ==
    /\ pc = "parse"
    /\ LET sup == IF syntax.default # <<>> THEN syntax.default ELSE Object.default
           result == Decode(syntax, IF texts = <<>> THEN sup ELSE texts)
       IN  IF result.outcome = "ok" THEN parsed' = result.fields /\ pc' = "expand"
           ELSE Ends(result) /\ UNCHANGED parsed
    /\ UNCHANGED <<syntax, texts, meant, expanded, planVars>>

\* Its second half.
Expand ==
    /\ pc = "expand"
    /\ LET result == FieldsQ(Object, syntax, parsed)
       IN  IF result.outcome = "ok" THEN expanded' = result.fields /\ pc' = "select"
           ELSE Ends(result) /\ UNCHANGED expanded
    /\ UNCHANGED <<syntax, texts, meant, parsed, planVars>>

\* The columns of the SELECT; what is asked to sort by selects nothing.
Select ==
    /\ pc = "select" /\ ~syntax.sorting
    /\ Begin(expanded)
    /\ UNCHANGED request

\* The SELECT is made.
Make == PlanStep /\ UNCHANGED request

Next == Ask \/ Parse \/ Expand \/ Select \/ Make

Spec == Init /\ [][Next]_vars

-----------------------------------------------------------------------------
(* Properties *)

Expanding == pc = "select" /\ making = "idle"

\* A query that was written is read as it was meant, and what was read can be
\* written and read again: no argument and no nested field moves to another.
ParseIsExact ==
    pc = "expand" =>
        /\ meant # NoTree => parsed = meant
        /\ parsed # <<>> => Decode(syntax, <<Encode(parsed)>>) = [outcome |-> "ok", fields |-> parsed]

\* An argument with a bracket, a quote or an escape of its own: to the parser
\* it ends with the next parenthesis, to the split it may not.
RECURSIVE ReadOtherwise(_)
ReadOtherwise(fields) ==
    \E i \in DOMAIN fields :
        \/ \E a \in DOMAIN fields[i].args :
                ToSet(fields[i].args[a].text) \cap (DOMAIN Closer \cup {Escape}) # {}
        \/ ReadOtherwise(fields[i].fields)

\* A text is split between the fields it is read as, and never within one.
\* Excepted are arguments with brackets, quotes or escapes, which the parser
\* does not know (query.go:226, 240): id.page('),name is read as two fields and
\* split as one.
SplitIsExact ==
    pc = "expand" /\ ~ReadOtherwise(parsed) =>
        SplitFieldsQ(Encode(parsed)) = [i \in DOMAIN parsed |-> Encode(<<parsed[i]>>)]

\* The names of the fields that texts stand for.
NamesIn(default) == Names(Decode(Lax, default).fields)

RECURSIVE SetsOf(_, _, _, _), KnownOf(_, _), KeptOf(_, _)

MdOf(md, q) == md.fields[Known(md, syntax, q)]
Asked(fields) == SelectSeq(fields, LAMBDA q : q.name \notin Wildcards(syntax))

\* "*" where every field it stands for is asked for as well: nothing is left to
\* add, which stands for the metadata's own defaults, asked for or not
\* (metadata.go:121).
NothingLeft(md, default, asked) ==
    /\ Default \in Names(asked) /\ All \notin Names(asked)
    /\ NamesIn(default) \subseteq Names(asked)
    /\ NamesIn(md.default) \cap Names(asked) # {}

\* Fields are a SET, as the type says (query.go:16): no field is there twice,
\* nested ones included.  Excepted is a "*" that leaves nothing to add, which
\* adds fields that are there: name,list,id,* of a request whose defaults are
\* name,list.
FieldsAreSets ==
    Expanding =>
        SetsOf(Object, IF syntax.default # <<>> THEN syntax.default ELSE Object.default,
               parsed, expanded)

SetsOf(md, default, asked, fields) ==
    /\ \/ Cardinality(Names(fields)) = Len(fields)
       \/ NothingLeft(md, default, asked)
    /\ \A i \in DOMAIN fields :
          LET same == SelectSeq(asked, LAMBDA q : q.name = fields[i].name)
              fd == MdOf(md, fields[i])
          IN  SetsOf(fd, fd.default, IF same = <<>> THEN <<>> ELSE same[1].fields, fields[i].fields)

\* Every field that comes out is known to the metadata, nested ones included,
\* has every argument that has a default, and none that is no use: a page is
\* positive, a size is not zero and not beyond its maximum.
ExpandedIsKnown == Expanding => KnownOf(Object, expanded)

KnownOf(md, fields) ==
    \A i \in DOMAIN fields :
        /\ Known(md, syntax, fields[i]) # 0
        /\ LET fd == MdOf(md, fields[i])
           IN  /\ ~syntax.noArgs => DOMAIN fields[i].args = DOMAIN fd.args
               /\ \A a \in DOMAIN fields[i].args : Usable(fd.args[a].type, fields[i].args[a])
               /\ KnownOf(fd, fields[i].fields)

\* What was asked for is there after the expansion, in the order it was asked
\* in, with the nested fields and the arguments it was asked with: wildcards
\* and defaults only add.
AskedIsKept == Expanding => KeptOf(parsed, expanded)

KeptOf(asked, fields) ==
    LET own == Asked(asked)
    IN  /\ Len(own) <= Len(fields)
        /\ \A i \in DOMAIN own :
              /\ fields[i].name = own[i].name
              /\ DOMAIN own[i].args \subseteq DOMAIN fields[i].args
              /\ KeptOf(own[i].fields, fields[i].fields)

\* A list to sort by that has commas and no word: it is kept as an empty list,
\* which the next one to look at it takes for none.
RECURSIVE EmptySort(_)
EmptySort(fields) ==
    \E i \in DOMAIN fields :
        \/ \E a \in DOMAIN fields[i].args : fields[i].args[a] = List(<<>>)
        \/ EmptySort(fields[i].fields)

\* What is expanded stays as it is when it is expanded again, as for a field
\* that is asked for once by the request and once for a calculation: the
\* values an argument gets are values it accepts and keeps.  Excepted is the
\* empty list to sort by.
ExpansionSettles ==
    Expanding /\ expanded # <<>> /\ ~EmptySort(expanded) =>
        FieldsQ(Object, syntax, expanded) = [outcome |-> "ok", fields |-> expanded]

\* What was read is what was written, and is split into the same fields where
\* no argument has brackets, quotes or escapes (graphql/query.go).
ReadIsExact == ParseIsExact /\ SplitIsExact

\* The expansion gives known fields, none twice but where "*" leaves nothing to
\* add, with all that was asked for, and leaves it at that when it is run again
\* (graphql/metadata.go).
ExpansionIsExact == FieldsAreSets /\ ExpandedIsKnown /\ AskedIsKept /\ ExpansionSettles
=============================================================================
