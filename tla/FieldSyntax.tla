------------------------------ MODULE FieldSyntax ------------------------------
(***************************************************************************)
(* The language in which fields are asked for: name.arg(value){nested},... *)
(* Its scanner and its writer, internal/graphql/query.go and               *)
(* fields_expansion.go.                                                    *)
(*                                                                         *)
(* A text is a sequence of tokens: punctuation, blanks and words.  What is *)
(* between parentheses is kept as a text.  A query is the record of its    *)
(* name, its arguments and its nested queries.                             *)
(***************************************************************************)
EXTENDS FieldArguments, Sequences, FiniteSets, SequencesExt

CONSTANTS
    FieldNames,   \* words that name fields and arguments
    Ordered       \* words with an order before the name, "-id" for "id"; so is "-3"

All == "+"        \* stands for all fields,
Default == "*"    \* for the default ones
Words == FieldNames \cup DOMAIN Ordered \cup {All, Default}

Lax == [noArgs |-> FALSE, noNested |-> FALSE, sorting |-> FALSE, default |-> <<>>]
Sorting == [Lax EXCEPT !.noArgs = TRUE, !.sorting = TRUE]
Flat == [Lax EXCEPT !.noArgs = TRUE, !.noNested = TRUE]

None == [x \in {} |-> x]
Query(name) == [name |-> name, args |-> None, fields |-> <<>>]

Panic == [outcome |-> "panic"]

Starts(text, token) == text # <<>> /\ Head(text) = token

Names(fields) == {fields[i].name : i \in DOMAIN fields}

\* Fields.Add: no empty name, and none twice.
Add(fields, q) ==
    IF q.name = "" \/ q.name \in Names(fields) THEN fields ELSE Append(fields, q)

-----------------------------------------------------------------------------
(* Scanning *)

\* scanName stops at the first token that is none, and may find nothing; a word
\* that starts with a digit is an error, with a sign before it a name.
ScanName(text) ==
    IF text # <<>> /\ Head(text) \in DOMAIN Numbers \ DOMAIN Ordered THEN Error
    ELSE IF text # <<>> /\ Head(text) \in Words
         THEN [outcome |-> "ok", name |-> Head(text), rest |-> Tail(text)]
         ELSE [outcome |-> "ok", name |-> "", rest |-> text]

\* Mutant: arguments end with the last parenthesis.
Closing_Last(text) == SelectLastInSeq(text, LAMBDA w : w = ")")

\* Arguments end with the first closing parenthesis.
Closing(text) == SelectInSeq(text, LAMBDA w : w = ")")

RECURSIVE ScanRest(_, _, _), ScanFieldsQ(_, _)

\* What follows the name of q: any number of arguments, then nested fields.
ScanRest(syntax, q, text) ==
    IF Starts(text, ".") THEN
        LET name == ScanName(Tail(text))
        IN  IF syntax.noArgs \/ syntax.sorting \/ name = Error THEN Error
            ELSE IF name.name = "" \/ ~Starts(name.rest, "(") \/ Closing(name.rest) = 0 THEN Error
            ELSE LET end == Closing(name.rest)
                     arg == [text |-> SubSeq(name.rest, 2, end - 1)]
                 IN  ScanRest(syntax,
                        [q EXCEPT !.args = [a \in DOMAIN q.args \cup {name.name} |->
                            IF a = name.name THEN arg ELSE q.args[a]]],
                        SubSeq(name.rest, end + 1, Len(name.rest)))
    ELSE IF Starts(text, "{") THEN
        LET inner == ScanFieldsQ(<<>>, Tail(text))
        IN  IF syntax.noNested THEN Error
            ELSE IF inner.outcome # "ok" THEN inner
            ELSE IF ~Starts(inner.rest, "}") THEN Error
            ELSE [outcome |-> "ok", query |-> [q EXCEPT !.fields = inner.fields],
                  rest |-> Tail(inner.rest)]
    ELSE [outcome |-> "ok", query |-> q, rest |-> text]

\* scanFieldsQ: nested fields are scanned whatever the syntax; one that is
\* there already is dropped, one without a name is a panic.
ScanFieldsQ(fields, text) ==
    LET name == ScanName(text)
        one == ScanRest(Lax, Query(name.name), name.rest)
    IN  IF text = <<>> THEN [outcome |-> "ok", fields |-> fields, rest |-> <<>>]
        ELSE IF name = Error THEN Error
        ELSE IF one.outcome # "ok" THEN one
        ELSE IF one.query.name = "" THEN Panic
        ELSE IF Starts(one.rest, ",") THEN ScanFieldsQ(Add(fields, one.query), Tail(one.rest))
        ELSE [outcome |-> "ok", fields |-> Add(fields, one.query), rest |-> one.rest]

\* scanField, outside of braces: an order only where fields are for sorting.
ScanField(syntax, text) ==
    LET name == ScanName(text)
    IN  IF name = Error THEN Error
        ELSE IF name.name = "" THEN Error
        ELSE IF name.name = All /\ ~syntax.sorting
             THEN [outcome |-> "ok", query |-> Query(All), rest |-> name.rest]
        ELSE IF name.name \in DOMAIN Ordered /\ ~syntax.sorting THEN Error
        ELSE ScanRest(syntax, Query(name.name), name.rest)

RECURSIVE ParseFields(_, _, _)

\* parseFields: the fields of a text after those there are; none twice.
ParseFields(syntax, fields, text) ==
    LET one == ScanField(syntax, text)
    IN  IF text = <<>> THEN [outcome |-> "ok", fields |-> fields]
        ELSE IF one.outcome # "ok" THEN one
        ELSE IF one.query.name \in Names(fields) THEN Error
        ELSE IF Starts(one.rest, ",")
             THEN ParseFields(syntax, Append(fields, one.query), Tail(one.rest))
        ELSE IF one.rest # <<>> THEN Error
        ELSE [outcome |-> "ok", fields |-> Append(fields, one.query)]

\* Fields.decode: the fields of several texts.
Decode(syntax, texts) ==
    FoldLeft(LAMBDA got, text : IF got.outcome # "ok" THEN got
                                ELSE ParseFields(syntax, got.fields, text),
             [outcome |-> "ok", fields |-> <<>>], texts)

-----------------------------------------------------------------------------
(* Writing *)

Separated(texts) ==
    FoldLeft(LAMBDA all, text : IF all = <<>> THEN text ELSE all \o <<",">> \o text, <<>>, texts)

RECURSIVE Encode(_)

\* Fields.encode: the arguments in any order, of which one is as good.
Encode(fields) ==
    LET Args(q) ==
            LET names == SetToSeq(DOMAIN q.args)
            IN  FlattenSeq([i \in DOMAIN names |->
                    <<".", names[i], "(">> \o q.args[names[i]].text \o <<")">>])
        Nested(q) == IF q.fields = <<>> THEN <<>> ELSE <<"{">> \o Encode(q.fields) \o <<"}">>
    IN  Separated([i \in DOMAIN fields |-> <<fields[i].name>> \o Args(fields[i]) \o Nested(fields[i])])

-----------------------------------------------------------------------------
(* Splitting *)

Escape == "\\"
Separators == {",", " "}

\* What opens, with what closes it; a quote closes itself.
Quotes == {"'", "\""}
Closer ==
    [open \in Quotes \cup {"(", "{"} |->
        CASE open = "(" -> ")" [] open = "{" -> "}" [] open \in Quotes -> open]

\* Mutant: every separator splits.
Splits_Everywhere(open, token) == token \in Separators

\* A comma or a blank splits where nothing is open.
Splits(open, token) == token \in Separators /\ open = <<>>

\* What is open after a token.
OpenAfter(open, token) ==
    IF open # <<>> /\ Head(open) = token THEN Tail(open)
    ELSE IF token \in DOMAIN Closer THEN <<Closer[token]>> \o open ELSE open

\* SplitFieldsQ: the fields of a text as texts of their own; none is empty.
\* The token after an escape neither splits nor opens nor closes.
SplitFieldsQ(text) ==
    LET Read(st, token) ==
            IF st.last # Escape /\ Splits(st.open, token)
            THEN [st EXCEPT !.list = IF st.word = <<>> THEN @ ELSE Append(@, st.word),
                            !.word = <<>>, !.last = token]
            ELSE [st EXCEPT !.word = Append(@, token), !.last = token,
                            !.open = IF st.last = Escape THEN @ ELSE OpenAfter(@, token)]
        end == FoldLeft(Read, [list |-> <<>>, word |-> <<>>, open |-> <<>>, last |-> ","], text)
    IN  IF end.word = <<>> THEN end.list ELSE Append(end.list, end.word)
=============================================================================
