----------------------------- MODULE MCFieldQueries -----------------------------
(* Every text of up to four tokens over a few words, what trees of two levels *)
(* are written as, and an object with every kind of argument and of column, of *)
(* which revoked_by, a comment in schema.go, is known but not selected.       *)
EXTENDS FieldQueries

McOrdered == [w \in {"-id", "-3"} |-> IF w = "-id" THEN "id" ELSE "3"]
McNumbers == [w \in {"0", "9", "-3"} |-> CASE w = "0" -> 0 [] w = "9" -> 9 [] w = "-3" -> -3]

Alphabet == {"id", "token", "page", "-id", "9", "+", "*", ".", "(", ")", "{", "}", ","}
Wordlike == {"id", "token", "type", "page", "-id", "-3", "9", "+", "*"}

\* Two words without anything between them would be one word.
IsText(t) == \A i \in 1 .. Len(t) - 1 : ~(t[i] \in Wordlike /\ t[i + 1] \in Wordlike)
UpTo(n, tokens) == {t \in UNION {[1 .. m -> tokens] : m \in 0 .. n} : IsText(t)}
McTexts ==
    {<<>>, SessionMust} \cup {<<t>> : t \in UpTo(4, Alphabet)}
    \cup {<<t>> : t \in UpTo(4, {"id", "-3", "'", " ", Escape, ",", "(", ")"})}
    \cup {<< <<"token", "{">> \o t \o <<"}">> >> : t \in UpTo(3, {"type", "-3", "9", "'", ","})}
    \cup {<<a, b>> : a, b \in {<<"id">>, <<"*">>, <<"token", "{", "type", "}">>, <<"list">>}}

Given == {OfText(t) : t \in {<<>>, <<"0">>, <<"9">>, <<"-3">>, <<"id">>, <<"id", ",", "name">>, <<",">>, <<"id", " ", "name">>,
                           <<"(">>, <<"'">>, <<Escape>>}}
Arguments == UNION {[S -> Given] : S \in SUBSET {"size", "page", "sort"}}
Leaf(name) == Query(name)
Nested == {<<>>} \cup {<<Leaf(n)>> : n \in {"type", "*", "+", "-id", "none", "revoked_by"}}
          \cup {<<Leaf(a), Leaf(b)>> : a, b \in {"type", "token", "*"}}
McTrees ==
    {<<[Query("list") EXCEPT !.args = a]>> : a \in {f \in Arguments : Cardinality(DOMAIN f) < 3}}
    \cup {<<[Query("token") EXCEPT !.fields = f]>> : f \in {f \in Nested : Cardinality(Names(f)) = Len(f)}}
    \cup {<<[Query("list") EXCEPT !.args = a], [Query("token") EXCEPT !.args = b, !.fields = f]>> :
            a, b \in {None, [x \in {"page"} |-> OfText(<<"9">>)], [x \in {"sort"} |-> OfText(<<"id", ",", "name">>)]},
            f \in {<<>>, <<Leaf("type"), Leaf("token")>>}}
    \cup {<<Leaf(a), Leaf(b), Leaf(c)>> : a, b, c \in {"id", "token", "full", "device", "other", "push", "*", "+", "none"}}
    \cup {<<[Query("list") EXCEPT !.args = [x \in {"sort"} |-> t]], Leaf("name")>> : t \in Given}
    \cup {<<Leaf("name"), Leaf("list"), Leaf(a), Leaf("*")>> : a \in {"id", "token", "dc", "+"}}

Scalar(name) == [name |-> name, args |-> None, fields |-> <<>>, default |-> <<>>]
Size == [kind |-> "size", max |-> 10, default |-> 0, notNull |-> FALSE]
Page == [kind |-> "page", default |-> 0, notNull |-> TRUE]
Sort == [kind |-> "sort", default |-> <<"name">>, notNull |-> FALSE]
Argument(type, value) == [type |-> type, value |-> value]
McObject ==
    [Scalar("object") EXCEPT
        !.fields = <<
            Scalar("id"),
            [Scalar("token") EXCEPT
                !.fields = << Scalar("type"), Scalar("token"),
                              [Scalar("id") EXCEPT !.args = [a \in {"page"} |-> Argument(Page, Null)]],
                              Scalar("revoked_by") >>,
                !.default = << <<"type">>, <<"token">> >>],
            [Scalar("list") EXCEPT
                !.args = [a \in {"size", "page", "sort"} |->
                    CASE a = "size" -> Argument(Size, Number(20))
                      [] a = "page" -> Argument(Page, Number(1))
                      [] a = "sort" -> Argument(Sort, List(<<"id">>))]],
            Scalar("name"), Scalar("device"), Scalar("full"), Scalar("other"), Scalar("push"),
            Scalar("dc"), Scalar("date"), Scalar("ip"), Scalar("device_id"), Scalar("app_id"),
            Scalar("contact_id"), Scalar("metadata") >>,
        !.default = << <<"id">>, <<"token", "{", "type", "}">> >>]

\* The schema of a session, and what it has no example of: calculations that
\* need one another, tables joined to tables, fields of them.
McFields ==
    SessionFields
    @@ [f \in {"list", "full", "other", "push"} |->
            CASE f = "list" -> Column
              [] f = "full" -> Calc(<<"device", "name">>)
              [] f = "other" -> From("c")
              [] f = "push" -> From("p")]

McDeps == SessionDeps @@ [d \in {"b", "c"} |-> IF d = "c" THEN <<"b">> ELSE <<"a">>]
McFilters == {<<"c">>, <<"a">>, <<"a", "b">>, <<"none">>}
McSyntaxes == {Lax, Flat, Sorting, [Lax EXCEPT !.default = << <<"name">>, <<"list">> >>]}
================================================================================
