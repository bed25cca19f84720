---------------------------- MODULE FieldArguments ----------------------------
(***************************************************************************)
(* The values of the arguments of a field, the size and page of a list and *)
(* what it is sorted by: every argument that is given goes through its     *)
(* type, and one that is not gets the default it was registered with.      *)
(* internal/graphql/input.go and list.go.                                  *)
(*                                                                         *)
(* Arguments are a function from names to [type, value].  A value is a     *)
(* text, which is a sequence of tokens, a number, a list or null.          *)
(***************************************************************************)
EXTENDS Integers, Subsequences

CONSTANT Numbers   \* words that are numbers, no names

ASSUME NumbersAssumption == \A w \in DOMAIN Numbers : Numbers[w] \in Int

OfText(text) == [text |-> text]
Number(n) == [int |-> n]
List(words) == [list |-> words]
Null == [null |-> TRUE]
Invalid == [invalid |-> TRUE]

Error == [outcome |-> "error"]

\* An empty text stands for no value.
Unset(v) == v \in {Null, OfText(<<>>)}

\* What a text says as a number, or the number itself.
NumberOf(v) ==
    IF "int" \in DOMAIN v THEN v.int ELSE Numbers[v.text[1]]

IsNumber(v) ==
    \/ "int" \in DOMAIN v
    \/ "text" \in DOMAIN v /\ Len(v.text) = 1 /\ v.text[1] \in DOMAIN Numbers

\* InputSize: no size is the default, less than none is no limit, and none is
\* beyond the maximum.
SizeValue(type, v) ==
    LET size == IF Unset(v) THEN type.default ELSE NumberOf(v)
        atLeast == IF size < -1 THEN -1 ELSE size
        bounded == IF type.max < atLeast THEN type.max ELSE atLeast
    IN  CASE ~Unset(v) /\ ~IsNumber(v) -> Invalid
          [] Unset(v) /\ (type.default = 0 \/ bounded = 0) -> Null
          [] ~Unset(v) /\ IsNumber(v) /\ bounded = 0 -> Invalid
          [] OTHER -> Number(bounded)

\* InputPage: a page has a positive number; an empty text is no page.
PageValue(type, v) ==
    IF v = Null THEN IF type.default = 0 THEN Null ELSE Number(type.default)
    ELSE IF ~IsNumber(v) THEN Invalid
    ELSE IF NumberOf(v) <= 0 THEN Invalid ELSE Number(NumberOf(v))

\* FieldsFunc: what is between the commas and the blanks.
WordsOf(text) == Kept(text, {i \in DOMAIN text : text[i] \notin {",", " "}})

\* InputSort: a text without a word gives an empty list and not the default,
\* a list without one gives the default.
SortValue(type, v) ==
    LET words == WordsOf(IF "list" \in DOMAIN v THEN v.list ELSE v.text)
    IN  IF Unset(v) \/ v = List(<<>>)
        THEN IF type.default = <<>> THEN Null ELSE List(type.default)
        ELSE IF {"list", "text"} \cap DOMAIN v = {} THEN Invalid
        ELSE List(words)

InputValue(type, v) ==
    LET value == CASE type.kind = "size" -> SizeValue(type, v)
                   [] type.kind = "page" -> PageValue(type, v)
                   [] type.kind = "sort" -> SortValue(type, v)
    IN  IF type.notNull /\ value = Null THEN Invalid ELSE value

\* Mutant: the value is registered as it was given.
DefaultOf_AsGiven(arg) == arg.value

\* InputArgs.Add: the default goes through its type when it is registered.
DefaultOf(arg) == IF arg.value = Null THEN Null ELSE InputValue(arg.type, arg.value)

\* InputArgs.Parse: none unknown, none invalid, none missing that has no
\* default; the defaults of the others are added.
ParseArgs(args, given) ==
    LET value(a) == InputValue(args[a].type, given[a])
        added == {a \in DOMAIN args \ DOMAIN given : args[a].value # Null}
    IN  IF \/ ~(DOMAIN given \subseteq DOMAIN args)
           \/ \E a \in DOMAIN given : value(a) = Invalid
           \/ \E a \in DOMAIN args \ DOMAIN given : args[a].value = Null
        THEN Error
        ELSE [outcome |-> "ok", args |-> [a \in DOMAIN given \cup added |->
                 IF a \in DOMAIN given THEN value(a) ELSE DefaultOf(args[a])]]

-----------------------------------------------------------------------------
(* Properties *)

\* A value of use to who reads it: a page is positive, a size is not zero and
\* not beyond its maximum.
Usable(type, v) ==
    CASE type.kind = "size" -> v = Null \/ ("int" \in DOMAIN v /\ v.int \in (-1 .. type.max) \ {0})
      [] type.kind = "page" -> v = Null \/ ("int" \in DOMAIN v /\ v.int > 0)
      [] type.kind = "sort" -> v = Null \/ "list" \in DOMAIN v
=============================================================================
