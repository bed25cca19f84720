----------------------------- MODULE FieldExpansion -----------------------------
(***************************************************************************)
(* What the fields asked for become once they are held against the         *)
(* metadata of the object: arguments get their values, "*" and "+" their   *)
(* fields, and what is unknown is refused.  internal/graphql/metadata.go.  *)
(*                                                                         *)
(* Metadata is a record of a name, the arguments (a function from names to *)
(* [type, value]), the nested metadata and the texts of the default        *)
(* fields.                                                                 *)
(***************************************************************************)
EXTENDS FieldSyntax

-----------------------------------------------------------------------------
(* Fields *)

\* GetField, past the order of a field to sort by.
Known(md, spec, q) ==
    LET name == IF spec.sorting /\ q.name \in DOMAIN Ordered THEN Ordered[q.name] ELSE q.name
    IN  SelectInSeq(md.fields, LAMBDA fd : fd.name = name)

Wildcards(spec) == IF spec.sorting THEN {} ELSE {All, Default}

\* Mutant: after a wildcard the next field is passed over.
Visited_Skips(spec, fields) ==
    {i \in DOMAIN fields : /\ fields[i].name \notin Wildcards(spec)
                           /\ i > 1 => fields[i - 1].name \notin Wildcards(spec)}

\* The fields that are validated: all but the wildcards.
Visited(spec, fields) == {i \in DOMAIN fields : fields[i].name \notin Wildcards(spec)}

\* Mutant: the fields are added although they are there.
Missing_All(fields, more) == more

\* The fields of "more" that are not there yet.
Missing(fields, more) == SelectSeq(more, LAMBDA q : q.name \notin Names(fields))

\* Mutant: the supplement takes the place of what was asked for.
Extended_Replaced(fields, more) ==
    IF more.outcome = "ok" THEN [more EXCEPT !.fields = IF @ = <<>> THEN fields ELSE @] ELSE more

Extended(fields, more) ==
    IF more.outcome = "ok" THEN [more EXCEPT !.fields = fields \o @] ELSE more

\* The first failure, or the queries of all.
Gathered(results) ==
    LET failed == SelectInSeq(results, LAMBDA r : r.outcome # "ok")
    IN  IF failed # 0 THEN results[failed]
        ELSE [outcome |-> "ok", fields |-> [i \in DOMAIN results |-> results[i].query]]

RECURSIVE FieldQ(_, _, _), FieldsQ(_, _, _)

\* A field is what its arguments and its nested fields have come to.
Filled(q, args, nested) ==
    IF args.outcome # "ok" THEN args
    ELSE IF nested.outcome # "ok" THEN nested
    ELSE [outcome |-> "ok", query |-> [q EXCEPT !.args = args.args, !.fields = nested.fields]]

\* One field: its arguments, then its nested fields.
FieldQ(fd, spec, q) ==
    Filled(q,
        IF ~spec.noArgs THEN ParseArgs(fd.args, q.args)
        ELSE IF q.args = None THEN [outcome |-> "ok", args |-> None] ELSE Error,
        IF ~spec.noNested THEN FieldsQ(fd, [spec EXCEPT !.default = fd.default], q.fields)
        ELSE IF q.fields = <<>> THEN [outcome |-> "ok", fields |-> <<>>] ELSE Error)

\* extendQ with the default texts, parsed: those that are there are dropped,
\* and what is left is expanded in its turn: when nothing is left, to the
\* defaults.
ExtendDefault(md, spec, fields, parsed) ==
    IF parsed.outcome # "ok" THEN parsed
    ELSE Extended(fields, FieldsQ(md, [spec EXCEPT !.default = md.default],
                                  Missing(fields, parsed.fields)))

\* extendQ with nothing: every field of the metadata that is not there.
ExtendAll(md, spec, fields) ==
    LET more == Missing(fields, [i \in DOMAIN md.fields |-> Query(md.fields[i].name)])
    IN  Extended(fields, Gathered([i \in DOMAIN more |->
            FieldQ(md.fields[Known(md, spec, more[i])], spec, more[i])]))

\* What "+", "*" or nothing at all adds to the fields, given each of them.
Supplemented(md, spec, fields, each) ==
    LET asked == SelectSeq(each.fields, LAMBDA q : q.name \notin Wildcards(spec))
        sup == IF spec.default # <<>> THEN spec.default ELSE md.default
    IN  IF each.outcome # "ok" THEN each
        ELSE IF All \in Names(fields) \cap Wildcards(spec) THEN ExtendAll(md, spec, asked)
        ELSE IF (asked = <<>> \/ Default \in Names(fields)) /\ sup # <<>>
             THEN ExtendDefault(md, spec, asked, Decode(spec, sup))
        ELSE [outcome |-> "ok", fields |-> asked]

\* fieldsQ: the fields one by one, then the supplement.
FieldsQ(md, spec, fields) ==
    LET One(i) == IF i \notin Visited(spec, fields) THEN [outcome |-> "ok", query |-> fields[i]]
                  ELSE IF Known(md, spec, fields[i]) = 0 THEN Error
                  ELSE FieldQ(md.fields[Known(md, spec, fields[i])], spec, fields[i])
    IN  IF md.fields = <<>> THEN IF fields = <<>> THEN [outcome |-> "ok", fields |-> <<>>] ELSE Error
        ELSE Supplemented(md, spec, fields, Gathered([i \in DOMAIN fields |-> One(i)]))
=============================================================================
