-------------------------- MODULE MCFunctionHarness --------------------------
(* FunctionHarness for TLC. *)
EXTENDS FunctionHarness

F(name, shape, of) ==
    [name |-> <<name>>, shape |-> shape, of |-> of, literal |-> TRUE,
     counts |-> {}, elements |-> {}, roles |-> {}]
Count(name, pointers, roles) ==
    [F(name, "value", "integer") EXCEPT !.counts = {<<p>> : p \in pointers}, !.roles = roles]

S(fields) == [union |-> FALSE, fields |-> fields, callbacks |-> <<>>, unsupported |-> {},
              within |-> {}, masked |-> {}, indexing |-> {}]

\* A struct with a pointer, two other fields and what else the lists below allow.
FirstFields == {F("a", "pointer", of) : of \in {"char", "integer", "void", "pointer", "opaque",
                                               "link", "leaf", "s"}}
SecondFields == {Count("n", {"a"}, {"length", "generic"}), Count("n", {}, {"length", "generic"}),
                 [F("n", "value", "integer") EXCEPT !.elements = {<<"a">>}],
                 F("b", "value", "scalar"), F("b", "array", "char"),
                 [F("b", "array", "char") EXCEPT !.literal = FALSE], F("b", "pointer", "opaque"),
                 F("b", "value", "link"), F("b", "value", "opaque"), F("b", "value", "hook"),
                 F("b", "value", "table")}
ThirdFields == {Count("c", {"b"}, {"length"}), Count("c", {}, {"cursor"}),
                F("c", "value", "leaf"), F("c", "pointer", "s")}

Around(a, b, c) ==
    {S(<<a, b, c>>), S(<<b, c, a>>),
     [S(<<a, b, c>>) EXCEPT !.callbacks = <<<<"d">>>>, !.within = {<<<<"c">>, <<"n">>>>},
                            !.masked = {<<"n">>}, !.unsupported = {<<"e">>}]}

Leaf == S(<<F("x", "value", "integer")>>)
Link == S(<<F("next", "pointer", "link"), F("a", "pointer", "s")>>)
Either == [S(<<F("x", "value", "integer")>>) EXCEPT !.union = TRUE]
\* Its first member is a leaf, or a leaf's.
Outer == S(<<F("first", "value", "leaf"), F("y", "value", "either")>>)
Outermost == S(<<F("base", "value", "outer"), F("z", "pointer", "leaf")>>)

Source(s, casts, made) ==
    [structs |-> [t \in {"s", "link", "leaf", "either", "outer", "outermost"} |->
                    CASE t = "s" -> s [] t = "link" -> Link [] t = "leaf" -> Leaf
                      [] t = "either" -> Either [] t = "outer" -> Outer
                      [] t = "outermost" -> Outermost],
     casts |-> casts, tables |-> {"table"}, stubs |-> {"hook"}, initializers |-> made,
     factories |-> made, destructors |-> made, accessors |-> [t \in {"leaf"} \cap made |-> t]]

FieldsOfEveryKind ==
    UNION {Around(a, b, c) : a \in FirstFields, b \in SecondFields, c \in ThirdFields}

\* parson's hash table: cells index hashes.
Table == [S(<<F("a", "pointer", "integer"), Count("n", {"a"}, {"length"}),
              F("b", "pointer", "integer"), Count("c", {"b"}, {"length"})>>)
             EXCEPT !.indexing = {<<<<"a">>, <<"b">>>>}]

Plain == S(<<F("a", "pointer", "leaf"), F("b", "value", "either")>>)
MadeOf(accessors) == [Source(Plain, {}, {"s"}) EXCEPT !.accessors = accessors]

SourcesOfStructs == {Source(s, {}, {}) : s \in FieldsOfEveryKind \cup {Table}}
SourcesOfCasts ==
    {Source(Plain, {"outer"}, {}), Source(Plain, {"outermost"}, {}), Source(Plain, {}, {"s", "leaf"}),
     MadeOf([t \in {"leaf"} |-> "s"])}

P(name, shape, of) ==
    [name |-> <<name>>, shape |-> shape, of |-> of, signed |-> FALSE, counts |-> {},
     length |-> FALSE, cast |-> None, direction |-> None, walked |-> FALSE,
     string |-> FALSE, text |-> FALSE, extent |-> 0]

Taking(list) ==
    [found |-> "written", main |-> "none", receiver |-> FALSE, params |-> list,
     requires |-> <<>>, hooks |-> <<>>, unresolved |-> {}]

Length(name, signed) == [P(name, "value", "integer") EXCEPT !.length = TRUE, !.signed = signed]
Text == [P("p", "pointer", "char") EXCEPT !.text = TRUE]
StringP == [P("q", "pointer", "char") EXCEPT !.string = TRUE, !.walked = TRUE]
Cursor(d) == [P("w", "double", "char") EXCEPT !.direction = d]
Many == [P("r", "pointer", "integer") EXCEPT !.extent = 2]

OneObject == {Taking(<<P("p", "pointer", "s")>>)}

ManyShapes ==
    {Taking(<<>>)}
    \cup {Taking(<<P("p", shape, of)>>) :
            shape \in {"value", "pointer", "double", "reference"},
            of \in {"integer", "char", "void", "leaf", "outer", "table", "opaque"}}
    \cup {Taking(<<Text, Length("n", signed), StringP, Many>>) : signed \in BOOLEAN}
    \cup {Taking(<<[P("p", "pointer", "void") EXCEPT !.cast = t]>>) : t \in {"leaf", "opaque"}}
    \cup {Taking(<<[P("p", "pointer", "leaf") EXCEPT !.cast = t], P("m", "pointer", "s")>>) :
            t \in {"outer", "opaque"}}
    \cup {Taking(<<Cursor(d), P("v", "pointer", "char"), Length("n", FALSE)>>) :
            d \in {"forwards", None}}
    \cup {Taking(<<P("k", "value", "integer"), P("p", "pointer", "char"),
                   P("m", "value", "integer"), Length("n", FALSE)>>)}
    \cup {Taking(<<P("p", "pointer", "char"),
                   [P("z", "value", "integer") EXCEPT !.counts = {<<"p">>}], P("r", "pointer", "char"),
                   Length("n", FALSE)>>)}
    \cup {[Taking(<<Text, Length("n", TRUE)>>) EXCEPT
              !.receiver = TRUE, !.requires = <<{<<"p">>, <<"n">>}, {<<"member">>}>>,
              !.hooks = <<<<"alloc">>>>, !.unresolved = {<<"callee">>, <<"alloc">>}]}
    \cup {[Taking(<<>>) EXCEPT !.found = f, !.main = m] :
            f \in {"written", "preprocessed", "compiled_out", "nowhere"},
            m \in {"guarded", "unguarded"}}

SomeSources == SourcesOfStructs \cup SourcesOfCasts
SomeSignatures == OneObject \cup ManyShapes

SomeWishes ==
    {[preprocess |-> pre, setup |-> setup, proposed |-> proposed] :
        pre \in BOOLEAN, setup \in {<<>>, <<TRUE>>, <<TRUE, FALSE>>},
        proposed \in {<<>>, <<{<<"n">>}>>, <<{<<"p">>, <<"other">>}>>}}

NoWishes == [preprocess |-> FALSE, setup |-> <<>>, proposed |-> <<>>]

\* parson's table is one that indexes, and no other struct's fields are taken for its.
\* No struct has a member twice.
ASSUME SourcesAreRegular == IndexedArraysAreScalars /\ MembersDistinct

\* Every struct for one signature, every signature and wish for a few sources, and
\* either with every option.
MCInit ==
    /\ \/ program \in SourcesOfStructs /\ signature \in OneObject /\ wishes = NoWishes
       \/ program \in SourcesOfCasts /\ signature \in SomeSignatures /\ wishes \in SomeWishes
    /\ options \in Options
    /\ Init
MCSpec == MCInit /\ [][Next]_harnessVars /\ WF_harnessVars(Next)

=============================================================================
