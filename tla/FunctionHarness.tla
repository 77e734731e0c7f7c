--------------------------- MODULE FunctionHarness ---------------------------
(***************************************************************************)
(* The harness of one function: generate of src/veripp/harness.py.         *)
(*                                                                         *)
(* A signature is turned into the body of a main() that calls it: hooks and *)
(* set-up first, then the parameters - pairs of cursors, whatever has no    *)
(* length, buffers with their lengths - the preconditions, the call, and    *)
(* what is freed afterwards.  Objects are built by ObjectHarness.  Either   *)
(* every parameter is built or the function is refused.                     *)
(***************************************************************************)
EXTENDS ObjectHarness

CONSTANTS
    Programs,      \* the sources, by their types
    Signatures,    \* the functions harnessed
    Wishes         \* what the command line asks for

VARIABLES
    signature,     \* the function, and what its source says of it
    wishes,
    stage,         \* what generate does next
    at             \* which parameter it does it to

harnessVars == <<objectVars, signature, wishes, stage, at>>

\* shape and of: the type; signed, counts, length: of an integer, whether signed,
\* which pointers its name says it counts, whether it is called a length; the others
\* are what the body does with a pointer: cast it, step through it (direction, or
\* the companion's name says it), walk it to a terminator or treat it as a string,
\* compare it as text, and how many elements it reaches.
Parameter == [name : Identifier, shape : {"value", "pointer", "double", "reference"},
              of : STRING, signed : BOOLEAN, counts : SUBSET Identifier, length : BOOLEAN,
              cast : STRING \cup {None}, direction : {"forwards", "backwards", None},
              walked : BOOLEAN, string : BOOLEAN, text : BOOLEAN, extent : Nat]

\* found: the function's definition in the source as written, or only preprocessed, or
\* only as written since no build compiles it, or nowhere; receiver: it is a member;
\* requires: the identifiers of each VERIPP_REQUIRES; hooks: the allocator hooks.
Signature == [found : {"written", "preprocessed", "compiled_out", "nowhere"},
              main : {"none", "guarded", "unguarded"}, receiver : BOOLEAN,
              params : Seq(Parameter), requires : Seq(SUBSET Identifier),
              hooks : Seq(Identifier), unresolved : SUBSET Identifier]

\* setup: whether each is a plain call; proposed: the identifiers of each.
Wish == [preprocess : BOOLEAN, setup : Seq(BOOLEAN), proposed : Seq(SUBSET Identifier)]

ASSUME HarnessInputsAssumption ==
    /\ \A p \in Programs : IsProgram(p)
    /\ Signatures \subseteq Signature
    /\ Wishes \subseteq Wish

Stages == {"signature", "hooks", "cursors", "scalars", "buffers", "conditions",
           "call", "done", "refused"}

TypeOK ==
    /\ ObjectTypeOK
    /\ signature \in Signatures /\ wishes \in Wishes
    /\ stage \in Stages /\ at \in 1 .. Len(signature.params) + 1
    /\ frames # <<>> => stage \in {"scalars", "buffers"}
    /\ stage = "done" => teardown = <<>>

Init ==
    /\ program \in Programs /\ options \in Options
    /\ signature \in Signatures /\ wishes \in Wishes
    /\ frames = <<>> /\ code = <<>> /\ said = {} /\ teardown = <<>>
    /\ stage = "signature" /\ at = 1

inputs == <<program, options, signature, wishes>>

-----------------------------------------------------------------------------
(* Pairs of parameters. *)

params == signature.params
Positions == DOMAIN params

IsIntegral(p) == p.shape = "value" /\ p.of = "integer"

\* _pair_buffers_with_lengths: by name, or one of the next two parameters, as long
\* as no pointer or reference comes first.
Countable(p) == p.shape = "pointer" /\ p.of \in Scalars \cup {"void"} /\ ~p.walked
ByName(i) == {j \in Positions : IsIntegral(params[j]) /\ params[i].name \in params[j].counts}
Following2(i) ==
    {j \in Positions \cap {i + 1, i + 2} :
        /\ \A k \in i + 1 .. j : params[k].shape = "value"
        /\ IsIntegral(params[j]) /\ params[j].length}
First(positions) == CHOOSE i \in positions : \A j \in positions : i <= j

\* The position of the parameter that counts a pointer's elements, 0 without one.
LengthOf(i) ==
    CASE ~Countable(params[i]) -> 0
      [] Countable(params[i]) /\ ByName(i) # {} -> First(ByName(i))
      [] Countable(params[i]) /\ ByName(i) = {} /\ Following2(i) # {} -> First(Following2(i))
      [] OTHER -> 0

\* _pair_cursors_with_starts: a char ** and the char * after it.
IsCursor(i) ==
    /\ i \in Positions /\ i + 1 \in Positions
    /\ params[i].shape = "double" /\ params[i].of = "char"
    /\ params[i + 1].shape = "pointer" /\ params[i + 1].of = "char"
    /\ params[i].direction # None
InCursorPair(i) == IsCursor(i) \/ IsCursor(i - 1)

-----------------------------------------------------------------------------
(* Whether there is a harness at all. *)

\* The next parameter, or the next stage.
After == [cursors |-> "scalars", scalars |-> "buffers", buffers |-> "conditions"]
Advance ==
    IF at = Len(params) THEN stage' = After[stage] /\ at' = 1
    ELSE at' = at + 1 /\ UNCHANGED stage
GoTo(s) == stage' = s /\ at' = 1

\* HarnessError or SignatureError: nothing is written.
Refuse ==
    /\ stage' = "refused" /\ at' = 1
    /\ frames' = <<>> /\ code' = <<>> /\ said' = {} /\ teardown' = <<>>
    /\ UNCHANGED inputs

\* find_function, in the preprocessed text where the one as written will not do, and
\* _reject_if_compiled_out.
Found == \/ signature.found = "written"
         \/ signature.found = "preprocessed" /\ wishes.preprocess
         \/ signature.found = "compiled_out" /\ ~wishes.preprocess

RefuseSource ==
    /\ stage = "signature" /\ (~Found \/ signature.main = "unguarded")
    /\ Refuse

FindFunction ==
    /\ stage = "signature" /\ Found /\ signature.main # "unguarded"
    /\ GoTo("hooks")
    /\ UNCHANGED <<inputs, frames, code, said, teardown>>

\* _resolve_allocator_hooks and _emit_setup_calls.
SetUp == <<"setup">>

RefuseSetup ==
    /\ stage = "hooks" /\ FALSE \in ToSet(wishes.setup)
    /\ Refuse

EmitHooks ==
    /\ stage = "hooks" /\ FALSE \notin ToSet(wishes.setup)
    /\ Emit([i \in DOMAIN signature.hooks |-> Library(<<signature.hooks[i]>>)]
            \o [i \in DOMAIN wishes.setup |-> Library(<<SetUp>>)],
            {<<h>> : h \in ToSet(signature.hooks)}
            \cup (IF wishes.setup = <<>> THEN {} ELSE {<<SetUp>>}))
    /\ GoTo(IF params = <<>> THEN "conditions" ELSE "cursors")
    /\ UNCHANGED <<inputs, frames, teardown>>

-----------------------------------------------------------------------------
(* Parameters. *)

param == params[at]
Ready(s) == stage = s /\ frames = <<>>

\* One parameter is done.
Built(lines, mentioned) ==
    /\ Emit(lines, mentioned)
    /\ Advance
    /\ UNCHANGED <<inputs, frames, teardown>>

\* A variable, and what it points to.
PointTo(name, suffix, n) ==
    LET storage == Append(name, suffix) IN
    <<Declare(storage, n), Nondet(<<storage>>), Declare(name, 1), Point(<<name>>, storage, <<>>)>>

Skip == Advance /\ UNCHANGED <<inputs, frames, code, said, teardown>>

SkipParameter ==
    /\ frames = <<>>
    /\ \/ stage = "cursors" /\ ~IsCursor(at)
       \/ stage = "scalars" /\ (InCursorPair(at) \/ LengthOf(at) # 0)
       \/ stage = "buffers" /\ (InCursorPair(at) \/ LengthOf(at) = 0)
    /\ Skip

\* _emit_backward_cursor: both ends of one buffer.
TellOfCursor(cursor, companion) == {<<cursor.name>>}  \* mutant: of one end
TellOfBoth(cursor, companion) == {<<cursor.name>>, <<companion.name>>}

EmitCursor ==
    /\ Ready("cursors") /\ IsCursor(at)
    /\ LET companion == params[at + 1]
           storage == Append(param.name, "buf")
           holder == Append(param.name, "cursor")
       IN  Built(<<Declare(storage, MaxArrayLen), Nondet(<<storage>>),
                   Declare(companion.name, 1), Point(<<companion.name>>, storage, <<>>),
                   Declare(holder, 1), Point(<<holder>>, storage, <<>>),
                   Declare(param.name, 1), Point(<<param.name>>, holder, <<>>)>>,
                 TellOfBoth(param, companion))

Unpaired == Ready("scalars") /\ ~InCursorPair(at) /\ LengthOf(at) = 0

EmitValue ==
    /\ Unpaired /\ param.shape = "value" /\ param.of \in Scalars
    /\ Built(<<Declare(param.name, 1), Nondet(<<param.name>>)>>, {})

\* What _try_object is asked to build for a parameter: the object itself, what an
\* in/out parameter points to, what a void * is cast to.
Asking(type, as, pointer, finish) ==
    [type |-> type, as |-> as, pointer |-> pointer, cast |-> param.cast, finish |-> finish,
     mentions |-> {<<param.name>>}]
ThroughPointer(type, suffix) ==
    LET inner == Append(param.name, suffix)
    IN  Asking(type, inner, TRUE,
               <<Declare(param.name, 1), Point(<<param.name>>, inner, <<>>)>>)

ObjectRequest ==
    CASE param.shape = "double" -> ThroughPointer(param.of, "inner")
      [] param.shape = "pointer" /\ param.of = "void" -> ThroughPointer(param.cast, "typed")
      [] OTHER -> Asking(param.of, param.name, param.shape = "pointer", <<>>)

IsObject == /\ param.of \notin Scalars /\ (param.of = "void" => param.cast # None)
            /\ Buildable(ObjectRequest)

\* The object may take many steps more; the next parameter waits for it.
EmitObjectParameter ==
    /\ Unpaired /\ IsObject
    /\ EmitObject(ObjectRequest)
    /\ Advance
    /\ UNCHANGED <<signature, wishes>>

FillObject == FillStep /\ UNCHANGED <<signature, wishes, stage, at>>

\* _emit_void_pointer, without a cast to something that can be built.
EmitBytes ==
    /\ Unpaired /\ param.shape = "pointer" /\ param.of = "void" /\ ~IsObject
    /\ Built(PointTo(param.name, "bytes", MaxArrayLen), {<<param.name>>})

\* _emit_lone_pointer.
EmitString ==
    /\ Unpaired /\ param.shape = "pointer" /\ param.of = "char" /\ param.string
    /\ Built(PointTo(param.name, "str",
                     IF options.terminated_strings THEN MaxArrayLen + 1 ELSE MaxArrayLen),
             {<<param.name>>})

EmitElements ==
    /\ Unpaired /\ param.shape = "pointer" /\ param.of \in Scalars
    /\ ~(param.of = "char" /\ param.string)
    /\ Built(IF param.extent <= 1 THEN PointTo(param.name, "obj", 1)
             ELSE PointTo(param.name, "buf", param.extent), {<<param.name>>})

EmitReference ==
    /\ Unpaired /\ param.shape = "reference" /\ param.of \in Scalars
    /\ Built(<<Declare(param.name, 1), Nondet(<<param.name>>)>>, {<<param.name>>})

RefuseParameter ==
    /\ Unpaired /\ ~IsObject
    /\ \/ param.shape = "double"
       \/ param.of \notin Scalars /\ ~(param.shape = "pointer" /\ param.of = "void")
    /\ Refuse

\* _emit_buffer: the length was emitted with the scalars.
EmitBuffer ==
    /\ Ready("buffers") /\ ~InCursorPair(at) /\ LengthOf(at) # 0
    /\ LET length == params[LengthOf(at)]
           storage == Append(param.name, "buf")
       IN  Built(<<Assume(<<length.name>>, MaxArrayLen)>>
                 \o (IF length.signed
                     THEN <<Stated("nonnegative", <<length.name>>, <<>>, <<>>, 0)>> ELSE <<>>)
                 \o <<Declare(storage, MaxArrayLen), Nondet(<<storage>>)>>
                 \o (IF param.text
                     THEN <<Stated("text", <<storage>>, <<>>, <<length.name>>, 0)>> ELSE <<>>)
                 \o <<Declare(param.name, 1),
                      Point(<<param.name>>, storage, <<length.name>>)>>,
                 {<<param.name>>, <<length.name>>})

-----------------------------------------------------------------------------
(* Preconditions and the call. *)

ParameterNames == {p.name : p \in ToSet(params)}
Requires(names) == SetToSeq({Stated("requires", <<n>>, <<>>, <<>>, 0) : n \in names})

\* _validate_precondition: of the parameters, and of one at least.
Valid(names) == names \subseteq ParameterNames /\ names # {}

\* _hoist_requires leaves what is not about the parameters alone where it is.
Hoisted == [i \in DOMAIN signature.requires |->
               IF Valid(signature.requires[i]) THEN Requires(signature.requires[i]) ELSE <<>>]

RefusePrecondition ==
    /\ stage = "conditions" /\ \E names \in ToSet(wishes.proposed) : ~Valid(names)
    /\ Refuse

EmitConditions ==
    /\ stage = "conditions" /\ frames = <<>>
    /\ \A names \in ToSet(wishes.proposed) : Valid(names)
    /\ Emit(FlattenSeq(Hoisted)
            \o FlattenSeq([i \in DOMAIN wishes.proposed |-> Requires(wishes.proposed[i])]),
            {<<n>> : n \in UNION ToSet(wishes.proposed)})
    /\ GoTo("call")
    /\ UNCHANGED <<inputs, frames, teardown>>

\* _emit_call, on a default-constructed object if need be, and the tear-down.
Receiver == <<"veripp", "obj">>

EmitCall ==
    /\ stage = "call"
    /\ Emit((IF signature.receiver THEN <<Declare(Receiver, 1), Library(<<Receiver>>)>> ELSE <<>>)
            \o [i \in Positions |-> Stated("use", <<params[i].name>>, <<>>, <<>>, 0)]
            \o teardown,
            (IF signature.receiver THEN {<<Receiver>>} ELSE {})
            \cup {<<c>> : c \in signature.unresolved \ ToSet(signature.hooks)})
    /\ teardown' = <<>>
    /\ GoTo("done")
    /\ UNCHANGED <<inputs, frames>>

Next ==
    \/ RefuseSource \/ FindFunction \/ RefuseSetup \/ EmitHooks
    \/ SkipParameter \/ EmitCursor \/ EmitValue \/ EmitObjectParameter \/ FillObject
    \/ EmitBytes \/ EmitString \/ EmitElements \/ EmitReference \/ RefuseParameter
    \/ EmitBuffer \/ RefusePrecondition \/ EmitConditions \/ EmitCall

Spec == Init /\ [][Next]_harnessVars /\ WF_harnessVars(Next)

-----------------------------------------------------------------------------
(* Properties. *)

\* What a source is seldom without: where the code goes through one array of a struct by
\* what another one holds, every struct with a field of the first one's name has an array
\* there.  inferred_invariants only asks whether the names are paired, and of another
\* struct it then writes a loop over elements it did not declare.
IndexedArraysAreScalars ==
    \A p \in Programs : \A t \in DOMAIN p.structs : \A i \in DOMAIN p.structs[t].fields :
        LET g == p.structs[t].fields[i] IN
        \A pair \in p.structs[t].indexing :
            pair[1] = g.name => g.of \in Scalars \cup {"pointer"}

\* What every source is: no two members of a struct have one name.  Two branches of an
\* #if may give one member twice; find_struct refuses such a struct.
MembersDistinct ==
    \A p \in Programs : \A t \in DOMAIN p.structs :
        LET fields == p.structs[t].fields IN
        /\ \A i, j \in DOMAIN fields : fields[i].name = fields[j].name => i = j
        /\ \A i \in DOMAIN fields : fields[i].name \notin ToSet(p.structs[t].callbacks)

\* What a source says in file scope, and so needs no declaration in main().
Globals == {SetUp} \cup ToSet(signature.hooks)

DeclaredBy(i, v) == \E j \in 1 .. i : code[j].op = "declare" /\ code[j].of = <<v>>

\* Every variable a statement is about was declared before it.
DeclaredFirst == \A i \in DOMAIN code : \A v \in Variables(code[i]) \ Globals : DeclaredBy(i, v)

DeclaredOnce ==
    \A i, j \in DOMAIN code :
        code[i].op = "declare" /\ code[j].op = "declare" /\ code[i].of = code[j].of => i = j

\* The harness compiles: every variable it mentions was declared before, and none is
\* declared twice.
NamesResolve == DeclaredFirst /\ DeclaredOnce

Writes(s, lvalue) == s.op \in WritingOps /\ IsPrefix(s.of, lvalue)

ElementsAt(s) ==
    IF s.op = "null" THEN 0
    ELSE code[CHOOSE i \in DOMAIN code : code[i].op = "declare" /\ code[i].of = s.to].n

\* A pointer with a count is never called with a count of more elements than it has:
\* the count is bounded, and not written after that.
CountsFit ==
    stage = "done" =>
        \A i \in DOMAIN code :
            code[i].op \in {"point", "null"} /\ code[i].by # <<>> =>
                \E j \in DOMAIN code :
                    /\ code[j].op = "assume" /\ code[j].of = code[i].by
                    /\ code[j].n <= ElementsAt(code[i])
                    /\ \A k \in DOMAIN code : k > j => ~Writes(code[k], code[i].by)

\* However types refer to each other, no object is built further than the bound of
\* pointers away, so that every harness gets finished.
PointersBounded ==
    Cardinality({i \in DOMAIN frames : frames[i].followed}) <= MaxStructDepth

Told(lvalue) == \E m \in said : IsPrefix(m, lvalue)

\* What a harness narrows: a value it fixes or takes from the library, a bound.
Narrowing == {"null", "point", "library", "assume", "within", "mask", "nonnull", "text"}

\* A variable goes by the note on what points to it; a member has its own.
Noted(s) ==
    \/ Told(s.of)
    \/ /\ Len(s.of) = 1
       /\ \E i \in DOMAIN code : code[i].op = "point" /\ code[i].to = <<s.of[1]>> /\ Told(code[i].of)

\* Every simplification the harness makes is recorded as an assumption and travels
\* with the result.
EverySimplificationSaid ==
    stage = "done" =>
        \A i \in DOMAIN code : code[i].op \in Narrowing => Noted(code[i])

\* What the harness narrows in silence is one thing only: a counted pointer to a struct,
\* whether or not it could build one, is null, and its count 0.
OnlyCountsGoUnsaid ==
    stage = "done" =>
        \A i \in DOMAIN code :
            code[i].op \in Narrowing /\ ~Noted(code[i]) =>
                \E j \in DOMAIN code :
                    /\ code[j].op = "null" /\ code[j].by # <<>>
                    /\ code[i].of \in {code[j].of, code[j].by}

=============================================================================
