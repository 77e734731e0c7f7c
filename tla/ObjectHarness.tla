---------------------------- MODULE ObjectHarness ----------------------------
(***************************************************************************)
(* How a harness builds an object: _emit_object, _fill_fields and what they *)
(* call in src/veripp/harness.py.                                           *)
(*                                                                         *)
(* The harness is a C program written statement by statement while the      *)
(* fields of a struct are walked, and the structs they hold or point to.    *)
(* The recursion of _fill_fields is the stack `frames`, innermost first.    *)
(* What naming conventions tell of a field - what it counts, whether it is  *)
(* a length or a cursor - is given with the field; spelling is abstracted,  *)
(* but for the names the harness makes up by joining others.                *)
(***************************************************************************)
EXTENDS Naturals, FiniteSets, SequencesExt

CONSTANTS
    None,
    MaxArrayLen,     \* HarnessOptions.max_array_len
    MaxStructDepth   \* HarnessOptions.max_struct_depth

ASSUME ObjectBoundsAssumption == MaxArrayLen \in Nat \ {0} /\ MaxStructDepth \in Nat

VARIABLES
    program,   \* the types, casts and functions of the source
    options,   \* what the command line chose
    frames,    \* the calls of _fill_fields that have not returned
    code,      \* the body of main() so far
    said,      \* what the assumptions mention
    teardown   \* what is emitted after the call

objectVars == <<program, options, frames, code, said, teardown>>

\* An identifier is the words its underscores separate, of the source or the harness's
\* own; an lvalue is a variable and the members selected from it.
Words == STRING \cup {"bytes", "items", "target", "outer", "obj", "src", "buf", "cursor", "inner",
                      "typed", "str", "setup", "veripp"}
Identifier == Seq(Words)
Lvalue == Seq(Identifier)

\* target.replace(".", "_") and a suffix.
StorageByField(lvalue, suffix) == Append(Last(lvalue), suffix)  \* mutant
Storage(lvalue, suffix) == Append(FlattenSeq(lvalue), suffix)

Scalars == {"integer", "scalar", "char"}
NotStructs == Scalars \cup {"void", "pointer"}

\* counts, elements: the pointers beside it whose number a name says it is, in the
\* way of the first or of the second pass of _pair_struct_fields.
Field == [name : Identifier, shape : {"value", "array", "pointer"}, of : STRING,
          literal : BOOLEAN, counts : SUBSET Identifier, elements : SUBSET Identifier,
          roles : SUBSET {"length", "generic", "cursor"}]

\* callbacks: members declared as function pointers; unsupported: those find_struct
\* gave up on; within, masked, indexing: the uses inferred_invariants finds in the
\* source, of one count below another, of a mask, and of an array whose elements, being
\* scalars, index another one.
Struct == [union : BOOLEAN, fields : Seq(Field), callbacks : Seq(Identifier),
           unsupported : SUBSET Identifier, within : SUBSET (Identifier \X Identifier),
           masked : SUBSET Identifier, indexing : SUBSET (Identifier \X Identifier)]

\* casts: the struct types the file casts to; the others are types that have a hook
\* table, are callback typedefs, have an initialiser, constructors without arguments,
\* a destructor; accessors: the type whose objects can be asked for one.
IsProgram(p) ==
    /\ \A t \in DOMAIN p.structs :
          /\ t \in STRING \ NotStructs /\ p.structs[t] \in Struct
          /\ \A uses \in {p.structs[t].within, p.structs[t].masked, p.structs[t].indexing} :
                IsFiniteSet(uses)
    /\ p.casts \subseteq DOMAIN p.structs
    /\ \A s \in {p.tables, p.stubs, p.initializers, p.factories, p.destructors} :
          s \subseteq STRING
    /\ \A t \in DOMAIN p.accessors : p.accessors[t] \in p.factories

Options == [terminated_strings : BOOLEAN, use_initializers : BOOLEAN,
            use_constructors : BOOLEAN, infer_invariants : BOOLEAN]

\* n: elements declared, or an upper bound; to: the variable pointed to or compared
\* with; by: the lvalue that counts the elements pointed to.
Statement == [op : {"declare", "any", "null", "point", "library", "assume", "within",
                    "mask", "nonnegative", "nonnull", "text", "requires",
                     "use", "free"},
              of : Lvalue, to : Lvalue, by : Lvalue, n : Nat]

Stated(op, of, to, by, n) == [op |-> op, of |-> of, to |-> to, by |-> by, n |-> n]
Declare(variable, n) == Stated("declare", <<variable>>, <<>>, <<>>, n)
Nondet(of) == Stated("any", of, <<>>, <<>>, 0)
Null(of, by) == Stated("null", of, <<>>, by, 0)
Point(of, to, by) == Stated("point", of, <<to>>, by, 0)
Library(of) == Stated("library", of, <<>>, <<>>, 0)
Assume(of, n) == Stated("assume", of, <<>>, <<>>, n)

WritingOps == {"any", "null", "point", "library"}

Frame == [type : STRING, prefix : Lvalue, depth : Nat, seen : SUBSET STRING, next : Nat,
          constraints : Seq(Statement), finish : Seq(Statement),
          followed : BOOLEAN]

ObjectTypeOK ==
    /\ IsProgram(program) /\ options \in Options
    /\ \A i \in DOMAIN frames :
          LET f == frames[i] IN
          /\ [x \in DOMAIN f \ {"pairs"} |-> f[x]] \in Frame
          /\ f.type \in DOMAIN program.structs /\ f.type \in f.seen
          /\ f.next \in 1 .. Len(program.structs[f.type].fields) + 1
          /\ \A p \in DOMAIN f.pairs : p \in Identifier /\ f.pairs[p] \in Identifier
    /\ code \in Seq(Statement) /\ teardown \in Seq(Statement)
    /\ said \subseteq Lvalue

\* The variables a statement is about.
Variables(s) == {v[1] : v \in {s.of, s.to, s.by} \ {<<>>}}

-----------------------------------------------------------------------------
(* What the source says of its types. *)

Structs == DOMAIN program.structs

IntegerFields(fields) == {f \in ToSet(fields) : f.shape = "value" /\ f.of = "integer"}
NamesOf(fields) == {f.name : f \in fields}
PlayingRole(fields, role) == NamesOf({f \in IntegerFields(fields) : role \in f.roles})
Lengths(fields) == PlayingRole(fields, "length")

\* _pair_struct_fields: which sibling counts a pointer, by name, or because there is
\* no other pointer, or no other count.  Of several named after the pointer the code
\* takes the first in the order of its suffixes, for which CHOOSE stands; where several
\* would do otherwise, the iteration order of a set of strings chooses, which differs
\* from run to run.
PairingsOf(type, fields) ==
    LET integers == IntegerFields(fields)
        pointers == {i \in DOMAIN fields : fields[i].shape = "pointer" /\ fields[i].of # type}
        Counting(i) == NamesOf({f \in integers : fields[i].name \in f.counts})
        First(i) == CASE Counting(i) # {} -> {CHOOSE n \in Counting(i) : TRUE}
                      [] Counting(i) = {} /\ Cardinality(pointers) = 1 -> Lengths(fields)
                      [] OTHER -> {}
        generic == PlayingRole(fields, "generic") \ UNION {First(i) : i \in pointers}
        Singular(i) == NamesOf({f \in integers : fields[i].name \in f.elements})
        Second(i) == CASE fields[i].of \notin Scalars \cup {"pointer"} -> {}
                       [] Singular(i) # {} -> Singular(i)
                       [] Cardinality(generic) = 1 -> generic
                       [] OTHER -> {}
        Counts(i) == IF First(i) # {} THEN First(i) ELSE Second(i)
        paired == {i \in pointers : Counts(i) # {}}
    IN  {[name \in {fields[i].name : i \in paired} |->
             chosen[CHOOSE i \in paired : fields[i].name = name]] :
           chosen \in {c \in [paired -> NamesOf(integers)] :
                         \A i \in paired : c[i] \in Counts(i)}}
Pairings(type) == PairingsOf(type, program.structs[type].fields)

\* _first_member_chain: the type n first members into a struct.
MaxBaseDepth == 4
Member(type, n) ==
    LET member[i \in 0 .. n] ==
          IF i = 0 THEN type
          ELSE LET t == member[i - 1]
                   fields == IF t \in Structs THEN program.structs[t].fields ELSE <<>>
               IN  IF fields # <<>> /\ fields[1].shape = "value" THEN fields[1].of ELSE None
    IN  member[n]

HeadedBy(type, base) == \E n \in 1 .. MaxBaseDepth : Member(type, n) = base

\* _base_to_owner: by the shortest chain of all that the file casts to.
Owner(base) ==
    LET At(n) == {t \in program.casts : Member(t, n) = base}
        near == {n \in 1 .. MaxBaseDepth : At(n) # {}}
    IN  IF near = {} THEN None
        ELSE CHOOSE t \in At(CHOOSE n \in near : \A m \in near : n <= m) : TRUE

-----------------------------------------------------------------------------
(* _fill_fields. *)

Top == Head(frames)
struct == program.structs[Top.type]
field == struct.fields[Top.next]
target == Append(Top.prefix, field.name)

\* What the calls so far are in the midst of.
SeenOuter(seen, type) == seen  \* mutant: without the struct itself
Seen(seen, type) == seen \cup {type}

\* A call; it may come from a field, which it is to finish when it returns.
Enter(outer, type, prefix, depth, seen, finish, followed) ==
    \E p \in Pairings(type) :
        frames' = <<[type |-> type, prefix |-> prefix, depth |-> depth, seen |-> Seen(seen, type),
                     next |-> 1, pairs |-> p, constraints |-> <<>>, finish |-> finish,
                     followed |-> followed]>> \o outer

Emit(lines, mentioned) == code' = code \o lines /\ said' = said \cup mentioned

Filling == frames # <<>> /\ ~struct.union /\ Top.next <= Len(struct.fields)
Further(constraints) ==
    <<[Top EXCEPT !.next = @ + 1, !.constraints = @ \o constraints]>> \o Tail(frames)
Uncounted == Filling /\ field.name \notin DOMAIN Top.pairs

\* The field is done within this call.
Fill(lines, mentioned) ==
    /\ Emit(lines, mentioned)
    /\ frames' = Further(<<>>)
    /\ UNCHANGED <<program, options, teardown>>

\* A union is left alone.
LeaveUnion ==
    /\ frames # <<>> /\ struct.union
    /\ Emit(Top.finish, {Top.prefix})
    /\ frames' = Tail(frames)
    /\ UNCHANGED <<program, options, teardown>>

\* What is asked of a field's count waits until every field has been assigned.
ConstrainAtOnce(lines, mentioned, constraint) ==  \* mutant
    /\ Emit(lines \o constraint, mentioned)
    /\ frames' = Further(<<>>)
ConstrainLater(lines, mentioned, constraint) ==
    /\ Emit(lines, mentioned)
    /\ frames' = Further(constraint)

\* _fill_counted_pointer_field.  A counted pointer to a struct is null and its count 0,
\* even where a single struct of its kind could be built, and nobody is told.
FillCounted ==
    /\ Filling /\ field.name \in DOMAIN Top.pairs
    /\ LET count == Append(Top.prefix, Top.pairs[field.name])
           items == Storage(target, IF field.of = "void" THEN "bytes" ELSE "items")
       IN  IF field.of \in Scalars \cup {"void", "pointer"}
           THEN ConstrainLater(<<Declare(items, MaxArrayLen), Point(target, items, count)>>,
                               {target, count}, <<Assume(count, MaxArrayLen)>>)
           ELSE ConstrainLater(<<Null(target, count)>>, {}, <<Assume(count, 0)>>)
    /\ UNCHANGED <<program, options, teardown>>

\* _fill_array_field: of scalars, and of a literal extent.
FillArray ==
    /\ Uncounted /\ field.shape = "array"
    /\ LET modelled == field.of \in Scalars /\ field.literal
       IN  Fill(IF modelled THEN <<Nondet(target)>> ELSE <<>>, IF modelled THEN {} ELSE {target})

\* _fill_pointer_field, as far as the depth bound and no further.
CutPointer ==
    /\ Uncounted /\ field.shape = "pointer" /\ Top.depth >= MaxStructDepth
    /\ Fill(<<Null(target, <<>>)>>, {target})

Following == Uncounted /\ field.shape = "pointer" /\ Top.depth < MaxStructDepth

\* One element, or bytes, or a string with or without its terminator.
FillPointerToScalar ==
    /\ Following /\ field.of \in Scalars \cup {"void"}
    /\ LET size == CASE field.of = "char" /\ options.terminated_strings -> MaxArrayLen + 1
                     [] field.of \in {"integer", "scalar"} -> 1
                     [] OTHER -> MaxArrayLen
           storage == Storage(target, "target")
       IN  Fill(<<Declare(storage, size), Point(target, storage, <<>>)>>, {target})

\* The struct the file casts such pointers to, or the one it is declared as.
DepthOfOwner(pointee) == IF Owner(pointee) = None THEN Top.depth + 1 ELSE Top.depth  \* mutant
DepthOf(pointee) == Top.depth + 1

\* The code remembers the type as the field spells it, so that after `struct B *b` it
\* would fill a B once more inside; here a type has one spelling.
FollowPointer ==
    LET pointee == IF Owner(field.of) # None THEN Owner(field.of) ELSE field.of
        storage == Storage(target, "target")
    IN  /\ Following /\ field.of \notin NotStructs /\ pointee \in Structs
        /\ Emit(<<Declare(storage, 1)>>, {target})
        /\ Enter(Further(<<>>), pointee, <<storage>>, DepthOf(field.of), Top.seen,
                 <<Point(target, storage, <<>>)>>, TRUE)
        /\ UNCHANGED <<program, options, teardown>>

NullPointer ==
    /\ Following /\ field.of \notin Scalars \cup {"void"}
    /\ field.of \notin Structs /\ Owner(field.of) = None
    /\ Fill(<<Null(target, <<>>)>>, {target})

FillValue ==
    /\ Uncounted /\ field.shape = "value" /\ field.of \in Scalars
    /\ Fill(<<Nondet(target)>>, {})

\* A callback becomes a stub, a hook table the library's own.
FillFromLibrary ==
    /\ Uncounted /\ field.shape = "value" /\ field.of \in program.stubs \cup program.tables
    /\ Fill(<<Library(target)>>, {target})

Nested == Uncounted /\ field.shape = "value"
          /\ field.of \notin Scalars \cup program.stubs \cup program.tables

FillNested ==
    /\ Nested /\ field.of \in Structs \ Top.seen
    /\ UNCHANGED <<code, said>>
    /\ Enter(Further(<<>>), field.of, target, Top.depth, Top.seen, <<>>, FALSE)
    /\ UNCHANGED <<program, options, teardown>>

LeaveUninitialised ==
    /\ Nested /\ field.of \notin Structs \ Top.seen
    /\ Fill(<<>>, {target})

\* _cursor_fields: where one length is paired, no cursor passes it.
Cursors ==
    LET lengths == {Top.pairs[p] : p \in DOMAIN Top.pairs}
    IN  IF Cardinality(lengths) # 1 THEN {}
        ELSE PlayingRole(struct.fields, "cursor") \ lengths

\* The other lengths of a struct with a counted pointer.
OtherLengths == IF DOMAIN Top.pairs = {} THEN {}
                ELSE Lengths(struct.fields) \ {Top.pairs[p] : p \in DOMAIN Top.pairs}

In(names) == {Append(Top.prefix, n) : n \in names}

FinishFields ==
    /\ frames # <<>> /\ ~struct.union /\ Top.next > Len(struct.fields)
    /\ LET lengths == {Top.pairs[p] : p \in DOMAIN Top.pairs}
           inferred == IF options.infer_invariants THEN struct.within ELSE {}
           masked == IF options.infer_invariants THEN struct.masked ELSE {}
           indexing == {pair \in IF options.infer_invariants THEN struct.indexing ELSE {} :
                          pair[1] \in DOMAIN Top.pairs /\ pair[2] \in DOMAIN Top.pairs}
           within == inferred \cup (Cursors \X lengths)
           Within(pair) == Stated("within", Append(Top.prefix, pair[1]),
                                  Append(Top.prefix, pair[2]), <<>>, 0)
           Index(pair) == Stated("within", <<Storage(Append(Top.prefix, pair[1]), "items")>>,
                                 Append(Top.prefix, Top.pairs[pair[2]]), <<>>, 0)
           callbacks == ToSet(struct.callbacks)
       IN  /\ Emit([i \in DOMAIN struct.callbacks |-> Library(Append(Top.prefix, struct.callbacks[i]))]
                   \o Top.constraints
                   \o SetToSeq({Assume(l, MaxArrayLen) : l \in In(OtherLengths)})
                   \o SetToSeq({Within(pair) : pair \in within})
                   \o SetToSeq({Index(pair) : pair \in indexing})
                   \o SetToSeq({Stated("mask", m, <<>>, <<>>, 0) : m \in In(masked)})
                   \o Top.finish,
                   In(callbacks \cup OtherLengths \cup {pair[1] : pair \in within \cup indexing}
                      \cup masked \cup struct.unsupported))
    /\ frames' = Tail(frames)
    /\ UNCHANGED <<program, options, teardown>>

FillStep ==
    \/ LeaveUnion \/ FillCounted \/ FillArray \/ CutPointer \/ FillPointerToScalar
    \/ FollowPointer \/ NullPointer \/ FillValue \/ FillFromLibrary \/ FillNested
    \/ LeaveUninitialised \/ FinishFields

-----------------------------------------------------------------------------
(* _emit_object: a variable `as` that is, or points to, an object of a type. *)

Request == [type : STRING, as : Identifier, pointer : BOOLEAN, cast : STRING \cup {None},
            finish : Seq(Statement), mentions : SUBSET Lvalue]

\* What the body casts it down to, else what the file casts such pointers to.
OwnerOf(request) ==
    IF request.cast \in Structs /\ HeadedBy(request.cast, request.type)
    THEN request.cast ELSE Owner(request.type)

\* The variable, and whatever is to follow.
Deliver(request, storage) ==
    <<Declare(request.as, 1), Point(<<request.as>>, storage, <<>>)>> \o request.finish

Constructed(request) == options.use_constructors /\ request.pointer

\* _emit_from_factories and _emit_from_chain: the library makes one, or makes what it
\* is asked of; what the harness made it gives back.
EmitFromConstructors(request) ==
    /\ Constructed(request)
    /\ LET direct == request.type \in program.factories
           made == IF direct THEN request.type ELSE program.accessors[request.type]
           storage == Append(request.as, "obj")
           holder == IF direct THEN storage ELSE Append(request.as, "src")
           Made(v) == <<Declare(v, 1), Library(<<v>>), Stated("nonnull", <<v>>, <<>>, <<>>, 0)>>
       IN  /\ direct \/ request.type \in DOMAIN program.accessors
           /\ Emit(Made(holder) \o (IF direct THEN <<>> ELSE Made(storage))
                   \o Deliver(request, storage), {<<request.as>>, <<holder>>, <<storage>>} \cup request.mentions)
           /\ teardown' = IF made \in program.destructors
                          THEN Append(teardown, Stated("free", <<holder>>, <<>>, <<>>, 0))
                          ELSE teardown
    /\ UNCHANGED <<program, options, frames>>

NotConstructed(request) ==
    ~(Constructed(request)
      /\ request.type \in program.factories \cup DOMAIN program.accessors)

HasOwner(request) == request.pointer /\ OwnerOf(request) # None

EmitOwner(request) ==
    LET storage == Append(request.as, "outer") IN
    /\ NotConstructed(request) /\ HasOwner(request)
    /\ Emit(<<Declare(storage, 1)>>, {<<request.as>>} \cup request.mentions)
    /\ Enter(<<>>, OwnerOf(request), <<storage>>, 0, {}, Deliver(request, storage), FALSE)
    /\ UNCHANGED <<program, options, teardown>>

\* A copy of the hook table, or an object as its initialiser leaves it.
EmitFromLibrary(request) ==
    LET storage == Append(request.as, "obj") IN
    /\ NotConstructed(request) /\ ~HasOwner(request)
    /\ \/ request.type \in program.tables
       \/ request.type \in Structs /\ options.use_initializers
          /\ request.type \in program.initializers
    /\ Emit(<<Declare(storage, 1), Library(<<storage>>)>> \o Deliver(request, storage),
            {<<request.as>>, <<storage>>} \cup request.mentions)
    /\ UNCHANGED <<program, options, frames, teardown>>

EmitFilled(request) ==
    LET storage == Append(request.as, "obj") IN
    /\ NotConstructed(request) /\ ~HasOwner(request)
    /\ request.type \in Structs \ program.tables
    /\ ~(options.use_initializers /\ request.type \in program.initializers)
    /\ Emit(<<Declare(storage, 1)>>, {<<request.as>>} \cup request.mentions)
    /\ Enter(<<>>, request.type, <<storage>>, 0, {}, Deliver(request, storage), FALSE)
    /\ UNCHANGED <<program, options, teardown>>

\* _try_object: find_struct knows the type, or it is never asked.
Buildable(request) ==
    \/ ~NotConstructed(request) \/ HasOwner(request)
    \/ request.type \in program.tables \cup Structs

EmitObject(request) ==
    \/ EmitFromConstructors(request) \/ EmitOwner(request)
    \/ EmitFromLibrary(request) \/ EmitFilled(request)

=============================================================================
