----------------------- MODULE FunctionHarnessProofs -----------------------
(***************************************************************************)
(* What holds of every harness, for all types, however they refer to each  *)
(* other, and all signatures.                                              *)
(*                                                                         *)
(* First, that it follows no more than MaxStructDepth pointers one behind  *)
(* the other.  _fill_fields keeps no record of the pointers it came by:    *)
(* what bounds it is that each call knows how deep it is, and that a call  *)
(* a pointer led to is deeper than every call it came from.  So the calls  *)
(* pointers led to differ in their depths, of which there are              *)
(* MaxStructDepth.                                                         *)
(*                                                                         *)
(* Then, that what it is made of has its type: names are made of words     *)
(* that were joined, statements are about such names, and each call is of  *)
(* a struct of the source and at a field of it, or behind the last.        *)
(*                                                                         *)
(* With the types, that the harness only leaves unsaid the counted         *)
(* pointers to structs and their counts: every narrowing one is either     *)
(* noted, or owed by a call to a statement it is still to make.            *)
(*                                                                         *)
(* And that a variable is declared before any statement about it: every    *)
(* name a call builds on is declared by then, or by what the call it was   *)
(* made for ends with.                                                     *)
(*                                                                         *)
(* Last, that a pointer with a count has the elements the count says: the  *)
(* bound on a count is written by the call that has the pointer, behind    *)
(* its fields, and no call before or after it, and none it was made from,  *)
(* has a part of that count among what it is still to write.               *)
(***************************************************************************)
EXTENDS FunctionHarness, FiniteSetTheorems, WellFoundedInduction, TLAPS

\* A call: what its depth may be.
DepthOK(f) ==
    /\ {"depth", "followed", "next", "constraints"} \subseteq DOMAIN f
    /\ f.depth \in 0 .. MaxStructDepth /\ f.followed \in BOOLEAN
    /\ f.followed => f.depth > 0

\* f was called from g, or from what g was called from.
Deeper(f, g) == f.depth >= g.depth /\ (f.followed => f.depth > g.depth)

\* The calls, innermost first.
Stacked(fs) ==
    /\ \E S : fs \in Seq(S)
    /\ \A i \in DOMAIN fs : DepthOK(fs[i])
    /\ \A i, j \in DOMAIN fs : i < j => Deeper(fs[i], fs[j])

LEMMA EmptyStack == Stacked(<<>>)
<1>1. <<>> \in Seq({})
  OBVIOUS
<1>. QED  BY <1>1 DEF Stacked

\* A call is made.
LEMMA PushStack ==
    ASSUME NEW fs, Stacked(fs), NEW f, DepthOK(f), \A i \in DOMAIN fs : Deeper(f, fs[i])
    PROVE  Stacked(<<f>> \o fs)
<1> DEFINE new == <<f>> \o fs
<1>1. PICK S : fs \in Seq(S)
  BY DEF Stacked
<1>2. fs \in Seq(S \cup {f}) /\ <<f>> \in Seq(S \cup {f})
  BY <1>1
<1>3. new \in Seq(S \cup {f}) /\ Len(new) = Len(fs) + 1 /\ Len(fs) \in Nat
  BY <1>2
<1>4. DOMAIN new = 1 .. Len(fs) + 1 /\ DOMAIN fs = 1 .. Len(fs)
  BY <1>1, <1>3
<1>5. new[1] = f /\ \A i \in DOMAIN fs : new[i + 1] = fs[i]
  BY <1>2
<1>6. \A i \in DOMAIN new : i = 1 \/ (i - 1 \in DOMAIN fs /\ new[i] = fs[i - 1])
  BY <1>3, <1>4, <1>5
<1>. HIDE DEF new
<1>7. \A i \in DOMAIN new : DepthOK(new[i])
  BY <1>5, <1>6 DEF Stacked
<1>8. ASSUME NEW i \in DOMAIN new, NEW j \in DOMAIN new, i < j
      PROVE  Deeper(new[i], new[j])
  <2>1. j - 1 \in DOMAIN fs /\ new[j] = fs[j - 1]
    BY <1>3, <1>4, <1>6, <1>8
  <2>2. CASE i = 1
    BY <1>5, <2>1, <2>2
  <2>3. CASE i # 1
    <3>1. i - 1 \in DOMAIN fs /\ new[i] = fs[i - 1] /\ i - 1 < j - 1
      BY <1>3, <1>4, <1>6, <1>8, <2>3
    <3>. QED  BY <2>1, <3>1 DEF Stacked
  <2>. QED  BY <2>2, <2>3
<1>. QED  BY <1>3, <1>7, <1>8 DEF Stacked, new

\* A call returns.
LEMMA PopStack ==
    ASSUME NEW fs, Stacked(fs), fs # <<>>
    PROVE  /\ Stacked(Tail(fs))
           /\ DepthOK(Head(fs))
           /\ \A i \in DOMAIN Tail(fs) : Deeper(Head(fs), Tail(fs)[i])
<1>1. PICK S : fs \in Seq(S)
  BY DEF Stacked
<1>2. /\ Tail(fs) \in Seq(S) /\ Len(Tail(fs)) = Len(fs) - 1 /\ Len(fs) \in Nat /\ Len(fs) > 0
      /\ Head(fs) = fs[1]
  BY <1>1
<1>3. DOMAIN Tail(fs) = 1 .. Len(fs) - 1 /\ DOMAIN fs = 1 .. Len(fs)
  BY <1>1, <1>2
<1>4. \A i \in DOMAIN Tail(fs) : Tail(fs)[i] = fs[i + 1] /\ i + 1 \in DOMAIN fs /\ 1 < i + 1
  BY <1>1, <1>2, <1>3
<1>5. 1 \in DOMAIN fs
  BY <1>2, <1>3
<1>6. \A i \in DOMAIN Tail(fs) : DepthOK(Tail(fs)[i])
  BY <1>4 DEF Stacked
<1>7. \A i, j \in DOMAIN Tail(fs) : i < j => Deeper(Tail(fs)[i], Tail(fs)[j])
  <2> SUFFICES ASSUME NEW i \in DOMAIN Tail(fs), NEW j \in DOMAIN Tail(fs), i < j
               PROVE  Deeper(Tail(fs)[i], Tail(fs)[j])
    OBVIOUS
  <2>1. i + 1 < j + 1
    BY <1>2, <1>3
  <2>. QED  BY <1>4, <2>1 DEF Stacked
<1>8. Stacked(Tail(fs))
  BY <1>2, <1>6, <1>7 DEF Stacked
<1>9. \A i \in DOMAIN Tail(fs) : Deeper(fs[1], fs[i + 1])
  BY <1>4, <1>5 DEF Stacked
<1>. QED  BY <1>2, <1>4, <1>5, <1>8, <1>9 DEF Stacked

\* The calls that pointers led to are as many as their depths.
LEMMA FewFollowed ==
    ASSUME Stacked(frames)
    PROVE  PointersBounded
<1> DEFINE followed == {i \in DOMAIN frames : frames[i].followed}
           depth == [i \in followed |-> frames[i].depth]
<1>1. PICK S : frames \in Seq(S)
  BY DEF Stacked
<1>2. DOMAIN frames = 1 .. Len(frames) /\ Len(frames) \in Nat
  BY <1>1
<1>3. IsFiniteSet(followed)
  <2>1. IsFiniteSet(1 .. Len(frames))
    BY <1>2, FS_Interval
  <2>. QED  BY <1>2, <2>1, FS_Subset
<1>4. IsFiniteSet(1 .. MaxStructDepth) /\ Cardinality(1 .. MaxStructDepth) = MaxStructDepth
  BY FS_Interval, ObjectBoundsAssumption
<1>5. \A i \in followed : frames[i].depth \in 1 .. MaxStructDepth
  BY ObjectBoundsAssumption DEF Stacked, DepthOK
<1>6. \A i, j \in followed : frames[i].depth = frames[j].depth => i = j
  <2> SUFFICES ASSUME NEW i \in followed, NEW j \in followed,
                      frames[i].depth = frames[j].depth, i # j
               PROVE  FALSE
    OBVIOUS
  <2>1. i < j => frames[i].depth > frames[j].depth
    BY DEF Stacked, Deeper
  <2>2. j < i => frames[j].depth > frames[i].depth
    BY DEF Stacked, Deeper
  <2>3. i < j \/ j < i
    BY <1>2
  <2>4. frames[i].depth \in Nat
    BY <1>5, ObjectBoundsAssumption
  <2>. QED  BY <2>1, <2>2, <2>3, <2>4
<1>. HIDE DEF followed
<1>7. depth \in Injection(followed, 1 .. MaxStructDepth)
  BY <1>5, <1>6 DEF Injection, IsInjective
<1>8. Cardinality(followed) <= MaxStructDepth
  BY <1>3, <1>4, <1>7, FS_Injection DEF ExistsInjection
<1>. QED  BY <1>8 DEF PointersBounded, followed

-----------------------------------------------------------------------------
(* The steps. *)

\* What is done to a call's place in its fields leaves its depth alone.
LEMMA FurtherStack ==
    ASSUME Stacked(frames), frames # <<>>, NEW constraints
    PROVE  /\ Stacked(Further(constraints))
           /\ \A i \in DOMAIN Further(constraints) : Deeper(Top, Further(constraints)[i]) \/ i = 1
           /\ Further(constraints) # <<>>
           /\ \A i \in DOMAIN Further(constraints) : Top.depth >= Further(constraints)[i].depth
<1> DEFINE f == [Top EXCEPT !.next = @ + 1, !.constraints = @ \o constraints]
<1>1. /\ Stacked(Tail(frames)) /\ DepthOK(Top)
      /\ \A i \in DOMAIN Tail(frames) : Deeper(Top, Tail(frames)[i])
  BY PopStack DEF Top
<1>2. DOMAIN f = DOMAIN Top /\ f.depth = Top.depth /\ f.followed = Top.followed
  BY <1>1 DEF DepthOK
<1>3. DepthOK(f) /\ \A i \in DOMAIN Tail(frames) : Deeper(f, Tail(frames)[i])
  BY <1>1, <1>2 DEF DepthOK, Deeper
<1>4. Further(constraints) = <<f>> \o Tail(frames)
  BY DEF Further
<1>. HIDE DEF f
<1>5. Stacked(Further(constraints))
  BY <1>1, <1>3, <1>4, PushStack
<1>6. PICK S : Tail(frames) \in Seq(S)
  BY <1>1 DEF Stacked
<1>7. /\ Further(constraints) # <<>>
      /\ \A i \in DOMAIN Further(constraints) :
            \/ i = 1 /\ Further(constraints)[i] = f
            \/ i # 1 /\ i - 1 \in DOMAIN Tail(frames) /\ Further(constraints)[i] = Tail(frames)[i - 1]
  <2>1. Tail(frames) \in Seq(S \cup {f}) /\ <<f>> \in Seq(S \cup {f})
    BY <1>6
  <2>2. \A t \in Seq(S \cup {f}) : /\ <<f>> \o t # <<>>
                                   /\ \A i \in DOMAIN (<<f>> \o t) :
                                         \/ i = 1 /\ (<<f>> \o t)[i] = f
                                         \/ i # 1 /\ i - 1 \in DOMAIN t /\ (<<f>> \o t)[i] = t[i - 1]
    OBVIOUS
  <2>. QED  BY <1>4, <2>1, <2>2
<1>8. Top.depth \in Nat
  BY <1>1, ObjectBoundsAssumption DEF DepthOK
<1>. QED  BY <1>1, <1>2, <1>5, <1>7, <1>8 DEF Deeper

\* _fill_fields calls itself, or is called.
LEMMA EnterStack ==
    ASSUME NEW outer, Stacked(outer), NEW type, NEW prefix, NEW d \in 0 .. MaxStructDepth,
           NEW seen, NEW finish, NEW followed \in BOOLEAN,
           Enter(outer, type, prefix, d, seen, finish, followed),
           followed => d > 0,
           \A i \in DOMAIN outer : d >= outer[i].depth /\ (followed => d > outer[i].depth)
    PROVE  Stacked(frames')
<1>1. PICK p \in Pairings(type) :
         frames' = <<[type |-> type, prefix |-> prefix, depth |-> d, seen |-> Seen(seen, type),
                      next |-> 1, pairs |-> p, constraints |-> <<>>, finish |-> finish,
                      followed |-> followed]>> \o outer
  BY Zenon DEF Enter
<1> DEFINE f == [type |-> type, prefix |-> prefix, depth |-> d, seen |-> Seen(seen, type),
                 next |-> 1, pairs |-> p, constraints |-> <<>>, finish |-> finish,
                 followed |-> followed]
<1>2. f.depth = d /\ f.followed = followed /\ DepthOK(f)
  BY DEF DepthOK
<1>3. \A i \in DOMAIN outer : Deeper(f, outer[i])
  BY <1>2 DEF Deeper
<1>4. frames' = <<f>> \o outer
  BY <1>1
<1>. HIDE DEF f
<1>. QED  BY <1>2, <1>3, <1>4, PushStack

LEMMA FillPreserves ==
    ASSUME Stacked(frames), FillStep
    PROVE  Stacked(frames')
<1>1. frames # <<>>
  <2>1. CASE LeaveUnion \/ FinishFields
    BY <2>1 DEF LeaveUnion, FinishFields
  <2>2. CASE FillCounted
    BY <2>2, Zenon DEF FillCounted, Filling
  <2>3. CASE FillArray \/ CutPointer \/ FillPointerToScalar \/ FillValue
    BY <2>3, Zenon DEF FillArray, CutPointer, FillPointerToScalar, FillValue, Following,
       Uncounted, Filling
  <2>4. CASE FollowPointer \/ NullPointer
    BY <2>4, Zenon DEF FollowPointer, NullPointer, Following, Uncounted, Filling
  <2>5. CASE FillFromLibrary \/ FillNested \/ LeaveUninitialised
    BY <2>5, Zenon DEF FillFromLibrary, FillNested, LeaveUninitialised, Nested, Uncounted, Filling
  <2>. QED  BY <2>1, <2>2, <2>3, <2>4, <2>5, Zenon DEF FillStep
<1>2. CASE LeaveUnion \/ FinishFields
  <2>1. frames' = Tail(frames)
    BY <1>2 DEF LeaveUnion, FinishFields
  <2>. QED  BY <1>1, <2>1, PopStack
<1>3. CASE FillCounted
  <2>1. \E c : frames' = Further(c)
    BY <1>3, Zenon DEF FillCounted, ConstrainLater
  <2>. QED  BY <1>1, <2>1, FurtherStack
<1>4. CASE FillArray \/ CutPointer \/ FillPointerToScalar \/ NullPointer \/ FillValue
           \/ FillFromLibrary \/ LeaveUninitialised
  <2>1. frames' = Further(<<>>)
    BY <1>4, Zenon DEF FillArray, CutPointer, FillPointerToScalar, NullPointer, FillValue,
       FillFromLibrary, LeaveUninitialised, Fill
  <2>. QED  BY <1>1, <2>1, FurtherStack
<1>5. Top.depth \in 0 .. MaxStructDepth
  BY <1>1, PopStack DEF Top, DepthOK
<1>6. CASE FollowPointer
  <2>1. PICK type, prefix, finish :
            Enter(Further(<<>>), type, prefix, DepthOf(field.of), Top.seen, finish, TRUE)
    BY <1>6, Zenon DEF FollowPointer
  <2>2. Top.depth < MaxStructDepth
    BY <1>6 DEF FollowPointer, Following
  <2>3. PICK d : d = Top.depth + 1
    OBVIOUS
  <2>4. PICK followed \in BOOLEAN : followed = TRUE
    OBVIOUS
  <2>5. PICK outer : outer = Further(<<>>)
    OBVIOUS
  <2>6. d \in 0 .. MaxStructDepth /\ d > 0
    BY <1>5, <2>2, <2>3, ObjectBoundsAssumption
  <2>7. Stacked(outer) /\ \A i \in DOMAIN outer : d > outer[i].depth /\ d >= outer[i].depth
    <3>1. Stacked(outer) /\ \A i \in DOMAIN outer : Top.depth >= outer[i].depth
      BY <1>1, <2>5, FurtherStack
    <3>2. \A i \in DOMAIN outer : outer[i].depth \in Nat
      BY <3>1, ObjectBoundsAssumption DEF Stacked, DepthOK
    <3>. QED  BY <1>5, <2>3, <3>1, <3>2, ObjectBoundsAssumption
  <2>8. Enter(outer, type, prefix, d, Top.seen, finish, followed)
    BY <2>1, <2>3, <2>4, <2>5, Zenon DEF DepthOf
  <2>. QED  BY <2>6, <2>7, <2>8, EnterStack
<1>7. CASE FillNested
  <2>1. PICK type, prefix, finish :
            Enter(Further(<<>>), type, prefix, Top.depth, Top.seen, finish, FALSE)
    BY <1>7, Zenon DEF FillNested
  <2>2. PICK followed \in BOOLEAN : followed = FALSE
    OBVIOUS
  <2>3. PICK outer : outer = Further(<<>>)
    OBVIOUS
  <2>4. PICK d : d = Top.depth
    OBVIOUS
  <2>5. Stacked(outer) /\ \A i \in DOMAIN outer : d >= outer[i].depth
    BY <1>1, <2>3, <2>4, FurtherStack
  <2>6. Enter(outer, type, prefix, d, Top.seen, finish, followed)
    BY <2>1, <2>2, <2>3, <2>4, Zenon
  <2>. QED  BY <1>5, <2>2, <2>4, <2>5, <2>6, EnterStack
<1>. QED  BY <1>2, <1>3, <1>4, <1>6, <1>7 DEF FillStep

\* An object is begun where no call is under way, or given as the library makes it.
LEMMA ObjectPreserves ==
    ASSUME Stacked(frames), NEW request, EmitObject(request)
    PROVE  Stacked(frames')
<1>1. CASE EmitFromConstructors(request) \/ EmitFromLibrary(request)
  <2>1. frames' = frames
    BY <1>1, Zenon DEF EmitFromConstructors, EmitFromLibrary
  <2>. QED  BY <2>1
<1>2. CASE EmitOwner(request) \/ EmitFilled(request)
  <2>1. PICK type, prefix, finish : Enter(<<>>, type, prefix, 0, {}, finish, FALSE)
    BY <1>2, Zenon DEF EmitOwner, EmitFilled
  <2>2. PICK followed \in BOOLEAN : followed = FALSE
    OBVIOUS
  <2>3. PICK outer : outer = <<>>
    OBVIOUS
  <2>4. PICK d \in 0 .. MaxStructDepth : d = 0
    BY ObjectBoundsAssumption
  <2>5. PICK seen : seen = {}
    OBVIOUS
  <2>6. Stacked(outer) /\ DOMAIN outer = {}
    BY <2>3, EmptyStack
  <2>7. Enter(outer, type, prefix, d, seen, finish, followed)
    BY <2>1, <2>2, <2>3, <2>4, <2>5, Zenon
  <2>. QED  BY <2>2, <2>6, <2>7, EnterStack
<1>. QED  BY <1>1, <1>2 DEF EmitObject

IInv == Stacked(frames)

LEMMA StackPreserved == IInv /\ [Next]_harnessVars => IInv'
<1> SUFFICES ASSUME Stacked(frames), [Next]_harnessVars PROVE Stacked(frames')
  BY DEF IInv
<1>1. CASE RefuseSource \/ RefuseSetup \/ RefuseParameter \/ RefusePrecondition
  <2>1. frames' = <<>>
    BY <1>1 DEF RefuseSource, RefuseSetup, RefuseParameter, RefusePrecondition, Refuse
  <2>. QED  BY <2>1, EmptyStack
<1>2. CASE FindFunction \/ EmitHooks \/ SkipParameter \/ EmitCursor \/ EmitValue \/ EmitBytes
           \/ EmitString \/ EmitElements \/ EmitReference \/ EmitBuffer \/ EmitConditions \/ EmitCall
           \/ UNCHANGED harnessVars
  <2>1. frames' = frames
    BY <1>2, Zenon DEF FindFunction, EmitHooks, SkipParameter, EmitCursor, EmitValue, EmitBytes,
       EmitString, EmitElements, EmitReference, EmitBuffer, EmitConditions, EmitCall, Built, Skip,
       harnessVars, objectVars
  <2>. QED  BY <2>1
<1>3. CASE EmitObjectParameter
  <2>1. \E request : EmitObject(request)
    BY <1>3, Zenon DEF EmitObjectParameter
  <2>. QED  BY <2>1, ObjectPreserves
<1>4. CASE FillObject
  BY <1>4, FillPreserves DEF FillObject
<1>. QED  BY <1>1, <1>2, <1>3, <1>4 DEF Next

\* For all types, however they refer to each other, and all signatures: the calls that
\* pointers have led to are never more than the bound (_fill_pointer_field).
THEOREM DepthIsBounded == Spec => []PointersBounded
<1>1. Init => IInv
  BY EmptyStack DEF Init, IInv
<1>2. IInv => PointersBounded
  BY FewFollowed DEF IInv
<1>. QED  BY <1>1, <1>2, StackPreserved, PTL DEF Spec

\* Every set of numbers that is not empty has a least element.
LEMMA LeastNumber ==
    ASSUME NEW S \in SUBSET Nat, S # {}
    PROVE  \E m \in S : \A n \in S : m <= n
<1>1. IsWellFoundedOn(OpToRel(<, Nat), Nat)
  BY NatLessThanWellFounded
<1>2. PICK m \in S : \A n \in S : ~(<<n, m>> \in OpToRel(<, Nat))
  BY <1>1, WFMin
<1>3. \A n \in S : ~(n < m)
  BY <1>2 DEF OpToRel
<1>. QED  BY <1>3

\* What is in a set of numbers with 0 and with the successor of all it has, is all numbers.
LEMMA Induction ==
    ASSUME NEW S \in SUBSET Nat, 0 \in S, \A n \in S : n + 1 \in S
    PROVE  S = Nat
<1>. SUFFICES ASSUME Nat \ S # {} PROVE FALSE
  OBVIOUS
<1>1. PICK m \in Nat \ S : \A n \in Nat \ S : m <= n
  BY LeastNumber
<1>2. m # 0 /\ m - 1 \in Nat
  BY <1>1
<1>3. m - 1 \in S
  BY <1>1, <1>2
<1>. QED  BY <1>1, <1>2, <1>3

LEMMA FlattenExists ==
    ASSUME NEW S, NEW s \in Seq(Seq(S)), NEW n \in Nat, n <= Len(s)
    PROVE  \E f : f = [i \in 1 .. n |-> IF i = 1 THEN s[i] ELSE f[i - 1] \o s[i]]
<1> DEFINE Value(f, i) == IF i = 1 THEN s[i] ELSE f[i - 1] \o s[i]
           Good(f, m) == f \in [1 .. m -> Seq(S)] /\ \A i \in 1 .. m : f[i] = Value(f, i)
           N == {m \in Nat : m <= Len(s) => \E f : Good(f, m)}
<1>1. 0 \in N
  <2>1. Good([i \in 1 .. 0 |-> <<>>], 0)
    OBVIOUS
  <2>. QED BY <2>1
<1>2. ASSUME NEW m \in N PROVE m + 1 \in N
  <2>. SUFFICES ASSUME m + 1 <= Len(s) PROVE \E f : Good(f, m + 1)
    <3>1. m \in Nat /\ m + 1 \in Nat
      BY DEF N
    <3>. QED  BY <3>1 DEF N
  <2>0. m \in Nat /\ m <= Len(s)
    BY <1>2 DEF N
  <2>1. PICK f : Good(f, m)
    BY <1>2, <2>0 DEF N
  <2>2. s[m + 1] \in Seq(S)
    BY <2>0
  <2> DEFINE x == Value(f, m + 1)
             g == [i \in 1 .. m + 1 |-> IF i = m + 1 THEN x ELSE f[i]]
  <2>3. x \in Seq(S)
    BY <2>0, <2>1, <2>2
  <2>. HIDE DEF x
  <2>4. g \in [1 .. m + 1 -> Seq(S)]
    BY <2>0, <2>1, <2>3
  <2>5. \A i \in 1 .. m : g[i] = f[i]
    BY <2>0
  <2>6. ASSUME NEW i \in 1 .. m + 1 PROVE g[i] = Value(g, i)
    <3>1. CASE i = m + 1
      <4>1. g[i] = Value(f, i)
        BY <3>1 DEF x
      <4>2. i = 1 \/ i - 1 \in 1 .. m
        BY <2>0, <3>1
      <4>. HIDE DEF g
      <4>. QED  BY <2>5, <4>1, <4>2
    <3>2. CASE i # m + 1
      <4>1. i \in 1 .. m /\ (i = 1 \/ i - 1 \in 1 .. m)
        BY <2>0, <3>2
      <4>. HIDE DEF g
      <4>. QED  BY <2>1, <2>5, <4>1
    <3>. QED  BY <3>1, <3>2
  <2>. QED BY <2>4, <2>6
<1>. HIDE DEF N
<1>3. N = Nat
  <2>1. N \in SUBSET Nat
    BY DEF N
  <2>. QED BY <1>1, <1>2, <2>1, Induction
<1>4. PICK f : Good(f, n)
  BY <1>3 DEF N
<1>5. f = [i \in 1 .. n |-> Value(f, i)]
  BY <1>4
<1>. QED BY <1>5

LEMMA FlattenType ==
    ASSUME NEW S, NEW s \in Seq(Seq(S))
    PROVE  FlattenSeq(s) \in Seq(S)
<1>1. CASE Len(s) = 0
  BY <1>1 DEF FlattenSeq
<1>2. CASE Len(s) # 0
  <2> DEFINE flatten[i \in 1 .. Len(s)] == IF i = 1 THEN s[i] ELSE flatten[i - 1] \o s[i]
  <2>1. FlattenSeq(s) = flatten[Len(s)]
    BY <1>2 DEF FlattenSeq
  <2>2. flatten = [i \in 1 .. Len(s) |-> IF i = 1 THEN s[i] ELSE flatten[i - 1] \o s[i]]
    <3>1. PICK n \in Nat : n = Len(s)
      OBVIOUS
    <3>2. n <= Len(s)
      BY <3>1
    <3>3. \E f : f = [i \in 1 .. n |-> IF i = 1 THEN s[i] ELSE f[i - 1] \o s[i]]
      BY <3>2, FlattenExists, Zenon
    <3>4. \E f : f = [i \in 1 .. Len(s) |-> IF i = 1 THEN s[i] ELSE f[i - 1] \o s[i]]
      BY <3>1, <3>3, Zenon
    <3>. QED  BY <3>4, Zenon
  <2>. HIDE DEF flatten
  <2>7. \A i \in 1 .. Len(s) : flatten[i] = IF i = 1 THEN s[i] ELSE flatten[i - 1] \o s[i]
    BY <2>2, Zenon
  <2> DEFINE N == {m \in Nat : m >= 1 /\ m <= Len(s) => flatten[m] \in Seq(S)}
  <2>3. 0 \in N
    OBVIOUS
  <2>4. ASSUME NEW m \in N PROVE m + 1 \in N
    <3>1. m \in Nat /\ (m >= 1 /\ m <= Len(s) => flatten[m] \in Seq(S))
      BY <2>4 DEF N
    <3>2. ASSUME m + 1 <= Len(s) PROVE flatten[m + 1] \in Seq(S)
      <4>1. flatten[m + 1] = IF m + 1 = 1 THEN s[m + 1] ELSE flatten[m + 1 - 1] \o s[m + 1]
        BY <2>7, <3>1, <3>2
      <4>2. s[m + 1] \in Seq(S)
        BY <3>1, <3>2
      <4>3. CASE m = 0
        BY <4>1, <4>2, <4>3
      <4>4. CASE m # 0
        <5>1. flatten[m] \in Seq(S) /\ m + 1 - 1 = m /\ m + 1 # 1
          BY <3>1, <3>2, <4>4
        <5>. QED  BY <4>1, <4>2, <5>1
      <4>. QED  BY <4>3, <4>4
    <3>. QED  BY <3>1, <3>2
  <2>. HIDE DEF N
  <2>5. N = Nat
    <3>1. N \in SUBSET Nat
      BY DEF N
    <3>. QED  BY <2>3, <2>4, <3>1, Induction
  <2>6. Len(s) \in Nat
    OBVIOUS
  <2>. QED BY <1>2, <2>1, <2>5, <2>6 DEF N
<1>. QED BY <1>1, <1>2

-----------------------------------------------------------------------------
(* Sequences. *)

LEMMA SeqGrows ==
    ASSUME NEW S, NEW T, S \subseteq T
    PROVE  Seq(S) \subseteq Seq(T)
OBVIOUS

LEMMA Associative ==
    ASSUME NEW S, NEW s \in Seq(S), NEW t \in Seq(S), NEW u \in Seq(S)
    PROVE  (s \o t) \o u = s \o (t \o u) /\ s \o t \in Seq(S)
OBVIOUS

\* A call in front of others.
LEMMA InFront ==
    ASSUME NEW S, NEW x \in S, NEW s \in Seq(S)
    PROVE  /\ <<x>> \o s \in Seq(S)
           /\ Len(<<x>> \o s) = Len(s) + 1 /\ (<<x>> \o s)[1] = x
           /\ \A i \in DOMAIN s : (<<x>> \o s)[i + 1] = s[i]
           /\ \A i \in DOMAIN (<<x>> \o s) : i = 1 \/ (i - 1 \in DOMAIN s /\ (<<x>> \o s)[i] = s[i - 1])
<1>1. <<x>> \in Seq(S) /\ Len(<<x>>) = 1 /\ <<x>>[1] = x
  OBVIOUS
<1>. QED  BY <1>1

LEMMA WithoutFirst ==
    ASSUME NEW S, NEW s \in Seq(S), s # <<>>
    PROVE  /\ Head(s) \in S /\ Head(s) = s[1] /\ Tail(s) \in Seq(S)
           /\ Len(Tail(s)) = Len(s) - 1
           /\ \A i \in DOMAIN Tail(s) : i + 1 \in DOMAIN s /\ Tail(s)[i] = s[i + 1]
           /\ \A i \in DOMAIN s : i = 1 \/ (i - 1 \in DOMAIN Tail(s) /\ s[i] = Tail(s)[i - 1])
OBVIOUS

\* What a concatenation is made of.
LEMMA Joined ==
    ASSUME NEW S, NEW s \in Seq(S), NEW t \in Seq(S)
    PROVE  /\ s \o t \in Seq(S) /\ Len(s \o t) = Len(s) + Len(t)
           /\ \A i \in DOMAIN s : i \in DOMAIN (s \o t) /\ (s \o t)[i] = s[i]
           /\ \A i \in DOMAIN t : Len(s) + i \in DOMAIN (s \o t) /\ (s \o t)[Len(s) + i] = t[i]
           /\ \A i \in DOMAIN (s \o t) :
                 \/ i \in DOMAIN s
                 \/ i > Len(s) /\ i - Len(s) \in DOMAIN t /\ (s \o t)[i] = t[i - Len(s)]
<1>1. s \o t \in Seq(S) /\ Len(s \o t) = Len(s) + Len(t) /\ Len(s) \in Nat /\ Len(t) \in Nat
  OBVIOUS
<1>2. DOMAIN s = 1 .. Len(s) /\ DOMAIN t = 1 .. Len(t) /\ DOMAIN (s \o t) = 1 .. Len(s) + Len(t)
  BY <1>1
<1>3. \A i \in 1 .. Len(s) + Len(t) :
        (s \o t)[i] = IF i <= Len(s) THEN s[i] ELSE t[i - Len(s)]
  OBVIOUS
<1>. QED  BY <1>1, <1>2, <1>3

\* A function on 1 .. n is a sequence.
LEMMA Listed ==
    ASSUME NEW S, NEW n \in Nat, NEW f \in [1 .. n -> S]
    PROVE  f \in Seq(S) /\ Len(f) = n
OBVIOUS

LEMMA Extended ==
    ASSUME NEW S, NEW s \in Seq(S), NEW x \in S
    PROVE  /\ Append(s, x) \in Seq(S) /\ Len(Append(s, x)) = Len(s) + 1
           /\ Append(s, x) # <<>>
           /\ Append(s, x)[Len(s) + 1] = x
           /\ \A i \in DOMAIN s : i \in DOMAIN Append(s, x) /\ Append(s, x)[i] = s[i]
OBVIOUS

LEMMA ImageFinite ==
    ASSUME NEW S, IsFiniteSet(S), NEW f
    PROVE  IsFiniteSet({f[x] : x \in S})
<1> DEFINE T == {f[x] : x \in S}
           g == [x \in S |-> f[x]]
<1>1. g \in Surjection(S, T)
  BY DEF Surjection
<1>. QED  BY <1>1, FS_Surjection

\* The members of a finite set, in some order.
LEMMA SetToSeqLists ==
    ASSUME NEW S, IsFiniteSet(S)
    PROVE  SetToSeq(S) \in Seq(S)
<1>1. Cardinality(S) \in Nat /\ ExistsBijection(1 .. Cardinality(S), S)
  BY FS_CardinalityType
<1>2. PICK f \in Bijection(1 .. Cardinality(S), S) : TRUE
  BY <1>1 DEF ExistsBijection
<1>3. f \in [1 .. Cardinality(S) -> S] /\ IsInjective(f)
  BY <1>2 DEF Bijection, Injection, IsInjective
<1>4. SetToSeq(S) \in [1 .. Cardinality(S) -> S]
  BY <1>3, Zenon DEF SetToSeq
<1>. QED  BY <1>1, <1>4, Listed

-----------------------------------------------------------------------------
(* Names, statements and calls. *)

LEMMA LvalueForms ==
    /\ <<>> \in Lvalue
    /\ \A v \in Identifier : <<v>> \in Lvalue /\ Len(<<v>>) = 1 /\ <<v>>[1] = v
    /\ \A l \in Lvalue, n \in Identifier :
          /\ Append(l, n) \in Lvalue /\ Append(l, n) # <<>>
          /\ Len(Append(l, n)) = Len(l) + 1
          /\ l # <<>> => Append(l, n)[1] = l[1]
    /\ \A n \in Identifier, word \in Words : Append(n, word) \in Identifier
    /\ \A l \in Lvalue : Len(l) \in Nat /\ DOMAIN l = 1 .. Len(l)
    /\ \A l \in Lvalue : l # <<>> => l[1] \in Identifier
<1>1. \A v \in Identifier : <<v>> \in Lvalue /\ Len(<<v>>) = 1 /\ <<v>>[1] = v
  BY DEF Lvalue
<1>2. ASSUME NEW l \in Lvalue, NEW n \in Identifier
      PROVE  /\ Append(l, n) \in Lvalue /\ Append(l, n) # <<>>
             /\ Len(Append(l, n)) = Len(l) + 1
             /\ l # <<>> => Append(l, n)[1] = l[1]
  <2>1. l \in Seq(Identifier)
    BY DEF Lvalue
  <2>2. /\ Append(l, n) \in Seq(Identifier) /\ Append(l, n) # <<>>
        /\ Len(Append(l, n)) = Len(l) + 1
    BY <2>1, Extended
  <2>3. l # <<>> => 1 \in DOMAIN l
    BY <2>1
  <2>4. l # <<>> => Append(l, n)[1] = l[1]
    BY <2>1, <2>3, Extended
  <2>. QED  BY <2>2, <2>4 DEF Lvalue
<1>3. \A n \in Identifier, word \in Words : Append(n, word) \in Identifier
  BY Extended DEF Identifier
<1>4. \A l \in Lvalue : Len(l) \in Nat /\ DOMAIN l = 1 .. Len(l) /\ (l # <<>> => l[1] \in Identifier)
  BY DEF Lvalue
<1>5. <<>> \in Lvalue
  BY DEF Lvalue
<1>. QED  BY <1>1, <1>2, <1>3, <1>4, <1>5

LEMMA StorageForm ==
    ASSUME NEW l \in Lvalue, NEW word \in Words
    PROVE  Storage(l, word) \in Identifier
<1>1. FlattenSeq(l) \in Seq(Words)
  BY FlattenType DEF Lvalue, Identifier
<1>2. Append(FlattenSeq(l), word) \in Seq(Words)
  BY <1>1, Extended
<1>. QED  BY <1>2 DEF Storage, Identifier

Conditions == {"assume", "within", "mask", "nonnegative", "nonnull", "text", "requires", "use", "free"}

LEMMA StatementForms ==
    /\ \A v \in Identifier, n \in Nat : Declare(v, n) \in Statement
    /\ \A of \in Lvalue : Nondet(of) \in Statement /\ Library(of) \in Statement
    /\ \A of \in Lvalue, by \in Lvalue : Null(of, by) \in Statement
    /\ \A of \in Lvalue, to \in Identifier, by \in Lvalue : Point(of, to, by) \in Statement
    /\ \A of \in Lvalue, n \in Nat : Assume(of, n) \in Statement
    /\ \A op \in Conditions, of \in Lvalue, to \in Lvalue, by \in Lvalue :
          Stated(op, of, to, by, 0) \in Statement
<1>1. ASSUME NEW op \in Conditions \cup {"declare", "any", "null", "point", "library"},
             NEW of \in Lvalue, NEW to \in Lvalue, NEW by \in Lvalue, NEW n \in Nat
      PROVE  Stated(op, of, to, by, n) \in Statement
  BY DEF Stated, Statement, Conditions
<1>2. 0 \in Nat
  OBVIOUS
<1>3. \A v \in Identifier : <<v>> \in Lvalue
  BY LvalueForms
<1>4. <<>> \in Lvalue
  BY LvalueForms
<1>5. \A v \in Identifier, n \in Nat : Declare(v, n) \in Statement
  BY <1>1, <1>3, <1>4 DEF Declare
<1>6. \A of \in Lvalue : Nondet(of) \in Statement /\ Library(of) \in Statement
  BY <1>1, <1>2, <1>4 DEF Nondet, Library
<1>7. \A of \in Lvalue, by \in Lvalue : Null(of, by) \in Statement
  BY <1>1, <1>2, <1>4 DEF Null
<1>8. \A of \in Lvalue, to \in Identifier, by \in Lvalue : Point(of, to, by) \in Statement
  BY <1>1, <1>2, <1>3 DEF Point
<1>9. \A of \in Lvalue, n \in Nat : Assume(of, n) \in Statement
  BY <1>1, <1>4 DEF Assume, Conditions
<1>10. \A op \in Conditions, of \in Lvalue, to \in Lvalue, by \in Lvalue :
          Stated(op, of, to, by, 0) \in Statement
  BY <1>1, <1>2
<1>. QED  BY <1>5, <1>6, <1>7, <1>8, <1>9, <1>10

\* A call of _fill_fields.
Call == [type : STRING, prefix : Lvalue, depth : Nat, seen : SUBSET STRING, next : Nat,
         pairs : UNION {[names -> Identifier] : names \in SUBSET Identifier},
         constraints : Seq(Statement), finish : Seq(Statement), followed : BOOLEAN]

FieldsOf(f) == program.structs[f.type].fields

Calls == {f \in Call :
            /\ f.type \in Structs /\ f.type \in f.seen
            /\ f.next \in 1 .. Len(FieldsOf(f)) + 1
            /\ f.prefix # <<>>
            /\ f.pairs \in Pairings(f.type)}

LEMMA StructForm ==
    ASSUME IsProgram(program), NEW type \in Structs
    PROVE  /\ type \in STRING /\ type \notin NotStructs
           /\ program.structs[type] \in Struct
           /\ program.structs[type].fields \in Seq(Field)
           /\ program.structs[type].callbacks \in Seq(Identifier)
           /\ program.structs[type].union \in BOOLEAN
           /\ IsFiniteSet(program.structs[type].within)
           /\ IsFiniteSet(program.structs[type].masked)
           /\ IsFiniteSet(program.structs[type].indexing)
BY DEF IsProgram, Structs, Struct

LEMMA FieldForm ==
    ASSUME NEW g \in Field
    PROVE  /\ g.name \in Identifier /\ g.of \in STRING
           /\ g.shape \in {"value", "array", "pointer"}
BY DEF Field

\* What the naming conventions pair are fields of the struct.
LEMMA PairingsForm ==
    ASSUME IsProgram(program), NEW type \in Structs, NEW p \in Pairings(type)
    PROVE  /\ p \in UNION {[names -> Identifier] : names \in SUBSET Identifier}
           /\ IsFiniteSet(DOMAIN p)
           /\ \A name \in DOMAIN p :
                 \E i \in DOMAIN program.structs[type].fields :
                     /\ program.structs[type].fields[i].name = name
                     /\ program.structs[type].fields[i].shape = "pointer"
<1> DEFINE fields == program.structs[type].fields
           pointers == {i \in DOMAIN fields : fields[i].shape = "pointer" /\ fields[i].of # type}
           integers == IntegerFields(fields)
<1>1. fields \in Seq(Field) /\ DOMAIN fields = 1 .. Len(fields) /\ Len(fields) \in Nat
  BY StructForm
<1>2. \E paired \in SUBSET pointers : \E c \in [paired -> NamesOf(integers)] :
         p = [name \in {fields[i].name : i \in paired} |->
                 c[CHOOSE i \in paired : fields[i].name = name]]
  <2> DEFINE Counting(i) == NamesOf({f \in integers : fields[i].name \in f.counts})
             First1(i) == CASE Counting(i) # {} -> {CHOOSE n \in Counting(i) : TRUE}
                      [] Counting(i) = {} /\ Cardinality(pointers) = 1 -> Lengths(fields)
                      [] OTHER -> {}
             generic == PlayingRole(fields, "generic") \ UNION {First1(i) : i \in pointers}
             Singular(i) == NamesOf({f \in integers : fields[i].name \in f.elements})
             Second(i) == CASE fields[i].of \notin Scalars \cup {"pointer"} -> {}
                       [] Singular(i) # {} -> Singular(i)
                       [] Cardinality(generic) = 1 -> generic
                       [] OTHER -> {}
             Counts(i) == IF First1(i) # {} THEN First1(i) ELSE Second(i)
             paired == {i \in pointers : Counts(i) # {}}
  <2>1. Pairings(type) =
          {[name \in {fields[i].name : i \in paired} |->
             chosen[CHOOSE i \in paired : fields[i].name = name]] :
           chosen \in {c \in [paired -> NamesOf(integers)] :
                         \A i \in paired : c[i] \in Counts(i)}}
    BY Zenon DEF Pairings, PairingsOf
  <2>. HIDE DEF Counts
  <2>2. PICK c \in [paired -> NamesOf(integers)] :
          p = [name \in {fields[i].name : i \in paired} |->
                 c[CHOOSE i \in paired : fields[i].name = name]]
    BY <2>1, Zenon
  <2>3. paired \in SUBSET pointers
    OBVIOUS
  <2>. QED  BY <2>2, <2>3, Zenon
<1>11. PICK paired \in SUBSET pointers : \E c \in [paired -> NamesOf(integers)] :
         p = [name \in {fields[i].name : i \in paired} |->
                 c[CHOOSE i \in paired : fields[i].name = name]]
  BY <1>2
<1>3. PICK c \in [paired -> NamesOf(integers)] :
         p = [name \in {fields[i].name : i \in paired} |->
                 c[CHOOSE i \in paired : fields[i].name = name]]
  BY <1>11
<1>4. NamesOf(integers) \subseteq Identifier
  BY <1>1, FieldForm DEF NamesOf, IntegerFields, ToSet
<1>5. DOMAIN p = {fields[i].name : i \in paired}
  BY <1>3
<1>6. \A name \in DOMAIN p : p[name] \in Identifier
  <2>. SUFFICES ASSUME NEW name \in DOMAIN p PROVE p[name] \in Identifier
    OBVIOUS
  <2>1. \E i \in paired : fields[i].name = name
    BY <1>5
  <2>2. (CHOOSE i \in paired : fields[i].name = name) \in paired
    BY <2>1
  <2>3. p[name] = c[CHOOSE i \in paired : fields[i].name = name]
    BY <1>3, <1>5
  <2>. QED  BY <1>4, <2>2, <2>3
<1>7. \A i \in paired : i \in DOMAIN fields /\ fields[i].name \in Identifier /\ fields[i].shape = "pointer"
  BY <1>1, FieldForm
<1>8. DOMAIN p \in SUBSET Identifier /\ p \in [DOMAIN p -> Identifier]
  <2>1. DOMAIN p \in SUBSET Identifier
    BY <1>5, <1>7
  <2> DEFINE names == {fields[i].name : i \in paired}
             value(name) == c[CHOOSE i \in paired : fields[i].name = name]
  <2>2. p = [name \in names |-> value(name)] /\ DOMAIN p = names
    BY <1>3, <1>5, Zenon
  <2>. HIDE DEF names, value
  <2>3. \A name \in names : p[name] = value(name)
    BY <2>2, Zenon
  <2>4. \A name \in names : value(name) \in Identifier
    BY <1>6, <2>2, <2>3, Zenon
  <2>5. [name \in names |-> value(name)] \in [names -> Identifier]
    BY <2>4, Zenon
  <2>. QED  BY <2>1, <2>2, <2>5, Zenon
<1>9. IsFiniteSet(paired)
  <2>1. PICK n \in Nat : n = Len(fields)
    BY <1>1
  <2>2. IsFiniteSet(1 .. n)
    BY FS_Interval
  <2>3. paired \in SUBSET (1 .. n)
    BY <1>1, <1>7, <2>1
  <2>. QED  BY <2>2, <2>3, FS_Subset
<1>10. IsFiniteSet(DOMAIN p)
  <2> DEFINE named == [i \in paired |-> fields[i].name]
  <2>1. IsFiniteSet({named[i] : i \in paired})
    BY <1>9, ImageFinite
  <2>2. \A i \in paired : named[i] = fields[i].name
    OBVIOUS
  <2>. HIDE DEF named
  <2>3. {named[i] : i \in paired} = {fields[i].name : i \in paired}
    BY <2>2, Zenon
  <2>. QED  BY <1>5, <2>1, <2>3
<1>. QED  BY <1>5, <1>7, <1>8, <1>10

ObjectTypes ==
    /\ IsProgram(program) /\ options \in Options
    /\ frames \in Seq(Calls)
    /\ code \in Seq(Statement) /\ teardown \in Seq(Statement)
    /\ said \subseteq Lvalue

\* A call is at a field.
AtField == frames # <<>> /\ ~struct.union /\ Top.next \in DOMAIN struct.fields

LEMMA TopForm ==
    ASSUME ObjectTypes, frames # <<>>
    PROVE  /\ Top \in Calls /\ Top = frames[1] /\ Tail(frames) \in Seq(Calls)
           /\ Top.type \in Structs /\ Top.type \in STRING /\ Top.prefix \in Lvalue /\ Top.prefix # <<>>
           /\ Top.depth \in Nat /\ Top.seen \subseteq STRING /\ Top.next \in Nat
           /\ Top.constraints \in Seq(Statement) /\ Top.finish \in Seq(Statement)
           /\ Top.pairs \in Pairings(Top.type)
           /\ struct \in Struct /\ struct.fields \in Seq(Field)
           /\ struct.callbacks \in Seq(Identifier)
           /\ Top.next \in 1 .. Len(struct.fields) + 1
<1>1. Top \in Calls /\ Top = frames[1] /\ Tail(frames) \in Seq(Calls)
  BY WithoutFirst DEF ObjectTypes, Top
<1>2. Top \in Call
  BY <1>1 DEF Calls
<1>3. /\ Top.type \in STRING /\ Top.prefix \in Lvalue /\ Top.depth \in Nat /\ Top.seen \subseteq STRING
      /\ Top.next \in Nat /\ Top.constraints \in Seq(Statement) /\ Top.finish \in Seq(Statement)
  BY <1>2 DEF Call
<1>4. /\ Top.type \in Structs /\ Top.prefix # <<>> /\ Top.pairs \in Pairings(Top.type)
      /\ Top.next \in 1 .. Len(struct.fields) + 1
  BY <1>1 DEF Calls, FieldsOf, struct
<1>5. struct \in Struct /\ struct.fields \in Seq(Field) /\ struct.callbacks \in Seq(Identifier)
  BY <1>4, StructForm DEF struct, ObjectTypes
<1>. QED  BY <1>1, <1>3, <1>4, <1>5

LEMMA FieldAt ==
    ASSUME ObjectTypes, AtField
    PROVE  /\ field \in Field /\ target \in Lvalue /\ target # <<>>
           /\ target[1] = Top.prefix[1]
           /\ target = Append(Top.prefix, field.name) /\ field.name \in Identifier
           /\ \A word \in Words : Storage(target, word) \in Identifier
<1>1. field \in Field
  BY TopForm DEF AtField, field
<1>2. field.name \in Identifier
  BY <1>1, FieldForm
<1>3. target \in Lvalue /\ target # <<>> /\ target[1] = Top.prefix[1]
  BY <1>2, TopForm, LvalueForms DEF AtField, target
<1>4. \A word \in Words : Storage(target, word) \in Identifier
  BY <1>3, StorageForm
<1>. QED  BY <1>1, <1>2, <1>3, <1>4 DEF target

\* The call is at the next field, and owes some more.
Onward(constraints) == [Top EXCEPT !.next = @ + 1, !.constraints = @ \o constraints]

LEMMA FurtherForm ==
    ASSUME ObjectTypes, AtField, NEW constraints \in Seq(Statement)
    PROVE  /\ Further(constraints) = <<Onward(constraints)>> \o Tail(frames)
           /\ Onward(constraints) \in Calls
           /\ Onward(constraints).next = Top.next + 1
           /\ Onward(constraints).constraints = Top.constraints \o constraints
           /\ Onward(constraints).type = Top.type /\ Onward(constraints).prefix = Top.prefix
           /\ Onward(constraints).pairs = Top.pairs /\ Onward(constraints).finish = Top.finish
           /\ Further(constraints) \in Seq(Calls)
<1> DEFINE f == Onward(constraints)
<1>0. Top \in Calls /\ Top \in Call /\ frames # <<>>
  BY TopForm DEF AtField, Calls
<1>1. /\ f.next = Top.next + 1 /\ f.constraints = Top.constraints \o constraints
      /\ f.type = Top.type /\ f.prefix = Top.prefix
      /\ f.pairs = Top.pairs /\ f.finish = Top.finish /\ f.seen = Top.seen
  BY <1>0 DEF Onward, Call
<1>2. Top.constraints \o constraints \in Seq(Statement) /\ Top.next + 1 \in Nat
  BY <1>0, TopForm
<1>3. f \in Call
  BY <1>0, <1>2 DEF Onward, Call
<1>4. f.next \in 1 .. Len(FieldsOf(f)) + 1
  <2>1. Top.next + 1 \in 1 .. Len(struct.fields) + 1
    <3>1. struct.fields \in Seq(Field) /\ Top.next \in DOMAIN struct.fields
      BY <1>0, TopForm DEF AtField
    <3>2. PICK n \in Nat : n = Len(struct.fields) /\ DOMAIN struct.fields = 1 .. n
      BY <3>1
    <3>. QED  BY <3>1, <3>2
  <2>. QED  BY <1>1, <2>1 DEF FieldsOf, struct
<1>5. f \in Calls
  BY <1>0, <1>1, <1>3, <1>4 DEF Calls
<1>6. Further(constraints) = <<f>> \o Tail(frames)
  BY DEF Further, Onward
<1>7. Tail(frames) \in Seq(Calls)
  BY <1>0, TopForm
<1>. HIDE DEF f
<1>8. Further(constraints) \in Seq(Calls)
  BY <1>5, <1>6, <1>7, InFront
<1>. QED  BY <1>1, <1>5, <1>6, <1>8 DEF f

\* A call that has done nothing yet.
Fresh(f, type, prefix, finish) ==
    /\ f.type = type /\ f.prefix = prefix /\ f.next = 1
    /\ f.constraints = <<>> /\ f.finish = finish

LEMMA EnterForm ==
    ASSUME IsProgram(program), NEW outer \in Seq(Calls), NEW type \in Structs,
           NEW prefix \in Lvalue, prefix # <<>>,
           NEW d \in Nat, NEW seen, seen \subseteq STRING, NEW finish \in Seq(Statement),
           NEW followed \in BOOLEAN,
           Enter(outer, type, prefix, d, seen, finish, followed)
    PROVE  \E f \in Calls : frames' = <<f>> \o outer /\ Fresh(f, type, prefix, finish)
<1>1. PICK p \in Pairings(type) :
         frames' = <<[type |-> type, prefix |-> prefix, depth |-> d, seen |-> Seen(seen, type),
                      next |-> 1, pairs |-> p, constraints |-> <<>>, finish |-> finish,
                      followed |-> followed]>> \o outer
  BY Zenon DEF Enter
<1> DEFINE f == [type |-> type, prefix |-> prefix, depth |-> d, seen |-> Seen(seen, type),
                 next |-> 1, pairs |-> p, constraints |-> <<>>, finish |-> finish,
                 followed |-> followed]
<1>2. /\ f.type = type /\ f.prefix = prefix /\ f.next = 1 /\ f.constraints = <<>>
      /\ f.finish = finish /\ f.pairs = p /\ f.seen = Seen(seen, type)
  OBVIOUS
<1>3. type \in STRING /\ Seen(seen, type) \in SUBSET STRING /\ type \in Seen(seen, type)
  BY StructForm DEF Seen
<1>4. p \in UNION {[names -> Identifier] : names \in SUBSET Identifier}
  BY PairingsForm
<1>5. <<>> \in Seq(Statement) /\ 1 \in Nat
  OBVIOUS
<1>6. f \in Call
  BY <1>3, <1>4, <1>5 DEF Call
<1>7. 1 \in 1 .. Len(FieldsOf(f)) + 1
  <2>1. program.structs[type].fields \in Seq(Field)
    BY StructForm
  <2>. QED  BY <1>2, <2>1 DEF FieldsOf
<1>. HIDE DEF f
<1>8. f \in Calls
  BY <1>2, <1>3, <1>6, <1>7 DEF Calls
<1>9. Fresh(f, type, prefix, finish)
  BY <1>2 DEF Fresh
<1>. QED  BY <1>1, <1>8, <1>9 DEF f

Roles == {"length", "cursor"}

LEMMA NamesFinite ==
    ASSUME ObjectTypes, frames # <<>>
    PROVE  /\ \A role \in Roles : /\ PlayingRole(struct.fields, role) \subseteq Identifier
                                   /\ IsFiniteSet(PlayingRole(struct.fields, role))
           /\ {Top.pairs[p] : p \in DOMAIN Top.pairs} \subseteq Identifier
           /\ IsFiniteSet({Top.pairs[p] : p \in DOMAIN Top.pairs})
<1>1. struct.fields \in Seq(Field)
  BY TopForm
<1>2. ASSUME NEW role \in Roles
      PROVE  /\ PlayingRole(struct.fields, role) \subseteq Identifier
             /\ IsFiniteSet(PlayingRole(struct.fields, role))
  <2>1. PICK n \in Nat : n = Len(struct.fields)
    BY <1>1
  <2>2. DOMAIN struct.fields = 1 .. n
    BY <1>1, <2>1
  <2> DEFINE names == [i \in 1 .. n |-> struct.fields[i].name]
             all == {names[i] : i \in 1 .. n}
  <2>3. IsFiniteSet(1 .. n)
    BY FS_Interval
  <2>4. IsFiniteSet(all)
    BY <2>3, ImageFinite
  <2>5. \A i \in 1 .. n : names[i] = struct.fields[i].name /\ names[i] \in Identifier
    BY <1>1, <2>2, FieldForm
  <2>6. PlayingRole(struct.fields, role) \subseteq all /\ all \subseteq Identifier
    <3>. HIDE DEF names
    <3>1. \A f \in ToSet(struct.fields) : \E i \in 1 .. n : f = struct.fields[i]
      BY <2>2 DEF ToSet
    <3>. QED  BY <2>5, <3>1 DEF PlayingRole, NamesOf, IntegerFields
  <2>. HIDE DEF all
  <2>. QED  BY <2>4, <2>6, FS_Subset
<1>3. IsFiniteSet(DOMAIN Top.pairs) /\ \A p \in DOMAIN Top.pairs : Top.pairs[p] \in Identifier
  BY TopForm, PairingsForm DEF ObjectTypes
<1>4. IsFiniteSet({Top.pairs[p] : p \in DOMAIN Top.pairs})
  BY <1>3, ImageFinite
<1>. QED  BY <1>2, <1>3, <1>4

\* What _fill_fields writes before and after what it owes its counts.
LinesBefore == {s \in Statement :
             \E n \in ToSet(struct.callbacks) :
                s = Library(Append(Top.prefix, n)) /\ s.of \in said'}
LinesAfter == {s \in Statement :
            /\ s.op \in {"assume", "within", "mask"} /\ s.by = <<>>
            /\ \/ /\ s.of \in said' /\ \E n \in Identifier : s.of = Append(Top.prefix, n)
                  /\ s.to = <<>> \/ \E n \in Identifier : s.to = Append(Top.prefix, n)
               \/ \E x, y \in DOMAIN Top.pairs :
                     /\ <<x, y>> \in struct.indexing
                     /\ s.of = <<Storage(Append(Top.prefix, x), "items")>>
                     /\ s.to = Append(Top.prefix, Top.pairs[y])}

LEMMA ListedLines ==
    ASSUME NEW S, IsFiniteSet(S), NEW f, NEW T, \A x \in S : f[x] \in T
    PROVE  SetToSeq({f[x] : x \in S}) \in Seq(T)
<1>1. IsFiniteSet({f[x] : x \in S})
  BY ImageFinite
<1>2. SetToSeq({f[x] : x \in S}) \in Seq({f[x] : x \in S})
  BY <1>1, SetToSeqLists
<1>3. {f[x] : x \in S} \subseteq T
  OBVIOUS
<1>. QED  BY <1>2, <1>3, SeqGrows

LEMMA FinishForm ==
    ASSUME ObjectTypes, FinishFields
    PROVE  /\ frames # <<>> /\ ~struct.union /\ frames' = Tail(frames)
           /\ UNCHANGED <<program, options, teardown>>
           /\ said \subseteq said' /\ said' \subseteq Lvalue
           /\ \E before \in Seq(LinesBefore), after \in Seq(LinesAfter) :
                 code' = code \o (before \o Top.constraints \o after \o Top.finish)
<1> DEFINE lengths == {Top.pairs[p] : p \in DOMAIN Top.pairs}
           inferred == IF options.infer_invariants THEN struct.within ELSE {}
           masked == IF options.infer_invariants THEN struct.masked ELSE {}
           indexing == {pair \in IF options.infer_invariants THEN struct.indexing ELSE {} :
                          pair[1] \in DOMAIN Top.pairs /\ pair[2] \in DOMAIN Top.pairs}
           within == inferred \cup (Cursors \X lengths)
           Within(pair) == Stated("within", Append(Top.prefix, pair[1]),
                                  Append(Top.prefix, pair[2]), <<>>, 0)
           Index(pair) == Stated("within", <<Storage(Append(Top.prefix, pair[1]), "items")>>,
                                 Append(Top.prefix, Top.pairs[pair[2]]), <<>>, 0)
           callbacks == ToSet(struct.callbacks)
           told == callbacks \cup OtherLengths \cup {pair[1] : pair \in within \cup indexing}
                     \cup masked \cup struct.unsupported
           libraries == [i \in DOMAIN struct.callbacks |-> Library(Append(Top.prefix, struct.callbacks[i]))]
           others == SetToSeq({Assume(l, MaxArrayLen) : l \in In(OtherLengths)})
           withins == SetToSeq({Within(pair) : pair \in within})
           indexes == SetToSeq({Index(pair) : pair \in indexing})
           masks == SetToSeq({Stated("mask", m, <<>>, <<>>, 0) : m \in In(masked)})
<1>0. frames # <<>> /\ ~struct.union
  BY DEF FinishFields
<1>1. /\ frames' = Tail(frames)
      /\ UNCHANGED <<program, options, teardown>>
  BY Zenon DEF FinishFields
<1>21. code' = code \o (libraries \o Top.constraints \o others \o withins \o indexes \o masks \o Top.finish)
  BY Zenon DEF FinishFields, Emit
<1>22. said' = said \cup In(told)
  BY Zenon DEF FinishFields, Emit
<1>2. /\ struct \in Struct /\ struct.callbacks \in Seq(Identifier) /\ Top.prefix \in Lvalue
      /\ struct.unsupported \subseteq Identifier
      /\ struct.within \subseteq Identifier \X Identifier /\ IsFiniteSet(struct.within)
      /\ struct.masked \subseteq Identifier /\ IsFiniteSet(struct.masked)
      /\ struct.indexing \subseteq Identifier \X Identifier /\ IsFiniteSet(struct.indexing)
  <2>1. struct \in Struct /\ struct.callbacks \in Seq(Identifier) /\ Top.prefix \in Lvalue
    BY <1>0, TopForm
  <2>2. IsFiniteSet(struct.within) /\ IsFiniteSet(struct.masked) /\ IsFiniteSet(struct.indexing)
    BY <1>0, TopForm, StructForm DEF ObjectTypes, struct
  <2>. QED  BY <2>1, <2>2 DEF Struct
<1>3. /\ lengths \subseteq Identifier /\ IsFiniteSet(lengths)
      /\ OtherLengths \subseteq Identifier /\ IsFiniteSet(OtherLengths)
      /\ Cursors \subseteq Identifier /\ IsFiniteSet(Cursors)
  <2>1. lengths \subseteq Identifier /\ IsFiniteSet(lengths)
    BY <1>0, NamesFinite
  <2>2. /\ PlayingRole(struct.fields, "length") \subseteq Identifier
        /\ IsFiniteSet(PlayingRole(struct.fields, "length"))
        /\ PlayingRole(struct.fields, "cursor") \subseteq Identifier
        /\ IsFiniteSet(PlayingRole(struct.fields, "cursor"))
    <3>1. "length" \in Roles /\ "cursor" \in Roles
      BY DEF Roles
    <3>. QED  BY <1>0, <3>1, NamesFinite, Zenon
  <2>3. IsFiniteSet({})
    BY FS_EmptySet
  <2>4. OtherLengths \subseteq PlayingRole(struct.fields, "length")
    BY DEF OtherLengths, Lengths
  <2>5. Cursors \subseteq PlayingRole(struct.fields, "cursor")
    BY DEF Cursors
  <2>. QED  BY <2>1, <2>2, <2>4, <2>5, FS_Subset
<1>4. /\ within \subseteq Identifier \X Identifier /\ IsFiniteSet(within)
      /\ masked \subseteq Identifier /\ IsFiniteSet(masked)
      /\ indexing \subseteq struct.indexing /\ IsFiniteSet(indexing)
  <2>. HIDE DEF lengths
  <2>1. IsFiniteSet({})
    BY FS_EmptySet
  <2>2. IsFiniteSet(Cursors \X lengths)
    BY <1>3, FS_Product
  <2>4. IsFiniteSet(inferred) /\ inferred \subseteq Identifier \X Identifier
    BY <1>2, <2>1
  <2>5. IsFiniteSet(within) /\ within \subseteq Identifier \X Identifier
    <3>. HIDE DEF inferred
    <3>1. within = inferred \cup (Cursors \X lengths)
      OBVIOUS
    <3>2. IsFiniteSet(inferred \cup (Cursors \X lengths))
      BY <2>2, <2>4, FS_Union
    <3>. QED  BY <1>3, <2>4, <3>1, <3>2
  <2>6. IsFiniteSet(masked) /\ masked \subseteq Identifier
    BY <1>2, <2>1
  <2>7. indexing \subseteq struct.indexing
    OBVIOUS
  <2>. QED  BY <1>2, <2>5, <2>6, <2>7, FS_Subset
<1>. HIDE DEF lengths, inferred, within, masked, indexing
<1>5. \A n \in Identifier : Append(Top.prefix, n) \in Lvalue
  BY <1>2, LvalueForms
<1>6. told \subseteq Identifier /\ callbacks \subseteq Identifier
  <2>1. callbacks \subseteq Identifier
    BY <1>2 DEF ToSet
  <2>2. \A pair \in within \cup indexing : pair[1] \in Identifier
    BY <1>2, <1>4
  <2>. QED  BY <1>2, <1>3, <1>4, <2>1, <2>2
<1>7. said \subseteq said' /\ said' \subseteq Lvalue
  BY <1>22, <1>5, <1>6 DEF In, ObjectTypes
<1>8. \A n \in told : Append(Top.prefix, n) \in said'
  BY <1>22 DEF In
<1>9. libraries \in Seq(LinesBefore)
  <2>1. PICK n \in Nat : n = Len(struct.callbacks)
    BY <1>2
  <2>2. DOMAIN struct.callbacks = 1 .. n
    BY <1>2, <2>1
  <2>3. ASSUME NEW i \in 1 .. n
        PROVE  Library(Append(Top.prefix, struct.callbacks[i])) \in LinesBefore
    <3>1. PICK v \in callbacks : v = struct.callbacks[i]
      BY <2>2 DEF ToSet
    <3>2. Append(Top.prefix, v) \in Lvalue /\ Append(Top.prefix, v) \in said'
      BY <1>5, <1>6, <1>8, <3>1
    <3>3. Library(Append(Top.prefix, v)) \in Statement
      BY <3>2, StatementForms
    <3>4. Library(Append(Top.prefix, v)).of = Append(Top.prefix, v)
      BY DEF Library, Stated
    <3>. QED  BY <3>1, <3>2, <3>3, <3>4 DEF LinesBefore
  <2>4. libraries = [i \in 1 .. n |-> Library(Append(Top.prefix, struct.callbacks[i]))]
    BY <2>2
  <2>. HIDE DEF libraries
  <2>5. libraries \in [1 .. n -> LinesBefore]
    BY <2>3, <2>4
  <2>. QED  BY <2>5, Listed
<1>. HIDE DEF told, callbacks
<1>10. others \in Seq(LinesAfter)
  <2> DEFINE f == [n \in OtherLengths |-> Assume(Append(Top.prefix, n), MaxArrayLen)]
  <2>1. ASSUME NEW n \in OtherLengths PROVE f[n] \in LinesAfter
    <3>1. n \in Identifier /\ Append(Top.prefix, n) \in Lvalue /\ Append(Top.prefix, n) \in said'
      BY <1>3, <1>5, <1>8 DEF told
    <3>2. Assume(Append(Top.prefix, n), MaxArrayLen) \in Statement
      BY <3>1, StatementForms, ObjectBoundsAssumption
    <3>. QED  BY <3>1, <3>2 DEF LinesAfter, Assume, Stated
  <2>2. {Assume(l, MaxArrayLen) : l \in In(OtherLengths)} = {f[n] : n \in OtherLengths}
    <3>1. \A n \in OtherLengths : f[n] = Assume(Append(Top.prefix, n), MaxArrayLen)
      OBVIOUS
    <3>. HIDE DEF f
    <3>. QED  BY <3>1, Zenon DEF In
  <2>. HIDE DEF f
  <2>3. SetToSeq({f[n] : n \in OtherLengths}) \in Seq(LinesAfter)
    BY <1>3, <2>1, ListedLines
  <2>. QED  BY <2>2, <2>3, Zenon
<1>11. withins \in Seq(LinesAfter)
  <2> DEFINE f == [pair \in within |-> Within(pair)]
  <2>1. ASSUME NEW pair \in within PROVE f[pair] \in LinesAfter
    <3>1. PICK x \in Identifier, y \in Identifier : pair[1] = x /\ pair[2] = y
      BY <1>4
    <3>2. Append(Top.prefix, x) \in Lvalue /\ Append(Top.prefix, y) \in Lvalue
          /\ Append(Top.prefix, x) \in said'
      BY <1>5, <1>8, <3>1 DEF told
    <3>3. <<>> \in Lvalue
      BY LvalueForms
    <3>4. PICK op \in Conditions : op = "within"
      BY DEF Conditions
    <3>5. Within(pair) \in Statement
      BY <3>1, <3>2, <3>3, <3>4, StatementForms
    <3>. QED  BY <3>1, <3>2, <3>5 DEF LinesAfter, Stated
  <2>2. \A pair \in within : f[pair] = Within(pair)
    OBVIOUS
  <2>. HIDE DEF f
  <2>3. {Within(pair) : pair \in within} = {f[pair] : pair \in within}
    BY <2>2, Zenon
  <2>4. SetToSeq({f[pair] : pair \in within}) \in Seq(LinesAfter)
    BY <1>4, <2>1, ListedLines
  <2>. QED  BY <2>3, <2>4, Zenon
<1>12. indexes \in Seq(LinesAfter)
  <2> DEFINE f == [pair \in indexing |-> Index(pair)]
  <2>1. ASSUME NEW pair \in indexing PROVE f[pair] \in LinesAfter
    <3>1. /\ pair \in struct.indexing
          /\ pair[1] \in DOMAIN Top.pairs /\ pair[2] \in DOMAIN Top.pairs
      BY <1>4 DEF indexing
    <3>2. PICK x \in Identifier, y \in Identifier : pair = <<x, y>>
      BY <1>2, <3>1
    <3>3. Top.pairs[y] \in Identifier /\ x \in DOMAIN Top.pairs /\ y \in DOMAIN Top.pairs
      BY <1>0, <3>1, <3>2, TopForm, PairingsForm DEF ObjectTypes
    <3>4. Append(Top.prefix, x) \in Lvalue /\ Append(Top.prefix, Top.pairs[y]) \in Lvalue
      BY <1>5, <3>3
    <3>5. <<Storage(Append(Top.prefix, x), "items")>> \in Lvalue
      <4>1. "items" \in Words
        BY DEF Words
      <4>. QED  BY <3>4, <4>1, StorageForm, LvalueForms, Zenon
    <3>6. <<>> \in Lvalue
      BY LvalueForms
    <3>7. PICK op \in Conditions : op = "within"
      BY DEF Conditions
    <3>8. pair[1] = x /\ pair[2] = y
      BY <3>2
    <3>9. Index(pair) \in Statement
      BY <3>4, <3>5, <3>6, <3>7, <3>8, StatementForms
    <3>10. /\ Index(pair).op = "within" /\ Index(pair).by = <<>>
           /\ Index(pair).of = <<Storage(Append(Top.prefix, x), "items")>>
           /\ Index(pair).to = Append(Top.prefix, Top.pairs[y])
      BY <3>8 DEF Stated
    <3>. HIDE DEF Index
    <3>11. Index(pair) \in LinesAfter
      BY <3>1, <3>2, <3>3, <3>9, <3>10 DEF LinesAfter
    <3>. QED  BY <3>11
  <2>2. \A pair \in indexing : f[pair] = Index(pair)
    OBVIOUS
  <2>. HIDE DEF f
  <2>3. {Index(pair) : pair \in indexing} = {f[pair] : pair \in indexing}
    BY <2>2, Zenon
  <2>4. SetToSeq({f[pair] : pair \in indexing}) \in Seq(LinesAfter)
    BY <1>4, <2>1, ListedLines
  <2>. QED  BY <2>3, <2>4, Zenon
<1>13. masks \in Seq(LinesAfter)
  <2> DEFINE f == [n \in masked |-> Stated("mask", Append(Top.prefix, n), <<>>, <<>>, 0)]
  <2>1. ASSUME NEW n \in masked PROVE f[n] \in LinesAfter
    <3>1. n \in Identifier /\ Append(Top.prefix, n) \in Lvalue /\ Append(Top.prefix, n) \in said'
      BY <1>4, <1>5, <1>8 DEF told
    <3>2. <<>> \in Lvalue
      BY LvalueForms
    <3>3. PICK op \in Conditions : op = "mask"
      BY DEF Conditions
    <3>4. Stated("mask", Append(Top.prefix, n), <<>>, <<>>, 0) \in Statement
      BY <3>1, <3>2, <3>3, StatementForms
    <3>. QED  BY <3>1, <3>4 DEF LinesAfter, Stated
  <2>2. \A n \in masked : f[n] = Stated("mask", Append(Top.prefix, n), <<>>, <<>>, 0)
    OBVIOUS
  <2>. HIDE DEF f
  <2>3. {Stated("mask", m, <<>>, <<>>, 0) : m \in In(masked)} = {f[n] : n \in masked}
    BY <2>2, Zenon DEF In
  <2>4. SetToSeq({f[n] : n \in masked}) \in Seq(LinesAfter)
    BY <1>4, <2>1, ListedLines
  <2>. QED  BY <2>3, <2>4, Zenon
<1>. HIDE DEF libraries, others, withins, indexes, masks
<1>14. others \o withins \o indexes \o masks \in Seq(LinesAfter)
  BY <1>10, <1>11, <1>12, <1>13
<1>15. libraries \o Top.constraints \o others \o withins \o indexes \o masks \o Top.finish
        = libraries \o Top.constraints \o (others \o withins \o indexes \o masks) \o Top.finish
  <2>1. Top.constraints \in Seq(Statement) /\ Top.finish \in Seq(Statement)
    BY <1>0, TopForm
  <2> DEFINE U == LinesBefore \cup LinesAfter \cup Statement
  <2>2. /\ libraries \in Seq(U) /\ others \in Seq(U) /\ withins \in Seq(U) /\ indexes \in Seq(U)
        /\ masks \in Seq(U) /\ Top.constraints \in Seq(U) /\ Top.finish \in Seq(U)
    BY <1>9, <1>10, <1>11, <1>12, <1>13, <2>1, SeqGrows
  <2>. HIDE DEF U
  <2>3. PICK x \in Seq(U) : x = libraries \o Top.constraints
    BY <2>2, Associative
  <2>4. PICK y \in Seq(U) : y = others \o withins
    BY <2>2, Associative
  <2>5. PICK z \in Seq(U) : z = y \o indexes
    BY <2>2, Associative
  <2>6. PICK w \in Seq(U) : w = z \o masks
    BY <2>2, Associative
  <2>7. (x \o others) \o withins = x \o y
    BY <2>2, <2>4, SMTT(30)
  <2>8. (x \o y) \o indexes = x \o z
    BY <2>2, <2>5, SMTT(30)
  <2>9. (x \o z) \o masks = x \o w
    BY <2>2, <2>6, SMTT(30)
  <2>. QED  BY <2>3, <2>4, <2>5, <2>6, <2>7, <2>8, <2>9, Zenon
<1>. QED  BY <1>0, <1>1, <1>7, <1>9, <1>14, <1>15, <1>21

LEMMA OwnerForm ==
    ASSUME IsProgram(program), NEW base, Owner(base) # None
    PROVE  Owner(base) \in Structs
<1> DEFINE At(n) == {t \in program.casts : Member(t, n) = base}
           near == {n \in 1 .. MaxBaseDepth : At(n) # {}}
           least == CHOOSE n \in near : \A m \in near : n <= m
<1>1. near # {} /\ Owner(base) = CHOOSE t \in At(least) : TRUE
  BY Zenon DEF Owner
<1>2. near \in SUBSET Nat
  BY DEF MaxBaseDepth
<1>3. \E n \in near : \A m \in near : n <= m
  BY <1>1, <1>2, LeastNumber
<1>4. least \in near
  BY <1>3, Zenon
<1>. HIDE DEF least
<1>5. At(least) # {}
  BY <1>4
<1>6. (CHOOSE t \in At(least) : TRUE) \in At(least)
  BY <1>5, Zenon
<1>7. Owner(base) \in program.casts
  BY <1>1, <1>6
<1>. QED  BY <1>7 DEF IsProgram, Structs

\* What a step of _fill_fields may do.  A field is assigned, or left.
FillOne ==
    /\ AtField /\ field.name \notin DOMAIN Top.pairs
    /\ frames' = Further(<<>>)
    /\ said \subseteq said' /\ said' \subseteq said \cup {target}
    /\ \/ code' = code
       \/ \E s \in {Nondet(target), Null(target, <<>>), Library(target)} :
             /\ code' = code \o <<s>>
             /\ s.op # "any" => target \in said'
FillStored ==
    /\ AtField /\ field.name \notin DOMAIN Top.pairs
    /\ frames' = Further(<<>>) /\ said' = said \cup {target}
    /\ \E n \in Nat, storage \in {Storage(target, "target")} :
          code' = code \o <<Declare(storage, n), Point(target, storage, <<>>)>>
CountedBy == Append(Top.prefix, Top.pairs[field.name])
FillBuffer ==
    /\ AtField /\ field.name \in DOMAIN Top.pairs /\ said' = said \cup {target, CountedBy}
    /\ \E word \in {"items", "bytes"} :
          /\ field.of # "void" => word = "items"
          /\ code' = code \o <<Declare(Storage(target, word), MaxArrayLen),
                               Point(target, Storage(target, word), CountedBy)>>
    /\ frames' = Further(<<Assume(CountedBy, MaxArrayLen)>>)
FillNoBuffer ==
    /\ AtField /\ field.name \in DOMAIN Top.pairs /\ said' = said
    /\ field.of \notin Scalars \cup {"pointer"}
    /\ code' = code \o <<Null(target, CountedBy)>>
    /\ frames' = Further(<<Assume(CountedBy, 0)>>)
FillFollowed ==
    /\ AtField /\ field.name \notin DOMAIN Top.pairs
    /\ said' = said \cup {target}
    /\ \E type \in Structs, storage \in {Storage(target, "target")} :
          /\ code' = code \o <<Declare(storage, 1)>>
          /\ Enter(Further(<<>>), type, <<storage>>, Top.depth + 1, Top.seen,
                   <<Point(target, storage, <<>>)>>, TRUE)
FillWithin ==
    /\ AtField /\ field.name \notin DOMAIN Top.pairs
    /\ code' = code /\ said' = said
    /\ \E type \in Structs :
          Enter(Further(<<>>), type, target, Top.depth, Top.seen, <<>>, FALSE)

LEMMA FieldReached ==
    ASSUME ObjectTypes, Filling
    PROVE  AtField
BY TopForm DEF Filling, AtField

LEMMA FillForms ==
    ASSUME ObjectTypes, FillStep
    PROVE  /\ UNCHANGED <<program, options, teardown>>
           /\ \/ LeaveUnion \/ FinishFields
              \/ FillOne \/ FillStored \/ FillBuffer \/ FillNoBuffer \/ FillFollowed \/ FillWithin
<1>1. CASE LeaveUnion \/ FinishFields
  BY <1>1 DEF LeaveUnion, FinishFields
<1>2. CASE FillCounted
  <2>1. AtField /\ field.name \in DOMAIN Top.pairs /\ UNCHANGED <<program, options, teardown>>
    BY <1>2, FieldReached DEF FillCounted
  <2> DEFINE items == Storage(target, IF field.of = "void" THEN "bytes" ELSE "items")
  <2>2. CASE field.of \in Scalars \cup {"void", "pointer"}
    <3>1. ConstrainLater(<<Declare(items, MaxArrayLen), Point(target, items, CountedBy)>>,
                         {target, CountedBy}, <<Assume(CountedBy, MaxArrayLen)>>)
      BY <1>2, <2>2, Zenon DEF FillCounted, CountedBy
    <3>2. PICK word \in {"items", "bytes"} : word = IF field.of = "void" THEN "bytes" ELSE "items"
      OBVIOUS
    <3>3. items = Storage(target, word) /\ (field.of # "void" => word = "items")
      BY <3>2
    <3>4. /\ code' = code \o <<Declare(items, MaxArrayLen), Point(target, items, CountedBy)>>
          /\ said' = said \cup {target, CountedBy}
          /\ frames' = Further(<<Assume(CountedBy, MaxArrayLen)>>)
      BY <3>1 DEF ConstrainLater, Emit
    <3>. QED  BY <2>1, <3>3, <3>4, Zenon DEF FillBuffer
  <2>3. CASE field.of \notin Scalars \cup {"void", "pointer"}
    <3>1. ConstrainLater(<<Null(target, CountedBy)>>, {}, <<Assume(CountedBy, 0)>>)
      BY <1>2, <2>3, Zenon DEF FillCounted, CountedBy
    <3>. QED  BY <2>1, <2>3, <3>1 DEF ConstrainLater, Emit, FillNoBuffer
  <2>. QED  BY <2>1, <2>2, <2>3
<1>3. CASE FillArray \/ CutPointer \/ NullPointer \/ FillValue \/ FillFromLibrary \/ LeaveUninitialised
  <2>1. AtField /\ field.name \notin DOMAIN Top.pairs
    BY <1>3, FieldReached DEF FillArray, CutPointer, NullPointer, FillValue, FillFromLibrary,
       LeaveUninitialised, Nested, Following, Uncounted
  <2>2. \A s : code \o <<s>> = code \o <<s>>
    OBVIOUS
  <2>3. /\ Nondet(target).op = "any"
    BY DEF Nondet, Stated
  <2>4. code \o <<>> = code
    BY DEF ObjectTypes
  <2>5. CASE FillArray
    <3>1. PICK lines \in {<<Nondet(target)>>, <<>>}, mentioned \in {{}, {target}} : Fill(lines, mentioned)
      BY <2>5, Zenon DEF FillArray
    <3>. QED  BY <2>1, <2>3, <2>4, <3>1 DEF Fill, Emit, FillOne
  <2>6. CASE CutPointer \/ NullPointer
    <3>1. Fill(<<Null(target, <<>>)>>, {target})
      BY <2>6 DEF CutPointer, NullPointer
    <3>. QED  BY <2>1, <3>1 DEF Fill, Emit, FillOne
  <2>7. CASE FillValue
    <3>1. Fill(<<Nondet(target)>>, {})
      BY <2>7 DEF FillValue
    <3>. QED  BY <2>1, <2>3, <3>1 DEF Fill, Emit, FillOne
  <2>8. CASE FillFromLibrary
    <3>1. Fill(<<Library(target)>>, {target})
      BY <2>8 DEF FillFromLibrary
    <3>. QED  BY <2>1, <3>1 DEF Fill, Emit, FillOne
  <2>9. CASE LeaveUninitialised
    <3>1. Fill(<<>>, {target})
      BY <2>9 DEF LeaveUninitialised
    <3>. QED  BY <2>1, <2>4, <3>1 DEF Fill, Emit, FillOne
  <2>. QED  BY <1>3, <2>5, <2>6, <2>7, <2>8, <2>9
<1>4. CASE FillPointerToScalar
  <2>1. AtField /\ field.name \notin DOMAIN Top.pairs
    BY <1>4, FieldReached DEF FillPointerToScalar, Following, Uncounted
  <2> DEFINE size == CASE field.of = "char" /\ options.terminated_strings -> MaxArrayLen + 1
                     [] field.of \in {"integer", "scalar"} -> 1
                     [] OTHER -> MaxArrayLen
  <2>2. Fill(<<Declare(Storage(target, "target"), size),
               Point(target, Storage(target, "target"), <<>>)>>, {target})
    BY <1>4, Zenon DEF FillPointerToScalar
  <2>3. size \in {MaxArrayLen + 1, 1, MaxArrayLen}
    BY Zenon
  <2>4. size \in Nat
    <3>. HIDE DEF size
    <3>. QED  BY <2>3, ObjectBoundsAssumption
  <2>. QED  BY <2>1, <2>2, <2>4, Zenon DEF Fill, Emit, FillStored
<1>5. CASE FollowPointer
  <2> DEFINE pointee == IF Owner(field.of) # None THEN Owner(field.of) ELSE field.of
  <2>1. AtField /\ field.name \notin DOMAIN Top.pairs
    BY <1>5, FieldReached DEF FollowPointer, Following, Uncounted
  <2>2. /\ pointee \in Structs
        /\ Emit(<<Declare(Storage(target, "target"), 1)>>, {target})
        /\ Enter(Further(<<>>), pointee, <<Storage(target, "target")>>, Top.depth + 1, Top.seen,
                 <<Point(target, Storage(target, "target"), <<>>)>>, TRUE)
        /\ UNCHANGED <<program, options, teardown>>
    BY <1>5, Zenon DEF FollowPointer, DepthOf
  <2>. HIDE DEF pointee
  <2>. QED  BY <2>1, <2>2, Zenon DEF Emit, FillFollowed
<1>6. CASE FillNested
  <2>1. AtField /\ field.name \notin DOMAIN Top.pairs
    BY <1>6, FieldReached DEF FillNested, Nested, Uncounted
  <2>. QED  BY <1>6, <2>1, Zenon DEF FillNested, FillWithin
<1>. QED  BY <1>1, <1>2, <1>3, <1>4, <1>5, <1>6 DEF FillStep

LEMMA LengthForm ==
    ASSUME signature \in Signature, NEW i \in Positions, LengthOf(i) # 0
    PROVE  LengthOf(i) \in Positions /\ IsIntegral(params[LengthOf(i)]) /\ params[i].shape = "pointer"
<1>1. Positions \in SUBSET Nat /\ 0 \notin Positions
  BY DEF Positions, params, Signature
<1>2. ASSUME NEW S \in SUBSET Positions, S # {} PROVE First(S) \in S
  <2>1. \E m \in S : \A n \in S : m <= n
    BY <1>1, <1>2, LeastNumber
  <2>. QED  BY <2>1, Zenon DEF First
<1>3. Countable(params[i]) /\ (ByName(i) # {} \/ Following2(i) # {})
  BY Zenon DEF LengthOf
<1>4. ByName(i) \in SUBSET Positions /\ \A j \in ByName(i) : IsIntegral(params[j])
  BY DEF ByName
<1>5. Following2(i) \in SUBSET Positions /\ \A j \in Following2(i) : IsIntegral(params[j])
  BY DEF Following2
<1>6. \/ ByName(i) # {} /\ LengthOf(i) = First(ByName(i))
      \/ Following2(i) # {} /\ LengthOf(i) = First(Following2(i))
  BY <1>3, Zenon DEF LengthOf
<1>. QED  BY <1>2, <1>3, <1>4, <1>5, <1>6 DEF Countable

\* An object is asked for.
Requested(request) ==
    /\ request.as \in Identifier /\ request.finish \in Seq(Statement)
    /\ request.mentions \subseteq Lvalue

\* It is there at once, or there is a call to fill it.
Made(v) == <<Declare(v, 1), Library(<<v>>), Stated("nonnull", <<v>>, <<>>, <<>>, 0)>>
FreedAfter(v) ==
    \/ teardown' = teardown
    \/ teardown' = Append(teardown, Stated("free", <<v>>, <<>>, <<>>, 0))
GivenMade(request, storage) ==
    /\ code' = code \o (Made(storage) \o Deliver(request, storage))
    /\ said' = said \cup ({<<request.as>>, <<storage>>} \cup request.mentions)
    /\ FreedAfter(storage)
GivenLibrary(request, storage) ==
    /\ code' = code \o (<<Declare(storage, 1), Library(<<storage>>)>> \o Deliver(request, storage))
    /\ said' = said \cup ({<<request.as>>, <<storage>>} \cup request.mentions)
    /\ teardown' = teardown
GivenFrom(request, holder, storage) ==
    /\ code' = code \o (Made(holder) \o Made(storage) \o Deliver(request, storage))
    /\ said' = said \cup ({<<request.as>>, <<holder>>, <<storage>>} \cup request.mentions)
    /\ FreedAfter(holder)
ObjectGiven(request) ==
    LET storage == Append(request.as, "obj")
        holder == Append(request.as, "src")
    IN  /\ frames' = frames
        /\ \/ GivenMade(request, storage) \/ GivenLibrary(request, storage)
           \/ GivenFrom(request, holder, storage)
ObjectBegun(request) ==
    /\ teardown' = teardown
    /\ said' = said \cup ({<<request.as>>} \cup request.mentions)
    /\ \E word \in {"outer", "obj"}, type \in Structs :
          /\ code' = code \o <<Declare(Append(request.as, word), 1)>>
          /\ Enter(<<>>, type, <<Append(request.as, word)>>, 0, {},
                   Deliver(request, Append(request.as, word)), FALSE)

LEMMA ObjectForms ==
    ASSUME ObjectTypes, NEW request, EmitObject(request)
    PROVE  /\ UNCHANGED <<program, options>>
           /\ ObjectGiven(request) \/ ObjectBegun(request)
<1> DEFINE storage == Append(request.as, "obj")
           holder == Append(request.as, "src")
           owner == Append(request.as, "outer")
<1>1. CASE EmitFromConstructors(request)
  <2>1. CASE request.type \in program.factories
    <3>1. /\ UNCHANGED <<program, options, frames>>
          /\ Emit(Made(storage) \o <<>> \o Deliver(request, storage),
                  {<<request.as>>, <<storage>>, <<storage>>} \cup request.mentions)
          /\ \/ teardown' = teardown
             \/ teardown' = Append(teardown, Stated("free", <<storage>>, <<>>, <<>>, 0))
      BY <1>1, <2>1, Zenon DEF EmitFromConstructors, Made
    <3>2. Made(storage) \o <<>> = Made(storage)
      BY DEF Made
    <3>3. {<<request.as>>, <<storage>>, <<storage>>} = {<<request.as>>, <<storage>>}
      OBVIOUS
    <3>. QED  BY <3>1, <3>2, <3>3, Zenon DEF Emit, ObjectGiven, GivenMade, GivenLibrary, GivenFrom, FreedAfter
  <2>2. CASE request.type \notin program.factories
    <3>1. /\ UNCHANGED <<program, options, frames>>
          /\ Emit(Made(holder) \o Made(storage) \o Deliver(request, storage),
                  {<<request.as>>, <<holder>>, <<storage>>} \cup request.mentions)
          /\ \/ teardown' = teardown
             \/ teardown' = Append(teardown, Stated("free", <<holder>>, <<>>, <<>>, 0))
      BY <1>1, <2>2, Zenon DEF EmitFromConstructors, Made
    <3>. QED  BY <3>1, Zenon DEF Emit, ObjectGiven, GivenMade, GivenLibrary, GivenFrom, FreedAfter
  <2>. QED  BY <2>1, <2>2
<1>2. CASE EmitOwner(request)
  <2>1. OwnerOf(request) \in Structs
    <3>1. OwnerOf(request) # None /\ IsProgram(program)
      BY <1>2 DEF EmitOwner, HasOwner, ObjectTypes
    <3>. QED  BY <3>1, OwnerForm DEF OwnerOf
  <2>. QED  BY <1>2, <2>1, Zenon DEF EmitOwner, Emit, ObjectBegun
<1>3. CASE EmitFromLibrary(request)
  BY <1>3, Zenon DEF EmitFromLibrary, Emit, ObjectGiven, GivenLibrary
<1>4. CASE EmitFilled(request)
  <2>1. request.type \in Structs
    BY <1>4 DEF EmitFilled
  <2>. QED  BY <1>4, <2>1, Zenon DEF EmitFilled, Emit, ObjectBegun
<1>. QED  BY <1>1, <1>2, <1>3, <1>4 DEF EmitObject

-----------------------------------------------------------------------------
(* Types. *)

ParameterTypes ==
    /\ signature \in Signatures /\ wishes \in Wishes /\ stage \in Stages
    /\ at \in 1 .. Len(params) + 1
    /\ stage \in {"cursors", "scalars", "buffers"} => at \in Positions
    /\ frames # <<>> => stage \in {"scalars", "buffers"}
    /\ stage = "done" => teardown = <<>>

TypeInv == ObjectTypes /\ ParameterTypes

LEMMA InputForm ==
    ASSUME ParameterTypes
    PROVE  /\ signature \in Signature /\ wishes \in Wish
           /\ params \in Seq(Parameter) /\ Positions = 1 .. Len(params) /\ Len(params) \in Nat
           /\ \A i \in Positions : /\ params[i].name \in Identifier
                                   /\ <<params[i].name>> \in Lvalue
                                   /\ params[i].extent \in Nat
           /\ \A n \in Identifier : <<n>> \in Lvalue
           /\ \A word \in Words, n \in Identifier : Append(n, word) \in Identifier
<1>1. signature \in Signature /\ wishes \in Wish
  BY HarnessInputsAssumption DEF ParameterTypes
<1>2. params \in Seq(Parameter) /\ Positions = 1 .. Len(params) /\ Len(params) \in Nat
  BY <1>1 DEF params, Positions, Signature
<1>3. \A i \in Positions : params[i].name \in Identifier /\ params[i].extent \in Nat
  <2>. SUFFICES ASSUME NEW i \in Positions
                PROVE  params[i].name \in Identifier /\ params[i].extent \in Nat
    OBVIOUS
  <2>1. params[i] \in Parameter
    BY <1>2
  <2>. QED  BY <2>1 DEF Parameter
<1>. QED  BY <1>1, <1>2, <1>3, LvalueForms

LEMMA AdvanceForm ==
    ASSUME ParameterTypes, stage \in {"cursors", "scalars", "buffers"}, Advance,
           UNCHANGED <<signature, wishes>>
    PROVE  /\ stage' \in Stages /\ stage' # "done" /\ at' \in 1 .. Len(params') + 1
           /\ stage' \in {"cursors", "scalars", "buffers"} => at' \in Positions'
           /\ stage = "scalars" => stage' \in {"scalars", "buffers"}
<1>1. Positions = 1 .. Len(params) /\ Len(params) \in Nat
  BY InputForm
<1>4. at \in Positions
  BY DEF ParameterTypes
<1>5. params' = params /\ Positions' = Positions
  BY DEF params, Positions
<1>2. CASE at = Len(params)
  <2>1. at' = 1 /\ stage' = After[stage]
    BY <1>2 DEF Advance
  <2>3. stage' \in {"scalars", "buffers", "conditions"} /\ (stage = "scalars" => stage' = "buffers")
    BY <2>1 DEF After
  <2>. QED  BY <1>1, <1>4, <1>5, <2>1, <2>3 DEF Stages
<1>3. CASE at # Len(params)
  <2>1. at' = at + 1 /\ stage' = stage
    BY <1>3 DEF Advance
  <2>. QED  BY <1>1, <1>3, <1>4, <1>5, <2>1 DEF Stages
<1>. QED  BY <1>2, <1>3

LEMMA SameCalls ==
    ASSUME UNCHANGED program
    PROVE  Calls' = Calls /\ Structs' = Structs
<1>1. Structs' = Structs
  BY DEF Structs
<1>2. \A type : Pairings(type)' = Pairings(type)
  BY DEF Pairings
<1>3. \A f : FieldsOf(f)' = FieldsOf(f)
  BY DEF FieldsOf
<1>. QED  BY <1>1, <1>2, <1>3 DEF Calls

LEMMA TypesKept ==
    ASSUME ObjectTypes, UNCHANGED <<program, options>>, frames' \in Seq(Calls),
           code' \in Seq(Statement), teardown' \in Seq(Statement), said' \subseteq Lvalue
    PROVE  ObjectTypes'
BY SameCalls DEF ObjectTypes

\* What is written keeps the code a sequence of statements.
LEMMA Written ==
    /\ \A s \in Statement : <<s>> \in Seq(Statement)
    /\ \A s, t \in Statement : <<s, t>> \in Seq(Statement)
    /\ \A s, t, u \in Statement : <<s, t, u>> \in Seq(Statement)
    /\ \A s, t, u, v \in Statement : <<s, t, u, v>> \in Seq(Statement)
    /\ \A a, b \in Seq(Statement) : a \o b \in Seq(Statement)
OBVIOUS

LEMMA DeliverTypes ==
    ASSUME NEW request, Requested(request), NEW storage \in Identifier
    PROVE  Deliver(request, storage) \in Seq(Statement)
<1>1. <<request.as>> \in Lvalue /\ <<>> \in Lvalue /\ request.as \in Identifier
      /\ request.finish \in Seq(Statement)
  BY LvalueForms DEF Requested
<1>2. PICK one \in Nat : one = 1
  OBVIOUS
<1>3. Declare(request.as, one) \in Statement /\ Point(<<request.as>>, storage, <<>>) \in Statement
  BY <1>1, StatementForms
<1>. HIDE DEF Requested
<1>4. <<Declare(request.as, one), Point(<<request.as>>, storage, <<>>)>> \in Seq(Statement)
  BY <1>3, Written
<1>. QED  BY <1>1, <1>2, <1>4, Written DEF Deliver

LEMMA MadeTypes ==
    ASSUME NEW v \in Identifier
    PROVE  /\ Made(v) \in Seq(Statement)
           /\ Stated("free", <<v>>, <<>>, <<>>, 0) \in Statement
<1>1. <<v>> \in Lvalue /\ <<>> \in Lvalue
  BY LvalueForms
<1>2. PICK one \in Nat : one = 1
  OBVIOUS
<1>3. "nonnull" \in Conditions /\ "free" \in Conditions
  BY DEF Conditions
<1>4. /\ Stated("nonnull", <<v>>, <<>>, <<>>, 0) \in Statement
      /\ Stated("free", <<v>>, <<>>, <<>>, 0) \in Statement
  BY <1>1, <1>3, StatementForms, Zenon
<1>5. Declare(v, one) \in Statement /\ Library(<<v>>) \in Statement
  BY <1>1, StatementForms
<1>6. <<Declare(v, one), Library(<<v>>), Stated("nonnull", <<v>>, <<>>, <<>>, 0)>> \in Seq(Statement)
  BY <1>4, <1>5, Written
<1>. QED  BY <1>2, <1>4, <1>6 DEF Made

\* Whose pointer is followed waits for the call that fills what it points to.
LEMMA FollowedForm ==
    ASSUME ObjectTypes, FillFollowed
    PROVE  \E f \in Calls, storage \in Identifier :
              /\ storage = Storage(target, "target")
              /\ code' = code \o <<Declare(storage, 1)>>
              /\ frames' = <<f>> \o Further(<<>>)
              /\ Fresh(f, f.type, <<storage>>, <<Point(target, storage, <<>>)>>)
<1>n. <<>> \in Seq(Statement) /\ <<>> \in Lvalue /\ "target" \in Words /\ IsProgram(program)
  BY LvalueForms DEF Words, ObjectTypes
<1>1. AtField
  BY DEF FillFollowed
<1>2. PICK type \in Structs : \E storage \in {Storage(target, "target")} :
        /\ code' = code \o <<Declare(storage, 1)>>
        /\ Enter(Further(<<>>), type, <<storage>>, Top.depth + 1, Top.seen,
                 <<Point(target, storage, <<>>)>>, TRUE)
  BY DEF FillFollowed
<1>3. PICK storage \in {Storage(target, "target")} :
        /\ code' = code \o <<Declare(storage, 1)>>
        /\ Enter(Further(<<>>), type, <<storage>>, Top.depth + 1, Top.seen,
                 <<Point(target, storage, <<>>)>>, TRUE)
  BY <1>2
<1>4. target \in Lvalue /\ storage \in Identifier /\ <<storage>> \in Lvalue
  BY <1>n, <1>1, FieldAt, LvalueForms, Zenon
<1>5. <<Point(target, storage, <<>>)>> \in Seq(Statement)
  BY <1>n, <1>4, StatementForms, Written
<1>6. PICK outer \in Seq(Calls) : outer = Further(<<>>)
  BY <1>n, <1>1, FurtherForm
<1>7. PICK d \in Nat : d = Top.depth + 1
  BY <1>1, TopForm DEF AtField
<1>8. PICK finish \in Seq(Statement) : finish = <<Point(target, storage, <<>>)>>
  BY <1>5
<1>9. PICK prefix \in Lvalue : prefix = <<storage>>
  BY <1>4
<1>10. PICK followed \in BOOLEAN : followed = TRUE
  OBVIOUS
<1>11. PICK seen : seen = Top.seen /\ seen \subseteq STRING
  BY <1>1, TopForm DEF AtField
<1>12. Enter(outer, type, prefix, d, seen, finish, followed) /\ prefix # <<>>
  BY <1>3, <1>6, <1>7, <1>8, <1>9, <1>10, <1>11, Zenon
<1>13. PICK f \in Calls : frames' = <<f>> \o outer /\ Fresh(f, type, prefix, finish)
  BY <1>n, <1>11, <1>12, EnterForm
<1>14. Fresh(f, f.type, prefix, finish)
  BY <1>13 DEF Fresh
<1>. QED  BY <1>3, <1>4, <1>6, <1>8, <1>9, <1>13, <1>14, Zenon

LEMMA WithinForm ==
    ASSUME ObjectTypes, FillWithin
    PROVE  \E f \in Calls : /\ frames' = <<f>> \o Further(<<>>)
                            /\ Fresh(f, f.type, target, <<>>)
<1>n. <<>> \in Seq(Statement) /\ IsProgram(program)
  BY DEF ObjectTypes
<1>1. AtField
  BY DEF FillWithin
<1>2. PICK type \in Structs : Enter(Further(<<>>), type, target, Top.depth, Top.seen, <<>>, FALSE)
  BY DEF FillWithin
<1>3. target \in Lvalue /\ target # <<>>
  BY <1>1, FieldAt
<1>4. PICK outer \in Seq(Calls) : outer = Further(<<>>)
  BY <1>n, <1>1, FurtherForm
<1>5. PICK d \in Nat : d = Top.depth
  BY <1>1, TopForm DEF AtField
<1>6. PICK finish \in Seq(Statement) : finish = <<>>
  BY <1>n
<1>7. PICK prefix \in Lvalue : prefix = target
  BY <1>3
<1>8. PICK followed \in BOOLEAN : followed = FALSE
  OBVIOUS
<1>9. PICK seen : seen = Top.seen /\ seen \subseteq STRING
  BY <1>1, TopForm DEF AtField
<1>10. Enter(outer, type, prefix, d, seen, finish, followed) /\ prefix # <<>>
  BY <1>2, <1>3, <1>4, <1>5, <1>6, <1>7, <1>8, <1>9, Zenon
<1>11. PICK f \in Calls : frames' = <<f>> \o outer /\ Fresh(f, type, prefix, finish)
  BY <1>n, <1>9, <1>10, EnterForm
<1>12. Fresh(f, f.type, prefix, finish)
  BY <1>11 DEF Fresh
<1>. QED  BY <1>4, <1>6, <1>7, <1>11, <1>12, Zenon

LEMMA BegunForm ==
    ASSUME ObjectTypes, NEW request, Requested(request), ObjectBegun(request)
    PROVE  \E f \in Calls, storage \in Identifier :
              /\ storage # request.as
              /\ code' = code \o <<Declare(storage, 1)>>
              /\ frames' = <<f>>
              /\ Fresh(f, f.type, <<storage>>, Deliver(request, storage))
<1>1. PICK word \in {"outer", "obj"} : \E type \in Structs :
        /\ code' = code \o <<Declare(Append(request.as, word), 1)>>
        /\ Enter(<<>>, type, <<Append(request.as, word)>>, 0, {},
                 Deliver(request, Append(request.as, word)), FALSE)
  BY DEF ObjectBegun
<1>2. PICK type \in Structs :
        /\ code' = code \o <<Declare(Append(request.as, word), 1)>>
        /\ Enter(<<>>, type, <<Append(request.as, word)>>, 0, {},
                 Deliver(request, Append(request.as, word)), FALSE)
  BY <1>1
<1>3. request.as \in Identifier /\ word \in Words
  BY DEF Requested, Words
<1>4. PICK storage \in Identifier : storage = Append(request.as, word)
  BY <1>3, LvalueForms
<1>5. storage # request.as
  BY <1>3, <1>4 DEF Identifier
<1>6. Deliver(request, storage) \in Seq(Statement)
  BY DeliverTypes
<1>7. PICK finish \in Seq(Statement) : finish = Deliver(request, storage)
  BY <1>6
<1>8. PICK prefix \in Lvalue : prefix = <<storage>>
  BY LvalueForms
<1>9. PICK d \in Nat : d = 0
  OBVIOUS
<1>10. PICK followed \in BOOLEAN : followed = FALSE
  OBVIOUS
<1>0. <<>> \in Seq(Calls) /\ {} \subseteq STRING
  OBVIOUS
<1>11. PICK outer \in Seq(Calls) : outer = <<>>
  BY <1>0, Zenon
<1>17. PICK seen : seen = {}
  OBVIOUS
<1>12. seen = {} /\ seen \subseteq STRING
  BY <1>17
<1>13. Enter(outer, type, prefix, d, seen, finish, followed) /\ prefix # <<>> /\ IsProgram(program)
  <2>1. Enter(outer, type, prefix, d, seen, finish, followed)
    BY <1>2, <1>4, <1>7, <1>8, <1>9, <1>10, <1>11, <1>12, Zenon
  <2>. QED  BY <1>8, <2>1 DEF ObjectTypes
<1>14. PICK f \in Calls : frames' = <<f>> \o outer /\ Fresh(f, type, prefix, finish)
  BY <1>12, <1>13, EnterForm
<1>15. Fresh(f, f.type, prefix, finish)
  BY <1>14 DEF Fresh
<1>16. <<f>> \o outer = <<f>>
  BY <1>11
<1>. QED  BY <1>2, <1>4, <1>5, <1>7, <1>8, <1>14, <1>15, <1>16, Zenon

LEMMA FillTypes ==
    ASSUME ObjectTypes, FillStep
    PROVE  ObjectTypes'
<1>0. UNCHANGED <<program, options, teardown>> /\ teardown' \in Seq(Statement) /\ IsProgram(program)
  BY FillForms DEF ObjectTypes
<1>t. code \in Seq(Statement) /\ said \subseteq Lvalue
  BY DEF ObjectTypes
<1>n. <<>> \in Seq(Statement) /\ <<>> \in Lvalue
  BY LvalueForms
<1>w. "target" \in Words /\ "items" \in Words /\ "bytes" \in Words
  BY DEF Words
<1>1. CASE LeaveUnion
  <2>1. frames # <<>> /\ frames' = Tail(frames) /\ code' = code \o Top.finish /\ said' = said \cup {Top.prefix}
    BY <1>1 DEF LeaveUnion, Emit
  <2>2. frames' \in Seq(Calls) /\ code' \in Seq(Statement) /\ said' \subseteq Lvalue
    BY <1>t, <2>1, TopForm
  <2>. QED  BY <1>0, <2>2, TypesKept
<1>2. CASE FinishFields
  <2>1. PICK before \in Seq(LinesBefore), after \in Seq(LinesAfter) :
           code' = code \o (before \o Top.constraints \o after \o Top.finish)
    BY <1>2, FinishForm
  <2>2. frames # <<>> /\ frames' \in Seq(Calls) /\ said' \subseteq Lvalue
    BY <1>2, FinishForm, TopForm
  <2>3. before \in Seq(Statement) /\ after \in Seq(Statement)
    <3>1. LinesBefore \subseteq Statement /\ LinesAfter \subseteq Statement
      BY DEF LinesBefore, LinesAfter
    <3>. QED  BY <3>1, SeqGrows
  <2>4. code' \in Seq(Statement)
    BY <1>t, <2>1, <2>2, <2>3, TopForm, Written
  <2>. QED  BY <1>0, <2>2, <2>4, TypesKept
<1>3. CASE FillOne
  <2>1. AtField /\ frames' = Further(<<>>) /\ said' \subseteq said \cup {target}
    BY <1>3 DEF FillOne
  <2>2. target \in Lvalue
    BY <2>1, FieldAt
  <2>3. \A s \in {Nondet(target), Null(target, <<>>), Library(target)} : s \in Statement
    BY <1>n, <2>2, StatementForms
  <2>4. code' \in Seq(Statement)
    BY <1>3, <1>t, <2>3, Written DEF FillOne
  <2>5. frames' \in Seq(Calls)
    BY <1>n, <2>1, FurtherForm
  <2>. QED  BY <1>0, <1>t, <2>1, <2>2, <2>4, <2>5, TypesKept
<1>4. CASE FillStored
  <2>1. AtField /\ frames' = Further(<<>>) /\ said' = said \cup {target}
    BY <1>4 DEF FillStored
  <2>2. PICK n \in Nat : \E storage \in {Storage(target, "target")} :
           code' = code \o <<Declare(storage, n), Point(target, storage, <<>>)>>
    BY <1>4 DEF FillStored
  <2>3. PICK storage \in {Storage(target, "target")} :
           code' = code \o <<Declare(storage, n), Point(target, storage, <<>>)>>
    BY <2>2
  <2>4. target \in Lvalue /\ storage \in Identifier
    BY <1>w, <2>1, FieldAt, Zenon
  <2>5. Declare(storage, n) \in Statement /\ Point(target, storage, <<>>) \in Statement
    BY <1>n, <2>4, StatementForms
  <2>6. code' \in Seq(Statement)
    BY <1>t, <2>3, <2>5, Written
  <2>7. frames' \in Seq(Calls)
    BY <1>n, <2>1, FurtherForm
  <2>. QED  BY <1>0, <1>t, <2>1, <2>4, <2>6, <2>7, TypesKept
<1>5. ASSUME AtField, field.name \in DOMAIN Top.pairs
      PROVE  /\ CountedBy \in Lvalue
             /\ \A n \in Nat : <<Assume(CountedBy, n)>> \in Seq(Statement)
  <2>1. Top.pairs[field.name] \in Identifier /\ Top.prefix \in Lvalue
    BY <1>0, <1>5, TopForm, PairingsForm DEF AtField
  <2>2. CountedBy \in Lvalue
    BY <2>1, LvalueForms DEF CountedBy
  <2>. QED  BY <2>2, StatementForms, Written
<1>6. CASE FillBuffer
  <2>1. AtField /\ field.name \in DOMAIN Top.pairs /\ said' = said \cup {target, CountedBy}
        /\ frames' = Further(<<Assume(CountedBy, MaxArrayLen)>>)
    BY <1>6 DEF FillBuffer
  <2>2. PICK word \in {"items", "bytes"} :
           code' = code \o <<Declare(Storage(target, word), MaxArrayLen),
                             Point(target, Storage(target, word), CountedBy)>>
    BY <1>6 DEF FillBuffer
  <2>3. target \in Lvalue /\ Storage(target, word) \in Identifier /\ CountedBy \in Lvalue
    BY <1>5, <1>w, <2>1, FieldAt
  <2>4. /\ Declare(Storage(target, word), MaxArrayLen) \in Statement
        /\ Point(target, Storage(target, word), CountedBy) \in Statement
    BY <2>3, StatementForms, ObjectBoundsAssumption
  <2>5. code' \in Seq(Statement)
    BY <1>t, <2>2, <2>4, Written
  <2>6. frames' \in Seq(Calls)
    BY <1>5, <2>1, FurtherForm, ObjectBoundsAssumption
  <2>. QED  BY <1>0, <1>t, <2>1, <2>3, <2>5, <2>6, TypesKept
<1>7. CASE FillNoBuffer
  <2>1. AtField /\ field.name \in DOMAIN Top.pairs /\ said' = said
        /\ frames' = Further(<<Assume(CountedBy, 0)>>) /\ code' = code \o <<Null(target, CountedBy)>>
    BY <1>7 DEF FillNoBuffer
  <2>2. target \in Lvalue /\ CountedBy \in Lvalue
    BY <1>5, <2>1, FieldAt
  <2>3. code' \in Seq(Statement)
    BY <1>t, <2>1, <2>2, StatementForms, Written
  <2>4. PICK zero \in Nat : zero = 0
    OBVIOUS
  <2>5. frames' \in Seq(Calls)
    BY <1>5, <2>1, <2>4, FurtherForm
  <2>. QED  BY <1>0, <1>t, <2>1, <2>3, <2>5, TypesKept
<1>8. CASE FillFollowed
  <2>1. AtField /\ said' = said \cup {target}
    BY <1>8 DEF FillFollowed
  <2>2. PICK f \in Calls, storage \in Identifier :
           code' = code \o <<Declare(storage, 1)>> /\ frames' = <<f>> \o Further(<<>>)
    BY <1>8, FollowedForm
  <2>3. target \in Lvalue /\ Further(<<>>) \in Seq(Calls)
    BY <1>n, <2>1, FieldAt, FurtherForm
  <2>4. \A n \in Nat : <<Declare(storage, n)>> \in Seq(Statement)
    BY StatementForms, Written
  <2>5. code' \in Seq(Statement)
    BY <1>t, <2>2, <2>4, Written
  <2>6. frames' \in Seq(Calls)
    BY <2>2, <2>3, InFront
  <2>. QED  BY <1>0, <1>t, <2>1, <2>3, <2>5, <2>6, TypesKept
<1>9. CASE FillWithin
  <2>1. AtField /\ code' = code /\ said' = said
    BY <1>9 DEF FillWithin
  <2>2. PICK f \in Calls : frames' = <<f>> \o Further(<<>>)
    BY <1>9, WithinForm
  <2>3. Further(<<>>) \in Seq(Calls)
    BY <1>n, <2>1, FurtherForm
  <2>4. frames' \in Seq(Calls)
    BY <2>2, <2>3, InFront
  <2>. QED  BY <1>0, <1>t, <2>1, <2>4, TypesKept
<1>. QED  BY <1>1, <1>2, <1>3, <1>4, <1>6, <1>7, <1>8, <1>9, FillForms

LEMMA ObjectTypesKept ==
    ASSUME ObjectTypes, NEW request, Requested(request), EmitObject(request)
    PROVE  ObjectTypes'
<1>0. UNCHANGED <<program, options>> /\ (ObjectGiven(request) \/ ObjectBegun(request))
  BY ObjectForms
<1>t. code \in Seq(Statement) /\ said \subseteq Lvalue /\ teardown \in Seq(Statement) /\ frames \in Seq(Calls)
  BY DEF ObjectTypes
<1>n. /\ request.as \in Identifier /\ <<request.as>> \in Lvalue /\ request.mentions \subseteq Lvalue
      /\ {"obj", "src"} \subseteq Words
  BY LvalueForms DEF Requested, Words
<1>1. CASE ObjectGiven(request)
  <2>1. PICK storage \in Identifier : storage = Append(request.as, "obj")
    BY <1>n, LvalueForms
  <2>2. PICK holder \in Identifier : holder = Append(request.as, "src")
    BY <1>n, LvalueForms
  <2>3. /\ Made(storage) \in Seq(Statement) /\ Made(holder) \in Seq(Statement)
        /\ Deliver(request, storage) \in Seq(Statement)
        /\ Stated("free", <<storage>>, <<>>, <<>>, 0) \in Statement
        /\ Stated("free", <<holder>>, <<>>, <<>>, 0) \in Statement
    BY MadeTypes, DeliverTypes
  <2>4. <<storage>> \in Lvalue /\ <<holder>> \in Lvalue
    BY LvalueForms
  <2>5. \A n \in Nat : <<Declare(storage, n), Library(<<storage>>)>> \in Seq(Statement)
    BY <2>4, StatementForms, Written
  <2>6. /\ frames' = frames
        /\ \/ GivenMade(request, storage) \/ GivenLibrary(request, storage)
           \/ GivenFrom(request, holder, storage)
    BY <1>1, <2>1, <2>2 DEF ObjectGiven
  <2>7. teardown' \in Seq(Statement)
    <3>1. PICK s \in Statement : s = Stated("free", <<storage>>, <<>>, <<>>, 0)
      BY <2>3, Zenon
    <3>2. PICK h \in Statement : h = Stated("free", <<holder>>, <<>>, <<>>, 0)
      BY <2>3, Zenon
    <3>3. teardown' = teardown \/ teardown' = Append(teardown, s) \/ teardown' = Append(teardown, h)
      BY <2>6, <3>1, <3>2, Zenon DEF GivenMade, GivenLibrary, GivenFrom, FreedAfter
    <3>4. Append(teardown, s) \in Seq(Statement) /\ Append(teardown, h) \in Seq(Statement)
      BY <1>t, Extended
    <3>. QED  BY <1>t, <3>3, <3>4, Zenon
  <2>8. said' \subseteq Lvalue
    BY <1>t, <1>n, <2>4, <2>6 DEF GivenMade, GivenLibrary, GivenFrom
  <2>9. code' \in Seq(Statement)
    <3>1. PICK a \in Seq(Statement), b \in Seq(Statement), c \in Seq(Statement), d \in Seq(Statement) :
             /\ a = Made(storage) /\ b = Made(holder) /\ c = Deliver(request, storage)
             /\ d = <<Declare(storage, 1), Library(<<storage>>)>>
      BY <2>3, <2>5
    <3>2. code' = code \o (a \o c) \/ code' = code \o (d \o c) \/ code' = code \o (b \o a \o c)
      BY <2>6, <3>1, Zenon DEF GivenMade, GivenLibrary, GivenFrom
    <3>. QED  BY <1>t, <3>2, Written
  <2>. QED  BY <1>0, <1>t, <2>6, <2>7, <2>8, <2>9, TypesKept
<1>2. CASE ObjectBegun(request)
  <2>1. PICK f \in Calls, storage \in Identifier :
              code' = code \o <<Declare(storage, 1)>> /\ frames' = <<f>>
    BY <1>2, BegunForm
  <2>2. frames' \in Seq(Calls)
    BY <2>1
  <2>3. \A n \in Nat : <<Declare(storage, n)>> \in Seq(Statement)
    BY StatementForms, Written
  <2>4. code' \in Seq(Statement)
    BY <1>t, <2>1, <2>3, Written
  <2>5. said' \subseteq Lvalue /\ teardown' \in Seq(Statement)
    BY <1>2, <1>t, <1>n DEF ObjectBegun
  <2>. QED  BY <1>0, <2>2, <2>4, <2>5, TypesKept
<1>. QED  BY <1>0, <1>1, <1>2

-----------------------------------------------------------------------------
(* What is written for the parameters. *)

LEMMA ParamForm ==
    ASSUME ParameterTypes, stage \in {"cursors", "scalars", "buffers"}
    PROVE  /\ at \in Positions /\ param \in Parameter
           /\ param.name \in Identifier /\ <<param.name>> \in Lvalue /\ param.extent \in Nat
<1>1. at \in Positions
  BY DEF ParameterTypes
<1>2. params \in Seq(Parameter) /\ Positions = 1 .. Len(params)
  BY InputForm
<1>. QED  BY <1>1, <1>2, InputForm DEF param

LEMMA RequestForm ==
    ASSUME ParameterTypes, stage = "scalars", NEW request, request = ObjectRequest
    PROVE  /\ Requested(request) /\ request.mentions = {<<param.name>>}
           /\ \/ request.as = param.name /\ request.finish = <<>>
              \/ /\ request.as # param.name
                 /\ request.finish = <<Declare(param.name, 1), Point(<<param.name>>, request.as, <<>>)>>
<1>1. param.name \in Identifier /\ <<param.name>> \in Lvalue /\ <<>> \in Lvalue /\ <<>> \in Seq(Statement)
  BY ParamForm, LvalueForms
<1>2. \/ request = ThroughPointer(param.of, "inner")
      \/ request = ThroughPointer(param.cast, "typed")
      \/ request = Asking(param.of, param.name, param.shape = "pointer", <<>>)
  BY Zenon DEF ObjectRequest
<1>3. CASE request = Asking(param.of, param.name, param.shape = "pointer", <<>>)
  <2>1. request.as = param.name /\ request.finish = <<>> /\ request.mentions = {<<param.name>>}
    BY <1>3 DEF Asking
  <2>. QED  BY <1>1, <2>1 DEF Requested
<1>4. ASSUME NEW type, NEW word \in Words, request = ThroughPointer(type, word)
      PROVE  /\ Requested(request) /\ request.mentions = {<<param.name>>}
             /\ request.as # param.name
             /\ request.finish = <<Declare(param.name, 1), Point(<<param.name>>, request.as, <<>>)>>
  <2>1. PICK inner \in Identifier : inner = Append(param.name, word)
    BY <1>1, LvalueForms
  <2>2. inner # param.name
    BY <1>1, <2>1 DEF Identifier
  <2>3. request = Asking(type, inner, TRUE,
                         <<Declare(param.name, 1), Point(<<param.name>>, inner, <<>>)>>)
    BY <1>4, <2>1, Zenon DEF ThroughPointer
  <2>4. /\ request.as = inner /\ request.mentions = {<<param.name>>}
        /\ request.finish = <<Declare(param.name, 1), Point(<<param.name>>, inner, <<>>)>>
    BY <2>3 DEF Asking
  <2>5. PICK one \in Nat : one = 1
    OBVIOUS
  <2>6. <<Declare(param.name, one), Point(<<param.name>>, inner, <<>>)>> \in Seq(Statement)
    BY <1>1, StatementForms, Written
  <2>. QED  BY <1>1, <2>2, <2>4, <2>5, <2>6 DEF Requested
<1>5. "inner" \in Words /\ "typed" \in Words
  BY DEF Words
<1>6. CASE request = ThroughPointer(param.of, "inner")
  BY <1>4, <1>5, <1>6, Zenon
<1>7. CASE request = ThroughPointer(param.cast, "typed")
  BY <1>4, <1>5, <1>7, Zenon
<1>. QED  BY <1>2, <1>3, <1>6, <1>7

LEMMA PointToTypes ==
    ASSUME NEW name \in Identifier, NEW word \in Words, NEW n \in Nat
    PROVE  PointTo(name, word, n) \in Seq(Statement)
<1>1. PICK storage \in Identifier : storage = Append(name, word)
  BY LvalueForms
<1>2. <<name>> \in Lvalue /\ <<storage>> \in Lvalue /\ <<>> \in Lvalue
  BY LvalueForms
<1>3. PICK one \in Nat : one = 1
  OBVIOUS
<1>4. <<Declare(storage, n), Nondet(<<storage>>), Declare(name, one), Point(<<name>>, storage, <<>>)>>
        \in Seq(Statement)
  BY <1>2, StatementForms, Written
<1>. QED  BY <1>1, <1>3, <1>4 DEF PointTo

\* What the hooks, the conditions and the call are written as.
HookLines ==
    [i \in DOMAIN signature.hooks |-> Library(<<signature.hooks[i]>>)]
    \o [i \in DOMAIN wishes.setup |-> Library(<<SetUp>>)]
UseLines == [i \in Positions |-> Stated("use", <<params[i].name>>, <<>>, <<>>, 0)]
CallLines ==
    (IF signature.receiver THEN <<Declare(Receiver, 1), Library(<<Receiver>>)>> ELSE <<>>)
    \o UseLines \o teardown
ConditionLines ==
    FlattenSeq(Hoisted) \o FlattenSeq([i \in DOMAIN wishes.proposed |-> Requires(wishes.proposed[i])])

HookLine == {s \in Statement : \E h \in Globals : s = Library(<<h>>)}
ConditionLine == {Stated("requires", <<n>>, <<>>, <<>>, 0) : n \in ParameterNames}
UseLine == {Stated("use", <<n>>, <<>>, <<>>, 0) : n \in ParameterNames}

LEMMA OwnNames == SetUp \in Identifier /\ Receiver \in Identifier
<1>1. "setup" \in Words /\ "veripp" \in Words /\ "obj" \in Words
  BY DEF Words
<1>. QED  BY <1>1 DEF SetUp, Receiver, Identifier

LEMMA HookForm ==
    ASSUME ParameterTypes
    PROVE  HookLines \in Seq(HookLine) /\ Globals \subseteq Identifier
<1>1. signature.hooks \in Seq(Identifier) /\ wishes.setup \in Seq(BOOLEAN)
  BY InputForm DEF Signature, Wish
<1>2. Globals \subseteq Identifier /\ SetUp \in Globals /\ \A i \in DOMAIN signature.hooks : signature.hooks[i] \in Globals
  BY <1>1, OwnNames DEF Globals, ToSet
<1>3. \A h \in Globals : Library(<<h>>) \in HookLine
  BY <1>2, LvalueForms, StatementForms DEF HookLine
<1>4. [i \in DOMAIN signature.hooks |-> Library(<<signature.hooks[i]>>)] \in Seq(HookLine)
  <2>1. PICK n \in Nat : n = Len(signature.hooks)
    BY <1>1
  <2>2. DOMAIN signature.hooks = 1 .. n
    BY <1>1, <2>1
  <2>3. [i \in 1 .. n |-> Library(<<signature.hooks[i]>>)] \in [1 .. n -> HookLine]
    BY <1>2, <1>3, <2>2
  <2>4. [i \in 1 .. n |-> Library(<<signature.hooks[i]>>)] \in Seq(HookLine)
    BY <2>3, Listed
  <2>. QED  BY <2>2, <2>4
<1>5. [i \in DOMAIN wishes.setup |-> Library(<<SetUp>>)] \in Seq(HookLine)
  <2>1. PICK n \in Nat : n = Len(wishes.setup)
    BY <1>1
  <2>2. DOMAIN wishes.setup = 1 .. n
    BY <1>1, <2>1
  <2>3. [i \in 1 .. n |-> Library(<<SetUp>>)] \in [1 .. n -> HookLine]
    BY <1>2, <1>3
  <2>4. [i \in 1 .. n |-> Library(<<SetUp>>)] \in Seq(HookLine)
    BY <2>3, Listed
  <2>. QED  BY <2>2, <2>4
<1>. QED  BY <1>2, <1>4, <1>5, Joined DEF HookLines

LEMMA NamesForm ==
    ASSUME ParameterTypes
    PROVE  /\ IsFiniteSet(ParameterNames) /\ ParameterNames \subseteq Identifier
           /\ \A n \in ParameterNames : \E i \in Positions : n = params[i].name
<1>1. params \in Seq(Parameter) /\ Positions = 1 .. Len(params) /\ Len(params) \in Nat
  BY InputForm
<1>2. PICK n \in Nat : n = Len(params)
  BY <1>1
<1> DEFINE names == [i \in 1 .. n |-> params[i].name]
<1>3. IsFiniteSet(1 .. n)
  BY FS_Interval
<1>4. IsFiniteSet({names[i] : i \in 1 .. n})
  BY <1>3, ImageFinite
<1>5. \A i \in 1 .. n : names[i] = params[i].name /\ names[i] \in Identifier
  BY <1>1, <1>2, InputForm
<1>. HIDE DEF names
<1>6. \A p \in ToSet(params) : \E i \in 1 .. n : p = params[i]
  BY <1>1, <1>2 DEF ToSet
<1>7. ParameterNames \subseteq {names[i] : i \in 1 .. n}
  BY <1>5, <1>6 DEF ParameterNames
<1>8. IsFiniteSet(ParameterNames)
  BY <1>4, <1>7, FS_Subset
<1>9. \A x \in ParameterNames : \E i \in 1 .. n : x = params[i].name /\ x \in Identifier
  BY <1>5, <1>6 DEF ParameterNames
<1>. QED  BY <1>1, <1>2, <1>8, <1>9

LEMMA ConditionForm ==
    ASSUME ParameterTypes, \A names \in ToSet(wishes.proposed) : Valid(names)
    PROVE  ConditionLines \in Seq(ConditionLine) /\ ConditionLine \subseteq Statement
<1>0. /\ signature.requires \in Seq(SUBSET Identifier) /\ wishes.proposed \in Seq(SUBSET Identifier)
  BY InputForm DEF Signature, Wish
<1>1. ASSUME NEW names, Valid(names) PROVE Requires(names) \in Seq(ConditionLine)
  <2>1. IsFiniteSet(names)
    BY <1>1, NamesForm, FS_Subset DEF Valid
  <2> DEFINE f == [n \in names |-> Stated("requires", <<n>>, <<>>, <<>>, 0)]
  <2>2. \A n \in names : f[n] = Stated("requires", <<n>>, <<>>, <<>>, 0)
    OBVIOUS
  <2>. HIDE DEF f
  <2>3. \A n \in names : f[n] \in ConditionLine
    BY <1>1, <2>2, Zenon DEF ConditionLine, Valid
  <2>4. SetToSeq({f[n] : n \in names}) \in Seq(ConditionLine)
    BY <2>1, <2>3, ListedLines
  <2>5. {f[n] : n \in names} = {Stated("requires", <<n>>, <<>>, <<>>, 0) : n \in names}
    BY <2>2, Zenon
  <2>. QED  BY <2>4, <2>5, Zenon DEF Requires
<1>2. FlattenSeq(Hoisted) \in Seq(ConditionLine)
  <2>1. PICK n \in Nat : n = Len(signature.requires)
    BY <1>0
  <2>2. DOMAIN signature.requires = 1 .. n
    BY <1>0, <2>1
  <2>3. \A i \in 1 .. n : (IF Valid(signature.requires[i]) THEN Requires(signature.requires[i]) ELSE <<>>)
                             \in Seq(ConditionLine)
    BY <1>1
  <2>4. Hoisted = [i \in 1 .. n |->
           IF Valid(signature.requires[i]) THEN Requires(signature.requires[i]) ELSE <<>>]
    BY <2>2, Zenon DEF Hoisted
  <2>5. Hoisted \in [1 .. n -> Seq(ConditionLine)]
    BY <2>3, <2>4, Zenon
  <2>6. Hoisted \in Seq(Seq(ConditionLine))
    BY <2>5, Listed
  <2>. QED  BY <2>6, FlattenType
<1>3. FlattenSeq([i \in DOMAIN wishes.proposed |-> Requires(wishes.proposed[i])]) \in Seq(ConditionLine)
  <2> DEFINE all == [i \in DOMAIN wishes.proposed |-> Requires(wishes.proposed[i])]
  <2>1. PICK n \in Nat : n = Len(wishes.proposed)
    BY <1>0
  <2>2. DOMAIN wishes.proposed = 1 .. n
    BY <1>0, <2>1
  <2>3. \A i \in 1 .. n : Requires(wishes.proposed[i]) \in Seq(ConditionLine)
    <3>1. \A i \in 1 .. n : wishes.proposed[i] \in ToSet(wishes.proposed)
      BY <2>2 DEF ToSet
    <3>. QED  BY <1>1, <3>1
  <2>4. all = [i \in 1 .. n |-> Requires(wishes.proposed[i])]
    BY <2>2, Zenon
  <2>. HIDE DEF all
  <2>5. all \in [1 .. n -> Seq(ConditionLine)]
    BY <2>3, <2>4, Zenon
  <2>6. all \in Seq(Seq(ConditionLine))
    BY <2>5, Listed
  <2>7. FlattenSeq(all) \in Seq(ConditionLine)
    BY <2>6, FlattenType
  <2>. QED  BY <2>7 DEF all
<1>4. ConditionLine \subseteq Statement
  <2>1. \A n \in ParameterNames : <<n>> \in Lvalue
    BY NamesForm, LvalueForms
  <2>2. "requires" \in Conditions /\ <<>> \in Lvalue
    BY LvalueForms DEF Conditions
  <2>3. \A n \in ParameterNames : Stated("requires", <<n>>, <<>>, <<>>, 0) \in Statement
    BY <2>1, <2>2, StatementForms, Zenon
  <2>. QED  BY <2>3, Zenon DEF ConditionLine
<1>5. PICK a \in Seq(ConditionLine), b \in Seq(ConditionLine) :
         /\ a = FlattenSeq(Hoisted)
         /\ b = FlattenSeq([i \in DOMAIN wishes.proposed |-> Requires(wishes.proposed[i])])
  BY <1>2, <1>3, Zenon
<1>6. a \o b \in Seq(ConditionLine)
  BY Joined
<1>7. ConditionLines = a \o b
  BY <1>5, Zenon DEF ConditionLines
<1>. QED  BY <1>4, <1>6, <1>7

LEMMA UseForm ==
    ASSUME ParameterTypes
    PROVE  UseLines \in Seq(UseLine) /\ UseLine \subseteq Statement
<1>1. params \in Seq(Parameter) /\ Positions = 1 .. Len(params) /\ Len(params) \in Nat
  BY InputForm
<1>2. PICK n \in Nat : n = Len(params)
  BY <1>1
<1>3. \A i \in 1 .. n : params[i].name \in ParameterNames
  BY <1>1, <1>2 DEF ParameterNames, ToSet
<1>4. \A i \in 1 .. n : Stated("use", <<params[i].name>>, <<>>, <<>>, 0) \in UseLine
  BY <1>3, Zenon DEF UseLine
<1>5. UseLines \in [1 .. n -> UseLine]
  BY <1>1, <1>2, <1>4 DEF UseLines
<1>6. UseLines \in Seq(UseLine)
  BY <1>5, Listed
<1>7. \A x \in ParameterNames : <<x>> \in Lvalue
  BY NamesForm, LvalueForms
<1>8. "use" \in Conditions /\ <<>> \in Lvalue
  BY LvalueForms DEF Conditions
<1>9. \A x \in ParameterNames : Stated("use", <<x>>, <<>>, <<>>, 0) \in Statement
  BY <1>7, <1>8, StatementForms, Zenon
<1>10. UseLine \subseteq Statement
  BY <1>9, Zenon DEF UseLine
<1>. QED  BY <1>6, <1>10

LEMMA BuiltTypes ==
    ASSUME TypeInv, NEW lines, NEW mentioned, Built(lines, mentioned), frames = <<>>,
           stage \in {"cursors", "scalars", "buffers"},
           lines \in Seq(Statement), mentioned \subseteq Lvalue
    PROVE  TypeInv'
<1>1. /\ UNCHANGED <<program, options, signature, wishes, frames, teardown>>
      /\ code' = code \o lines /\ said' = said \cup mentioned /\ Advance
  BY DEF Built, Emit, inputs
<1>2. code \in Seq(Statement) /\ said \subseteq Lvalue /\ frames \in Seq(Calls) /\ teardown \in Seq(Statement)
  BY DEF TypeInv, ObjectTypes
<1>3. code' \in Seq(Statement)
  BY <1>1, <1>2, Written
<1>4. ObjectTypes'
  BY <1>1, <1>2, <1>3, TypesKept DEF TypeInv
<1>5. ParameterTypes'
  <2>1. /\ stage' \in Stages /\ stage' # "done" /\ at' \in 1 .. Len(params') + 1
        /\ stage' \in {"cursors", "scalars", "buffers"} => at' \in Positions'
    BY <1>1, AdvanceForm DEF TypeInv
  <2>. QED  BY <1>1, <2>1 DEF TypeInv, ParameterTypes
<1>. QED  BY <1>4, <1>5 DEF TypeInv

\* What is written for a parameter v: a value, two cursors into one buffer, a buffer
\* that the parameter l counts.
ValueLines(v) == <<Declare(v, 1), Nondet(<<v>>)>>
CursorLines(v, companion, storage, holder) ==
    <<Declare(storage, MaxArrayLen), Nondet(<<storage>>),
      Declare(companion, 1), Point(<<companion>>, storage, <<>>),
      Declare(holder, 1), Point(<<holder>>, storage, <<>>),
      Declare(v, 1), Point(<<v>>, holder, <<>>)>>
Bounding(l, signed) ==
    <<Assume(<<l>>, MaxArrayLen)>>
    \o (IF signed THEN <<Stated("nonnegative", <<l>>, <<>>, <<>>, 0)>> ELSE <<>>)
Texting(storage, l, text) == IF text THEN <<Stated("text", <<storage>>, <<>>, <<l>>, 0)>> ELSE <<>>
Storing(storage) == <<Declare(storage, MaxArrayLen), Nondet(<<storage>>)>>
Counting(v, storage, l) == <<Declare(v, 1), Point(<<v>>, storage, <<l>>)>>
BufferLines(v, l, storage, signed, text) ==
    Bounding(l, signed) \o Storing(storage) \o Texting(storage, l, text) \o Counting(v, storage, l)

BuiltValue ==
    /\ stage = "scalars"
    /\ \E mentioned \in {{}, {<<param.name>>}} : Built(ValueLines(param.name), mentioned)
BuiltPointer ==
    /\ stage = "scalars"
    /\ \E word \in {"bytes", "str", "obj", "buf"}, n \in Nat :
          Built(PointTo(param.name, word, n), {<<param.name>>})
BuiltCursor ==
    /\ stage = "cursors" /\ IsCursor(at) /\ at + 1 \in Positions
    /\ \E storage \in {Append(param.name, "buf")}, holder \in {Append(param.name, "cursor")} :
          Built(CursorLines(param.name, params[at + 1].name, storage, holder),
                {<<param.name>>, <<params[at + 1].name>>})
BuiltBuffer ==
    /\ stage = "buffers" /\ ~InCursorPair(at) /\ LengthOf(at) \in Positions
    /\ \E storage \in {Append(param.name, "buf")} :
          Built(BufferLines(param.name, params[LengthOf(at)].name, storage,
                            params[LengthOf(at)].signed, param.text),
                {<<param.name>>, <<params[LengthOf(at)].name>>})

LEMMA ParameterForms ==
    ASSUME TypeInv,
           EmitCursor \/ EmitValue \/ EmitBytes \/ EmitString \/ EmitElements \/ EmitReference \/ EmitBuffer
    PROVE  BuiltValue \/ BuiltPointer \/ BuiltCursor \/ BuiltBuffer
<1>0. /\ at \in Positions /\ param \in Parameter
      /\ param.name \in Identifier /\ <<param.name>> \in Lvalue /\ param.extent \in Nat
  <2>1. stage \in {"cursors", "scalars", "buffers"}
    BY DEF EmitCursor, EmitValue, EmitBytes, EmitString, EmitElements, EmitReference, EmitBuffer,
       Unpaired, Ready
  <2>. QED  BY <2>1, ParamForm DEF TypeInv
<1>n. MaxArrayLen \in Nat /\ MaxArrayLen + 1 \in Nat /\ 1 \in Nat
  BY ObjectBoundsAssumption
<1>1. CASE EmitCursor
  <2>1. stage = "cursors" /\ IsCursor(at) /\ at + 1 \in Positions
    BY <1>1 DEF EmitCursor, IsCursor, Ready
  <2>2. Built(CursorLines(param.name, params[at + 1].name, Append(param.name, "buf"),
                          Append(param.name, "cursor")),
              {<<param.name>>, <<params[at + 1].name>>})
    BY <1>1, Zenon DEF EmitCursor, CursorLines, TellOfBoth
  <2>. QED  BY <2>1, <2>2, Zenon DEF BuiltCursor
<1>2. CASE EmitValue \/ EmitReference
  <2>1. stage = "scalars"
    BY <1>2 DEF EmitValue, EmitReference, Unpaired, Ready
  <2>2. Built(ValueLines(param.name), {}) \/ Built(ValueLines(param.name), {<<param.name>>})
    BY <1>2, Zenon DEF EmitValue, EmitReference, ValueLines
  <2>. QED  BY <2>1, <2>2, Zenon DEF BuiltValue
<1>3. CASE EmitBytes \/ EmitString \/ EmitElements
  <2>1. stage = "scalars"
    BY <1>3 DEF EmitBytes, EmitString, EmitElements, Unpaired, Ready
  <2>2. CASE EmitBytes
    <3>1. Built(PointTo(param.name, "bytes", MaxArrayLen), {<<param.name>>})
      BY <2>2, Zenon DEF EmitBytes
    <3>. QED  BY <1>n, <2>1, <3>1, Zenon DEF BuiltPointer
  <2>3. CASE EmitString
    <3>1. PICK n \in Nat : n = IF options.terminated_strings THEN MaxArrayLen + 1 ELSE MaxArrayLen
      BY <1>n
    <3>2. Built(PointTo(param.name, "str", n), {<<param.name>>})
      BY <2>3, <3>1, Zenon DEF EmitString
    <3>. QED  BY <2>1, <3>2, Zenon DEF BuiltPointer
  <2>4. CASE EmitElements
    <3>1. \/ Built(PointTo(param.name, "obj", 1), {<<param.name>>})
          \/ Built(PointTo(param.name, "buf", param.extent), {<<param.name>>})
      BY <2>4, Zenon DEF EmitElements
    <3>. QED  BY <1>0, <1>n, <2>1, <3>1, Zenon DEF BuiltPointer
  <2>. QED  BY <1>3, <2>2, <2>3, <2>4
<1>4. CASE EmitBuffer
  <2>1. stage = "buffers" /\ ~InCursorPair(at) /\ LengthOf(at) \in Positions
    BY <1>0, <1>4, InputForm, LengthForm DEF EmitBuffer, TypeInv, Ready
  <2>2. PICK storage : storage = Append(param.name, "buf")
    OBVIOUS
  <2>3. PICK l : l = params[LengthOf(at)].name
    OBVIOUS
  <2> DEFINE first == <<Assume(<<l>>, MaxArrayLen)>>
             signed == IF params[LengthOf(at)].signed
                       THEN <<Stated("nonnegative", <<l>>, <<>>, <<>>, 0)>> ELSE <<>>
  <2>4. Built(first \o signed \o Storing(storage) \o Texting(storage, l, param.text)
              \o Counting(param.name, storage, l), {<<param.name>>, <<l>>})
    BY <1>4, <2>2, <2>3, Zenon DEF EmitBuffer, Storing, Texting, Counting
  <2>5. Bounding(l, params[LengthOf(at)].signed) = first \o signed
    BY Zenon DEF Bounding
  <2>6. Built(BufferLines(param.name, l, storage, params[LengthOf(at)].signed, param.text),
              {<<param.name>>, <<l>>})
    BY <2>4, <2>5, Zenon DEF BufferLines
  <2>. QED  BY <2>1, <2>2, <2>3, <2>6, Zenon DEF BuiltBuffer
<1>. QED  BY <1>1, <1>2, <1>3, <1>4

\* Each of the lines for a parameter is a statement.
LEMMA LineForms ==
    ASSUME NEW v \in Identifier, NEW w \in Identifier, NEW storage \in Identifier, NEW holder \in Identifier
    PROVE  /\ \A n \in Nat : Declare(v, n) \in Statement
           /\ Nondet(<<v>>) \in Statement
           /\ Point(<<v>>, storage, <<>>) \in Statement /\ Point(<<v>>, storage, <<w>>) \in Statement
           /\ Assume(<<v>>, MaxArrayLen) \in Statement
           /\ Stated("nonnegative", <<v>>, <<>>, <<>>, 0) \in Statement
           /\ Stated("text", <<storage>>, <<>>, <<v>>, 0) \in Statement
<1>1. <<v>> \in Lvalue /\ <<w>> \in Lvalue /\ <<storage>> \in Lvalue /\ <<>> \in Lvalue
  BY LvalueForms
<1>2. "nonnegative" \in Conditions /\ "text" \in Conditions
  BY DEF Conditions
<1>3. /\ Stated("nonnegative", <<v>>, <<>>, <<>>, 0) \in Statement
      /\ Stated("text", <<storage>>, <<>>, <<v>>, 0) \in Statement
  BY <1>1, <1>2, StatementForms, Zenon
<1>. QED  BY <1>1, <1>3, StatementForms, ObjectBoundsAssumption

\* What is in the lines for a parameter, in a set that has each of their statements.
LEMMA LinesIn ==
    ASSUME NEW S, NEW v, NEW w, NEW storage, NEW holder
    PROVE  /\ Declare(v, 1) \in S /\ Nondet(<<v>>) \in S => ValueLines(v) \in Seq(S)
           /\ (/\ Declare(storage, MaxArrayLen) \in S /\ Nondet(<<storage>>) \in S
               /\ Declare(w, 1) \in S /\ Point(<<w>>, storage, <<>>) \in S
               /\ Declare(holder, 1) \in S /\ Point(<<holder>>, storage, <<>>) \in S
               /\ Declare(v, 1) \in S /\ Point(<<v>>, holder, <<>>) \in S)
              => CursorLines(v, w, storage, holder) \in Seq(S)
           /\ Declare(storage, MaxArrayLen) \in S /\ Nondet(<<storage>>) \in S
              => Storing(storage) \in Seq(S)
           /\ Declare(v, 1) \in S /\ Point(<<v>>, storage, <<w>>) \in S
              => Counting(v, storage, w) \in Seq(S)
           /\ Assume(<<w>>, MaxArrayLen) \in S /\ Stated("nonnegative", <<w>>, <<>>, <<>>, 0) \in S
              => \A signed : Bounding(w, signed) \in Seq(S)
           /\ Stated("text", <<storage>>, <<>>, <<w>>, 0) \in S
              => \A text : Texting(storage, w, text) \in Seq(S)
<1>1. \A a, b \in S : <<a, b>> \in Seq(S)
  OBVIOUS
<1>2. \A a, b, c, d, e, f, g, h \in S : <<a, b, c, d, e, f, g, h>> \in Seq(S)
  OBVIOUS
<1>3. <<>> \in Seq(S) /\ (\A a \in S : <<a>> \in Seq(S)) /\ \A s, t \in Seq(S) : s \o t \in Seq(S)
  OBVIOUS
<1>4. Declare(v, 1) \in S /\ Nondet(<<v>>) \in S => ValueLines(v) \in Seq(S)
  BY <1>1, Zenon DEF ValueLines
<1>5. (/\ Declare(storage, MaxArrayLen) \in S /\ Nondet(<<storage>>) \in S
       /\ Declare(w, 1) \in S /\ Point(<<w>>, storage, <<>>) \in S
       /\ Declare(holder, 1) \in S /\ Point(<<holder>>, storage, <<>>) \in S
       /\ Declare(v, 1) \in S /\ Point(<<v>>, holder, <<>>) \in S)
      => CursorLines(v, w, storage, holder) \in Seq(S)
  BY <1>2, Zenon DEF CursorLines
<1>6. Declare(storage, MaxArrayLen) \in S /\ Nondet(<<storage>>) \in S => Storing(storage) \in Seq(S)
  BY <1>1, Zenon DEF Storing
<1>7. Declare(v, 1) \in S /\ Point(<<v>>, storage, <<w>>) \in S => Counting(v, storage, w) \in Seq(S)
  BY <1>1, Zenon DEF Counting
<1>8. Assume(<<w>>, MaxArrayLen) \in S /\ Stated("nonnegative", <<w>>, <<>>, <<>>, 0) \in S
      => \A signed : Bounding(w, signed) \in Seq(S)
  BY <1>3, Zenon DEF Bounding
<1>9. Stated("text", <<storage>>, <<>>, <<w>>, 0) \in S => \A text : Texting(storage, w, text) \in Seq(S)
  BY <1>3, Zenon DEF Texting
<1>. QED  BY <1>4, <1>5, <1>6, <1>7, <1>8, <1>9, Zenon

\* The lines each step writes for a parameter.
LEMMA ParameterLines ==
    ASSUME TypeInv, BuiltValue \/ BuiltPointer \/ BuiltCursor \/ BuiltBuffer
    PROVE  \E lines \in Seq(Statement), mentioned \in SUBSET Lvalue : Built(lines, mentioned)
<1>0. /\ param.name \in Identifier /\ <<param.name>> \in Lvalue
      /\ stage \in {"cursors", "scalars", "buffers"}
  BY ParamForm DEF TypeInv, BuiltValue, BuiltPointer, BuiltCursor, BuiltBuffer
<1>n. /\ {} \in SUBSET Lvalue /\ {<<param.name>>} \in SUBSET Lvalue
      /\ {"buf", "cursor", "bytes", "str", "obj"} \subseteq Words
  BY <1>0 DEF Words
<1>m. PICK one \in Nat : one = 1
  OBVIOUS
<1>l. MaxArrayLen \in Nat
  BY ObjectBoundsAssumption
<1>d. \A v \in Identifier : Declare(v, 1) \in Statement /\ Declare(v, MaxArrayLen) \in Statement
  BY <1>l, <1>m, StatementForms
<1>1. CASE BuiltValue
  <2>1. ValueLines(param.name) \in Seq(Statement)
    BY <1>0, <1>d, LinesIn, LineForms
  <2>. QED  BY <1>1, <1>n, <2>1, Zenon DEF BuiltValue
<1>2. CASE BuiltPointer
  <2>1. PICK word \in Words, n \in Nat : Built(PointTo(param.name, word, n), {<<param.name>>})
    BY <1>n, <1>2 DEF BuiltPointer
  <2>2. PointTo(param.name, word, n) \in Seq(Statement)
    BY <1>0, PointToTypes
  <2>. QED  BY <1>n, <2>1, <2>2, Zenon
<1>3. CASE BuiltCursor
  <2>1. PICK storage \in {Append(param.name, "buf")}, holder \in {Append(param.name, "cursor")} :
           Built(CursorLines(param.name, params[at + 1].name, storage, holder),
                 {<<param.name>>, <<params[at + 1].name>>})
    BY <1>3 DEF BuiltCursor
  <2>2. PICK w \in Identifier : w = params[at + 1].name /\ <<w>> \in Lvalue
    BY <1>3, InputForm DEF TypeInv, BuiltCursor
  <2>3. storage \in Identifier /\ holder \in Identifier
    <3>1. storage = Append(param.name, "buf") /\ holder = Append(param.name, "cursor")
      OBVIOUS
    <3>2. Append(param.name, "buf") \in Identifier /\ Append(param.name, "cursor") \in Identifier
      BY <1>0, <1>n, LvalueForms
    <3>. QED  BY <3>1, <3>2, Zenon
  <2>4. CursorLines(param.name, w, storage, holder) \in Seq(Statement)
    BY <1>0, <1>d, <2>3, LinesIn, LineForms
  <2>5. {<<param.name>>, <<w>>} \in SUBSET Lvalue
    BY <1>0, <2>2
  <2>. QED  BY <2>1, <2>2, <2>4, <2>5, Zenon
<1>4. CASE BuiltBuffer
  <2>1. PICK storage \in {Append(param.name, "buf")} :
           Built(BufferLines(param.name, params[LengthOf(at)].name, storage,
                             params[LengthOf(at)].signed, param.text),
                 {<<param.name>>, <<params[LengthOf(at)].name>>})
    BY <1>4 DEF BuiltBuffer
  <2>2. PICK l \in Identifier : l = params[LengthOf(at)].name /\ <<l>> \in Lvalue
    BY <1>4, InputForm DEF TypeInv, BuiltBuffer
  <2>3. storage \in Identifier
    <3>1. storage = Append(param.name, "buf")
      OBVIOUS
    <3>2. Append(param.name, "buf") \in Identifier
      BY <1>0, <1>n, LvalueForms
    <3>. QED  BY <3>1, <3>2, Zenon
  <2>4. /\ \A signed : Bounding(l, signed) \in Seq(Statement)
        /\ Storing(storage) \in Seq(Statement)
        /\ \A text : Texting(storage, l, text) \in Seq(Statement)
        /\ Counting(param.name, storage, l) \in Seq(Statement)
    BY <1>0, <1>d, <2>2, <2>3, LinesIn, LineForms
  <2>5. \A signed, text : BufferLines(param.name, l, storage, signed, text) \in Seq(Statement)
    BY <2>4, Written DEF BufferLines
  <2>6. {<<param.name>>, <<l>>} \in SUBSET Lvalue
    BY <1>0, <2>2
  <2>. QED  BY <2>1, <2>2, <2>5, <2>6, Zenon
<1>. QED  BY <1>1, <1>2, <1>3, <1>4

\* Every harness there can be is a sequence of statements, whatever there is to build.
LEMMA TypesInductive == TypeInv /\ [Next]_harnessVars => TypeInv'
<1>. SUFFICES ASSUME TypeInv, [Next]_harnessVars PROVE TypeInv'
  OBVIOUS
<1>t. /\ code \in Seq(Statement) /\ said \subseteq Lvalue /\ teardown \in Seq(Statement)
      /\ frames \in Seq(Calls) /\ ParameterTypes /\ ObjectTypes
      /\ <<>> \in Seq(Calls) /\ <<>> \in Seq(Statement)
  BY DEF TypeInv, ObjectTypes
<1>p. /\ signature \in Signature /\ wishes \in Wish /\ params \in Seq(Parameter)
      /\ Positions = 1 .. Len(params) /\ Len(params) \in Nat /\ \A n \in Identifier : <<n>> \in Lvalue
  BY <1>t, InputForm
<1>1. CASE RefuseSource \/ RefuseSetup \/ RefuseParameter \/ RefusePrecondition
  <2>1. /\ stage' = "refused" /\ at' = 1 /\ UNCHANGED <<program, options, signature, wishes>>
        /\ frames' = <<>> /\ code' = <<>> /\ said' = {} /\ teardown' = <<>>
    BY <1>1 DEF RefuseSource, RefuseSetup, RefuseParameter, RefusePrecondition, Refuse, inputs
  <2>2. ObjectTypes'
    BY <1>t, <2>1, TypesKept
  <2>3. params' = params
    BY <2>1 DEF params
  <2>4. ParameterTypes'
    BY <1>t, <1>p, <2>1, <2>3 DEF ParameterTypes, Stages
  <2>. QED  BY <2>2, <2>4 DEF TypeInv
<1>2. CASE FindFunction
  <2>1. /\ stage' = "hooks" /\ at' = 1 /\ stage = "signature"
        /\ UNCHANGED <<program, options, signature, wishes, frames, code, said, teardown>>
    BY <1>2 DEF FindFunction, GoTo, inputs
  <2>2. ObjectTypes'
    BY <1>t, <2>1, TypesKept
  <2>3. params' = params
    BY <2>1 DEF params
  <2>4. ParameterTypes'
    BY <1>t, <1>p, <2>1, <2>3 DEF ParameterTypes, Stages
  <2>. QED  BY <2>2, <2>4 DEF TypeInv
<1>3. CASE EmitHooks
  <2>1. /\ stage = "hooks" /\ stage' = (IF params = <<>> THEN "conditions" ELSE "cursors") /\ at' = 1
        /\ UNCHANGED <<program, options, signature, wishes, frames, teardown>>
    BY <1>3 DEF EmitHooks, GoTo, inputs
  <2>5. /\ code' = code \o HookLines
        /\ said' = said \cup ({<<h>> : h \in ToSet(signature.hooks)}
                            \cup (IF wishes.setup = <<>> THEN {} ELSE {<<SetUp>>}))
    BY <1>3, Zenon DEF EmitHooks, Emit, HookLines
  <2>6. said' \subseteq Lvalue
    <3>1. ToSet(signature.hooks) \subseteq Identifier
      BY <1>p DEF ToSet, Signature
    <3>. QED  BY <1>t, <1>p, <2>5, <3>1, OwnNames
  <2>7. code' \in Seq(Statement)
    <3>1. HookLines \in Seq(Statement)
      BY <1>t, HookForm, SeqGrows DEF HookLine
    <3>. QED  BY <1>t, <2>5, <3>1, Written
  <2>2. ObjectTypes'
    BY <1>t, <2>1, <2>6, <2>7, TypesKept
  <2>3. params' = params /\ Positions' = Positions
    BY <2>1 DEF params, Positions
  <2>4. ParameterTypes'
    <3>1. params # <<>> => 1 \in Positions
      BY <1>p
    <3>. QED  BY <1>t, <1>p, <2>1, <2>3, <3>1 DEF ParameterTypes, Stages
  <2>. QED  BY <2>2, <2>4 DEF TypeInv
<1>4. CASE SkipParameter
  <2>1. /\ stage \in {"cursors", "scalars", "buffers"} /\ Advance /\ frames = <<>>
        /\ UNCHANGED <<program, options, signature, wishes, frames, code, said, teardown>>
    BY <1>4 DEF SkipParameter, Skip, inputs
  <2>2. ObjectTypes'
    BY <1>t, <2>1, TypesKept
  <2>3. /\ stage' \in Stages /\ stage' # "done" /\ at' \in 1 .. Len(params') + 1
        /\ stage' \in {"cursors", "scalars", "buffers"} => at' \in Positions'
    BY <1>t, <2>1, AdvanceForm
  <2>4. ParameterTypes'
    BY <1>t, <2>1, <2>3 DEF ParameterTypes
  <2>. QED  BY <2>2, <2>4 DEF TypeInv
<1>5. CASE EmitCursor \/ EmitValue \/ EmitBytes \/ EmitString \/ EmitElements \/ EmitReference \/ EmitBuffer
  <2>1. stage \in {"cursors", "scalars", "buffers"} /\ frames = <<>>
    BY <1>5 DEF EmitCursor, EmitValue, EmitBytes, EmitString, EmitElements, EmitReference,
       EmitBuffer, Unpaired, Ready
  <2>2. BuiltValue \/ BuiltPointer \/ BuiltCursor \/ BuiltBuffer
    BY <1>5, ParameterForms
  <2>. QED  BY <2>1, <2>2, ParameterLines, BuiltTypes
<1>6. CASE EmitObjectParameter
  <2>1. /\ stage = "scalars" /\ EmitObject(ObjectRequest) /\ Advance /\ UNCHANGED <<signature, wishes>>
    BY <1>6 DEF EmitObjectParameter, Unpaired, Ready
  <2>2. ObjectTypes'
    <3>1. PICK request : request = ObjectRequest
      OBVIOUS
    <3>2. Requested(request) /\ EmitObject(request)
      BY <1>t, <2>1, <3>1, RequestForm
    <3>. QED  BY <1>t, <3>2, ObjectTypesKept
  <2>3. /\ stage' \in {"scalars", "buffers", "conditions"} /\ at' \in 1 .. Len(params') + 1
        /\ stage' \in {"cursors", "scalars", "buffers"} => at' \in Positions'
        /\ stage' \in {"scalars", "buffers"}
    BY <1>t, <2>1, AdvanceForm
  <2>4. ParameterTypes'
    BY <1>t, <2>1, <2>3 DEF ParameterTypes, Stages
  <2>. QED  BY <2>2, <2>4 DEF TypeInv
<1>7. CASE FillObject
  <2>1. /\ FillStep /\ UNCHANGED <<signature, wishes, stage, at>>
    BY <1>7 DEF FillObject
  <2>2. ObjectTypes' /\ frames # <<>>
    <3>1. frames # <<>>
      BY <1>t, <2>1, FillForms DEF LeaveUnion, FinishFields, FillOne, FillStored, FillBuffer,
         FillNoBuffer, FillFollowed, FillWithin, AtField
    <3>. QED  BY <1>t, <2>1, <3>1, FillTypes
  <2>3. params' = params /\ Positions' = Positions
    BY <2>1 DEF params, Positions
  <2>4. ParameterTypes'
    BY <1>t, <2>1, <2>2, <2>3 DEF ParameterTypes
  <2>. QED  BY <2>2, <2>4 DEF TypeInv
<1>8. CASE EmitConditions
  <2>1. /\ stage' = "call" /\ at' = 1 /\ frames = <<>>
        /\ UNCHANGED <<program, options, signature, wishes, frames, teardown>>
        /\ \A names \in ToSet(wishes.proposed) : Valid(names)
    BY <1>8 DEF EmitConditions, GoTo, inputs
  <2>5. /\ code' = code \o ConditionLines
        /\ said' = said \cup {<<n>> : n \in UNION ToSet(wishes.proposed)}
    BY <1>8, Zenon DEF EmitConditions, Emit, ConditionLines
  <2>6. said' \subseteq Lvalue
    <3>1. UNION ToSet(wishes.proposed) \subseteq ParameterNames
      BY <2>1 DEF Valid
    <3>. QED  BY <1>t, <1>p, <2>5, <3>1, NamesForm
  <2>7. code' \in Seq(Statement)
    <3>1. ConditionLines \in Seq(Statement)
      BY <1>t, <2>1, ConditionForm, SeqGrows
    <3>. QED  BY <1>t, <2>5, <3>1, Written
  <2>2. ObjectTypes'
    BY <1>t, <2>1, <2>6, <2>7, TypesKept
  <2>3. params' = params
    BY <2>1 DEF params
  <2>4. ParameterTypes'
    BY <1>t, <1>p, <2>1, <2>3 DEF ParameterTypes, Stages
  <2>. QED  BY <2>2, <2>4 DEF TypeInv
<1>9. CASE EmitCall
  <2>1. /\ stage = "call" /\ stage' = "done" /\ at' = 1 /\ teardown' = <<>>
        /\ UNCHANGED <<program, options, signature, wishes, frames>>
    BY <1>9 DEF EmitCall, GoTo, inputs
  <2>5. /\ code' = code \o CallLines
        /\ said' = said \cup ((IF signature.receiver THEN {<<Receiver>>} ELSE {})
                            \cup {<<c>> : c \in signature.unresolved \ ToSet(signature.hooks)})
    BY <1>9, Zenon DEF EmitCall, Emit, CallLines, UseLines
  <2>6. said' \subseteq Lvalue
    <3>1. signature.unresolved \subseteq Identifier
      BY <1>p DEF Signature
    <3>. QED  BY <1>t, <1>p, <2>5, <3>1, OwnNames
  <2>7. code' \in Seq(Statement)
    <3>1. UseLines \in Seq(Statement)
      BY <1>t, UseForm, SeqGrows
    <3>2. PICK one \in Nat : one = 1
      OBVIOUS
    <3>3. <<Declare(Receiver, one), Library(<<Receiver>>)>> \in Seq(Statement)
      BY <1>p, OwnNames, StatementForms, Written
    <3>4. PICK r \in Seq(Statement) :
             r = IF signature.receiver THEN <<Declare(Receiver, 1), Library(<<Receiver>>)>> ELSE <<>>
      BY <1>t, <3>2, <3>3
    <3>5. CallLines = r \o UseLines \o teardown
      BY <3>4, Zenon DEF CallLines
    <3>. QED  BY <1>t, <2>5, <3>1, <3>5, Written
  <2>2. ObjectTypes'
    BY <1>t, <2>1, <2>6, <2>7, TypesKept
  <2>3. params' = params
    BY <2>1 DEF params
  <2>8. frames = <<>>
    BY <1>t, <2>1 DEF ParameterTypes
  <2>4. ParameterTypes'
    BY <1>t, <1>p, <2>1, <2>3, <2>8 DEF ParameterTypes, Stages
  <2>. QED  BY <2>2, <2>4 DEF TypeInv
<1>10. CASE UNCHANGED harnessVars
  <2>1. UNCHANGED <<program, options, signature, wishes, frames, code, said, teardown, stage, at>>
    BY <1>10 DEF harnessVars, objectVars
  <2>2. ObjectTypes'
    BY <1>t, <2>1, TypesKept
  <2>3. params' = params /\ Positions' = Positions
    BY <2>1 DEF params, Positions
  <2>4. ParameterTypes'
    BY <1>t, <2>1, <2>3 DEF ParameterTypes
  <2>. QED  BY <2>2, <2>4 DEF TypeInv
<1>. QED  BY <1>1, <1>2, <1>3, <1>4, <1>5, <1>6, <1>7, <1>8, <1>9, <1>10 DEF Next

LEMMA TypesAtFirst == Init => TypeInv
<1>. SUFFICES ASSUME Init PROVE TypeInv
  OBVIOUS
<1>1. IsProgram(program) /\ signature \in Signature
  BY HarnessInputsAssumption DEF Init
<1>2. params \in Seq(Parameter)
  BY <1>1 DEF params, Signature
<1>. QED  BY <1>1, <1>2 DEF Init, TypeInv, ObjectTypes, ParameterTypes, Stages

LEMMA TypesAreRight == TypeInv => TypeOK
<1>. SUFFICES ASSUME TypeInv PROVE TypeOK
  OBVIOUS
<1>1. ASSUME NEW i \in DOMAIN frames
      PROVE  LET f == frames[i] IN
             /\ [x \in DOMAIN f \ {"pairs"} |-> f[x]] \in Frame
             /\ f.type \in DOMAIN program.structs /\ f.type \in f.seen
             /\ f.next \in 1 .. Len(program.structs[f.type].fields) + 1
             /\ \A p \in DOMAIN f.pairs : p \in Identifier /\ f.pairs[p] \in Identifier
  <2>1. PICK f \in Calls : f = frames[i]
    BY DEF TypeInv, ObjectTypes
  <2>2. f \in Call
    BY DEF Calls
  <2>3. [x \in DOMAIN f \ {"pairs"} |-> f[x]] \in Frame
    <3>1. DOMAIN f = {"type", "prefix", "depth", "seen", "next", "pairs", "constraints", "finish", "followed"}
      BY <2>2 DEF Call
    <3>2. DOMAIN f \ {"pairs"} = {"type", "prefix", "depth", "seen", "next", "constraints", "finish", "followed"}
      BY <3>1
    <3>3. [x \in DOMAIN f \ {"pairs"} |-> f[x]] =
            [type |-> f.type, prefix |-> f.prefix, depth |-> f.depth, seen |-> f.seen, next |-> f.next,
             constraints |-> f.constraints, finish |-> f.finish, followed |-> f.followed]
      BY <3>2
    <3>4. [type |-> f.type, prefix |-> f.prefix, depth |-> f.depth, seen |-> f.seen, next |-> f.next,
           constraints |-> f.constraints, finish |-> f.finish, followed |-> f.followed] \in Frame
      BY <2>2 DEF Call, Frame
    <3>. QED  BY <3>3, <3>4
  <2>4. /\ f.type \in DOMAIN program.structs /\ f.type \in f.seen
        /\ f.next \in 1 .. Len(program.structs[f.type].fields) + 1
    BY DEF Calls, FieldsOf, Structs
  <2>5. \A p \in DOMAIN f.pairs : p \in Identifier /\ f.pairs[p] \in Identifier
    BY <2>2 DEF Call
  <2>. QED  BY <2>1, <2>3, <2>4, <2>5
<1>2. ObjectTypeOK
  BY <1>1, Zenon DEF TypeInv, ObjectTypes, ObjectTypeOK
<1>. QED  BY <1>2, Zenon DEF TypeInv, ParameterTypes, TypeOK, params

THEOREM HarnessTypes == Spec => []TypeOK
BY TypesAtFirst, TypesInductive, TypesAreRight, PTL DEF Spec

-----------------------------------------------------------------------------
(* What is narrowed is said. *)

\* A counted pointer to a struct, or its count.
Excused(l) == \E j \in DOMAIN code : code[j].op = "null" /\ code[j].by # <<>> /\ l \in {code[j].of, code[j].by}

\* The statements that narrow nothing, or something that is noted, or such a count.
Fine == {s \in Statement : s.op \in Narrowing /\ ~Noted(s) => Excused(s.of)}

\* The harness only grows, and so does what is said of it.
Grown ==
    /\ said \subseteq said'
    /\ \A i \in DOMAIN code : i \in DOMAIN code' /\ code'[i] = code[i]

LEMMA GrownBy ==
    ASSUME code \in Seq(Statement), NEW lines \in Seq(Statement), code' = code \o lines,
           said \subseteq said'
    PROVE  Grown /\ \A i \in DOMAIN lines : \E j \in DOMAIN code' : code'[j] = lines[i]
<1>1. \A i \in DOMAIN code : i \in DOMAIN (code \o lines) /\ (code \o lines)[i] = code[i]
  BY Joined
<1>2. \A i \in DOMAIN lines :
         Len(code) + i \in DOMAIN (code \o lines) /\ (code \o lines)[Len(code) + i] = lines[i]
  BY Joined
<1>. QED  BY <1>1, <1>2 DEF Grown

\* What was fine stays so.
LEMMA FineGrows ==
    ASSUME Grown
    PROVE  Fine \subseteq Fine'
<1>. SUFFICES ASSUME NEW s \in Statement, s.op \in Narrowing /\ ~Noted(s) => Excused(s.of),
                     s.op \in Narrowing, ~Noted(s)'
              PROVE  Excused(s.of)'
  BY DEF Fine
<1>1. \A l : Told(l) => Told(l)'
  BY DEF Told, Grown
<1>2. ~Noted(s)
  BY <1>1 DEF Noted, Grown
<1>3. PICK j \in DOMAIN code : code[j].op = "null" /\ code[j].by # <<>> /\ s.of \in {code[j].of, code[j].by}
  BY <1>2 DEF Excused
<1>. QED  BY <1>3 DEF Excused, Grown

LEMMA ToldIfSaid ==
    ASSUME NEW S, S \subseteq Lvalue, NEW l \in S
    PROVE  \E m \in S : IsPrefix(m, l)
<1>1. l \in Seq(Identifier)
  BY DEF Lvalue
<1>2. IsPrefix(l, l)
  BY <1>1 DEF IsPrefix
<1>. QED  BY <1>2

\* What is fine.
LEMMA FineIf ==
    ASSUME NEW s \in Statement, said' \subseteq Lvalue
    PROVE  /\ s.op \notin Narrowing => s \in Fine'
           /\ s.of \in said' => s \in Fine'
           /\ (\E j \in DOMAIN code' :
                  code'[j].op = "null" /\ code'[j].by # <<>> /\ s.of \in {code'[j].of, code'[j].by})
              => s \in Fine'
           /\ (/\ Len(s.of) = 1
               /\ \E j \in DOMAIN code' :
                     code'[j].op = "point" /\ code'[j].to = <<s.of[1]>> /\ code'[j].of \in said')
              => s \in Fine'
<1>1. \A l \in said' : Told(l)'
  BY ToldIfSaid DEF Told
<1>2. s.op \notin Narrowing => s \in Fine'
  BY DEF Fine
<1>3. s.of \in said' => s \in Fine'
  BY <1>1 DEF Fine, Noted
<1>4. (\E j \in DOMAIN code' :
                  code'[j].op = "null" /\ code'[j].by # <<>> /\ s.of \in {code'[j].of, code'[j].by})
              => s \in Fine'
  BY DEF Fine, Excused
<1>5. ASSUME Len(s.of) = 1, NEW j \in DOMAIN code',
             code'[j].op = "point", code'[j].to = <<s.of[1]>>, code'[j].of \in said'
      PROVE  s \in Fine'
  BY <1>1, <1>5 DEF Fine, Noted
<1>. QED  BY <1>2, <1>3, <1>4, <1>5

\* A buffer an index loop may go through.
PlacedAt(l) ==
    /\ l \in said
    /\ \E j \in DOMAIN code : code[j].op = "point" /\ code[j].of = l /\ code[j].to = <<Storage(l, "items")>>

\* The counted pointers to scalars that a call has come by have their buffers.
Placed(f) ==
    \A i \in 1 .. f.next - 1 :
        FieldsOf(f)[i].name \in DOMAIN f.pairs /\ FieldsOf(f)[i].of \in Scalars \cup {"pointer"}
            => PlacedAt(Append(f.prefix, FieldsOf(f)[i].name))

\* A call, and what it is yet to write.
Owing == {f \in Calls : f.constraints \in Seq(Fine) /\ f.finish \in Seq(Fine) /\ Placed(f)}

LEMMA OwingGrows ==
    ASSUME UNCHANGED program, Grown
    PROVE  Owing \subseteq Owing'
<1>. SUFFICES ASSUME NEW f \in Owing PROVE f \in Owing'
  OBVIOUS
<1>1. Seq(Fine) \subseteq Seq(Fine')
  BY FineGrows, SeqGrows
<1>2. f \in Calls' /\ FieldsOf(f)' = FieldsOf(f)
  BY SameCalls DEF Owing, FieldsOf
<1>3. \A l : PlacedAt(l) => PlacedAt(l)'
  BY DEF PlacedAt, Grown
<1>4. Placed(f)'
  BY <1>2, <1>3 DEF Owing, Placed
<1>. QED  BY <1>1, <1>2, <1>4 DEF Owing

\* The field that is done has its buffer, if it is such a pointer.
LEMMA FurtherOwing ==
    ASSUME ObjectTypes, AtField, frames \in Seq(Owing), UNCHANGED program, Grown,
           NEW constraints, constraints \in Seq(Statement), constraints \in Seq(Fine'),
           NEW l, l = target,
           field.name \in DOMAIN Top.pairs /\ field.of \in Scalars \cup {"pointer"} => PlacedAt(l)'
    PROVE  Further(constraints) \in Seq(Owing')
<1>1. Top \in Owing /\ Tail(frames) \in Seq(Owing)
  BY WithoutFirst DEF AtField, Top
<1>2. PICK top \in Owing : top = Top
  BY <1>1
<1>3. top \in Owing' /\ Tail(frames) \in Seq(Owing')
  BY <1>1, <1>2, OwingGrows, SeqGrows
<1>4. PICK f \in Calls : f = Onward(constraints)
  BY FurtherForm
<1>5. /\ Further(constraints) = <<f>> \o Tail(frames)
      /\ f.next = top.next + 1
      /\ f.constraints = top.constraints \o constraints
      /\ f.type = top.type /\ f.prefix = top.prefix
      /\ f.pairs = top.pairs /\ f.finish = top.finish
  BY <1>2, <1>4, FurtherForm
<1>6. PICK fields : fields = struct.fields
  OBVIOUS
<1>7. /\ f \in Calls'
      /\ FieldsOf(f)' = fields /\ FieldsOf(top)' = fields /\ top.next \in Nat
  BY <1>2, <1>5, <1>6, SameCalls, TopForm DEF FieldsOf, struct, AtField
<1>8. f.constraints \in Seq(Fine') /\ f.finish \in Seq(Fine')
  BY <1>3, <1>5 DEF Owing
<1>9. Placed(top)'
  BY <1>3 DEF Owing
<1>10. \A i \in 1 .. f.next - 1 : i \in 1 .. top.next - 1 \/ i = top.next
  BY <1>5, <1>7
<1>11. field = fields[top.next] /\ l = Append(top.prefix, field.name)
  BY <1>2, <1>6 DEF field, target
<1>12. ASSUME NEW i \in 1 .. f.next - 1, fields[i].name \in DOMAIN f.pairs,
              fields[i].of \in Scalars \cup {"pointer"}
       PROVE  PlacedAt(Append(f.prefix, fields[i].name))'
  <2>1. CASE i \in 1 .. top.next - 1
    BY <1>5, <1>7, <1>9, <1>12, <2>1 DEF Placed
  <2>2. CASE i = top.next
    BY <1>2, <1>5, <1>11, <1>12, <2>2
  <2>. QED  BY <1>10, <2>1, <2>2
<1>13. Placed(f)'
  BY <1>7, <1>12 DEF Placed
<1>14. f \in Owing'
  BY <1>7, <1>8, <1>13 DEF Owing
<1>. QED  BY <1>3, <1>5, <1>14, InFront

\* A call that has come by nothing yet.
LEMMA FreshOwing ==
    ASSUME UNCHANGED program, NEW f \in Calls, NEW type, NEW prefix, NEW finish,
           finish \in Seq(Fine'), Fresh(f, type, prefix, finish)
    PROVE  f \in Owing'
<1>1. f \in Calls' /\ f.finish \in Seq(Fine') /\ f.constraints = <<>> /\ f.next = 1
  BY SameCalls DEF Fresh
<1>2. f.constraints \in Seq(Fine')
  BY <1>1
<1>3. 1 .. f.next - 1 = {}
  BY <1>1
<1>4. Placed(f)'
  BY <1>3, Zenon DEF Placed
<1>. QED  BY <1>1, <1>2, <1>4 DEF Owing

Frees == {s \in Statement : s.op = "free"}

ObjectSaid == code \in Seq(Fine) /\ frames \in Seq(Owing) /\ teardown \in Seq(Frees)

\* The code goes through arrays of scalars only, by the indices another array holds.
IndexedScalars ==
    \A t \in Structs : \A i \in DOMAIN program.structs[t].fields :
        LET g == program.structs[t].fields[i] IN
        \A y : <<g.name, y>> \in program.structs[t].indexing => g.of \in Scalars \cup {"pointer"}

LEMMA ObjectSaidIf ==
    ASSUME code \in Seq(Fine), Grown, NEW lines \in Seq(Fine'), code' = code \o lines,
           frames' \in Seq(Owing'), teardown' \in Seq(Frees)
    PROVE  ObjectSaid'
<1>1. code \in Seq(Fine')
  BY FineGrows, SeqGrows
<1>2. code' \in Seq(Fine')
  BY <1>1
<1>3. Frees' = Frees
  BY DEF Frees
<1>. QED  BY <1>2, <1>3 DEF ObjectSaid

\* What _fill_fields writes at the end is told of, or about a buffer that is.
LEMMA FinishFine ==
    ASSUME ObjectTypes, ObjectTypes', ObjectSaid, IndexedScalars, FinishFields, Grown
    PROVE  LinesBefore \subseteq Fine' /\ LinesAfter \subseteq Fine'
<1>1. said' \subseteq Lvalue
  BY DEF ObjectTypes
<1>2. LinesBefore \subseteq Fine'
  BY <1>1, FineIf DEF LinesBefore
<1>3. ASSUME NEW s \in LinesAfter PROVE s \in Fine'
  <2>1. s \in Statement
    BY <1>3 DEF LinesAfter
  <2>2. CASE s.of \in said'
    BY <1>1, <2>1, <2>2, FineIf
  <2>3. CASE s.of \notin said'
    <3>1. PICK x \in DOMAIN Top.pairs : \E y \in DOMAIN Top.pairs :
            /\ <<x, y>> \in struct.indexing
            /\ s.of = <<Storage(Append(Top.prefix, x), "items")>>
      BY <1>3, <2>3 DEF LinesAfter
    <3>2. PICK y \in DOMAIN Top.pairs :
            /\ <<x, y>> \in struct.indexing
            /\ s.of = <<Storage(Append(Top.prefix, x), "items")>>
      BY <3>1
    <3>3. frames # <<>> /\ Top.next > Len(struct.fields)
      BY DEF FinishFields
    <3>4. /\ Top.type \in Structs /\ Top.pairs \in Pairings(Top.type) /\ IsProgram(program)
          /\ Top.next \in Nat /\ struct.fields \in Seq(Field) /\ Top \in Owing
      BY <3>3, TopForm, WithoutFirst DEF ObjectTypes, ObjectSaid, Top
    <3>5. PICK i \in DOMAIN program.structs[Top.type].fields :
             program.structs[Top.type].fields[i].name = x
      BY <3>4, PairingsForm
    <3>6. i \in DOMAIN struct.fields /\ struct.fields[i].name = x
      BY <3>5 DEF struct
    <3>7. struct.fields[i].of \in Scalars \cup {"pointer"}
      BY <3>2, <3>4, <3>6 DEF IndexedScalars, struct
    <3>8. i \in 1 .. Top.next - 1
      BY <3>3, <3>4, <3>6
    <3>9. PICK l : l = Append(Top.prefix, x)
      OBVIOUS
    <3>10. PlacedAt(l)
      BY <3>4, <3>6, <3>7, <3>8, <3>9 DEF Owing, Placed, FieldsOf, struct
    <3>11. PICK j \in DOMAIN code : code[j].op = "point" /\ code[j].of = l /\ code[j].to = <<Storage(l, "items")>>
      BY <3>10 DEF PlacedAt
    <3>12. /\ j \in DOMAIN code' /\ code'[j].op = "point" /\ code'[j].of \in said'
           /\ code'[j].to = <<Storage(l, "items")>>
      BY <3>10, <3>11 DEF Grown, PlacedAt
    <3>13. PICK v : v = Storage(l, "items")
      OBVIOUS
    <3>14. Len(s.of) = 1 /\ code'[j].to = <<s.of[1]>>
      <4>1. s.of = <<v>> /\ code'[j].to = <<v>>
        BY <3>2, <3>9, <3>12, <3>13, Zenon
      <4>. QED  BY <4>1
    <3>. QED  BY <1>1, <2>1, <3>12, <3>14, FineIf
  <2>. QED  BY <2>2, <2>3
<1>. QED  BY <1>2, <1>3

LEMMA FillSaid ==
    ASSUME ObjectTypes, ObjectSaid, IndexedScalars, FillStep
    PROVE  ObjectSaid'
<1>0. UNCHANGED <<program, options, teardown>> /\ teardown' \in Seq(Frees) /\ ObjectTypes'
  BY FillForms, FillTypes DEF ObjectSaid
<1>t. /\ code \in Seq(Statement) /\ said' \subseteq Lvalue
      /\ code \in Seq(Fine) /\ frames \in Seq(Owing)
  BY <1>0 DEF ObjectTypes, ObjectSaid
<1>n. <<>> \in Seq(Statement) /\ <<>> \in Lvalue /\ <<>> \in Seq(Fine')
  BY LvalueForms
<1>w. "target" \in Words /\ "items" \in Words /\ "bytes" \in Words
  BY DEF Words
<1>f. \A s \in Fine' : <<s>> \in Seq(Fine')
  OBVIOUS
<1>g. \A s, t \in Fine' : <<s, t>> \in Seq(Fine')
  OBVIOUS
<1>s. Fine' \subseteq Statement
  BY DEF Fine
<1>1. CASE LeaveUnion
  <2>1. frames # <<>> /\ frames' = Tail(frames) /\ code' = code \o Top.finish /\ said \subseteq said'
    BY <1>1 DEF LeaveUnion, Emit
  <2>2. Top \in Owing /\ frames' \in Seq(Owing) /\ Top.finish \in Seq(Statement)
    BY <1>t, <2>1, WithoutFirst, TopForm DEF Top
  <2>3. Grown
    BY <1>t, <2>1, <2>2, GrownBy
  <2>4. Top.finish \in Seq(Fine') /\ frames' \in Seq(Owing')
    <3>1. Top.finish \in Seq(Fine)
      BY <2>2 DEF Owing
    <3>. QED  BY <1>0, <2>2, <2>3, <3>1, FineGrows, OwingGrows, SeqGrows
  <2>. QED  BY <1>0, <1>t, <2>1, <2>3, <2>4, ObjectSaidIf
<1>2. CASE FinishFields
  <2>1. PICK before \in Seq(LinesBefore) : \E after \in Seq(LinesAfter) :
           code' = code \o (before \o Top.constraints \o after \o Top.finish)
    BY <1>2, FinishForm
  <2>2. PICK after \in Seq(LinesAfter) :
           code' = code \o (before \o Top.constraints \o after \o Top.finish)
    BY <2>1
  <2>3. frames # <<>> /\ frames' = Tail(frames) /\ said \subseteq said'
    BY <1>2, FinishForm
  <2>4. Top \in Owing /\ frames' \in Seq(Owing)
    BY <1>t, <2>3, WithoutFirst DEF Top
  <2>5. LinesBefore \subseteq Statement /\ LinesAfter \subseteq Statement
    BY DEF LinesBefore, LinesAfter
  <2>6. before \in Seq(Statement) /\ after \in Seq(Statement)
    BY <2>5, SeqGrows
  <2>7. PICK lines \in Seq(Statement) : lines = before \o Top.constraints \o after \o Top.finish
    BY <2>3, <2>6, TopForm, Written
  <2>8. Grown
    BY <1>t, <2>2, <2>3, <2>7, GrownBy
  <2>9. before \in Seq(Fine') /\ after \in Seq(Fine')
    BY <1>0, <1>2, <2>8, FinishFine, SeqGrows
  <2>10. Top.constraints \in Seq(Fine') /\ Top.finish \in Seq(Fine')
    <3>1. Top.constraints \in Seq(Fine) /\ Top.finish \in Seq(Fine)
      BY <2>4 DEF Owing
    <3>. QED  BY <2>8, <3>1, FineGrows, SeqGrows
  <2>11. lines \in Seq(Fine')
    BY <2>7, <2>9, <2>10
  <2>12. frames' \in Seq(Owing')
    BY <1>0, <2>4, <2>8, OwingGrows, SeqGrows
  <2>. QED  BY <1>0, <1>t, <2>2, <2>7, <2>8, <2>11, <2>12, ObjectSaidIf
<1>3. CASE FillOne
  <2>1. AtField /\ frames' = Further(<<>>) /\ said \subseteq said' /\ field.name \notin DOMAIN Top.pairs
    BY <1>3 DEF FillOne
  <2>2. target \in Lvalue
    BY <2>1, FieldAt
  <2>3. \A s \in {Nondet(target), Null(target, <<>>), Library(target)} :
          s \in Statement /\ s.of = target
    <3>1. Nondet(target) \in Statement /\ Null(target, <<>>) \in Statement /\ Library(target) \in Statement
      BY <1>n, <2>2, StatementForms
    <3>2. Nondet(target).of = target /\ Null(target, <<>>).of = target /\ Library(target).of = target
      BY DEF Nondet, Null, Library, Stated
    <3>. QED  BY <3>1, <3>2, Zenon
  <2>4. PICK lines \in Seq(Statement) : code' = code \o lines /\ lines \in Seq(Fine')
    <3>1. CASE code' = code
      <4>1. code' = code \o <<>>
        BY <1>t, <3>1
      <4>. QED  BY <1>n, <4>1
    <3>2. CASE code' # code
      <4>1. PICK s \in {Nondet(target), Null(target, <<>>), Library(target)} :
               code' = code \o <<s>> /\ (s.op # "any" => target \in said')
        BY <1>3, <3>2 DEF FillOne
      <4>2. s.op = "any" => s.op \notin Narrowing
        BY DEF Narrowing
      <4>3. s \in Fine'
        BY <1>t, <2>3, <4>1, <4>2, FineIf
      <4>. QED  BY <1>f, <2>3, <4>1, <4>3, Written
    <3>. QED  BY <3>1, <3>2
  <2>5. Grown
    BY <1>t, <2>1, <2>4, GrownBy
  <2>6. PICK l : l = target
    OBVIOUS
  <2>7. frames' \in Seq(Owing')
    BY <1>0, <1>t, <1>n, <2>1, <2>5, <2>6, FurtherOwing
  <2>. QED  BY <1>0, <1>t, <2>4, <2>5, <2>7, ObjectSaidIf
<1>4. CASE FillStored
  <2>1. AtField /\ frames' = Further(<<>>) /\ said' = said \cup {target} /\ field.name \notin DOMAIN Top.pairs
    BY <1>4 DEF FillStored
  <2>2. PICK n \in Nat : \E storage \in {Storage(target, "target")} :
           code' = code \o <<Declare(storage, n), Point(target, storage, <<>>)>>
    BY <1>4 DEF FillStored
  <2>3. PICK storage \in {Storage(target, "target")} :
           code' = code \o <<Declare(storage, n), Point(target, storage, <<>>)>>
    BY <2>2
  <2>4. target \in Lvalue /\ storage \in Identifier
    BY <1>w, <2>1, FieldAt, Zenon
  <2>5. Declare(storage, n) \in Statement /\ Point(target, storage, <<>>) \in Statement
    BY <1>n, <2>4, StatementForms
  <2>6. Declare(storage, n).op \notin Narrowing /\ Point(target, storage, <<>>).of = target
    BY DEF Declare, Point, Stated, Narrowing
  <2>7. Declare(storage, n) \in Fine' /\ Point(target, storage, <<>>) \in Fine'
    BY <1>t, <2>1, <2>5, <2>6, FineIf
  <2>8. PICK lines \in Seq(Statement) : lines = <<Declare(storage, n), Point(target, storage, <<>>)>>
    BY <2>5, Written
  <2>9. lines \in Seq(Fine')
    BY <1>g, <2>7, <2>8
  <2>10. Grown
    BY <1>t, <2>1, <2>3, <2>8, GrownBy
  <2>11. PICK l : l = target
    OBVIOUS
  <2>12. frames' \in Seq(Owing')
    BY <1>0, <1>t, <1>n, <2>1, <2>10, <2>11, FurtherOwing
  <2>. QED  BY <1>0, <1>t, <2>3, <2>8, <2>9, <2>10, <2>12, ObjectSaidIf
<1>5. ASSUME AtField, field.name \in DOMAIN Top.pairs
      PROVE  /\ CountedBy \in Lvalue /\ CountedBy # <<>>
             /\ \A n \in Nat : Assume(CountedBy, n) \in Statement
  <2>1. Top.pairs[field.name] \in Identifier /\ Top.prefix \in Lvalue
    BY <1>5, TopForm, PairingsForm DEF AtField, ObjectTypes
  <2>2. CountedBy \in Lvalue /\ CountedBy # <<>>
    BY <2>1, LvalueForms DEF CountedBy
  <2>. QED  BY <2>2, StatementForms
<1>6. CASE FillBuffer
  <2>1. AtField /\ field.name \in DOMAIN Top.pairs /\ said' = said \cup {target, CountedBy}
        /\ frames' = Further(<<Assume(CountedBy, MaxArrayLen)>>)
    BY <1>6 DEF FillBuffer
  <2>2. PICK word \in {"items", "bytes"} :
           /\ field.of # "void" => word = "items"
           /\ code' = code \o <<Declare(Storage(target, word), MaxArrayLen),
                                Point(target, Storage(target, word), CountedBy)>>
    BY <1>6 DEF FillBuffer
  <2>3. target \in Lvalue /\ Storage(target, word) \in Identifier /\ CountedBy \in Lvalue
    BY <1>5, <1>w, <2>1, FieldAt
  <2>4. PICK d \in Statement : d = Declare(Storage(target, word), MaxArrayLen)
    BY <2>3, StatementForms, ObjectBoundsAssumption
  <2>5. PICK p \in Statement : p = Point(target, Storage(target, word), CountedBy)
    BY <2>3, StatementForms
  <2>6. PICK a \in Statement : a = Assume(CountedBy, MaxArrayLen)
    BY <1>5, <2>1, ObjectBoundsAssumption
  <2>7. /\ d.op \notin Narrowing /\ p.of = target /\ a.of = CountedBy /\ p.op = "point"
        /\ p.to = <<Storage(target, word)>>
    BY <2>4, <2>5, <2>6 DEF Declare, Point, Assume, Stated, Narrowing
  <2>8. d \in Fine' /\ p \in Fine' /\ a \in Fine'
    BY <1>t, <2>1, <2>7, FineIf
  <2>9. PICK lines \in Seq(Statement) : lines = <<d, p>>
    BY Written
  <2>10. lines \in Seq(Fine') /\ code' = code \o lines /\ 2 \in DOMAIN lines /\ lines[2] = p
    BY <1>g, <2>2, <2>4, <2>5, <2>8, <2>9
  <2>11. Grown /\ \E j \in DOMAIN code' : code'[j] = p
    BY <1>t, <2>1, <2>10, GrownBy
  <2>12. PICK l : l = target
    OBVIOUS
  <2>13. ASSUME field.of \in Scalars \cup {"pointer"} PROVE PlacedAt(l)'
    <3>1. word = "items"
      BY <2>2, <2>13 DEF Scalars
    <3>2. p.to = <<Storage(l, "items")>> /\ p.of = l /\ l \in said'
      BY <2>1, <2>7, <2>12, <3>1
    <3>. QED  BY <2>7, <2>11, <3>2, Zenon DEF PlacedAt
  <2>14. PICK constraints : constraints = <<a>>
    OBVIOUS
  <2>15. constraints \in Seq(Statement) /\ constraints \in Seq(Fine') /\ frames' = Further(constraints)
    BY <1>f, <2>1, <2>6, <2>8, <2>14, Written
  <2>16. frames' \in Seq(Owing')
    BY <1>0, <1>t, <2>1, <2>11, <2>12, <2>13, <2>15, FurtherOwing
  <2>. QED  BY <1>0, <1>t, <2>10, <2>11, <2>16, ObjectSaidIf
<1>7. CASE FillNoBuffer
  <2>1. /\ AtField /\ field.name \in DOMAIN Top.pairs /\ said' = said
        /\ field.of \notin Scalars \cup {"pointer"}
        /\ frames' = Further(<<Assume(CountedBy, 0)>>) /\ code' = code \o <<Null(target, CountedBy)>>
    BY <1>7 DEF FillNoBuffer
  <2>2. target \in Lvalue /\ CountedBy \in Lvalue /\ CountedBy # <<>>
    BY <1>5, <2>1, FieldAt
  <2>3. PICK z \in Statement : z = Null(target, CountedBy)
    BY <2>2, StatementForms
  <2>4. PICK zero \in Nat : zero = 0
    OBVIOUS
  <2>5. PICK a \in Statement : a = Assume(CountedBy, zero)
    BY <2>2, StatementForms
  <2>6. z.of = target /\ a.of = CountedBy /\ z.op = "null" /\ z.by = CountedBy
    BY <2>3, <2>5 DEF Null, Assume, Stated
  <2>7. PICK lines \in Seq(Statement) : lines = <<z>>
    BY Written
  <2>8. code' = code \o lines /\ 1 \in DOMAIN lines /\ lines[1] = z
    BY <2>1, <2>3, <2>7
  <2>9. Grown
    BY <1>t, <2>1, <2>8, GrownBy
  <2>10. PICK j \in DOMAIN code' : code'[j] = z
    BY <1>t, <2>1, <2>8, GrownBy
  <2>11. z \in Fine' /\ a \in Fine'
    BY <1>t, <2>2, <2>6, <2>10, FineIf
  <2>12. lines \in Seq(Fine')
    BY <1>f, <2>7, <2>11
  <2>13. PICK constraints : constraints = <<a>>
    OBVIOUS
  <2>14. constraints \in Seq(Statement) /\ constraints \in Seq(Fine') /\ frames' = Further(constraints)
    BY <1>f, <2>1, <2>4, <2>5, <2>11, <2>13, Written
  <2>15. PICK l : l = target
    OBVIOUS
  <2>16. frames' \in Seq(Owing')
    BY <1>0, <1>t, <2>1, <2>9, <2>14, <2>15, FurtherOwing
  <2>. QED  BY <1>0, <1>t, <2>8, <2>9, <2>12, <2>16, ObjectSaidIf
<1>8. CASE FillFollowed
  <2>1. AtField /\ said' = said \cup {target} /\ field.name \notin DOMAIN Top.pairs
    BY <1>8 DEF FillFollowed
  <2>2. PICK f \in Calls, storage \in Identifier :
              /\ storage = Storage(target, "target")
              /\ code' = code \o <<Declare(storage, 1)>>
              /\ frames' = <<f>> \o Further(<<>>)
              /\ Fresh(f, f.type, <<storage>>, <<Point(target, storage, <<>>)>>)
    BY <1>8, FollowedForm
  <2>3. target \in Lvalue
    BY <2>1, FieldAt
  <2>4. PICK one \in Nat : one = 1
    OBVIOUS
  <2>5. PICK d \in Statement : d = Declare(storage, one)
    BY StatementForms
  <2>6. PICK p \in Statement : p = Point(target, storage, <<>>)
    BY <1>n, <2>3, StatementForms
  <2>7. d.op \notin Narrowing /\ p.of = target
    BY <2>5, <2>6 DEF Declare, Point, Stated, Narrowing
  <2>8. d \in Fine' /\ p \in Fine'
    BY <1>t, <2>1, <2>7, FineIf
  <2>9. PICK lines \in Seq(Statement) : lines = <<d>>
    BY Written
  <2>10. lines \in Seq(Fine') /\ code' = code \o lines
    BY <1>f, <2>2, <2>4, <2>5, <2>8, <2>9
  <2>11. Grown
    BY <1>t, <2>1, <2>10, GrownBy
  <2>12. PICK l : l = target
    OBVIOUS
  <2>13. Further(<<>>) \in Seq(Owing')
    BY <1>0, <1>t, <1>n, <2>1, <2>11, <2>12, FurtherOwing
  <2>14. PICK finish : finish = <<p>>
    OBVIOUS
  <2>15. finish \in Seq(Fine') /\ Fresh(f, f.type, <<storage>>, finish)
    BY <1>f, <2>2, <2>6, <2>8, <2>14
  <2>16. f \in Owing'
    BY <1>0, <2>15, FreshOwing
  <2>17. frames' \in Seq(Owing')
    BY <2>2, <2>13, <2>16, InFront
  <2>. QED  BY <1>0, <1>t, <2>10, <2>11, <2>17, ObjectSaidIf
<1>9. CASE FillWithin
  <2>1. AtField /\ code' = code /\ said' = said /\ field.name \notin DOMAIN Top.pairs
    BY <1>9 DEF FillWithin
  <2>2. PICK f \in Calls : frames' = <<f>> \o Further(<<>>) /\ Fresh(f, f.type, target, <<>>)
    BY <1>9, WithinForm
  <2>3. PICK lines \in Seq(Statement) : lines = <<>>
    BY <1>n
  <2>4. code' = code \o lines /\ lines \in Seq(Fine')
    BY <1>t, <1>n, <2>1, <2>3
  <2>5. Grown
    BY <1>t, <2>1, <2>4, GrownBy
  <2>6. PICK l : l = target
    OBVIOUS
  <2>7. Further(<<>>) \in Seq(Owing')
    BY <1>0, <1>t, <1>n, <2>1, <2>5, <2>6, FurtherOwing
  <2>8. f \in Owing'
    BY <1>0, <1>n, <2>2, FreshOwing
  <2>9. frames' \in Seq(Owing')
    BY <2>2, <2>7, <2>8, InFront
  <2>. QED  BY <1>0, <1>t, <2>4, <2>5, <2>9, ObjectSaidIf
<1>. QED  BY <1>1, <1>2, <1>3, <1>4, <1>6, <1>7, <1>8, <1>9, FillForms

\* What is delivered is told of.
LEMMA DeliverFine ==
    ASSUME NEW request, Requested(request), NEW storage \in Identifier, said' \subseteq Lvalue,
           <<request.as>> \in said', request.finish \in Seq(Fine')
    PROVE  Deliver(request, storage) \in Seq(Fine')
<1>1. request.as \in Identifier /\ <<request.as>> \in Lvalue /\ <<>> \in Lvalue
  BY LvalueForms DEF Requested
<1>2. PICK d \in Statement : d = Declare(request.as, 1)
  BY <1>1, StatementForms
<1>3. PICK p \in Statement : p = Point(<<request.as>>, storage, <<>>)
  BY <1>1, StatementForms
<1>4. d.op \notin Narrowing /\ p.of = <<request.as>>
  BY <1>2, <1>3 DEF Declare, Point, Stated, Narrowing
<1>5. d \in Fine' /\ p \in Fine'
  BY <1>4, FineIf
<1>6. PICK first : first = <<d, p>>
  OBVIOUS
<1>7. first \in Seq(Fine')
  BY <1>5, <1>6
<1>8. Deliver(request, storage) = first \o request.finish
  BY <1>2, <1>3, <1>6, Zenon DEF Deliver
<1>. QED  BY <1>7, <1>8

LEMMA MadeFine ==
    ASSUME NEW v \in Identifier, said' \subseteq Lvalue, <<v>> \in said'
    PROVE  /\ Made(v) \in Seq(Fine')
           /\ <<Declare(v, 1), Library(<<v>>)>> \in Seq(Fine')
           /\ <<Declare(v, 1)>> \in Seq(Fine')
           /\ Stated("free", <<v>>, <<>>, <<>>, 0) \in Frees
<1>1. <<v>> \in Lvalue /\ <<>> \in Lvalue
  BY LvalueForms
<1>2. "nonnull" \in Conditions /\ "free" \in Conditions
  BY DEF Conditions
<1>3. PICK d \in Statement : d = Declare(v, 1)
  BY StatementForms
<1>4. PICK b \in Statement : b = Library(<<v>>)
  BY <1>1, StatementForms
<1>5. PICK c \in Statement : c = Stated("nonnull", <<v>>, <<>>, <<>>, 0)
  BY <1>1, <1>2, StatementForms, Zenon
<1>6. PICK e \in Statement : e = Stated("free", <<v>>, <<>>, <<>>, 0)
  BY <1>1, <1>2, StatementForms, Zenon
<1>7. d.op \notin Narrowing /\ b.of = <<v>> /\ c.of = <<v>> /\ e.op = "free"
  BY <1>3, <1>4, <1>5, <1>6 DEF Declare, Library, Stated, Narrowing
<1>8. d \in Fine' /\ b \in Fine' /\ c \in Fine' /\ e \in Frees
  BY <1>7, FineIf DEF Frees
<1>9. <<d, b, c>> \in Seq(Fine') /\ <<d, b>> \in Seq(Fine') /\ <<d>> \in Seq(Fine')
  BY <1>8
<1>. QED  BY <1>3, <1>4, <1>5, <1>6, <1>8, <1>9, Zenon DEF Made

LEMMA ObjectSaidKept ==
    ASSUME ObjectTypes, ObjectSaid, frames = <<>>, NEW request, Requested(request), EmitObject(request),
           <<request.as>> \in said' => request.finish \in Seq(Fine')
    PROVE  ObjectSaid'
<1>0. /\ UNCHANGED <<program, options>> /\ (ObjectGiven(request) \/ ObjectBegun(request))
      /\ ObjectTypes'
  BY ObjectForms, ObjectTypesKept
<1>t. /\ code \in Seq(Statement) /\ code \in Seq(Fine) /\ teardown \in Seq(Frees)
      /\ said' \subseteq Lvalue /\ <<>> \in Seq(Owing')
  BY <1>0 DEF ObjectTypes, ObjectSaid
<1>n. /\ request.as \in Identifier /\ {"obj", "src"} \subseteq Words
  BY DEF Requested, Words
<1>s. Fine' \subseteq Statement
  BY DEF Fine
<1>1. CASE ObjectGiven(request)
  <2>1. PICK storage \in Identifier : storage = Append(request.as, "obj")
    BY <1>n, LvalueForms
  <2>2. PICK holder \in Identifier : holder = Append(request.as, "src")
    BY <1>n, LvalueForms
  <2>3. /\ frames' = frames
        /\ \/ GivenMade(request, storage) \/ GivenLibrary(request, storage)
           \/ GivenFrom(request, holder, storage)
    BY <1>1, <2>1, <2>2 DEF ObjectGiven
  <2>4. <<request.as>> \in said' /\ <<storage>> \in said' /\ said \subseteq said'
    BY <2>3 DEF GivenMade, GivenLibrary, GivenFrom
  <2>5. request.finish \in Seq(Fine')
    BY <2>4
  <2>6. Deliver(request, storage) \in Seq(Fine')
    BY <1>t, <2>4, <2>5, DeliverFine
  <2>7. /\ Made(storage) \in Seq(Fine') /\ <<Declare(storage, 1), Library(<<storage>>)>> \in Seq(Fine')
        /\ Stated("free", <<storage>>, <<>>, <<>>, 0) \in Frees
    BY <1>t, <2>4, MadeFine
  <2>8. CASE GivenMade(request, storage) \/ GivenLibrary(request, storage)
    <3>1. PICK made \in Seq(Fine') : code' = code \o (made \o Deliver(request, storage))
      BY <2>7, <2>8, Zenon DEF GivenMade, GivenLibrary
    <3>2. PICK lines : lines = made \o Deliver(request, storage)
      OBVIOUS
    <3>3. lines \in Seq(Fine') /\ lines \in Seq(Statement) /\ code' = code \o lines
      <4>1. lines \in Seq(Fine')
        BY <2>6, <3>2
      <4>. QED  BY <1>s, <3>1, <3>2, <4>1, SeqGrows
    <3>4. Grown
      BY <1>t, <2>4, <3>3, GrownBy
    <3>5. teardown' \in Seq(Frees)
      <4>1. teardown' = teardown \/ teardown' = Append(teardown, Stated("free", <<storage>>, <<>>, <<>>, 0))
        BY <2>8, Zenon DEF GivenMade, GivenLibrary, FreedAfter
      <4>2. PICK e \in Frees : e = Stated("free", <<storage>>, <<>>, <<>>, 0)
        BY <2>7, Zenon
      <4>3. Append(teardown, e) \in Seq(Frees)
        BY <1>t, Extended
      <4>. QED  BY <1>t, <4>1, <4>2, <4>3, Zenon
    <3>. QED  BY <1>t, <2>3, <3>3, <3>4, <3>5, ObjectSaidIf
  <2>9. CASE GivenFrom(request, holder, storage)
    <3>1. <<holder>> \in said'
      BY <2>9 DEF GivenFrom
    <3>2. Made(holder) \in Seq(Fine') /\ Stated("free", <<holder>>, <<>>, <<>>, 0) \in Frees
      BY <1>t, <3>1, MadeFine
    <3>3. PICK lines : lines = Made(holder) \o Made(storage) \o Deliver(request, storage)
      OBVIOUS
    <3>4. lines \in Seq(Fine')
      BY <2>6, <2>7, <3>2, <3>3
    <3>5. lines \in Seq(Statement) /\ code' = code \o lines
      BY <1>s, <2>9, <3>3, <3>4, SeqGrows DEF GivenFrom
    <3>6. Grown
      BY <1>t, <2>4, <3>5, GrownBy
    <3>7. teardown' \in Seq(Frees)
      <4>1. teardown' = teardown \/ teardown' = Append(teardown, Stated("free", <<holder>>, <<>>, <<>>, 0))
        BY <2>9, Zenon DEF GivenFrom, FreedAfter
      <4>2. PICK e \in Frees : e = Stated("free", <<holder>>, <<>>, <<>>, 0)
        BY <3>2, Zenon
      <4>3. Append(teardown, e) \in Seq(Frees)
        BY <1>t, Extended
      <4>. QED  BY <1>t, <4>1, <4>2, <4>3, Zenon
    <3>. QED  BY <1>t, <2>3, <3>4, <3>5, <3>6, <3>7, ObjectSaidIf
  <2>. QED  BY <2>3, <2>8, <2>9
<1>2. CASE ObjectBegun(request)
  <2>1. PICK f \in Calls, storage \in Identifier :
              /\ code' = code \o <<Declare(storage, 1)>>
              /\ frames' = <<f>>
              /\ Fresh(f, f.type, <<storage>>, Deliver(request, storage))
    BY <1>2, BegunForm
  <2>2. <<request.as>> \in said' /\ said \subseteq said' /\ teardown' = teardown
    BY <1>2 DEF ObjectBegun
  <2>3. Deliver(request, storage) \in Seq(Fine')
    BY <1>t, <2>2, DeliverFine
  <2>4. PICK d \in Statement : d = Declare(storage, 1)
    BY StatementForms
  <2>5. d.op \notin Narrowing
    BY <2>4 DEF Declare, Stated, Narrowing
  <2>6. PICK lines : lines = <<d>>
    OBVIOUS
  <2>7. lines \in Seq(Fine') /\ lines \in Seq(Statement) /\ code' = code \o lines
    <3>1. d \in Fine'
      BY <1>t, <2>5, FineIf
    <3>. QED  BY <2>1, <2>4, <2>6, <3>1
  <2>8. Grown
    BY <1>t, <2>2, <2>7, GrownBy
  <2>9. f \in Owing'
    BY <1>0, <2>1, <2>3, FreshOwing
  <2>10. frames' \in Seq(Owing')
    BY <2>1, <2>9
  <2>. QED  BY <1>t, <2>2, <2>7, <2>8, <2>10, ObjectSaidIf
<1>. QED  BY <1>0, <1>1, <1>2

\* Nothing new in front of the call.
LEMMA ObjectSaidSame ==
    ASSUME ObjectTypes, ObjectSaid, UNCHANGED <<program, frames, code, said, teardown>>
    PROVE  ObjectSaid'
<1>1. Grown /\ code \in Seq(Fine) /\ frames \in Seq(Owing)
  BY DEF Grown, ObjectSaid
<1>2. code \in Seq(Fine') /\ frames \in Seq(Owing')
  BY <1>1, FineGrows, OwingGrows, SeqGrows
<1>3. Frees' = Frees
  BY DEF Frees
<1>. QED  BY <1>2, <1>3 DEF ObjectSaid

LEMMA ObjectSaidBuilt ==
    ASSUME ObjectTypes, ObjectSaid, NEW lines \in Seq(Statement), lines \in Seq(Fine'),
           code' = code \o lines, said \subseteq said', UNCHANGED <<program, frames>>,
           teardown' \in Seq(Frees)
    PROVE  ObjectSaid'
<1>1. Grown /\ code \in Seq(Fine) /\ frames \in Seq(Owing)
  BY GrownBy DEF ObjectTypes, ObjectSaid
<1>2. frames' \in Seq(Owing')
  BY <1>1, OwingGrows, SeqGrows
<1>. QED  BY <1>1, <1>2, ObjectSaidIf

\* Each of the lines for a parameter is fine, if it is told of.
LEMMA LinesFine ==
    ASSUME NEW v \in Identifier, NEW storage \in Identifier, NEW w \in Identifier, said' \subseteq Lvalue,
           <<v>> \in said'
    PROVE  /\ \A n \in Nat, x \in Identifier : Declare(x, n) \in Fine' /\ Nondet(<<x>>) \in Fine'
           /\ Point(<<v>>, storage, <<>>) \in Fine' /\ Point(<<v>>, storage, <<w>>) \in Fine'
           /\ Assume(<<v>>, MaxArrayLen) \in Fine'
           /\ Stated("nonnegative", <<v>>, <<>>, <<>>, 0) \in Fine'
<1>1. \A x \in Identifier : <<x>> \in Lvalue /\ <<>> \in Lvalue
  BY LvalueForms
<1>2. ASSUME NEW n \in Nat, NEW x \in Identifier PROVE Declare(x, n) \in Fine' /\ Nondet(<<x>>) \in Fine'
  <2>1. PICK d \in Statement, a \in Statement : d = Declare(x, n) /\ a = Nondet(<<x>>)
    BY <1>1, StatementForms
  <2>2. d.op \notin Narrowing /\ a.op \notin Narrowing
    BY <2>1 DEF Declare, Nondet, Stated, Narrowing
  <2>. QED  BY <2>1, <2>2, FineIf
<1>3. PICK p \in Statement, q \in Statement :
         p = Point(<<v>>, storage, <<>>) /\ q = Point(<<v>>, storage, <<w>>)
  BY LineForms
<1>4. PICK a \in Statement : a = Assume(<<v>>, MaxArrayLen)
  BY LineForms
<1>5. PICK s \in Statement : s = Stated("nonnegative", <<v>>, <<>>, <<>>, 0)
  BY LineForms, Zenon
<1>6. p.of = <<v>> /\ q.of = <<v>> /\ a.of = <<v>> /\ s.of = <<v>>
  BY <1>3, <1>4, <1>5 DEF Point, Assume, Stated
<1>7. p \in Fine' /\ q \in Fine' /\ a \in Fine' /\ s \in Fine'
  BY <1>6, FineIf
<1>. QED  BY <1>2, <1>3, <1>4, <1>5, <1>7, Zenon

\* What points to what v points to is noted with v.
LEMMA PointedFine ==
    ASSUME code \in Seq(Statement), NEW lines \in Seq(Statement), code' = code \o lines, said \subseteq said',
           said' \subseteq Lvalue,
           NEW v \in Identifier, NEW x \in Identifier, NEW by \in Lvalue, <<v>> \in said',
           NEW i \in DOMAIN lines, lines[i] = Point(<<v>>, x, by),
           NEW s \in Statement, s.of = <<x>>
    PROVE  s \in Fine'
<1>1. PICK j \in DOMAIN code' : code'[j] = lines[i]
  BY GrownBy
<1>2. code'[j].op = "point" /\ code'[j].to = <<x>> /\ code'[j].of = <<v>>
  BY <1>1 DEF Point, Stated
<1>3. Len(s.of) = 1 /\ <<s.of[1]>> = <<x>>
  OBVIOUS
<1>. QED  BY <1>2, <1>3, FineIf

LEMMA BuiltSaid ==
    ASSUME TypeInv, TypeInv', ObjectSaid, BuiltValue \/ BuiltPointer \/ BuiltCursor \/ BuiltBuffer
    PROVE  ObjectSaid'
<1>0. /\ param.name \in Identifier /\ <<param.name>> \in Lvalue
      /\ stage \in {"cursors", "scalars", "buffers"}
  BY ParamForm DEF TypeInv, BuiltValue, BuiltPointer, BuiltCursor, BuiltBuffer
<1>t. /\ ObjectTypes /\ said' \subseteq Lvalue /\ code \in Seq(Statement) /\ teardown \in Seq(Frees)
  BY DEF TypeInv, ObjectTypes, ObjectSaid
<1>b. ASSUME NEW lines, NEW mentioned, Built(lines, mentioned)
      PROVE  /\ code' = code \o lines /\ said' = said \cup mentioned
             /\ UNCHANGED <<program, frames, teardown>>
  BY <1>b DEF Built, Emit, inputs
<1>n. {"buf", "cursor", "bytes", "str", "obj"} \subseteq Words /\ <<>> \in Lvalue
  BY LvalueForms DEF Words
<1>m. PICK one \in Nat : one = 1
  OBVIOUS
<1>l. MaxArrayLen \in Nat
  BY ObjectBoundsAssumption
<1>s. Fine' \subseteq Statement
  BY DEF Fine
<1>1. CASE BuiltValue
  <2>1. PICK mentioned \in {{}, {<<param.name>>}} : Built(ValueLines(param.name), mentioned)
    BY <1>1 DEF BuiltValue
  <2>2. /\ code' = code \o ValueLines(param.name) /\ said \subseteq said'
        /\ UNCHANGED <<program, frames, teardown>>
    BY <1>b, <2>1
  <2>3. PICK d \in Statement, a \in Statement : d = Declare(param.name, one) /\ a = Nondet(<<param.name>>)
    BY <1>0, StatementForms
  <2>4. d.op \notin Narrowing /\ a.op \notin Narrowing
    BY <2>3 DEF Declare, Nondet, Stated, Narrowing
  <2>5. d \in Fine' /\ a \in Fine'
    BY <1>t, <2>4, FineIf
  <2>6. ValueLines(param.name) \in Seq(Fine')
    BY <1>m, <2>3, <2>5, LinesIn
  <2>7. ValueLines(param.name) \in Seq(Statement)
    BY <1>s, <2>6, SeqGrows
  <2>. QED  BY <1>t, <2>2, <2>6, <2>7, ObjectSaidBuilt
<1>2. CASE BuiltPointer
  <2>1. PICK word \in {"bytes", "str", "obj", "buf"}, n \in Nat :
           Built(PointTo(param.name, word, n), {<<param.name>>})
    BY <1>2 DEF BuiltPointer
  <2>2. PICK lines \in Seq(Statement) : lines = PointTo(param.name, word, n)
    BY <1>0, <1>n, PointToTypes
  <2>3. /\ code' = code \o lines /\ said' = said \cup {<<param.name>>}
        /\ UNCHANGED <<program, frames, teardown>>
    BY <1>b, <2>1, <2>2
  <2>4. PICK storage \in Identifier : storage = Append(param.name, word)
    BY <1>0, <1>n, LvalueForms
  <2>5. PICK v \in Identifier : v = param.name
    BY <1>0
  <2>6. <<v>> \in said'
    BY <2>3, <2>5
  <2>7. PICK a \in Fine', b \in Fine', c \in Fine', d \in Fine' :
          a = Declare(storage, n) /\ b = Nondet(<<storage>>) /\ c = Declare(v, one)
          /\ d = Point(<<v>>, storage, <<>>)
    BY <1>t, <2>6, LinesFine
  <2>8. lines = <<a, b, c, d>>
    BY <1>m, <2>2, <2>4, <2>5, <2>7 DEF PointTo
  <2>9. lines \in Seq(Fine')
    BY <2>8
  <2>. QED  BY <1>t, <2>3, <2>9, ObjectSaidBuilt
<1>3. CASE BuiltCursor
  <2>1. PICK storage \in {Append(param.name, "buf")}, holder \in {Append(param.name, "cursor")} :
           Built(CursorLines(param.name, params[at + 1].name, storage, holder),
                 {<<param.name>>, <<params[at + 1].name>>})
    BY <1>3 DEF BuiltCursor
  <2>2. PICK w \in Identifier : w = params[at + 1].name
    BY <1>3, InputForm DEF TypeInv, BuiltCursor
  <2>3. PICK v \in Identifier : v = param.name
    BY <1>0
  <2>4. storage \in Identifier /\ holder \in Identifier
    <3>1. storage = Append(param.name, "buf") /\ holder = Append(param.name, "cursor")
      OBVIOUS
    <3>2. Append(param.name, "buf") \in Identifier /\ Append(param.name, "cursor") \in Identifier
      BY <1>0, <1>n, LvalueForms
    <3>. QED  BY <3>1, <3>2, Zenon
  <2>5. PICK lines : lines = CursorLines(v, w, storage, holder)
    OBVIOUS
  <2>6. /\ code' = code \o lines /\ said' = said \cup {<<v>>, <<w>>}
        /\ UNCHANGED <<program, frames, teardown>>
    BY <1>b, <2>1, <2>2, <2>3, <2>5
  <2>7. /\ Declare(v, 1) \in Statement /\ Declare(w, 1) \in Statement /\ Declare(holder, 1) \in Statement
        /\ Declare(storage, MaxArrayLen) \in Statement /\ Nondet(<<storage>>) \in Statement
        /\ Point(<<w>>, storage, <<>>) \in Statement /\ Point(<<v>>, holder, <<>>) \in Statement
        /\ Point(<<holder>>, storage, <<>>) \in Statement
    BY <1>l, <1>m, <2>4, LineForms
  <2>8. lines \in Seq(Statement)
    BY <2>5, <2>7, LinesIn
  <2>9. 8 \in DOMAIN lines /\ lines[8] = Point(<<v>>, holder, <<>>)
    BY <2>5 DEF CursorLines
  <2>10. <<v>> \in said' /\ <<w>> \in said' /\ said \subseteq said'
    BY <2>6
  <2>11. PICK p \in Statement : p = Point(<<holder>>, storage, <<>>)
    BY <2>7
  <2>12. p.of = <<holder>>
    BY <2>11 DEF Point, Stated
  <2>13. p \in Fine'
    BY <1>n, <1>t, <2>4, <2>6, <2>8, <2>9, <2>10, <2>12, PointedFine
  <2>14. /\ Declare(v, 1) \in Fine' /\ Declare(w, 1) \in Fine' /\ Declare(holder, 1) \in Fine'
         /\ Declare(storage, MaxArrayLen) \in Fine' /\ Nondet(<<storage>>) \in Fine'
         /\ Point(<<v>>, holder, <<>>) \in Fine'
    BY <1>l, <1>m, <1>t, <2>4, <2>10, LinesFine
  <2>15. Point(<<w>>, storage, <<>>) \in Fine'
    BY <1>t, <2>4, <2>10, LinesFine
  <2>16. lines \in Seq(Fine')
    BY <2>5, <2>11, <2>13, <2>14, <2>15, LinesIn
  <2>. QED  BY <1>t, <2>6, <2>8, <2>10, <2>16, ObjectSaidBuilt
<1>4. CASE BuiltBuffer
  <2>1. PICK storage \in {Append(param.name, "buf")} :
           Built(BufferLines(param.name, params[LengthOf(at)].name, storage,
                             params[LengthOf(at)].signed, param.text),
                 {<<param.name>>, <<params[LengthOf(at)].name>>})
    BY <1>4 DEF BuiltBuffer
  <2>2. PICK l \in Identifier : l = params[LengthOf(at)].name
    BY <1>4, InputForm DEF TypeInv, BuiltBuffer
  <2>3. PICK v \in Identifier : v = param.name
    BY <1>0
  <2>4. storage \in Identifier
    <3>1. storage = Append(param.name, "buf")
      OBVIOUS
    <3>2. Append(param.name, "buf") \in Identifier
      BY <1>0, <1>n, LvalueForms
    <3>. QED  BY <3>1, <3>2, Zenon
  <2>5. PICK bounding : bounding = Bounding(l, params[LengthOf(at)].signed)
    OBVIOUS
  <2>6. PICK storing : storing = Storing(storage)
    OBVIOUS
  <2>7. PICK texting : texting = Texting(storage, l, param.text)
    OBVIOUS
  <2>8. PICK counting : counting = Counting(v, storage, l)
    OBVIOUS
  <2>9. PICK lines : lines = bounding \o storing \o texting \o counting
    OBVIOUS
  <2>10. /\ code' = code \o lines /\ said' = said \cup {<<v>>, <<l>>}
         /\ UNCHANGED <<program, frames, teardown>>
    <3>1. lines = BufferLines(param.name, params[LengthOf(at)].name, storage,
                             params[LengthOf(at)].signed, param.text)
      BY <2>2, <2>3, <2>5, <2>6, <2>7, <2>8, <2>9 DEF BufferLines
    <3>2. Built(lines, {<<v>>, <<l>>})
      BY <2>1, <2>2, <2>3, <3>1
    <3>. QED  BY <1>b, <3>2
  <2>11. /\ Declare(v, 1) \in Statement /\ Point(<<v>>, storage, <<l>>) \in Statement
         /\ Declare(storage, MaxArrayLen) \in Statement /\ Nondet(<<storage>>) \in Statement
         /\ Assume(<<l>>, MaxArrayLen) \in Statement
         /\ Stated("nonnegative", <<l>>, <<>>, <<>>, 0) \in Statement
         /\ Stated("text", <<storage>>, <<>>, <<l>>, 0) \in Statement
    BY <1>l, <1>m, <2>4, LineForms
  <2>12. /\ bounding \in Seq(Statement) /\ storing \in Seq(Statement)
         /\ texting \in Seq(Statement) /\ counting \in Seq(Statement)
    BY <2>5, <2>6, <2>7, <2>8, <2>11, LinesIn
  <2>13. PICK before \in Seq(Statement) : before = bounding \o storing \o texting /\ lines = before \o counting
    BY <2>9, <2>12, Written
  <2>14. lines \in Seq(Statement)
    BY <2>12, <2>13, Written
  <2>15. PICK i \in DOMAIN lines : lines[i] = Point(<<v>>, storage, <<l>>)
    <3>1. 2 \in DOMAIN counting /\ counting[2] = Point(<<v>>, storage, <<l>>)
      BY <2>8 DEF Counting
    <3>2. PICK two \in DOMAIN counting : two = 2
      BY <3>1
    <3>3. Len(before) + two \in DOMAIN (before \o counting)
          /\ (before \o counting)[Len(before) + two] = counting[two]
      BY <2>12, <3>1, <3>2, Joined, SMTT(30)
    <3>4. Len(before) + two \in DOMAIN lines /\ lines[Len(before) + two] = counting[two]
      BY <2>13, <3>3, Zenon
    <3>. QED  BY <3>1, <3>2, <3>4, Zenon
  <2>16. <<v>> \in said' /\ <<l>> \in said' /\ said \subseteq said' /\ <<l>> \in Lvalue
    BY <2>10, LvalueForms
  <2>17. PICK s \in Statement : s = Stated("text", <<storage>>, <<>>, <<l>>, 0)
    BY <2>11, Zenon
  <2>18. s.of = <<storage>>
    BY <2>17 DEF Stated
  <2>19. s \in Fine'
    BY <1>t, <2>4, <2>10, <2>14, <2>15, <2>16, <2>18, PointedFine
  <2>20. /\ Declare(v, 1) \in Fine' /\ Point(<<v>>, storage, <<l>>) \in Fine'
         /\ Declare(storage, MaxArrayLen) \in Fine' /\ Nondet(<<storage>>) \in Fine'
    BY <1>l, <1>m, <1>t, <2>4, <2>16, LinesFine
  <2>21. Assume(<<l>>, MaxArrayLen) \in Fine' /\ Stated("nonnegative", <<l>>, <<>>, <<>>, 0) \in Fine'
    BY <1>t, <2>4, <2>16, LinesFine
  <2>22. /\ bounding \in Seq(Fine') /\ storing \in Seq(Fine')
         /\ texting \in Seq(Fine') /\ counting \in Seq(Fine')
    BY <2>5, <2>6, <2>7, <2>8, <2>17, <2>19, <2>20, <2>21, LinesIn
  <2>23. lines \in Seq(Fine')
    <3>1. before \in Seq(Fine')
      BY <2>13, <2>22
    <3>. QED  BY <2>13, <2>22, <3>1
  <2>. QED  BY <1>t, <2>10, <2>14, <2>16, <2>23, ObjectSaidBuilt
<1>. QED  BY <1>1, <1>2, <1>3, <1>4

SaidInv == TypeInv /\ ObjectSaid /\ program \in Programs

LEMMA SaidInductive ==
    ASSUME IndexedArraysAreScalars
    PROVE  SaidInv /\ [Next]_harnessVars => SaidInv'
<1>. SUFFICES ASSUME SaidInv, [Next]_harnessVars PROVE SaidInv'
  OBVIOUS
<1>t. /\ TypeInv /\ TypeInv' /\ ParameterTypes /\ ObjectTypes /\ ObjectSaid /\ ObjectTypes'
      /\ code \in Seq(Statement) /\ said' \subseteq Lvalue /\ teardown \in Seq(Frees)
      /\ <<>> \in Seq(Frees)
  BY TypesInductive DEF SaidInv, TypeInv, ObjectTypes, ObjectSaid
<1>s. Fine' \subseteq Statement
  BY DEF Fine
<1>p. /\ signature \in Signature /\ wishes \in Wish /\ params \in Seq(Parameter)
      /\ Positions = 1 .. Len(params) /\ Len(params) \in Nat /\ \A n \in Identifier : <<n>> \in Lvalue
  BY <1>t, InputForm
<1>i. IndexedScalars
  BY DEF SaidInv, IndexedArraysAreScalars, IndexedScalars, Structs
<1>0. ASSUME ObjectSaid', program' = program PROVE SaidInv'
  BY <1>0, <1>t DEF SaidInv
<1>1. CASE RefuseSource \/ RefuseSetup \/ RefuseParameter \/ RefusePrecondition
  <2>1. program' = program /\ frames' = <<>> /\ code' = <<>> /\ said' = {} /\ teardown' = <<>>
    BY <1>1 DEF RefuseSource, RefuseSetup, RefuseParameter, RefusePrecondition, Refuse, inputs
  <2>2. <<>> \in Seq(Fine') /\ <<>> \in Seq(Owing') /\ <<>> \in Seq(Frees')
    OBVIOUS
  <2>3. ObjectSaid'
    BY <2>1, <2>2 DEF ObjectSaid
  <2>. QED  BY <1>0, <2>1, <2>3
<1>2. CASE FindFunction \/ SkipParameter \/ UNCHANGED harnessVars
  <2>1. UNCHANGED <<program, frames, code, said, teardown>>
    BY <1>2 DEF FindFunction, SkipParameter, Skip, inputs, harnessVars, objectVars
  <2>. QED  BY <1>0, <1>t, <2>1, ObjectSaidSame
<1>3. CASE EmitHooks
  <2>1. UNCHANGED <<program, frames, teardown>>
    BY <1>3 DEF EmitHooks, inputs
  <2>2. /\ code' = code \o HookLines
        /\ said' = said \cup ({<<h>> : h \in ToSet(signature.hooks)}
                            \cup (IF wishes.setup = <<>> THEN {} ELSE {<<SetUp>>}))
    BY <1>3, Zenon DEF EmitHooks, Emit, HookLines
  <2>3. HookLines \in Seq(Statement)
    BY <1>t, HookForm, SeqGrows DEF HookLine
  <2>4. \A i \in DOMAIN HookLines : HookLines[i] \in Fine'
    <3>. SUFFICES ASSUME NEW i \in DOMAIN HookLines PROVE HookLines[i] \in Fine'
      OBVIOUS
    <3> DEFINE first == [j \in DOMAIN signature.hooks |-> Library(<<signature.hooks[j]>>)]
               second == [j \in DOMAIN wishes.setup |-> Library(<<SetUp>>)]
    <3>1. PICK s \in Statement : s = HookLines[i]
      BY <2>3
    <3>2. signature.hooks \in Seq(Identifier) /\ wishes.setup \in Seq(BOOLEAN)
      BY <1>p DEF Signature, Wish
    <3>3. first \in Seq(Statement) /\ second \in Seq(Statement)
      <4>1. \A j \in DOMAIN signature.hooks : Library(<<signature.hooks[j]>>) \in Statement
        BY <1>p, <3>2, StatementForms
      <4>2. Library(<<SetUp>>) \in Statement
        BY <1>p, OwnNames, StatementForms
      <4>3. PICK n \in Nat : n = Len(signature.hooks)
        BY <3>2
      <4>4. PICK m \in Nat : m = Len(wishes.setup)
        BY <3>2
      <4>5. DOMAIN signature.hooks = 1 .. n /\ DOMAIN wishes.setup = 1 .. m
        BY <3>2, <4>3, <4>4
      <4>6. first \in [1 .. n -> Statement]
        BY <4>1, <4>5, Zenon
      <4>7. second \in [1 .. m -> Statement]
        BY <4>2, <4>5, Zenon
      <4>. HIDE DEF first, second
      <4>. QED  BY <4>6, <4>7, Listed
    <3>4. \/ i \in DOMAIN first /\ HookLines[i] = first[i]
          \/ i - Len(first) \in DOMAIN second /\ HookLines[i] = second[i - Len(first)]
      <4>1. HookLines = first \o second
        BY Zenon DEF HookLines
      <4>. HIDE DEF first, second
      <4>. QED  BY <3>3, <4>1, Joined
    <3>5. CASE i \in DOMAIN first /\ HookLines[i] = first[i]
      <4>1. s.of = <<signature.hooks[i]>> /\ signature.hooks[i] \in ToSet(signature.hooks)
        BY <3>1, <3>2, <3>5 DEF Library, Stated, ToSet
      <4>2. s.of \in said'
        BY <2>2, <4>1
      <4>. QED  BY <1>t, <3>1, <4>2, FineIf
    <3>6. CASE i - Len(first) \in DOMAIN second /\ HookLines[i] = second[i - Len(first)]
      <4>1. s.of = <<SetUp>> /\ wishes.setup # <<>>
        <5>1. HookLines[i] = Library(<<SetUp>>)
          BY <3>6
        <5>2. DOMAIN second = DOMAIN wishes.setup
          OBVIOUS
        <5>3. wishes.setup # <<>>
          BY <3>6, <5>2, <3>2
        <5>. QED  BY <3>1, <5>1, <5>3 DEF Library, Stated
      <4>2. s.of \in said'
        BY <2>2, <4>1
      <4>. QED  BY <1>t, <3>1, <4>2, FineIf
    <3>. QED  BY <3>4, <3>5, <3>6
  <2>5. HookLines \in Seq(Fine')
    BY <2>3, <2>4
  <2>6. ObjectSaid'
    BY <1>t, <2>1, <2>2, <2>3, <2>5, ObjectSaidBuilt
  <2>. QED  BY <1>0, <2>1, <2>6
<1>4. CASE EmitCursor \/ EmitValue \/ EmitBytes \/ EmitString \/ EmitElements \/ EmitReference \/ EmitBuffer
  <2>1. program' = program
    BY <1>4, Zenon DEF EmitCursor, EmitValue, EmitBytes, EmitString, EmitElements, EmitReference, EmitBuffer,
       Built, inputs
  <2>2. ObjectSaid'
    BY <1>4, <1>t, ParameterForms, BuiltSaid
  <2>. QED  BY <1>0, <2>1, <2>2
<1>5. CASE EmitObjectParameter
  <2>1. /\ stage = "scalars" /\ EmitObject(ObjectRequest) /\ frames = <<>>
    BY <1>5 DEF EmitObjectParameter, Unpaired, Ready
  <2>2. PICK request : request = ObjectRequest
    OBVIOUS
  <2>3. /\ Requested(request) /\ EmitObject(request) /\ request.mentions = {<<param.name>>}
        /\ \/ request.finish = <<>>
           \/ request.finish = <<Declare(param.name, 1), Point(<<param.name>>, request.as, <<>>)>>
    BY <1>t, <2>1, <2>2, RequestForm
  <2>4. program' = program /\ (ObjectGiven(request) \/ ObjectBegun(request))
    BY <1>t, <2>3, ObjectForms
  <2>5. <<param.name>> \in said'
    BY <2>3, <2>4 DEF ObjectGiven, ObjectBegun, GivenMade, GivenLibrary, GivenFrom
  <2>6. request.finish \in Seq(Fine')
    <3>1. param.name \in Identifier
      BY <1>t, <2>1, ParamForm
    <3>2. PICK v \in Identifier, x \in Identifier : v = param.name /\ x = request.as
      BY <2>3, <3>1 DEF Requested
    <3>3. PICK one \in Nat : one = 1
      OBVIOUS
    <3>4. PICK d \in Fine', p \in Fine' : d = Declare(v, one) /\ p = Point(<<v>>, x, <<>>)
      BY <1>t, <2>5, <3>2, LinesFine
    <3>5. <<d, p>> \in Seq(Fine') /\ <<>> \in Seq(Fine')
      OBVIOUS
    <3>. QED  BY <2>3, <3>2, <3>3, <3>4, <3>5
  <2>7. ObjectSaid'
    BY <1>t, <2>1, <2>3, <2>6, ObjectSaidKept
  <2>. QED  BY <1>0, <2>4, <2>7
<1>6. CASE FillObject
  <2>1. FillStep
    BY <1>6 DEF FillObject
  <2>2. program' = program
    BY <1>t, <2>1, FillForms
  <2>3. ObjectSaid'
    BY <1>i, <1>t, <2>1, FillSaid
  <2>. QED  BY <1>0, <2>2, <2>3
<1>7. CASE EmitConditions
  <2>1. /\ UNCHANGED <<program, frames, teardown>>
        /\ \A names \in ToSet(wishes.proposed) : Valid(names)
    BY <1>7 DEF EmitConditions, inputs
  <2>2. code' = code \o ConditionLines /\ said \subseteq said'
    BY <1>7, Zenon DEF EmitConditions, Emit, ConditionLines
  <2>3. ConditionLines \in Seq(ConditionLine) /\ ConditionLine \subseteq Statement
    BY <1>t, <2>1, ConditionForm
  <2>4. ConditionLine \subseteq Fine'
    <3>1. \A n : Stated("requires", <<n>>, <<>>, <<>>, 0).op \notin Narrowing
      BY DEF Stated, Narrowing
    <3>2. \A s \in ConditionLine : s.op \notin Narrowing
      BY <3>1, Zenon DEF ConditionLine
    <3>. QED  BY <1>t, <2>3, <3>2, FineIf
  <2>5. ObjectSaid'
    BY <1>t, <2>1, <2>2, <2>3, <2>4, SeqGrows, ObjectSaidBuilt
  <2>. QED  BY <1>0, <2>1, <2>5
<1>8. CASE EmitCall
  <2>1. UNCHANGED <<program, frames>> /\ teardown' = <<>>
    BY <1>8 DEF EmitCall, inputs
  <2>2. /\ code' = code \o CallLines
        /\ said' = said \cup ((IF signature.receiver THEN {<<Receiver>>} ELSE {})
                            \cup {<<c>> : c \in signature.unresolved \ ToSet(signature.hooks)})
    BY <1>8, Zenon DEF EmitCall, Emit, CallLines, UseLines
  <2>3. UseLines \in Seq(Fine')
    <3>1. UseLines \in Seq(UseLine) /\ UseLine \subseteq Statement
      BY <1>t, UseForm
    <3>2. \A n : Stated("use", <<n>>, <<>>, <<>>, 0).op \notin Narrowing
      BY DEF Stated, Narrowing
    <3>3. \A s \in UseLine : s.op \notin Narrowing
      BY <3>2, Zenon DEF UseLine
    <3>4. UseLine \subseteq Fine'
      BY <1>t, <3>1, <3>3, FineIf
    <3>. QED  BY <3>1, <3>4, SeqGrows
  <2>4. teardown \in Seq(Fine')
    <3>1. Frees \subseteq Fine'
      BY <1>t, FineIf DEF Frees, Narrowing
    <3>. QED  BY <1>t, <3>1, SeqGrows
  <2>5. PICK r \in Seq(Fine') :
           r = IF signature.receiver THEN <<Declare(Receiver, 1), Library(<<Receiver>>)>> ELSE <<>>
    <3>1. CASE signature.receiver
      <4>1. <<Receiver>> \in said'
        BY <2>2, <3>1
      <4>2. <<Declare(Receiver, 1), Library(<<Receiver>>)>> \in Seq(Fine')
        BY <1>t, <4>1, OwnNames, MadeFine
      <4>. QED  BY <3>1, <4>2
    <3>2. CASE ~signature.receiver
      <4>1. <<>> \in Seq(Fine')
        OBVIOUS
      <4>. QED  BY <3>2, <4>1
    <3>. QED  BY <3>1, <3>2
  <2>6. PICK lines : lines = r \o UseLines \o teardown
    OBVIOUS
  <2>7. lines \in Seq(Fine') /\ code' = code \o lines
    BY <2>2, <2>3, <2>4, <2>5, <2>6 DEF CallLines
  <2>8. lines \in Seq(Statement) /\ said \subseteq said'
    BY <1>s, <2>2, <2>7, SeqGrows
  <2>9. ObjectSaid'
    BY <1>t, <2>1, <2>7, <2>8, ObjectSaidBuilt
  <2>. QED  BY <1>0, <2>1, <2>9
<1>. QED  BY <1>1, <1>2, <1>3, <1>4, <1>5, <1>6, <1>7, <1>8 DEF Next

LEMMA SaidAtFirst == Init => SaidInv
<1>. SUFFICES ASSUME Init PROVE SaidInv
  OBVIOUS
<1>1. TypeInv /\ program \in Programs
  BY TypesAtFirst DEF Init
<1>2. ObjectSaid
  BY DEF Init, ObjectSaid
<1>. QED  BY <1>1, <1>2 DEF SaidInv

\* Whatever the objects are that a function takes, and whatever else it takes: what the
\* harness narrows without a word is a counted pointer to a struct, or its count, and
\* nothing else.
THEOREM SilenceIsAboutCounts ==
    ASSUME IndexedArraysAreScalars
    PROVE  Spec => []OnlyCountsGoUnsaid
<1>1. SaidInv => OnlyCountsGoUnsaid
  <2>. SUFFICES ASSUME SaidInv, NEW i \in DOMAIN code, code[i].op \in Narrowing, ~Noted(code[i])
                PROVE  \E j \in DOMAIN code :
                          /\ code[j].op = "null" /\ code[j].by # <<>>
                          /\ code[i].of \in {code[j].of, code[j].by}
    BY DEF OnlyCountsGoUnsaid
  <2>1. code[i] \in Fine
    BY DEF SaidInv, ObjectSaid
  <2>2. Excused(code[i].of)
    BY <2>1 DEF Fine
  <2>. QED  BY <2>2 DEF Excused
<1>. QED  BY <1>1, SaidAtFirst, SaidInductive, PTL DEF Spec

-----------------------------------------------------------------------------
(* Every variable is declared before it is used. *)

DeclaredIn(lines) ==
    {v \in Identifier : \E j \in DOMAIN lines : lines[j].op = "declare" /\ lines[j].of = <<v>>}

\* What each line is about is known, or declared by the line or one before it.
Resolves(lines, known) ==
    \A i \in DOMAIN lines : \A v \in Variables(lines[i]) :
        v \in known \/ \E j \in 1 .. i : lines[j].op = "declare" /\ lines[j].of = <<v>>

\* The statements about what is known.
About(known) == {s \in Statement : Variables(s) \subseteq known}

LEMMA AboutIf ==
    ASSUME NEW s \in Statement, NEW known,
           s.of = <<>> \/ s.of[1] \in known, s.to = <<>> \/ s.to[1] \in known,
           s.by = <<>> \/ s.by[1] \in known
    PROVE  s \in About(known)
BY DEF About, Variables

LEMMA VariablesForm ==
    ASSUME NEW s \in Statement
    PROVE  /\ Variables(s) \subseteq Identifier
           /\ s.of # <<>> => s.of[1] \in Variables(s)
           /\ s.to # <<>> => s.to[1] \in Variables(s)
           /\ s.by # <<>> => s.by[1] \in Variables(s)
<1>1. s.of \in Lvalue /\ s.to \in Lvalue /\ s.by \in Lvalue
  BY DEF Statement
<1>2. \A v \in {s.of, s.to, s.by} \ {<<>>} : v[1] \in Identifier
  BY <1>1, LvalueForms
<1>3. Variables(s) \subseteq Identifier
  BY <1>2, Zenon DEF Variables
<1>4. /\ s.of # <<>> => s.of[1] \in Variables(s)
      /\ s.to # <<>> => s.to[1] \in Variables(s)
      /\ s.by # <<>> => s.by[1] \in Variables(s)
  BY Zenon DEF Variables
<1>. QED  BY <1>3, <1>4

LEMMA ResolvesGrows ==
    ASSUME NEW lines, NEW known, NEW more, known \subseteq more, Resolves(lines, known)
    PROVE  Resolves(lines, more)
BY DEF Resolves

LEMMA AboutGrows ==
    ASSUME NEW known, NEW more, known \subseteq more
    PROVE  Seq(About(known)) \subseteq Seq(About(more))
<1>1. About(known) \subseteq About(more)
  BY DEF About
<1>. QED  BY <1>1, SeqGrows

LEMMA ResolvesEach ==
    ASSUME NEW known, NEW lines \in Seq(About(known))
    PROVE  Resolves(lines, known)
<1>1. \A i \in DOMAIN lines : lines[i] \in About(known)
  OBVIOUS
<1>. QED  BY <1>1 DEF Resolves, About

LEMMA DeclaredJoined ==
    ASSUME NEW s \in Seq(Statement), NEW t \in Seq(Statement)
    PROVE  DeclaredIn(s \o t) = DeclaredIn(s) \cup DeclaredIn(t)
<1>1. DeclaredIn(s \o t) \subseteq DeclaredIn(s) \cup DeclaredIn(t)
  <2>. SUFFICES ASSUME NEW v \in Identifier, NEW j \in DOMAIN (s \o t),
                       (s \o t)[j].op = "declare", (s \o t)[j].of = <<v>>
                PROVE  v \in DeclaredIn(s) \cup DeclaredIn(t)
    BY DEF DeclaredIn
  <2>1. CASE j \in DOMAIN s
    <3>1. (s \o t)[j] = s[j]
      BY <2>1, Joined
    <3>. QED  BY <2>1, <3>1 DEF DeclaredIn
  <2>2. CASE j \notin DOMAIN s
    <3>1. j - Len(s) \in DOMAIN t /\ (s \o t)[j] = t[j - Len(s)]
      BY <2>2, Joined
    <3>. QED  BY <3>1 DEF DeclaredIn
  <2>. QED  BY <2>1, <2>2
<1>2. DeclaredIn(s) \subseteq DeclaredIn(s \o t)
  <2>1. \A i \in DOMAIN s : i \in DOMAIN (s \o t) /\ (s \o t)[i] = s[i]
    BY Joined
  <2>. QED  BY <2>1 DEF DeclaredIn
<1>3. DeclaredIn(t) \subseteq DeclaredIn(s \o t)
  <2>1. \A i \in DOMAIN t : Len(s) + i \in DOMAIN (s \o t) /\ (s \o t)[Len(s) + i] = t[i]
    BY Joined
  <2>. QED  BY <2>1 DEF DeclaredIn
<1>. QED  BY <1>1, <1>2, <1>3

LEMMA ResolvesJoined ==
    ASSUME NEW s \in Seq(Statement), NEW t \in Seq(Statement), NEW known,
           Resolves(s, known), Resolves(t, known \cup DeclaredIn(s))
    PROVE  Resolves(s \o t, known)
<1>0. DOMAIN s = 1 .. Len(s) /\ DOMAIN t = 1 .. Len(t) /\ Len(s) \in Nat /\ Len(t) \in Nat
  OBVIOUS
<1>1. \A i \in DOMAIN s : i \in DOMAIN (s \o t) /\ (s \o t)[i] = s[i]
  BY Joined
<1>2. \A i \in DOMAIN t : Len(s) + i \in DOMAIN (s \o t) /\ (s \o t)[Len(s) + i] = t[i]
  BY Joined
<1>3. SUFFICES ASSUME NEW i \in DOMAIN (s \o t), NEW v \in Variables((s \o t)[i]), v \notin known
               PROVE  \E j \in 1 .. i : (s \o t)[j].op = "declare" /\ (s \o t)[j].of = <<v>>
  BY DEF Resolves
<1>4. CASE i \in DOMAIN s
  <2>1. PICK j \in 1 .. i : s[j].op = "declare" /\ s[j].of = <<v>>
    BY <1>1, <1>3, <1>4 DEF Resolves
  <2>2. j \in DOMAIN s
    BY <1>0, <1>4
  <2>. QED  BY <1>1, <2>1, <2>2
<1>5. CASE i \notin DOMAIN s
  <2>1. i > Len(s) /\ i - Len(s) \in DOMAIN t /\ (s \o t)[i] = t[i - Len(s)]
    BY <1>5, Joined
  <2>2. CASE v \in DeclaredIn(s)
    <3>1. PICK j \in DOMAIN s : s[j].op = "declare" /\ s[j].of = <<v>>
      BY <2>2 DEF DeclaredIn
    <3>2. j \in 1 .. i
      BY <1>0, <1>3, <2>1
    <3>. QED  BY <1>1, <3>1, <3>2
  <2>3. CASE v \notin DeclaredIn(s)
    <3>1. PICK k \in DOMAIN t : k = i - Len(s)
      BY <2>1
    <3>2. v \in Variables(t[k])
      BY <1>3, <2>1, <3>1
    <3>3. PICK j \in 1 .. k : t[j].op = "declare" /\ t[j].of = <<v>>
      BY <1>3, <2>3, <3>2 DEF Resolves
    <3>4. j \in DOMAIN t
      BY <1>0, <3>1
    <3>5. Len(s) + j \in 1 .. i
      BY <1>0, <2>1, <3>1, <3>3
    <3>. QED  BY <1>2, <3>3, <3>4, <3>5
  <2>. QED  BY <2>2, <2>3
<1>. QED  BY <1>4, <1>5

\* A declaration, and a line about what it declares.
LEMMA DeclareForm ==
    ASSUME NEW v \in Identifier, NEW n \in Nat, NEW known
    PROVE  /\ <<Declare(v, n)>> \in Seq(Statement)
           /\ Resolves(<<Declare(v, n)>>, known) /\ DeclaredIn(<<Declare(v, n)>>) = {v}
           /\ \A s \in Statement : <<Declare(v, n), s>> = <<Declare(v, n)>> \o <<s>>
<1>1. PICK d \in Statement : d = Declare(v, n)
  BY StatementForms
<1>2. d.op = "declare" /\ d.of = <<v>> /\ d.to = <<>> /\ d.by = <<>>
  BY <1>1 DEF Declare, Stated
<1>3. Variables(d) \subseteq {v}
  BY <1>2 DEF Variables
<1>4. PICK lines : lines = <<d>>
  OBVIOUS
<1>5. DOMAIN lines = {1} /\ lines[1] = d /\ 1 \in 1 .. 1 /\ lines \in Seq(Statement)
  BY <1>4
<1>6. Resolves(lines, known)
  BY <1>2, <1>3, <1>5 DEF Resolves
<1>7. \A w \in Identifier : <<w>> = <<v>> => w = v
  OBVIOUS
<1>8. DeclaredIn(lines) = {v}
  BY <1>2, <1>5, <1>7 DEF DeclaredIn
<1>9. \A s \in Statement : <<d, s>> = <<d>> \o <<s>>
  OBVIOUS
<1>. QED  BY <1>1, <1>4, <1>5, <1>6, <1>8, <1>9

\* A declaration, and lines that may be about what it declares.
Before(first, rest) == <<first>> \o rest
Declares(s, v) == \E n \in Nat : s = Declare(v, n)

LEMMA DeclareThen ==
    ASSUME NEW v \in Identifier, NEW d, Declares(d, v),
           NEW known, NEW more, more = known \cup {v},
           NEW rest \in Seq(Statement), Resolves(rest, more)
    PROVE  /\ Resolves(Before(d, rest), known)
           /\ Before(d, rest) \in Seq(Statement)
           /\ \A w : w \in DeclaredIn(Before(d, rest)) <=> w = v \/ w \in DeclaredIn(rest)
<1>0. PICK n \in Nat : d = Declare(v, n)
  BY DEF Declares
<1>1. PICK first \in Seq(Statement) : first = <<d>> /\ first = <<Declare(v, n)>>
  BY <1>0, DeclareForm, Zenon
<1>2. Resolves(first, known) /\ DeclaredIn(first) = {v}
  BY <1>1, DeclareForm
<1>3. Resolves(first \o rest, known) /\ DeclaredIn(first \o rest) = {v} \cup DeclaredIn(rest)
  BY <1>2, ResolvesJoined, DeclaredJoined
<1>4. Before(d, rest) = first \o rest /\ first \o rest \in Seq(Statement)
  BY <1>1, Written DEF Before
<1>5. \A w : w \in DeclaredIn(first \o rest) <=> w = v \/ w \in DeclaredIn(rest)
  BY <1>3
<1>. QED  BY <1>3, <1>4, <1>5, Zenon

\* A line about what is known, and others.
LEMMA AboutThen ==
    ASSUME NEW known, NEW s \in About(known),
           NEW rest \in Seq(Statement), Resolves(rest, known)
    PROVE  /\ Resolves(<<s>> \o rest, known) /\ <<s>> \o rest \in Seq(Statement)
           /\ DeclaredIn(rest) \subseteq DeclaredIn(<<s>> \o rest)
<1>1. <<s>> \in Seq(About(known)) /\ <<s>> \in Seq(Statement)
  BY DEF About
<1>2. PICK first \in Seq(Statement) : first = <<s>>
  BY <1>1
<1>3. Resolves(first, known)
  BY <1>1, <1>2, ResolvesEach
<1>4. Resolves(rest, known \cup DeclaredIn(first))
  BY ResolvesGrows
<1>5. Resolves(first \o rest, known) /\ DeclaredIn(rest) \subseteq DeclaredIn(first \o rest)
        /\ first \o rest \in Seq(Statement)
  BY <1>3, <1>4, ResolvesJoined, DeclaredJoined, Written
<1>. QED  BY <1>2, <1>5

LEMMA NothingResolves ==
    /\ <<>> \in Seq(Statement) /\ DeclaredIn(<<>>) = {}
    /\ \A known : Resolves(<<>>, known)
BY DEF DeclaredIn, Resolves

\* The variables that may be used.
Known == Globals \cup DeclaredIn(code)

\* A call that fills an object that is known, with nothing but what is known.
BoundCalls(known) ==
    {f \in Call : /\ f.prefix[1] \in known
                  /\ f.constraints \in Seq(About(known))
                  /\ Resolves(f.finish, known)}

\* What will be declared when the calls return.
Pending(fs) == {v \in Identifier : \E i \in DOMAIN fs : v \in DeclaredIn(fs[i].finish)}

ObjectDeclared ==
    /\ Resolves(code, Globals)
    /\ frames \in Seq(BoundCalls(Known))
    /\ teardown \in Seq(About(Known))

LEMMA PendingFront ==
    ASSUME NEW S, NEW fs \in Seq(S), NEW f \in S
    PROVE  Pending(<<f>> \o fs) = DeclaredIn(f.finish) \cup Pending(fs)
<1> DEFINE new == <<f>> \o fs
<1>1. /\ Len(new) = Len(fs) + 1 /\ new[1] = f
      /\ \A i \in DOMAIN fs : i + 1 \in DOMAIN new /\ new[i + 1] = fs[i]
      /\ \A i \in DOMAIN new : i = 1 \/ (i - 1 \in DOMAIN fs /\ new[i] = fs[i - 1])
      /\ 1 \in DOMAIN new
  OBVIOUS
<1>. HIDE DEF new
<1>2. Pending(new) \subseteq DeclaredIn(f.finish) \cup Pending(fs)
  BY <1>1 DEF Pending
<1>3. DeclaredIn(f.finish) \cup Pending(fs) \subseteq Pending(new)
  <2>1. DeclaredIn(f.finish) \subseteq Identifier
    BY DEF DeclaredIn
  <2>. QED  BY <1>1, <2>1 DEF Pending
<1>. QED  BY <1>2, <1>3 DEF new

LEMMA PendingFirst ==
    ASSUME NEW S, NEW fs \in Seq(S), fs # <<>>
    PROVE  Pending(fs) = DeclaredIn(Head(fs).finish) \cup Pending(Tail(fs))
<1>1. fs = <<Head(fs)>> \o Tail(fs) /\ Head(fs) \in S /\ Tail(fs) \in Seq(S)
  OBVIOUS
<1>. QED  BY <1>1, PendingFront

LEMMA BoundGrows ==
    ASSUME NEW known, NEW more, known \subseteq more
    PROVE  BoundCalls(known) \subseteq BoundCalls(more)
<1>1. Seq(About(known)) \subseteq Seq(About(more))
  BY AboutGrows
<1>2. \A lines : Resolves(lines, known) => Resolves(lines, more)
  BY ResolvesGrows
<1>. QED  BY <1>1, <1>2 DEF BoundCalls

\* The field that is done leaves the call bound, and what is pending as it was.
LEMMA FurtherBound ==
    ASSUME ObjectTypes, AtField, NEW known, frames \in Seq(BoundCalls(known)),
           NEW more, known \subseteq more,
           NEW constraints \in Seq(Statement), constraints \in Seq(About(more))
    PROVE  /\ Further(constraints) \in Seq(BoundCalls(more))
           /\ Pending(Further(constraints)) = Pending(frames)
<1>0. frames # <<>> /\ frames \in Seq(Calls)
  BY DEF AtField, ObjectTypes
<1>1. Top \in BoundCalls(known) /\ Tail(frames) \in Seq(BoundCalls(known))
  BY <1>0, WithoutFirst DEF Top
<1>2. Top \in BoundCalls(more) /\ Tail(frames) \in Seq(BoundCalls(more))
  BY <1>1, BoundGrows, SeqGrows
<1>3. PICK f \in Calls : f = Onward(constraints)
  BY FurtherForm
<1>4. /\ Further(constraints) = <<f>> \o Tail(frames)
      /\ f.constraints = Top.constraints \o constraints
      /\ f.prefix = Top.prefix /\ f.finish = Top.finish
  BY <1>3, FurtherForm
<1>5. f \in Call
  BY DEF Calls
<1>6. f.constraints \in Seq(About(more))
  BY <1>2, <1>4 DEF BoundCalls
<1>7. f \in BoundCalls(more)
  BY <1>2, <1>4, <1>5, <1>6 DEF BoundCalls
<1>8. Pending(<<f>> \o Tail(frames)) = DeclaredIn(f.finish) \cup Pending(Tail(frames))
  BY <1>2, <1>7, PendingFront
<1>9. Pending(frames) = DeclaredIn(Top.finish) \cup Pending(Tail(frames))
  BY <1>0, PendingFirst DEF Top
<1>10. <<f>> \o Tail(frames) \in Seq(BoundCalls(more))
  BY <1>2, <1>7, InFront
<1>. QED  BY <1>4, <1>8, <1>9, <1>10, Zenon

\* Lines that resolve are written.
LEMMA StepDeclared ==
    ASSUME code \in Seq(Statement), ObjectDeclared, NEW lines \in Seq(Statement), Resolves(lines, Known),
           code' = code \o lines, Globals' = Globals,
           frames' \in Seq(BoundCalls(Known \cup DeclaredIn(lines))),
           teardown' \in Seq(About(Known \cup DeclaredIn(lines)))
    PROVE  ObjectDeclared' /\ Known' = Known \cup DeclaredIn(lines)
<1>1. PICK known : known = Known
  OBVIOUS
<1>2. DeclaredIn(code') = DeclaredIn(code) \cup DeclaredIn(lines)
  BY DeclaredJoined
<1>3. Known' = Known \cup DeclaredIn(lines)
  BY <1>2 DEF Known
<1>4. Resolves(code, Globals) /\ Resolves(lines, Globals \cup DeclaredIn(code))
  BY DEF ObjectDeclared, Known
<1>5. PICK globals : globals = Globals
  OBVIOUS
<1>6. Resolves(code \o lines, globals)
  BY <1>4, <1>5, ResolvesJoined
<1>7. Resolves(code', Globals')
  BY <1>5, <1>6
<1>8. frames' \in Seq(BoundCalls(Known')) /\ teardown' \in Seq(About(Known'))
  BY <1>3
<1>. QED  BY <1>3, <1>7, <1>8, Zenon DEF ObjectDeclared

\* One line about what is known.
LEMMA OneAbout ==
    ASSUME NEW known, NEW s \in About(known)
    PROVE  <<s>> \in Seq(About(known)) /\ <<s>> \in Seq(Statement)
<1>1. s \in Statement
  BY DEF About
<1>. QED  BY <1>1

LEMMA FillDeclared ==
    ASSUME ObjectTypes, ObjectSaid, IndexedScalars, ObjectDeclared, FillStep, Globals' = Globals
    PROVE  ObjectDeclared' /\ Known \cup Pending(frames) \subseteq Known' \cup Pending(frames')
<1>0. UNCHANGED <<program, options, teardown>> /\ ObjectTypes' /\ ObjectSaid'
  BY FillForms, FillTypes, FillSaid
<1>k. PICK known : known = Known
  OBVIOUS
<1>t. /\ code \in Seq(Statement) /\ frames \in Seq(BoundCalls(known)) /\ teardown \in Seq(About(known))
      /\ frames \in Seq(Calls) /\ IsProgram(program)
  BY <1>k DEF ObjectTypes, ObjectDeclared
<1>n. /\ <<>> \in Seq(Statement) /\ <<>> \in Lvalue /\ \A k : <<>> \in Seq(About(k))
      /\ DeclaredIn(<<>>) = {} /\ \A k : Resolves(<<>>, k)
  BY LvalueForms, NothingResolves
<1>w. "target" \in Words /\ "items" \in Words /\ "bytes" \in Words
  BY DEF Words
<1>s. \A more : known \subseteq more => teardown' \in Seq(About(more))
  BY <1>0, <1>t, AboutGrows
<1>a. ASSUME AtField PROVE target \in Lvalue /\ target # <<>> /\ target[1] \in known
  <2>1. Top \in BoundCalls(known)
    BY <1>a, <1>t, WithoutFirst DEF AtField, Top
  <2>. QED  BY <1>a, <2>1, FieldAt DEF BoundCalls
<1>c. ASSUME AtField, field.name \in DOMAIN Top.pairs
      PROVE  CountedBy \in Lvalue /\ CountedBy # <<>> /\ CountedBy[1] \in known
  <2>1. Top \in BoundCalls(known)
    BY <1>c, <1>t, WithoutFirst DEF AtField, Top
  <2>2. Top.pairs[field.name] \in Identifier /\ Top.prefix \in Lvalue /\ Top.prefix # <<>>
    BY <1>c, <1>t, TopForm, PairingsForm DEF AtField
  <2>. QED  BY <2>1, <2>2, LvalueForms DEF CountedBy, BoundCalls
<1>1. CASE LeaveUnion
  <2>1. frames # <<>> /\ frames' = Tail(frames) /\ code' = code \o Top.finish
    BY <1>1 DEF LeaveUnion, Emit
  <2>2. Top \in BoundCalls(known) /\ frames' \in Seq(BoundCalls(known)) /\ Top.finish \in Seq(Statement)
    BY <1>t, <2>1, WithoutFirst, TopForm DEF Top
  <2>3. PICK finish \in Seq(Statement) : finish = Top.finish
    BY <2>2
  <2>4. Resolves(finish, known)
    BY <2>2, <2>3 DEF BoundCalls
  <2>5. PICK more : more = known \cup DeclaredIn(finish)
    OBVIOUS
  <2>6. frames' \in Seq(BoundCalls(more)) /\ teardown' \in Seq(About(more))
    BY <1>s, <2>2, <2>5, BoundGrows, SeqGrows
  <2>7. ObjectDeclared' /\ Known' = more
    BY <1>k, <1>t, <2>1, <2>3, <2>4, <2>5, <2>6, StepDeclared
  <2>8. Pending(frames) = DeclaredIn(finish) \cup Pending(frames')
    BY <1>t, <2>1, <2>3, PendingFirst DEF Top
  <2>. QED  BY <1>k, <2>5, <2>7, <2>8
<1>2. CASE FinishFields
  <2>1. PICK before \in Seq(LinesBefore) : \E after \in Seq(LinesAfter) :
           code' = code \o (before \o Top.constraints \o after \o Top.finish)
    BY <1>2, FinishForm
  <2>2. PICK after \in Seq(LinesAfter) :
           code' = code \o (before \o Top.constraints \o after \o Top.finish)
    BY <2>1
  <2>3. frames # <<>> /\ frames' = Tail(frames)
    BY <1>2, FinishForm
  <2>4. Top \in BoundCalls(known) /\ frames' \in Seq(BoundCalls(known)) /\ Top.finish \in Seq(Statement)
        /\ Top.constraints \in Seq(Statement) /\ Top.prefix \in Lvalue /\ Top.prefix # <<>>
        /\ Top.pairs \in Pairings(Top.type) /\ Top.type \in Structs
    BY <1>t, <2>3, WithoutFirst, TopForm DEF Top
  <2>5. Top.prefix[1] \in known /\ Top.constraints \in Seq(About(known)) /\ Resolves(Top.finish, known)
    BY <2>4 DEF BoundCalls
  <2>6. ASSUME NEW n \in Identifier
        PROVE  Append(Top.prefix, n) # <<>> /\ Append(Top.prefix, n)[1] \in known
    BY <2>4, <2>5, LvalueForms
  <2>7. LinesBefore \subseteq About(known)
    <3>. SUFFICES ASSUME NEW s \in LinesBefore PROVE s \in About(known)
      OBVIOUS
    <3>1. PICK n \in ToSet(struct.callbacks) : s = Library(Append(Top.prefix, n))
      BY DEF LinesBefore
    <3>2. n \in Identifier
      BY <2>3, TopForm DEF ToSet
    <3>3. s \in Statement /\ s.of = Append(Top.prefix, n) /\ s.to = <<>> /\ s.by = <<>>
      BY <3>1 DEF LinesBefore, Library, Stated
    <3>. QED  BY <2>6, <3>2, <3>3, AboutIf
  <2>8. LinesAfter \subseteq About(known)
    <3>. SUFFICES ASSUME NEW s \in LinesAfter PROVE s \in About(known)
      OBVIOUS
    <3>1. s \in Statement /\ s.by = <<>>
      BY DEF LinesAfter
    <3>2. CASE /\ \E n \in Identifier : s.of = Append(Top.prefix, n)
               /\ s.to = <<>> \/ \E n \in Identifier : s.to = Append(Top.prefix, n)
      BY <2>6, <3>1, <3>2, AboutIf
    <3>3. CASE \E x, y \in DOMAIN Top.pairs :
                     /\ <<x, y>> \in struct.indexing
                     /\ s.of = <<Storage(Append(Top.prefix, x), "items")>>
                     /\ s.to = Append(Top.prefix, Top.pairs[y])
      <4>1. PICK x \in DOMAIN Top.pairs, y \in DOMAIN Top.pairs :
                     /\ <<x, y>> \in struct.indexing
                     /\ s.of = <<Storage(Append(Top.prefix, x), "items")>>
                     /\ s.to = Append(Top.prefix, Top.pairs[y])
        BY <3>3
      <4>2. Top.pairs[y] \in Identifier
        BY <1>t, <2>4, PairingsForm
      <4>3. Top.next > Len(struct.fields) /\ Top.next \in Nat /\ struct.fields \in Seq(Field)
            /\ Top \in Owing
        BY <1>2, <2>3, TopForm, WithoutFirst DEF FinishFields, ObjectSaid, Top
      <4>4. PICK i \in DOMAIN program.structs[Top.type].fields :
               program.structs[Top.type].fields[i].name = x
        BY <1>t, <2>4, PairingsForm
      <4>5. i \in DOMAIN struct.fields /\ struct.fields[i].name = x
        BY <4>4 DEF struct
      <4>6. struct.fields[i].of \in Scalars \cup {"pointer"}
        BY <2>4, <4>1, <4>5 DEF IndexedScalars, struct
      <4>7. i \in 1 .. Top.next - 1
        BY <4>3, <4>5
      <4>8. PICK l : l = Append(Top.prefix, x)
        OBVIOUS
      <4>9. PlacedAt(l)
        BY <4>1, <4>3, <4>5, <4>6, <4>7, <4>8 DEF Owing, Placed, FieldsOf, struct
      <4>10. PICK storage : storage = Storage(l, "items")
        OBVIOUS
      <4>11. PICK j \in DOMAIN code : code[j].to = <<storage>>
        BY <4>9, <4>10, Zenon DEF PlacedAt
      <4>12. code[j] \in Statement /\ code[j].to # <<>> /\ code[j].to[1] = storage
        BY <1>t, <4>11
      <4>13. storage \in Variables(code[j]) /\ storage \in Identifier
        BY <4>12, VariablesForm
      <4>14. storage \in Known
        <5>1. j \in 1 .. Len(code) /\ DOMAIN code = 1 .. Len(code) /\ Len(code) \in Nat
          BY <1>t
        <5>2. CASE storage \in Globals
          BY <5>2 DEF Known
        <5>3. CASE storage \notin Globals
          <6>1. PICK k \in 1 .. j : code[k].op = "declare" /\ code[k].of = <<storage>>
            BY <4>13, <5>3 DEF ObjectDeclared, Resolves
          <6>2. k \in DOMAIN code
            BY <5>1
          <6>. QED  BY <4>13, <6>1, <6>2 DEF Known, DeclaredIn
        <5>. QED  BY <5>2, <5>3
      <4>15. s.of = <<storage>>
        BY <4>1, <4>8, <4>10, Zenon
      <4>16. s.of[1] \in known /\ s.to[1] \in known
        BY <1>k, <2>6, <4>1, <4>2, <4>14, <4>15
      <4>. QED  BY <3>1, <4>16, AboutIf
    <3>. QED  BY <3>2, <3>3 DEF LinesAfter
  <2>9. before \in Seq(About(known)) /\ after \in Seq(About(known))
    BY <2>7, <2>8, SeqGrows
  <2>10. PICK finish \in Seq(Statement) : finish = Top.finish
    BY <2>4
  <2>11. PICK first : first = before \o Top.constraints \o after
    OBVIOUS
  <2>12. first \in Seq(About(known))
    BY <2>5, <2>9, <2>11
  <2>13. first \in Seq(Statement)
    <3>1. About(known) \subseteq Statement
      BY DEF About
    <3>. QED  BY <2>12, <3>1, SeqGrows
  <2>14. Resolves(first, known)
    BY <2>12, ResolvesEach
  <2>15. Resolves(finish, known \cup DeclaredIn(first))
    BY <2>5, <2>10, ResolvesGrows
  <2>16. PICK lines \in Seq(Statement) : lines = first \o finish
    BY <2>13, Written
  <2>17. Resolves(lines, known) /\ DeclaredIn(lines) = DeclaredIn(first) \cup DeclaredIn(finish)
    BY <2>13, <2>14, <2>15, <2>16, ResolvesJoined, DeclaredJoined
  <2>18. code' = code \o lines
    BY <2>2, <2>10, <2>11, <2>16
  <2>19. PICK more : more = known \cup DeclaredIn(lines)
    OBVIOUS
  <2>20. frames' \in Seq(BoundCalls(more)) /\ teardown' \in Seq(About(more))
    BY <1>s, <2>4, <2>19, BoundGrows, SeqGrows
  <2>21. ObjectDeclared' /\ Known' = more
    BY <1>k, <1>t, <2>17, <2>18, <2>19, <2>20, StepDeclared
  <2>22. Pending(frames) = DeclaredIn(finish) \cup Pending(frames')
    BY <1>t, <2>3, <2>10, PendingFirst DEF Top
  <2>. QED  BY <1>k, <2>17, <2>19, <2>21, <2>22
<1>3. CASE FillOne
  <2>1. AtField /\ frames' = Further(<<>>)
    BY <1>3 DEF FillOne
  <2>2. target \in Lvalue /\ target # <<>> /\ target[1] \in known
    BY <1>a, <2>1
  <2>3. \A s \in {Nondet(target), Null(target, <<>>), Library(target)} : s \in About(known) /\ s \in Statement
    <3>1. Nondet(target) \in Statement /\ Null(target, <<>>) \in Statement /\ Library(target) \in Statement
      BY <1>n, <2>2, StatementForms
    <3>2. /\ Nondet(target).of = target /\ Null(target, <<>>).of = target /\ Library(target).of = target
          /\ Nondet(target).to = <<>> /\ Null(target, <<>>).to = <<>> /\ Library(target).to = <<>>
          /\ Nondet(target).by = <<>> /\ Null(target, <<>>).by = <<>> /\ Library(target).by = <<>>
      BY DEF Nondet, Null, Library, Stated
    <3>3. Nondet(target) \in About(known) /\ Null(target, <<>>) \in About(known) /\ Library(target) \in About(known)
      BY <2>2, <3>1, <3>2, AboutIf
    <3>. QED  BY <3>1, <3>3, Zenon
  <2>4. PICK lines \in Seq(Statement) : code' = code \o lines /\ lines \in Seq(About(known))
    <3>1. CASE code' = code
      <4>1. code' = code \o <<>>
        BY <1>t, <3>1
      <4>. QED  BY <1>n, <4>1
    <3>2. CASE code' # code
      <4>1. PICK s \in {Nondet(target), Null(target, <<>>), Library(target)} : code' = code \o <<s>>
        BY <1>3, <3>2 DEF FillOne
      <4>2. s \in About(known) /\ s \in Statement
        BY <2>3
      <4>3. <<s>> \in Seq(About(known)) /\ <<s>> \in Seq(Statement)
        BY <4>2
      <4>. QED  BY <4>1, <4>3
    <3>. QED  BY <3>1, <3>2
  <2>5. Resolves(lines, known)
    BY <2>4, ResolvesEach
  <2>6. PICK more : more = known \cup DeclaredIn(lines)
    OBVIOUS
  <2>7. PICK none : none = <<>>
    OBVIOUS
  <2>8. frames' \in Seq(BoundCalls(more)) /\ Pending(frames') = Pending(frames)
    BY <1>n, <1>t, <2>1, <2>6, <2>7, FurtherBound
  <2>9. ObjectDeclared' /\ Known' = more
    BY <1>k, <1>s, <1>t, <2>4, <2>5, <2>6, <2>8, StepDeclared
  <2>. QED  BY <1>k, <2>6, <2>8, <2>9
<1>4. CASE FillStored \/ FillBuffer
  <2>1. AtField
    BY <1>4 DEF FillStored, FillBuffer
  <2>2. PICK storage \in Identifier, n \in Nat, by \in Lvalue, constraints \in Seq(Statement) :
           /\ code' = code \o <<Declare(storage, n), Point(target, storage, by)>>
           /\ by = <<>> \/ by[1] \in known
           /\ constraints \in Seq(About(known))
           /\ frames' = Further(constraints)
    <3>1. CASE FillStored
      <4>1. PICK n \in Nat, storage \in {Storage(target, "target")} :
              code' = code \o <<Declare(storage, n), Point(target, storage, <<>>)>>
        BY <3>1 DEF FillStored
      <4>2. storage \in Identifier /\ frames' = Further(<<>>)
        <5>1. Storage(target, "target") \in Identifier
          BY <1>w, <2>1, FieldAt
        <5>. QED  BY <3>1, <5>1 DEF FillStored
      <4>. QED  BY <1>n, <4>1, <4>2
    <3>2. CASE FillBuffer
      <4>1. field.name \in DOMAIN Top.pairs /\ frames' = Further(<<Assume(CountedBy, MaxArrayLen)>>)
        BY <3>2 DEF FillBuffer
      <4>2. PICK word \in {"items", "bytes"} :
                code' = code \o <<Declare(Storage(target, word), MaxArrayLen),
                                  Point(target, Storage(target, word), CountedBy)>>
        BY <3>2 DEF FillBuffer
      <4>3. CountedBy \in Lvalue /\ CountedBy # <<>> /\ CountedBy[1] \in known
        BY <1>c, <2>1, <4>1
      <4>4. PICK storage \in Identifier : storage = Storage(target, word)
        BY <1>w, <2>1, FieldAt
      <4>5. PICK a \in Statement : a = Assume(CountedBy, MaxArrayLen)
        BY <4>3, StatementForms, ObjectBoundsAssumption
      <4>6. a \in About(known)
        <5>1. a.of = CountedBy /\ a.to = <<>> /\ a.by = <<>>
          BY <4>5 DEF Assume, Stated
        <5>. QED  BY <4>3, <5>1, AboutIf
      <4>7. <<a>> \in Seq(About(known)) /\ <<a>> \in Seq(Statement)
        BY <4>6
      <4>. QED  BY <4>1, <4>2, <4>3, <4>4, <4>5, <4>7, ObjectBoundsAssumption
    <3>. QED  BY <1>4, <3>1, <3>2
  <2>3. target \in Lvalue /\ target # <<>> /\ target[1] \in known
    BY <1>a, <2>1
  <2>4. PICK p \in Statement : p = Point(target, storage, by)
    BY <2>3, StatementForms
  <2>5. PICK more : more = known \cup {storage}
    OBVIOUS
  <2>6. p \in About(more)
    <3>1. p.of = target /\ p.to = <<storage>> /\ p.by = by
      BY <2>4 DEF Point, Stated
    <3>2. p.to[1] = storage
      BY <3>1
    <3>. QED  BY <2>2, <2>3, <2>5, <3>1, <3>2, AboutIf
  <2>7. PICK rest \in Seq(Statement) : rest = <<p>> /\ rest \in Seq(About(more))
    BY <2>6, OneAbout, Zenon
  <2>8. Resolves(rest, more)
    BY <2>7, ResolvesEach
  <2>9. PICK lines : lines = <<Declare(storage, n)>> \o rest
    OBVIOUS
  <2>10. /\ Resolves(lines, known) /\ lines \in Seq(Statement)
         /\ DeclaredIn(lines) = {storage} \cup DeclaredIn(rest)
    <3>1. storage \in Identifier /\ n \in Nat /\ more = known \cup {storage}
      BY <2>5
    <3>2. PICK d : d = Declare(storage, n)
      OBVIOUS
    <3>3. lines = Before(d, rest) /\ Declares(d, storage)
      BY <2>9, <3>1, <3>2, Zenon DEF Before, Declares
    <3>. QED  BY <2>8, <3>1, <3>3, DeclareThen
  <2>11. code' = code \o lines
    BY <2>2, <2>4, <2>7, <2>9, DeclareForm
  <2>12. PICK all : all = known \cup DeclaredIn(lines)
    OBVIOUS
  <2>13. constraints \in Seq(About(all))
    BY <2>2, <2>12, AboutGrows
  <2>14. frames' \in Seq(BoundCalls(all)) /\ Pending(frames') = Pending(frames)
    BY <1>t, <2>1, <2>2, <2>12, <2>13, FurtherBound
  <2>15. ObjectDeclared' /\ Known' = all
    BY <1>k, <1>s, <1>t, <2>10, <2>11, <2>12, <2>14, StepDeclared
  <2>. QED  BY <1>k, <2>12, <2>14, <2>15
<1>5. CASE FillNoBuffer
  <2>1. /\ AtField /\ field.name \in DOMAIN Top.pairs
        /\ frames' = Further(<<Assume(CountedBy, 0)>>) /\ code' = code \o <<Null(target, CountedBy)>>
    BY <1>5 DEF FillNoBuffer
  <2>2. target \in Lvalue /\ target # <<>> /\ target[1] \in known
        /\ CountedBy \in Lvalue /\ CountedBy # <<>> /\ CountedBy[1] \in known
    BY <1>a, <1>c, <2>1
  <2>3. PICK z \in Statement : z = Null(target, CountedBy)
    BY <2>2, StatementForms
  <2>4. PICK zero \in Nat : zero = 0
    OBVIOUS
  <2>5. PICK a \in Statement : a = Assume(CountedBy, zero)
    BY <2>2, StatementForms
  <2>6. /\ z.of = target /\ z.to = <<>> /\ z.by = CountedBy
        /\ a.of = CountedBy /\ a.to = <<>> /\ a.by = <<>>
    BY <2>3, <2>5 DEF Null, Assume, Stated
  <2>7. z \in About(known) /\ a \in About(known)
    BY <2>2, <2>6, AboutIf
  <2>8. PICK lines \in Seq(Statement) : lines = <<z>> /\ lines \in Seq(About(known))
    BY <2>7, OneAbout, Zenon
  <2>9. PICK constraints \in Seq(Statement) : constraints = <<a>> /\ constraints \in Seq(About(known))
    BY <2>7, OneAbout, Zenon
  <2>10. Resolves(lines, known)
    BY <2>8, ResolvesEach
  <2>11. PICK all : all = known \cup DeclaredIn(lines)
    OBVIOUS
  <2>12. constraints \in Seq(About(all))
    BY <2>9, <2>11, AboutGrows
  <2>13. code' = code \o lines /\ frames' = Further(constraints)
    BY <2>1, <2>3, <2>4, <2>5, <2>8, <2>9
  <2>14. frames' \in Seq(BoundCalls(all)) /\ Pending(frames') = Pending(frames)
    BY <1>t, <2>1, <2>11, <2>12, <2>13, FurtherBound
  <2>15. ObjectDeclared' /\ Known' = all
    BY <1>k, <1>s, <1>t, <2>8, <2>10, <2>11, <2>13, <2>14, StepDeclared
  <2>. QED  BY <1>k, <2>11, <2>14, <2>15
<1>6. CASE FillFollowed
  <2>1. AtField
    BY <1>6 DEF FillFollowed
  <2>2. PICK f \in Calls, storage \in Identifier :
              /\ code' = code \o <<Declare(storage, 1)>>
              /\ frames' = <<f>> \o Further(<<>>)
              /\ Fresh(f, f.type, <<storage>>, <<Point(target, storage, <<>>)>>)
    BY <1>6, FollowedForm
  <2>3. target \in Lvalue /\ target # <<>> /\ target[1] \in known
    BY <1>a, <2>1
  <2>4. PICK one \in Nat : one = 1
    OBVIOUS
  <2>5. PICK lines \in Seq(Statement) : lines = <<Declare(storage, one)>>
    BY DeclareForm
  <2>6. Resolves(lines, known) /\ DeclaredIn(lines) = {storage}
    BY <2>5, DeclareForm
  <2>7. PICK all : all = known \cup DeclaredIn(lines)
    OBVIOUS
  <2>8. PICK p \in Statement : p = Point(target, storage, <<>>)
    BY <1>n, <2>3, StatementForms
  <2>9. p \in About(all)
    <3>1. p.of = target /\ p.to = <<storage>> /\ p.by = <<>>
      BY <2>8 DEF Point, Stated
    <3>2. p.to[1] = storage
      BY <3>1
    <3>. QED  BY <2>3, <2>6, <2>7, <3>1, <3>2, AboutIf
  <2>10. PICK finish \in Seq(About(all)) : finish = <<p>>
    BY <2>9, OneAbout, Zenon
  <2>11. Resolves(finish, all)
    BY ResolvesEach
  <2>12. f.prefix = <<storage>> /\ f.constraints = <<>> /\ f.finish = finish
    BY <2>2, <2>8, <2>10 DEF Fresh
  <2>13. f \in BoundCalls(all)
    <3>1. f.prefix[1] = storage
      BY <2>12
    <3>. QED  BY <1>n, <2>6, <2>7, <2>11, <2>12, <3>1 DEF BoundCalls, Calls
  <2>14. PICK none : none = <<>>
    OBVIOUS
  <2>15. Further(none) \in Seq(BoundCalls(all)) /\ Pending(Further(none)) = Pending(frames)
    BY <1>n, <1>t, <2>1, <2>7, <2>14, FurtherBound
  <2>16. frames' = <<f>> \o Further(none) /\ code' = code \o lines
    BY <2>2, <2>4, <2>5, <2>14
  <2>17. frames' \in Seq(BoundCalls(all)) /\ Pending(frames) \subseteq Pending(frames')
    BY <2>13, <2>15, <2>16, InFront, PendingFront
  <2>18. ObjectDeclared' /\ Known' = all
    BY <1>k, <1>s, <1>t, <2>6, <2>7, <2>16, <2>17, StepDeclared
  <2>. QED  BY <1>k, <2>7, <2>17, <2>18
<1>7. CASE FillWithin
  <2>1. AtField /\ code' = code
    BY <1>7 DEF FillWithin
  <2>2. PICK f \in Calls : frames' = <<f>> \o Further(<<>>) /\ Fresh(f, f.type, target, <<>>)
    BY <1>7, WithinForm
  <2>3. target \in Lvalue /\ target # <<>> /\ target[1] \in known
    BY <1>a, <2>1
  <2>4. PICK lines \in Seq(Statement) : lines = <<>>
    BY <1>n
  <2>5. code' = code \o lines /\ Resolves(lines, known) /\ known \cup DeclaredIn(lines) = known
    BY <1>n, <1>t, <2>1, <2>4
  <2>6. f.prefix = target /\ f.constraints = <<>> /\ f.finish = <<>>
    BY <2>2 DEF Fresh
  <2>7. f \in BoundCalls(known)
    BY <1>n, <2>3, <2>6 DEF BoundCalls, Calls
  <2>8. PICK none : none = <<>>
    OBVIOUS
  <2>9. Further(none) \in Seq(BoundCalls(known)) /\ Pending(Further(none)) = Pending(frames)
    BY <1>n, <1>t, <2>1, <2>8, FurtherBound
  <2>10. frames' \in Seq(BoundCalls(known)) /\ Pending(frames) \subseteq Pending(frames')
    BY <2>2, <2>7, <2>8, <2>9, InFront, PendingFront
  <2>11. ObjectDeclared' /\ Known' = known
    BY <1>k, <1>s, <1>t, <2>5, <2>10, StepDeclared
  <2>. QED  BY <1>k, <2>10, <2>11
<1>. QED  BY <1>1, <1>2, <1>3, <1>4, <1>5, <1>6, <1>7, FillForms

\* Lines about what is known and what they declare, some of it new.
Introduces(lines, known, new) ==
    lines \in Seq(Statement) /\ Resolves(lines, known) /\ new \subseteq DeclaredIn(lines)

\* Lines and more lines, about what the first declare too.
LEMMA IntroducesJoined ==
    ASSUME NEW a, NEW b, NEW known, NEW new, NEW more,
           Introduces(a, known, new), Introduces(b, known \cup new, more)
    PROVE  Introduces(a \o b, known, new \cup more)
<1>1. /\ a \in Seq(Statement) /\ b \in Seq(Statement)
      /\ Resolves(a, known) /\ new \subseteq DeclaredIn(a) /\ more \subseteq DeclaredIn(b)
      /\ Resolves(b, known \cup new)
  BY DEF Introduces
<1>2. PICK wider : wider = known \cup DeclaredIn(a)
  OBVIOUS
<1>3. PICK narrow : narrow = known \cup new
  OBVIOUS
<1>4. Resolves(b, wider)
  BY <1>1, <1>2, <1>3, ResolvesGrows
<1>5. Resolves(a \o b, known) /\ DeclaredIn(a \o b) = DeclaredIn(a) \cup DeclaredIn(b)
  BY <1>1, <1>2, <1>4, ResolvesJoined, DeclaredJoined
<1>6. a \o b \in Seq(Statement)
  BY <1>1, Written
<1>. QED  BY <1>1, <1>5, <1>6 DEF Introduces

\* Lines apart.
LEMMA LinesApart ==
    ASSUME NEW a \in Statement, NEW b \in Statement, NEW c \in Statement, NEW d \in Statement
    PROVE  <<a, b, c>> = <<a, b>> \o <<c>> /\ <<a, b, c, d>> = <<a, b>> \o <<c, d>>
OBVIOUS

LEMMA DeclareIntroduces ==
    ASSUME NEW v \in Identifier, NEW d, Declares(d, v),
           NEW known, NEW more, more = known \cup {v},
           NEW rest \in Seq(Statement), Resolves(rest, more)
    PROVE  Introduces(Before(d, rest), known, {v})
<1>1. Resolves(Before(d, rest), known) /\ Before(d, rest) \in Seq(Statement)
  BY DeclareThen
<1>2. v \in DeclaredIn(Before(d, rest))
  BY DeclareThen
<1>. QED  BY <1>1, <1>2 DEF Introduces

\* A declaration and a line about what it declares.
LEMMA IntroducesPair ==
    ASSUME NEW v \in Identifier, NEW n \in Nat, NEW known, NEW more, more = known \cup {v},
           NEW s \in About(more)
    PROVE  Introduces(<<Declare(v, n), s>>, known, {v})
<1>3. PICK rest \in Seq(Statement) : rest = <<s>> /\ rest \in Seq(About(more))
  BY OneAbout, Zenon
<1>4. Resolves(rest, more) /\ s \in Statement
  BY <1>3, ResolvesEach DEF About
<1>5. PICK d : d = Declare(v, n)
  OBVIOUS
<1>6. Declares(d, v)
  BY <1>5, Zenon DEF Declares
<1>7. Introduces(Before(d, rest), known, {v})
  BY <1>4, <1>6, DeclareIntroduces
<1>8. <<Declare(v, n), s>> = <<Declare(v, n)>> \o <<s>>
  BY <1>4, DeclareForm
<1>9. Before(d, rest) = <<Declare(v, n), s>>
  BY <1>3, <1>5, <1>8, Zenon DEF Before
<1>. QED  BY <1>7, <1>9, Zenon

LEMMA IntroducesOne ==
    ASSUME NEW known, NEW s \in About(known)
    PROVE  Introduces(<<s>>, known, {})
<1>1. PICK lines : lines = <<s>>
  OBVIOUS
<1>2. lines \in Seq(About(known)) /\ lines \in Seq(Statement)
  BY <1>1, OneAbout, Zenon
<1>3. Resolves(lines, known)
  BY <1>2, ResolvesEach
<1>4. Introduces(lines, known, {})
  BY <1>2, <1>3 DEF Introduces
<1>. QED  BY <1>1, <1>4

\* What a variable is given, is about it.
LEMMA VariableLines ==
    ASSUME NEW v \in Identifier, NEW x \in Identifier, NEW y \in Identifier,
           NEW known, v \in known, x \in known, y \in known
    PROVE  /\ Nondet(<<v>>) \in About(known) /\ Library(<<v>>) \in About(known)
           /\ Point(<<v>>, x, <<>>) \in About(known) /\ Point(<<v>>, x, <<y>>) \in About(known)
           /\ Assume(<<v>>, MaxArrayLen) \in About(known)
           /\ \A op \in Conditions : Stated(op, <<v>>, <<>>, <<>>, 0) \in About(known)
           /\ Stated("text", <<x>>, <<>>, <<v>>, 0) \in About(known)
<1>1. /\ <<v>> \in Lvalue /\ <<x>> \in Lvalue /\ <<y>> \in Lvalue /\ <<>> \in Lvalue
      /\ <<v>>[1] = v /\ <<x>>[1] = x /\ <<y>>[1] = y
  BY LvalueForms
<1>2. PICK a \in Statement : a = Nondet(<<v>>)
  BY <1>1, StatementForms
<1>3. PICK b \in Statement : b = Library(<<v>>)
  BY <1>1, StatementForms
<1>4. PICK c \in Statement : c = Point(<<v>>, x, <<>>)
  BY <1>1, StatementForms
<1>5. PICK d \in Statement : d = Point(<<v>>, x, <<y>>)
  BY <1>1, StatementForms
<1>6. PICK e \in Statement : e = Assume(<<v>>, MaxArrayLen)
  BY LineForms
<1>7. ASSUME NEW op \in Conditions PROVE Stated(op, <<v>>, <<>>, <<>>, 0) \in About(known)
  <2>1. PICK s \in Statement : s = Stated(op, <<v>>, <<>>, <<>>, 0)
    BY <1>1, StatementForms, Zenon
  <2>2. s.of = <<v>> /\ s.to = <<>> /\ s.by = <<>>
    BY <2>1 DEF Stated
  <2>3. s \in About(known)
    BY <1>1, <2>2, AboutIf
  <2>. QED  BY <2>1, <2>3
<1>8. PICK t \in Statement : t = Stated("text", <<x>>, <<>>, <<v>>, 0)
  BY LineForms, Zenon
<1>9. /\ a.of = <<v>> /\ a.to = <<>> /\ a.by = <<>>
      /\ b.of = <<v>> /\ b.to = <<>> /\ b.by = <<>>
      /\ c.of = <<v>> /\ c.to = <<x>> /\ c.by = <<>>
      /\ d.of = <<v>> /\ d.to = <<x>> /\ d.by = <<y>>
      /\ e.of = <<v>> /\ e.to = <<>> /\ e.by = <<>>
      /\ t.of = <<x>> /\ t.to = <<>> /\ t.by = <<v>>
  BY <1>2, <1>3, <1>4, <1>5, <1>6, <1>8 DEF Nondet, Library, Point, Assume, Stated
<1>10. a \in About(known) /\ b \in About(known) /\ c \in About(known)
  BY <1>1, <1>9, AboutIf
<1>11. d \in About(known) /\ e \in About(known) /\ t \in About(known)
  BY <1>1, <1>9, AboutIf
<1>. QED  BY <1>2, <1>3, <1>4, <1>5, <1>6, <1>7, <1>8, <1>10, <1>11, Zenon

\* A variable with a value, an object of the library's, a pointer to what is known.
LEMMA VariableMade ==
    ASSUME NEW v \in Identifier, NEW known
    PROVE  /\ \A n \in Nat : Introduces(<<Declare(v, n), Nondet(<<v>>)>>, known, {v})
           /\ Introduces(<<Declare(v, 1), Library(<<v>>)>>, known, {v})
           /\ \A x \in Identifier : x \in known =>
                 Introduces(<<Declare(v, 1), Point(<<v>>, x, <<>>)>>, known, {v})
           /\ \A x, y \in Identifier : x \in known /\ y \in known =>
                 Introduces(<<Declare(v, 1), Point(<<v>>, x, <<y>>)>>, known, {v})
           /\ Introduces(Made(v), known, {v})
<1>m. PICK one \in Nat : one = 1
  OBVIOUS
<1>k. PICK more : more = known \cup {v}
  OBVIOUS
<1>1. Nondet(<<v>>) \in About(more) /\ Library(<<v>>) \in About(more)
  BY <1>k, VariableLines
<1>2. \A n \in Nat : Introduces(<<Declare(v, n), Nondet(<<v>>)>>, known, {v})
  BY <1>1, <1>k, IntroducesPair
<1>3. Introduces(<<Declare(v, one), Library(<<v>>)>>, known, {v})
  BY <1>1, <1>k, IntroducesPair
<1>4. ASSUME NEW x \in Identifier, x \in known
      PROVE  Introduces(<<Declare(v, one), Point(<<v>>, x, <<>>)>>, known, {v})
  <2>1. Point(<<v>>, x, <<>>) \in About(more)
    BY <1>4, <1>k, VariableLines
  <2>. QED  BY <1>k, <2>1, IntroducesPair
<1>5. ASSUME NEW x \in Identifier, NEW y \in Identifier, x \in known, y \in known
      PROVE  Introduces(<<Declare(v, one), Point(<<v>>, x, <<y>>)>>, known, {v})
  <2>1. Point(<<v>>, x, <<y>>) \in About(more)
    BY <1>5, <1>k, VariableLines
  <2>. QED  BY <1>k, <2>1, IntroducesPair
<1>6. Introduces(Made(v), known, {v})
  <2>1. PICK s : s = Stated("nonnull", <<v>>, <<>>, <<>>, 0)
    OBVIOUS
  <2>2. "nonnull" \in Conditions
    BY DEF Conditions
  <2>3. s \in About(more)
    BY <1>k, <2>1, <2>2, VariableLines, Zenon
  <2>4. Introduces(<<s>>, more, {})
    BY <2>3, IntroducesOne
  <2>5. PICK none : none = {}
    OBVIOUS
  <2>6. PICK first : first = <<Declare(v, one), Library(<<v>>)>>
    OBVIOUS
  <2>7. PICK own : own = {v}
    OBVIOUS
  <2>8. Introduces(first \o <<s>>, known, own \cup none)
    BY <1>3, <1>k, <2>4, <2>5, <2>6, <2>7, IntroducesJoined
  <2>9. first \o <<s>> = <<Declare(v, one), Library(<<v>>), s>>
    <3>0. PICK d \in Statement : d = Declare(v, one)
      BY StatementForms
    <3>1. PICK b \in Statement : b = Library(<<v>>)
      BY LvalueForms, StatementForms
    <3>3. s \in Statement
      BY <2>3 DEF About
    <3>2. <<d, b>> \o <<s>> = <<d, b, s>>
      BY <3>3, LinesApart, Zenon
    <3>. QED  BY <2>6, <3>0, <3>1, <3>2, Zenon
  <2>10. own \cup none = {v}
    BY <2>5, <2>7
  <2>11. Made(v) = first \o <<s>>
    BY <1>m, <2>1, <2>9 DEF Made
  <2>. QED  BY <2>8, <2>10, <2>11
<1>7. Introduces(<<Declare(v, 1), Library(<<v>>)>>, known, {v})
  BY <1>m, <1>3
<1>8. \A x \in Identifier : x \in known => Introduces(<<Declare(v, 1), Point(<<v>>, x, <<>>)>>, known, {v})
  BY <1>m, <1>4
<1>9. \A x, y \in Identifier : x \in known /\ y \in known =>
         Introduces(<<Declare(v, 1), Point(<<v>>, x, <<y>>)>>, known, {v})
  BY <1>m, <1>5
<1>. QED  BY <1>2, <1>6, <1>7, <1>8, <1>9, Zenon

LEMMA IntroducesThen ==
    ASSUME NEW a, NEW b, NEW known, NEW new, NEW more, NEW wider, NEW all,
           Introduces(a, known, new), wider = known \cup new, Introduces(b, wider, more),
           all \subseteq new \cup more
    PROVE  Introduces(a \o b, known, all)
<1>1. Introduces(a \o b, known, new \cup more)
  BY IntroducesJoined
<1>2. PICK lines : lines = a \o b
  OBVIOUS
<1>. QED  BY <1>1, <1>2 DEF Introduces

\* What a pointer parameter points to, and the pointer.
LEMMA PointToIntroduces ==
    ASSUME NEW v \in Identifier, NEW word \in Words, NEW n \in Nat, NEW known
    PROVE  Introduces(PointTo(v, word, n), known, {v})
<1>1. PICK storage \in Identifier : storage = Append(v, word)
  BY LvalueForms
<1>2. PICK wider : wider = known \cup {storage}
  OBVIOUS
<1>3. Introduces(<<Declare(storage, n), Nondet(<<storage>>)>>, known, {storage})
  BY VariableMade
<1>4. Introduces(<<Declare(v, 1), Point(<<v>>, storage, <<>>)>>, wider, {v})
  BY <1>2, VariableMade
<1>5. PICK first : first = <<Declare(storage, n), Nondet(<<storage>>)>>
  OBVIOUS
<1>6. PICK second : second = <<Declare(v, 1), Point(<<v>>, storage, <<>>)>>
  OBVIOUS
<1>7. PICK new : new = {storage}
  OBVIOUS
<1>8. PICK more : more = {v}
  OBVIOUS
<1>9. Introduces(first \o second, known, more)
  <2>1. Introduces(first, known, new) /\ Introduces(second, wider, more)
    BY <1>3, <1>4, <1>5, <1>6, <1>7, <1>8
  <2>2. wider = known \cup new /\ more \subseteq new \cup more
    BY <1>2, <1>7
  <2>. QED  BY <2>1, <2>2, IntroducesThen
<1>10. PointTo(v, word, n) = first \o second
  <2>1. PICK p \in Statement, q \in Statement, r \in Statement, s \in Statement :
           /\ p = Declare(storage, n) /\ q = Nondet(<<storage>>)
           /\ r = Declare(v, 1) /\ s = Point(<<v>>, storage, <<>>)
    BY LineForms
  <2>2. <<p, q, r, s>> = <<p, q>> \o <<r, s>>
    BY LinesApart, SMTT(30)
  <2>3. first = <<p, q>> /\ second = <<r, s>>
    BY <1>5, <1>6, <2>1, Zenon
  <2>4. PointTo(v, word, n) = <<p, q, r, s>>
    BY <1>1, <2>1, Zenon DEF PointTo
  <2>. QED  BY <2>2, <2>3, <2>4, Zenon
<1>. QED  BY <1>8, <1>9, <1>10, Zenon

\* The variable asked for, and what is to follow.
LEMMA DeliverIntroduces ==
    ASSUME NEW request, request.as \in Identifier, NEW storage \in Identifier, NEW known, storage \in known,
           NEW more, Introduces(request.finish, known \cup {request.as}, more)
    PROVE  Introduces(Deliver(request, storage), known, {request.as} \cup more)
<1>1. PICK v \in Identifier : v = request.as
  OBVIOUS
<1>2. PICK first : first = <<Declare(v, 1), Point(<<v>>, storage, <<>>)>>
  OBVIOUS
<1>3. PICK new : new = {v}
  OBVIOUS
<1>4. Introduces(first, known, new)
  BY <1>2, <1>3, VariableMade
<1>5. PICK wider : wider = known \cup new
  OBVIOUS
<1>6. PICK finish : finish = request.finish
  OBVIOUS
<1>7. Introduces(finish, wider, more)
  BY <1>1, <1>3, <1>5, <1>6
<1>8. PICK all : all = new \cup more
  OBVIOUS
<1>9. Introduces(first \o finish, known, all)
  BY <1>4, <1>5, <1>7, <1>8, IntroducesThen
<1>10. Deliver(request, storage) = first \o finish
  BY <1>1, <1>2, <1>6, Zenon DEF Deliver
<1>11. all = {request.as} \cup more
  BY <1>1, <1>3, <1>8
<1>. QED  BY <1>9, <1>10, <1>11, Zenon

\* Both ends of a buffer.
LEMMA CursorIntroduces ==
    ASSUME NEW v \in Identifier, NEW w \in Identifier, NEW storage \in Identifier, NEW holder \in Identifier,
           NEW known
    PROVE  Introduces(CursorLines(v, w, storage, holder), known, {v, w})
<1>0. MaxArrayLen \in Nat
  BY ObjectBoundsAssumption
<1>1. PICK a : a = <<Declare(storage, MaxArrayLen), Nondet(<<storage>>)>>
  OBVIOUS
<1>2. PICK b : b = <<Declare(w, 1), Point(<<w>>, storage, <<>>)>>
  OBVIOUS
<1>3. PICK c : c = <<Declare(holder, 1), Point(<<holder>>, storage, <<>>)>>
  OBVIOUS
<1>4. PICK d : d = <<Declare(v, 1), Point(<<v>>, holder, <<>>)>>
  OBVIOUS
<1>5. PICK A : A = {storage}
  OBVIOUS
<1>6. PICK B : B = {w}
  OBVIOUS
<1>7. PICK C : C = {holder}
  OBVIOUS
<1>8. PICK D : D = {v}
  OBVIOUS
<1>9. PICK k : k = known \cup A
  OBVIOUS
<1>10. PICK l : l = k \cup B
  OBVIOUS
<1>11. PICK m : m = l \cup C
  OBVIOUS
<1>12. Introduces(a, known, A)
  BY <1>0, <1>1, <1>5, VariableMade
<1>13. Introduces(b, k, B)
  BY <1>2, <1>5, <1>6, <1>9, VariableMade
<1>14. Introduces(c, l, C)
  BY <1>3, <1>5, <1>7, <1>9, <1>10, VariableMade
<1>15. Introduces(d, m, D)
  BY <1>4, <1>7, <1>8, <1>11, VariableMade
<1>16. PICK cd : cd = c \o d
  OBVIOUS
<1>17. Introduces(cd, l, D)
  BY <1>11, <1>14, <1>15, <1>16, IntroducesThen
<1>18. PICK bcd : bcd = b \o cd
  OBVIOUS
<1>19. PICK both : both = {v, w}
  OBVIOUS
<1>20. both \subseteq B \cup D /\ both \subseteq A \cup both
  BY <1>6, <1>8, <1>19
<1>21. Introduces(bcd, k, both)
  BY <1>10, <1>13, <1>17, <1>18, <1>20, IntroducesThen
<1>22. Introduces(a \o bcd, known, both)
  BY <1>9, <1>12, <1>20, <1>21, IntroducesThen
<1>23. CursorLines(v, w, storage, holder) = a \o (b \o (c \o d))
  <2>0. PICK p \in Statement, q \in Statement : p = Declare(storage, MaxArrayLen) /\ q = Nondet(<<storage>>)
    BY <1>0, LineForms
  <2>1. PICK r \in Statement, s \in Statement : r = Declare(w, 1) /\ s = Point(<<w>>, storage, <<>>)
    BY LineForms
  <2>2. PICK t \in Statement, u \in Statement, x \in Statement, y \in Statement :
           /\ t = Declare(holder, 1) /\ u = Point(<<holder>>, storage, <<>>)
           /\ x = Declare(v, 1) /\ y = Point(<<v>>, holder, <<>>)
    BY LineForms
  <2>3. <<p, q, r, s, t, u, x, y>> = <<p, q>> \o (<<r, s>> \o (<<t, u>> \o <<x, y>>))
    OBVIOUS
  <2>. QED  BY <1>1, <1>2, <1>3, <1>4, <2>0, <2>1, <2>2, <2>3, Zenon DEF CursorLines
<1>. QED  BY <1>16, <1>18, <1>19, <1>22, <1>23, Zenon

\* A buffer whose length is known.
LEMMA BufferIntroduces ==
    ASSUME NEW v \in Identifier, NEW l \in Identifier, NEW storage \in Identifier, NEW signed, NEW text,
           NEW known, l \in known
    PROVE  Introduces(BufferLines(v, l, storage, signed, text), known, {v})
<1>0. MaxArrayLen \in Nat
  BY ObjectBoundsAssumption
<1>1. "nonnegative" \in Conditions
  BY DEF Conditions
<1>2. PICK none : none = {}
  OBVIOUS
<1>3. PICK A : A = {storage}
  OBVIOUS
<1>4. PICK D : D = {v}
  OBVIOUS
<1>5. PICK k : k = known \cup A
  OBVIOUS
<1>6. PICK nothing : nothing = <<>>
  OBVIOUS
<1>7. \A any : Introduces(nothing, any, none)
  BY <1>2, <1>6, NothingResolves DEF Introduces
<1>8. PICK c : c = Bounding(l, signed)
  OBVIOUS
<1>9. Introduces(c, known, none)
  <2>1. PICK s : s = Assume(<<l>>, MaxArrayLen)
    OBVIOUS
  <2>2. PICK t : t = Stated("nonnegative", <<l>>, <<>>, <<>>, 0)
    OBVIOUS
  <2>3. s \in About(known) /\ t \in About(known)
    BY <1>1, <2>1, <2>2, VariableLines, Zenon
  <2>4. PICK first : first = <<s>>
    OBVIOUS
  <2>5. PICK second : second = <<t>>
    OBVIOUS
  <2>6. Introduces(first, known, none) /\ Introduces(second, known, none)
    BY <1>2, <2>3, <2>4, <2>5, IntroducesOne, Zenon
  <2>7. known = known \cup none /\ none \subseteq none \cup none
    BY <1>2
  <2>8. Introduces(first \o second, known, none)
    BY <2>6, <2>7, IntroducesThen
  <2>9. Introduces(first \o nothing, known, none)
    BY <1>7, <2>6, <2>7, IntroducesThen
  <2>10. c = first \o second \/ c = first \o nothing
    BY <1>6, <1>8, <2>1, <2>2, <2>4, <2>5, Zenon DEF Bounding
  <2>. QED  BY <2>8, <2>9, <2>10, Zenon
<1>10. PICK d : d = Storing(storage)
  OBVIOUS
<1>11. Introduces(d, known, A)
  BY <1>0, <1>3, <1>10, VariableMade, Zenon DEF Storing
<1>12. PICK e : e = Texting(storage, l, text)
  OBVIOUS
<1>13. Introduces(e, k, none)
  <2>1. PICK s : s = Stated("text", <<storage>>, <<>>, <<l>>, 0)
    OBVIOUS
  <2>2. storage \in k /\ l \in k
    BY <1>3, <1>5
  <2>3. s \in About(k)
    BY <2>1, <2>2, VariableLines, Zenon
  <2>4. PICK lines : lines = <<s>>
    OBVIOUS
  <2>5. Introduces(lines, k, none)
    BY <1>2, <2>3, <2>4, IntroducesOne, Zenon
  <2>6. e = lines \/ e = nothing
    BY <1>6, <1>12, <2>1, <2>4, Zenon DEF Texting
  <2>. QED  BY <1>7, <2>5, <2>6, Zenon
<1>14. PICK f : f = Counting(v, storage, l)
  OBVIOUS
<1>15. Introduces(f, k, D)
  <2>1. storage \in k /\ l \in k
    BY <1>3, <1>5
  <2>. QED  BY <1>4, <1>14, <2>1, VariableMade, Zenon DEF Counting
<1>16. PICK cd : cd = c \o d
  OBVIOUS
<1>17. Introduces(cd, known, A)
  <2>1. known = known \cup none /\ A \subseteq none \cup A
    BY <1>2
  <2>. QED  BY <1>9, <1>11, <1>16, <2>1, IntroducesThen
<1>18. PICK cde : cde = cd \o e
  OBVIOUS
<1>19. Introduces(cde, known, A)
  <2>1. A \subseteq A \cup none
    OBVIOUS
  <2>. QED  BY <1>5, <1>13, <1>17, <1>18, <2>1, IntroducesThen
<1>20. Introduces(cde \o f, known, D)
  <2>1. D \subseteq A \cup D
    OBVIOUS
  <2>. QED  BY <1>5, <1>15, <1>19, <2>1, IntroducesThen
<1>21. BufferLines(v, l, storage, signed, text) = cde \o f
  BY <1>8, <1>10, <1>12, <1>14, <1>16, <1>18, Zenon DEF BufferLines
<1>. QED  BY <1>4, <1>20, <1>21, Zenon

\* Lines for a parameter, or in front of the call: every name in them has its declaration.
LEMMA LinesDeclared ==
    ASSUME ObjectTypes, ObjectDeclared, NEW lines, NEW new, Introduces(lines, Known, new),
           code' = code \o lines, Globals' = Globals, frames' = frames,
           teardown' \in Seq(About(Known \cup new))
    PROVE  ObjectDeclared' /\ Known \cup new \subseteq Known' /\ Pending(frames') = Pending(frames)
<1>1. PICK known : known = Known
  OBVIOUS
<1>2. PICK more : more = known \cup DeclaredIn(lines)
  OBVIOUS
<1>3. /\ lines \in Seq(Statement) /\ Resolves(lines, known) /\ new \subseteq DeclaredIn(lines)
      /\ code \in Seq(Statement) /\ frames \in Seq(BoundCalls(known))
  BY <1>1 DEF Introduces, ObjectTypes, ObjectDeclared
<1>4. PICK narrow : narrow = known \cup new
  OBVIOUS
<1>5. teardown' \in Seq(About(more)) /\ frames' \in Seq(BoundCalls(more))
  <2>1. Seq(About(narrow)) \subseteq Seq(About(more))
    BY <1>2, <1>3, <1>4, AboutGrows
  <2>2. BoundCalls(known) \subseteq BoundCalls(more)
    BY <1>2, BoundGrows
  <2>3. frames \in Seq(BoundCalls(more))
    BY <1>3, <2>2, SeqGrows
  <2>. QED  BY <1>1, <1>4, <2>1, <2>3
<1>6. ObjectDeclared' /\ Known' = more
  BY <1>1, <1>2, <1>3, <1>5, StepDeclared
<1>. QED  BY <1>1, <1>2, <1>3, <1>6

\* An object that is there, and the variable for it.
LEMMA GivenIntroduces ==
    ASSUME NEW request, Requested(request), Resolves(request.finish, {request.as}),
           NEW storage \in Identifier, NEW first, NEW known, NEW new, Introduces(first, known, new),
           storage \in new, NEW all, all = new \cup ({request.as} \cup DeclaredIn(request.finish))
    PROVE  Introduces(first \o Deliver(request, storage), known, all)
<1>1. PICK wider : wider = known \cup new
  OBVIOUS
<1>2. PICK fin : fin = DeclaredIn(request.finish)
  OBVIOUS
<1>3. Introduces(request.finish, wider \cup {request.as}, fin)
  <2>1. PICK own : own = {request.as}
    OBVIOUS
  <2>2. PICK w : w = wider \cup own
    OBVIOUS
  <2>3. Resolves(request.finish, w)
    BY <2>1, <2>2, ResolvesGrows
  <2>. QED  BY <1>2, <2>1, <2>2, <2>3 DEF Introduces, Requested
<1>4. PICK more : more = {request.as} \cup fin
  OBVIOUS
<1>5. PICK second : second = Deliver(request, storage)
  OBVIOUS
<1>6. Introduces(second, wider, more)
  <2>1. request.as \in Identifier /\ storage \in wider
    BY <1>1 DEF Requested
  <2>2. Introduces(Deliver(request, storage), wider, {request.as} \cup fin)
    BY <1>3, <2>1, DeliverIntroduces
  <2>. QED  BY <1>4, <1>5, <2>2
<1>7. all \subseteq new \cup more
  BY <1>2, <1>4
<1>8. Introduces(first \o second, known, all)
  BY <1>1, <1>6, <1>7, IntroducesThen
<1>. QED  BY <1>5, <1>8

\* What is given back after the call is known then.
LEMMA FreedKnown ==
    ASSUME NEW v \in Identifier, NEW known, NEW more, known \subseteq more, v \in more,
           teardown \in Seq(About(known)), FreedAfter(v)
    PROVE  teardown' \in Seq(About(more))
<1>1. PICK s : s = Stated("free", <<v>>, <<>>, <<>>, 0)
  OBVIOUS
<1>2. "free" \in Conditions
  BY DEF Conditions
<1>3. s \in About(more)
  BY <1>1, <1>2, VariableLines, Zenon
<1>4. teardown \in Seq(About(more))
  BY AboutGrows
<1>5. Append(teardown, s) \in Seq(About(more))
  BY <1>3, <1>4, Extended
<1>6. teardown' = teardown \/ teardown' = Append(teardown, s)
  BY <1>1, Zenon DEF FreedAfter
<1>. QED  BY <1>4, <1>5, <1>6, Zenon

LEMMA ObjectDeclaredKept ==
    ASSUME ObjectTypes, ObjectDeclared, frames = <<>>, NEW request, Requested(request), EmitObject(request),
           Globals' = Globals, Resolves(request.finish, {request.as})
    PROVE  /\ ObjectDeclared'
           /\ Known \cup ({request.as} \cup DeclaredIn(request.finish)) \subseteq Known' \cup Pending(frames')
<1>0. ObjectGiven(request) \/ ObjectBegun(request)
  BY ObjectForms
<1>n. /\ request.as \in Identifier /\ {"obj", "src"} \subseteq Words /\ request.finish \in Seq(Statement)
  BY DEF Requested, Words
<1>k. PICK known : known = Known
  OBVIOUS
<1>t. teardown \in Seq(About(known)) /\ code \in Seq(Statement)
  BY <1>k DEF ObjectDeclared, ObjectTypes
<1>f. PICK told : told = {request.as} \cup DeclaredIn(request.finish)
  OBVIOUS
<1>1. CASE ObjectGiven(request)
  <2>1. PICK storage \in Identifier : storage = Append(request.as, "obj")
    BY <1>n, LvalueForms
  <2>2. PICK holder \in Identifier : holder = Append(request.as, "src")
    BY <1>n, LvalueForms
  <2>3. /\ frames' = frames
        /\ \/ GivenMade(request, storage) \/ GivenLibrary(request, storage)
           \/ GivenFrom(request, holder, storage)
    BY <1>1, <2>1, <2>2 DEF ObjectGiven
  <2>4. PICK one : one = {storage}
    OBVIOUS
  <2>5. CASE GivenMade(request, storage) \/ GivenLibrary(request, storage)
    <3>1. PICK first : Introduces(first, known, one) /\ code' = code \o (first \o Deliver(request, storage))
      <4>1. /\ Introduces(Made(storage), known, one)
            /\ Introduces(<<Declare(storage, 1), Library(<<storage>>)>>, known, one)
        BY <2>4, VariableMade
      <4>. QED  BY <2>5, <4>1, Zenon DEF GivenMade, GivenLibrary
    <3>2. PICK all : all = one \cup told
      OBVIOUS
    <3>3. Introduces(first \o Deliver(request, storage), known, all)
      BY <1>f, <2>4, <3>1, <3>2, GivenIntroduces
    <3>4. PICK more : more = known \cup all
      OBVIOUS
    <3>5. teardown' \in Seq(About(more))
      <4>1. CASE GivenMade(request, storage)
        BY <1>t, <2>4, <3>2, <3>4, <4>1, FreedKnown DEF GivenMade
      <4>2. CASE GivenLibrary(request, storage)
        <5>1. known \subseteq more /\ teardown' = teardown
          BY <3>4, <4>2 DEF GivenLibrary
        <5>. QED  BY <1>t, <5>1, AboutGrows
      <4>. QED  BY <2>5, <4>1, <4>2
    <3>6. ObjectDeclared' /\ Known \cup all \subseteq Known'
      <4>1. PICK lines : lines = first \o Deliver(request, storage)
        OBVIOUS
      <4>. QED  BY <1>k, <2>3, <3>1, <3>3, <3>4, <3>5, <4>1, LinesDeclared
    <3>. QED  BY <1>f, <3>2, <3>6
  <2>6. CASE GivenFrom(request, holder, storage)
    <3>1. PICK other : other = {holder}
      OBVIOUS
    <3>2. PICK wider : wider = known \cup other
      OBVIOUS
    <3>3. PICK a : a = Made(holder)
      OBVIOUS
    <3>4. PICK b : b = Made(storage)
      OBVIOUS
    <3>5. Introduces(a, known, other) /\ Introduces(b, wider, one)
      BY <2>4, <3>1, <3>3, <3>4, VariableMade
    <3>6. PICK both : both = other \cup one
      OBVIOUS
    <3>7. PICK first : first = a \o b
      OBVIOUS
    <3>8. Introduces(first, known, both)
      BY <3>2, <3>5, <3>6, <3>7, IntroducesThen
    <3>9. PICK all : all = both \cup told
      OBVIOUS
    <3>10. Introduces(first \o Deliver(request, storage), known, all)
      <4>1. storage \in both
        BY <2>4, <3>6
      <4>. QED  BY <1>f, <3>8, <3>9, <4>1, GivenIntroduces
    <3>11. PICK more : more = known \cup all
      OBVIOUS
    <3>12. teardown' \in Seq(About(more))
      <4>1. holder \in more /\ known \subseteq more /\ FreedAfter(holder)
        BY <2>6, <3>1, <3>6, <3>9, <3>11 DEF GivenFrom
      <4>. QED  BY <1>t, <4>1, FreedKnown
    <3>13. PICK lines : lines = first \o Deliver(request, storage)
      OBVIOUS
    <3>14. code' = code \o lines
      BY <2>6, <3>3, <3>4, <3>7, <3>13, Zenon DEF GivenFrom
    <3>15. ObjectDeclared' /\ Known \cup all \subseteq Known'
      BY <1>k, <2>3, <3>10, <3>11, <3>12, <3>13, <3>14, LinesDeclared
    <3>. QED  BY <1>f, <3>9, <3>15
  <2>. QED  BY <2>3, <2>5, <2>6
<1>2. CASE ObjectBegun(request)
  <2>1. PICK f \in Calls, storage \in Identifier :
              /\ code' = code \o <<Declare(storage, 1)>>
              /\ frames' = <<f>>
              /\ Fresh(f, f.type, <<storage>>, Deliver(request, storage))
    BY <1>2, BegunForm
  <2>2. teardown' = teardown
    BY <1>2 DEF ObjectBegun
  <2>3. PICK one \in Nat : one = 1
    OBVIOUS
  <2>4. PICK lines \in Seq(Statement) : lines = <<Declare(storage, one)>>
    BY DeclareForm
  <2>5. Resolves(lines, known) /\ DeclaredIn(lines) = {storage}
    BY <2>4, DeclareForm
  <2>6. PICK more : more = known \cup DeclaredIn(lines)
    OBVIOUS
  <2>7. PICK finish : finish = Deliver(request, storage)
    OBVIOUS
  <2>8. Introduces(finish, more, told)
    <3>1. storage \in more
      BY <2>5, <2>6
    <3>2. PICK fin : fin = DeclaredIn(request.finish)
      OBVIOUS
    <3>3. PICK own : own = {request.as}
      OBVIOUS
    <3>4. PICK w : w = more \cup own
      OBVIOUS
    <3>5. Resolves(request.finish, w)
      BY <3>3, <3>4, ResolvesGrows
    <3>6. Introduces(request.finish, more \cup {request.as}, fin)
      BY <1>n, <3>2, <3>3, <3>4, <3>5 DEF Introduces
    <3>7. Introduces(Deliver(request, storage), more, {request.as} \cup fin)
      BY <1>n, <3>1, <3>6, DeliverIntroduces
    <3>. QED  BY <1>f, <2>7, <3>2, <3>7
  <2>9. f.prefix = <<storage>> /\ f.constraints = <<>> /\ f.finish = finish
    BY <2>1, <2>7 DEF Fresh
  <2>10. f \in BoundCalls(more)
    <3>1. f.prefix[1] = storage /\ storage \in more /\ f \in Call
      BY <2>5, <2>6, <2>9 DEF Calls
    <3>2. <<>> \in Seq(About(more))
      OBVIOUS
    <3>3. Resolves(f.finish, more) /\ f.constraints \in Seq(About(more))
      BY <2>8, <2>9, <3>2 DEF Introduces
    <3>. QED  BY <3>1, <3>3 DEF BoundCalls
  <2>11. frames' \in Seq(BoundCalls(more)) /\ DeclaredIn(f.finish) \subseteq Pending(frames')
    <3>0. <<>> \in Seq(BoundCalls(more))
      OBVIOUS
    <3>1. PICK none \in Seq(BoundCalls(more)) : none = <<>>
      BY <3>0, Zenon
    <3>2. frames' = <<f>> \o none
      <4>1. <<f>> \in Seq(BoundCalls(more)) /\ \A s \in Seq(BoundCalls(more)) : s \o <<>> = s
        BY <2>10
      <4>. QED  BY <2>1, <3>1, <4>1
    <3>3. PICK fs : fs = <<f>> \o none
      OBVIOUS
    <3>4. fs \in Seq(BoundCalls(more)) /\ Pending(fs) = DeclaredIn(f.finish) \cup Pending(none)
      BY <2>10, <3>1, <3>3, InFront, PendingFront
    <3>5. frames' = fs
      BY <3>2, <3>3
    <3>. QED  BY <3>4, <3>5
  <2>12. teardown' \in Seq(About(more))
    <3>1. known \subseteq more
      BY <2>6
    <3>. QED  BY <1>t, <2>2, <3>1, AboutGrows
  <2>13. ObjectDeclared' /\ Known' = more
    BY <1>k, <1>t, <2>1, <2>3, <2>4, <2>5, <2>6, <2>11, <2>12, StepDeclared
  <2>14. told \subseteq DeclaredIn(f.finish)
    BY <2>8, <2>9 DEF Introduces
  <2>. QED  BY <1>f, <1>k, <2>6, <2>11, <2>13, <2>14
<1>. QED  BY <1>0, <1>1, <1>2

\* The parameters that have been declared, or will when the calls return.
Due(i, s, a) ==
    \/ s \in {"conditions", "call", "done"}
    \/ s = "buffers" /\ (InCursorPair(i) \/ LengthOf(i) = 0 \/ i < a)
    \/ s = "scalars" /\ (InCursorPair(i) \/ (LengthOf(i) = 0 /\ i < a))
    \/ s = "cursors" /\ ((IsCursor(i) /\ i < a) \/ (IsCursor(i - 1) /\ i - 1 < a))

\* Those that are the next parameter's to declare.
Handled(i) ==
    \/ stage = "cursors" /\ IsCursor(at) /\ i \in {at, at + 1}
    \/ stage = "scalars" /\ ~InCursorPair(at) /\ LengthOf(at) = 0 /\ i = at
    \/ stage = "buffers" /\ ~InCursorPair(at) /\ LengthOf(at) # 0 /\ i = at

ParamsDeclared == \A i \in Positions : Due(i, stage, at) => params[i].name \in Known \cup Pending(frames)

LEMMA DueSame ==
    ASSUME UNCHANGED signature
    PROVE  \A i, s, a : Due(i, s, a)' <=> Due(i, s, a)
<1>1. params' = params /\ Positions' = Positions
  BY DEF params, Positions
<1>2. ASSUME NEW i PROVE (InCursorPair(i)' <=> InCursorPair(i)) /\ \A j : IsCursor(j)' <=> IsCursor(j)
  BY <1>1 DEF InCursorPair, IsCursor
<1>3. ASSUME NEW i PROVE LengthOf(i)' = LengthOf(i)
  <2>1. ByName(i)' = ByName(i)
    BY <1>1 DEF ByName
  <2>2. Following2(i)' = Following2(i)
    BY <1>1 DEF Following2
  <2>3. params'[i] = params[i]
    BY <1>1
  <2>. QED  BY <2>1, <2>2, <2>3, Zenon DEF LengthOf
<1>. QED  BY <1>2, <1>3 DEF Due

\* No more becomes due than the parameter at hand declares.
LEMMA DueNext ==
    ASSUME ParameterTypes, stage \in {"cursors", "scalars", "buffers"}, Advance, NEW i \in Positions,
           Due(i, stage', at')
    PROVE  Due(i, stage, at) \/ Handled(i)
<1>1. /\ Positions = 1 .. Len(params) /\ Len(params) \in Nat /\ at \in Positions /\ i \in Nat /\ at \in Nat
  BY InputForm DEF ParameterTypes
<1>2. PICK s, a : s = stage' /\ a = at'
  OBVIOUS
<1>3. /\ Due(i, s, a)
      /\ \/ at = Len(params) /\ s = After[stage] /\ a = 1
         \/ a = at + 1 /\ s = stage
  BY <1>2 DEF Advance
<1>4. CASE stage = "cursors"
  <2>1. CASE a = at + 1 /\ s = stage
    <3>1. (IsCursor(i) /\ i < at + 1) \/ (IsCursor(i - 1) /\ i - 1 < at + 1)
      BY <1>3, <1>4, <2>1 DEF Due
    <3>2. CASE IsCursor(i) /\ i < at + 1
      <4>1. i < at \/ i = at
        BY <1>1, <3>2
      <4>. QED  BY <1>4, <3>2, <4>1 DEF Due, Handled
    <3>3. CASE IsCursor(i - 1) /\ i - 1 < at + 1
      <4>1. i - 1 < at \/ (i - 1 = at /\ i = at + 1)
        BY <1>1, <3>3
      <4>. QED  BY <1>4, <3>3, <4>1 DEF Due, Handled
    <3>. QED  BY <3>1, <3>2, <3>3
  <2>2. CASE at = Len(params) /\ s = After[stage] /\ a = 1
    <3>1. s = "scalars"
      BY <1>4, <2>2 DEF After
    <3>2. InCursorPair(i)
      BY <1>1, <1>3, <2>2, <3>1 DEF Due
    <3>3. CASE IsCursor(i)
      <4>1. i < at \/ i = at
        BY <1>1, <2>2
      <4>. QED  BY <1>4, <3>3, <4>1 DEF Due, Handled
    <3>4. CASE IsCursor(i - 1)
      <4>1. i - 1 < at
        BY <1>1, <2>2
      <4>. QED  BY <1>4, <3>4, <4>1 DEF Due
    <3>. QED  BY <3>2, <3>3, <3>4 DEF InCursorPair
  <2>. QED  BY <1>3, <2>1, <2>2
<1>5. CASE stage = "scalars"
  <2>1. CASE a = at + 1 /\ s = stage
    <3>1. InCursorPair(i) \/ (LengthOf(i) = 0 /\ i < at + 1)
      BY <1>3, <1>5, <2>1 DEF Due
    <3>2. i < at + 1 => i < at \/ i = at
      BY <1>1
    <3>. QED  BY <1>5, <3>1, <3>2 DEF Due, Handled
  <2>2. CASE at = Len(params) /\ s = After[stage] /\ a = 1
    <3>1. s = "buffers"
      BY <1>5, <2>2 DEF After
    <3>2. InCursorPair(i) \/ LengthOf(i) = 0
      BY <1>1, <1>3, <2>2, <3>1 DEF Due
    <3>3. i < at \/ i = at
      BY <1>1, <2>2
    <3>. QED  BY <1>5, <3>2, <3>3 DEF Due, Handled
  <2>. QED  BY <1>3, <2>1, <2>2
<1>6. CASE stage = "buffers"
  <2>1. CASE a = at + 1 /\ s = stage
    <3>1. InCursorPair(i) \/ LengthOf(i) = 0 \/ i < at + 1
      BY <1>3, <1>6, <2>1 DEF Due
    <3>2. i < at + 1 => i < at \/ i = at
      BY <1>1
    <3>. QED  BY <1>6, <3>1, <3>2 DEF Due, Handled
  <2>2. CASE at = Len(params)
    <3>1. i < at \/ i = at
      BY <1>1, <2>2
    <3>. QED  BY <1>6, <3>1 DEF Due, Handled
  <2>. QED  BY <1>3, <2>1, <2>2
<1>. QED  BY <1>4, <1>5, <1>6

\* A parameter is done with.
LEMMA ParamsDeclaredNext ==
    ASSUME ParameterTypes, ParamsDeclared, stage \in {"cursors", "scalars", "buffers"}, Advance,
           UNCHANGED signature, Known \cup Pending(frames) \subseteq Known' \cup Pending(frames'),
           \A i \in Positions : Handled(i) => params[i].name \in Known' \cup Pending(frames')
    PROVE  ParamsDeclared'
<1>1. params' = params /\ Positions' = Positions
  BY DEF params, Positions
<1>2. PICK s, a : s = stage' /\ a = at'
  OBVIOUS
<1>3. PICK all : all = Known' \cup Pending(frames')
  OBVIOUS
<1>4. ASSUME NEW i \in Positions, Due(i, s, a) PROVE params[i].name \in all
  <2>1. Due(i, stage, at) \/ Handled(i)
    BY <1>2, <1>4, DueNext
  <2>. QED  BY <1>3, <2>1 DEF ParamsDeclared
<1>5. \A i \in Positions : Due(i, s, a)' <=> Due(i, s, a)
  BY DueSame
<1>6. \A i \in Positions' : Due(i, s, a)' => params'[i].name \in Known' \cup Pending(frames')
  BY <1>1, <1>3, <1>4, <1>5
<1>. QED  BY <1>2, <1>6, Zenon DEF ParamsDeclared

\* No parameter is.
LEMMA ParamsDeclaredSame ==
    ASSUME ParamsDeclared, UNCHANGED <<signature, stage, at>>,
           Known \cup Pending(frames) \subseteq Known' \cup Pending(frames')
    PROVE  ParamsDeclared'
<1>1. params' = params /\ Positions' = Positions
  BY DEF params, Positions
<1>2. PICK s, a : s = stage /\ a = at
  OBVIOUS
<1>5. \A i \in Positions : Due(i, s, a)' <=> Due(i, s, a)
  BY DueSame
<1>6. \A i \in Positions' : Due(i, s, a)' => params'[i].name \in Known' \cup Pending(frames')
  BY <1>1, <1>2, <1>5 DEF ParamsDeclared
<1>. QED  BY <1>2, <1>6, Zenon DEF ParamsDeclared

\* What is known of each parameter's lines: they are about what they declare, and a
\* buffer's about the length that was declared with the scalars.
LEMMA BuiltDeclared ==
    ASSUME TypeInv, ObjectDeclared, ParamsDeclared, frames = <<>>,
           BuiltValue \/ BuiltPointer \/ BuiltCursor \/ BuiltBuffer
    PROVE  ObjectDeclared' /\ ParamsDeclared'
<1>0. /\ stage \in {"cursors", "scalars", "buffers"} /\ ParameterTypes /\ ObjectTypes
      /\ at \in Positions /\ param.name \in Identifier /\ param = params[at]
  BY ParamForm DEF TypeInv, BuiltValue, BuiltPointer, BuiltCursor, BuiltBuffer, param
<1>n. {"buf", "cursor", "bytes", "str", "obj"} \subseteq Words
  BY DEF Words
<1>k. PICK known : known = Known
  OBVIOUS
<1>p. /\ \A i \in Positions : params[i].name \in Identifier
      /\ \A word \in Words, n \in Identifier : Append(n, word) \in Identifier
  BY <1>0, InputForm
<1>v. PICK v \in Identifier : v = param.name
  BY <1>0
<1>1. ASSUME NEW lines, NEW mentioned, Built(lines, mentioned), NEW new, Introduces(lines, known, new),
             \A i \in Positions : Handled(i) => params[i].name \in new
      PROVE  ObjectDeclared' /\ ParamsDeclared'
  <2>1. /\ code' = code \o lines /\ UNCHANGED <<signature, frames, teardown>> /\ Advance
    BY <1>1 DEF Built, Emit, inputs
  <2>2. Globals' = Globals
    BY <2>1 DEF Globals
  <2>3. PICK more : more = known \cup new
    OBVIOUS
  <2>4. teardown' \in Seq(About(more))
    <3>1. teardown \in Seq(About(known)) /\ known \subseteq more
      BY <1>k, <2>3 DEF ObjectDeclared
    <3>. QED  BY <2>1, <3>1, AboutGrows
  <2>5. ObjectDeclared' /\ Known \cup new \subseteq Known' /\ Pending(frames') = Pending(frames)
    BY <1>0, <1>1, <1>k, <2>1, <2>2, <2>3, <2>4, LinesDeclared
  <2>6. \A i \in Positions : Handled(i) => params[i].name \in Known' \cup Pending(frames')
    BY <1>1, <2>5
  <2>7. ParamsDeclared'
    BY <1>0, <2>1, <2>5, <2>6, ParamsDeclaredNext
  <2>. QED  BY <2>5, <2>7
<1>2. CASE BuiltValue
  <2>1. PICK mentioned \in {{}, {<<param.name>>}} : Built(ValueLines(param.name), mentioned)
    BY <1>2 DEF BuiltValue
  <2>2. PICK lines : lines = ValueLines(v)
    OBVIOUS
  <2>3. PICK one \in Nat : one = 1
    OBVIOUS
  <2>4. Introduces(<<Declare(v, one), Nondet(<<v>>)>>, known, {v})
    BY VariableMade
  <2>5. PICK new : new = {v}
    OBVIOUS
  <2>6. Introduces(lines, known, new)
    BY <2>2, <2>3, <2>4, <2>5, Zenon DEF ValueLines
  <2>7. \A i \in Positions : Handled(i) => params[i].name \in new
    BY <1>0, <1>2, <1>v, <2>5 DEF Handled, BuiltValue
  <2>8. Built(lines, mentioned)
    BY <1>v, <2>1, <2>2
  <2>. QED  BY <1>1, <2>6, <2>7, <2>8
<1>3. CASE BuiltPointer
  <2>1. PICK word \in Words, n \in Nat : Built(PointTo(param.name, word, n), {<<param.name>>})
    BY <1>3, <1>n DEF BuiltPointer
  <2>2. PICK lines : lines = PointTo(v, word, n)
    OBVIOUS
  <2>3. PICK new : new = {v}
    OBVIOUS
  <2>4. Introduces(lines, known, new)
    BY <2>2, <2>3, PointToIntroduces
  <2>5. \A i \in Positions : Handled(i) => params[i].name \in new
    BY <1>0, <1>3, <1>v, <2>3 DEF Handled, BuiltPointer
  <2>6. PICK mentioned : mentioned = {<<param.name>>}
    OBVIOUS
  <2>7. Built(lines, mentioned)
    BY <1>v, <2>1, <2>2, <2>6
  <2>. QED  BY <1>1, <2>4, <2>5, <2>7
<1>4. CASE BuiltCursor
  <2>1. PICK storage \in {Append(param.name, "buf")}, holder \in {Append(param.name, "cursor")} :
           Built(CursorLines(param.name, params[at + 1].name, storage, holder),
                 {<<param.name>>, <<params[at + 1].name>>})
    BY <1>4 DEF BuiltCursor
  <2>2. PICK w \in Identifier : w = params[at + 1].name
    BY <1>4, <1>p DEF BuiltCursor
  <2>3. storage \in Identifier /\ holder \in Identifier
    <3>1. storage = Append(param.name, "buf") /\ holder = Append(param.name, "cursor")
      OBVIOUS
    <3>2. Append(param.name, "buf") \in Identifier /\ Append(param.name, "cursor") \in Identifier
      BY <1>0, <1>n, <1>p
    <3>. QED  BY <3>1, <3>2, Zenon
  <2>4. PICK lines : lines = CursorLines(v, w, storage, holder)
    OBVIOUS
  <2>5. PICK new : new = {v, w}
    OBVIOUS
  <2>6. Introduces(lines, known, new)
    BY <2>3, <2>4, <2>5, CursorIntroduces
  <2>7. \A i \in Positions : Handled(i) => params[i].name \in new
    BY <1>0, <1>4, <1>v, <2>2, <2>5 DEF Handled, BuiltCursor
  <2>8. PICK mentioned : mentioned = {<<param.name>>, <<params[at + 1].name>>}
    OBVIOUS
  <2>9. Built(lines, mentioned)
    BY <1>v, <2>1, <2>2, <2>4, <2>8
  <2>. QED  BY <1>1, <2>6, <2>7, <2>9
<1>5. CASE BuiltBuffer
  <2>1. PICK storage \in {Append(param.name, "buf")} :
           Built(BufferLines(param.name, params[LengthOf(at)].name, storage,
                             params[LengthOf(at)].signed, param.text),
                 {<<param.name>>, <<params[LengthOf(at)].name>>})
    BY <1>5 DEF BuiltBuffer
  <2>2. PICK j \in Positions : j = LengthOf(at)
    BY <1>5 DEF BuiltBuffer
  <2>3. PICK l \in Identifier : l = params[j].name
    BY <1>p
  <2>4. storage \in Identifier
    <3>1. storage = Append(param.name, "buf")
      OBVIOUS
    <3>2. Append(param.name, "buf") \in Identifier
      BY <1>0, <1>n, <1>p
    <3>. QED  BY <3>1, <3>2, Zenon
  <2>5. l \in known
    <3>1. LengthOf(at) # 0 /\ signature \in Signature
      BY <1>0, <2>2, InputForm
    <3>2. IsIntegral(params[j])
      BY <1>0, <2>2, <3>1, LengthForm
    <3>3. ~Countable(params[j])
      BY <3>2 DEF IsIntegral, Countable
    <3>4. LengthOf(j) = 0
      BY <3>3, Zenon DEF LengthOf
    <3>5. Due(j, stage, at)
      BY <1>5, <3>4 DEF Due, BuiltBuffer
    <3>6. Pending(frames) = {}
      BY DEF Pending
    <3>. QED  BY <1>k, <2>3, <3>5, <3>6 DEF ParamsDeclared
  <2>6. PICK signed, text : signed = params[LengthOf(at)].signed /\ text = param.text
    OBVIOUS
  <2>7. PICK lines : lines = BufferLines(v, l, storage, signed, text)
    OBVIOUS
  <2>8. PICK new : new = {v}
    OBVIOUS
  <2>9. Introduces(lines, known, new)
    BY <2>4, <2>5, <2>7, <2>8, BufferIntroduces
  <2>10. \A i \in Positions : Handled(i) => params[i].name \in new
    BY <1>0, <1>5, <1>v, <2>8 DEF Handled, BuiltBuffer
  <2>11. PICK mentioned : mentioned = {<<param.name>>, <<params[LengthOf(at)].name>>}
    OBVIOUS
  <2>12. Built(lines, mentioned)
    BY <1>v, <2>1, <2>2, <2>3, <2>6, <2>7, <2>11
  <2>. QED  BY <1>1, <2>9, <2>10, <2>12
<1>. QED  BY <1>2, <1>3, <1>4, <1>5

DeclaredInv == SaidInv /\ ObjectDeclared /\ ParamsDeclared

\* The names of the parameters are known when all of them have been declared.
LEMMA AllKnown ==
    ASSUME TypeInv, ParamsDeclared, frames = <<>>, stage \in {"conditions", "call"}
    PROVE  ParameterNames \subseteq Known
<1>1. \A i \in Positions : Due(i, stage, at)
  BY DEF Due
<1>2. Pending(frames) = {}
  BY DEF Pending
<1>3. \A n \in ParameterNames : \E i \in Positions : n = params[i].name
  BY NamesForm DEF TypeInv
<1>. QED  BY <1>1, <1>2, <1>3 DEF ParamsDeclared

LEMMA DeclaredInductive ==
    ASSUME IndexedArraysAreScalars
    PROVE  DeclaredInv /\ [Next]_harnessVars => DeclaredInv'
<1>. SUFFICES ASSUME DeclaredInv, [Next]_harnessVars PROVE DeclaredInv'
  OBVIOUS
<1>t. /\ SaidInv' /\ TypeInv /\ TypeInv' /\ ParameterTypes /\ ObjectTypes /\ ObjectSaid
      /\ ObjectDeclared /\ ParamsDeclared
  BY SaidInductive DEF DeclaredInv, SaidInv, TypeInv
<1>p. /\ signature \in Signature /\ wishes \in Wish /\ params \in Seq(Parameter)
      /\ Positions = 1 .. Len(params) /\ Len(params) \in Nat /\ \A n \in Identifier : <<n>> \in Lvalue
  BY <1>t, InputForm
<1>i. IndexedScalars
  BY DEF DeclaredInv, SaidInv, IndexedArraysAreScalars, IndexedScalars, Structs
<1>k. PICK known : known = Known
  OBVIOUS
<1>s. PICK none : none = {}
  OBVIOUS
<1>u. /\ known \cup none = known /\ teardown \in Seq(About(known))
      /\ frames \in Seq(BoundCalls(known))
  BY <1>k, <1>s, <1>t DEF ObjectDeclared
<1>g. ASSUME UNCHANGED signature
      PROVE  Globals' = Globals /\ params' = params /\ Positions' = Positions
             /\ \A i, s, a : Due(i, s, a)' <=> Due(i, s, a)
  BY <1>g, DueSame DEF Globals, params, Positions
<1>1. CASE RefuseSource \/ RefuseSetup \/ RefuseParameter \/ RefusePrecondition
  <2>1. stage' = "refused" /\ frames' = <<>> /\ code' = <<>> /\ teardown' = <<>>
    BY <1>1 DEF RefuseSource, RefuseSetup, RefuseParameter, RefusePrecondition, Refuse
  <2>2. ObjectDeclared'
    <3>1. Resolves(<<>>, Globals')
      BY NothingResolves
    <3>2. <<>> \in Seq(BoundCalls(Known')) /\ <<>> \in Seq(About(Known'))
      OBVIOUS
    <3>. QED  BY <2>1, <3>1, <3>2, Zenon DEF ObjectDeclared
  <2>3. ParamsDeclared'
    <3>1. \A i : ~Due(i, stage, at)'
      BY <2>1 DEF Due
    <3>. QED  BY <3>1 DEF ParamsDeclared
  <2>. QED  BY <1>t, <2>2, <2>3 DEF DeclaredInv
<1>2. ASSUME UNCHANGED <<signature, frames, code, teardown>>
      PROVE  ObjectDeclared' /\ Known' = Known /\ Pending(frames') = Pending(frames)
  <2>1. Globals' = Globals /\ Known' = Known
    BY <1>2 DEF Globals, Known
  <2>. QED  BY <1>2, <1>t, <2>1, Zenon DEF ObjectDeclared
<1>3. CASE FindFunction
  <2>1. UNCHANGED <<signature, frames, code, teardown>> /\ stage' = "hooks"
    BY <1>3 DEF FindFunction, GoTo, inputs
  <2>2. \A i : ~Due(i, stage, at)'
    BY <2>1 DEF Due
  <2>3. ParamsDeclared'
    BY <2>2 DEF ParamsDeclared
  <2>. QED  BY <1>2, <1>t, <2>1, <2>3 DEF DeclaredInv
<1>4. CASE SkipParameter
  <2>1. /\ UNCHANGED <<signature, frames, code, teardown>> /\ Advance
        /\ stage \in {"cursors", "scalars", "buffers"}
        /\ \/ stage = "cursors" /\ ~IsCursor(at)
           \/ stage = "scalars" /\ (InCursorPair(at) \/ LengthOf(at) # 0)
           \/ stage = "buffers" /\ (InCursorPair(at) \/ LengthOf(at) = 0)
    BY <1>4 DEF SkipParameter, Skip, inputs
  <2>2. \A i \in Positions : ~Handled(i)
    BY <2>1 DEF Handled
  <2>3. ObjectDeclared' /\ Known \cup Pending(frames) \subseteq Known' \cup Pending(frames')
    BY <1>2, <2>1
  <2>4. ParamsDeclared'
    BY <1>t, <2>1, <2>2, <2>3, ParamsDeclaredNext
  <2>. QED  BY <1>t, <2>3, <2>4 DEF DeclaredInv
<1>5. CASE UNCHANGED harnessVars
  <2>1. UNCHANGED <<signature, frames, code, teardown, stage, at>>
    BY <1>5 DEF harnessVars, objectVars
  <2>2. ObjectDeclared' /\ Known \cup Pending(frames) \subseteq Known' \cup Pending(frames')
    BY <1>2, <2>1
  <2>3. ParamsDeclared'
    BY <1>t, <2>1, <2>2, ParamsDeclaredSame
  <2>. QED  BY <1>t, <2>2, <2>3 DEF DeclaredInv
<1>6. CASE EmitHooks
  <2>1. /\ UNCHANGED <<signature, frames, teardown>> /\ at' = 1
        /\ stage' = (IF params = <<>> THEN "conditions" ELSE "cursors")
    BY <1>6 DEF EmitHooks, GoTo, inputs
  <2>2. PICK lines : lines = HookLines
    OBVIOUS
  <2>3. code' = code \o lines
    BY <1>6, <2>2, Zenon DEF EmitHooks, Emit, HookLines
  <2>4. Introduces(lines, known, none)
    <3>1. lines \in Seq(HookLine)
      BY <1>t, <2>2, HookForm
    <3>2. HookLine \subseteq About(known)
      <4>. SUFFICES ASSUME NEW s \in HookLine PROVE s \in About(known)
        OBVIOUS
      <4>1. PICK h \in Globals : s = Library(<<h>>)
        BY DEF HookLine
      <4>2. s \in Statement /\ s.of = <<h>> /\ s.to = <<>> /\ s.by = <<>>
        BY <4>1 DEF HookLine, Library, Stated
      <4>3. s.of[1] \in known
        BY <1>k, <4>2 DEF Known
      <4>. QED  BY <4>2, <4>3, AboutIf
    <3>3. lines \in Seq(About(known)) /\ lines \in Seq(Statement)
      BY <3>1, <3>2, SeqGrows DEF HookLine
    <3>4. Resolves(lines, known)
      BY <3>3, ResolvesEach
    <3>. QED  BY <1>s, <3>3, <3>4 DEF Introduces
  <2>5. ObjectDeclared'
    BY <1>g, <1>k, <1>t, <1>u, <2>1, <2>3, <2>4, LinesDeclared
  <2>6. ParamsDeclared'
    <3>1. ASSUME NEW i \in Positions, Due(i, stage', at') PROVE FALSE
      <4>1. stage' = "cursors" /\ at' = 1 /\ i \in Nat /\ i >= 1
        BY <1>p, <2>1, <3>1
      <4>2. (IsCursor(i) /\ i < 1) \/ (IsCursor(i - 1) /\ i - 1 < 1)
        BY <3>1, <4>1 DEF Due
      <4>3. i - 1 = 0
        BY <4>1, <4>2
      <4>4. 0 \notin Positions
        BY <1>p
      <4>. QED  BY <4>1, <4>2, <4>3, <4>4 DEF IsCursor
    <3>2. PICK s, a : s = stage' /\ a = at'
      OBVIOUS
    <3>3. \A i \in Positions' : ~Due(i, s, a)'
      BY <1>g, <2>1, <3>1, <3>2
    <3>. QED  BY <3>2, <3>3, Zenon DEF ParamsDeclared
  <2>. QED  BY <1>t, <2>5, <2>6 DEF DeclaredInv
<1>7. CASE EmitCursor \/ EmitValue \/ EmitBytes \/ EmitString \/ EmitElements \/ EmitReference \/ EmitBuffer
  <2>1. frames = <<>>
    BY <1>7 DEF EmitCursor, EmitValue, EmitBytes, EmitString, EmitElements, EmitReference,
       EmitBuffer, Unpaired, Ready
  <2>2. ObjectDeclared' /\ ParamsDeclared'
    BY <1>7, <1>t, <2>1, ParameterForms, BuiltDeclared
  <2>. QED  BY <1>t, <2>2 DEF DeclaredInv
<1>8. CASE EmitObjectParameter
  <2>1. /\ stage = "scalars" /\ EmitObject(ObjectRequest) /\ frames = <<>> /\ Advance
        /\ UNCHANGED <<signature, wishes>>
    BY <1>8 DEF EmitObjectParameter, Unpaired, Ready
  <2>2. PICK request : request = ObjectRequest
    OBVIOUS
  <2>3. /\ Requested(request) /\ EmitObject(request)
        /\ \/ request.as = param.name /\ request.finish = <<>>
           \/ request.finish = <<Declare(param.name, 1), Point(<<param.name>>, request.as, <<>>)>>
    BY <1>t, <2>1, <2>2, RequestForm
  <2>4. PICK v \in Identifier : v = param.name
    BY <1>t, <2>1, ParamForm
  <2>5. PICK x \in Identifier : x = request.as
    BY <2>3 DEF Requested
  <2>6. Resolves(request.finish, {request.as}) /\ v \in {request.as} \cup DeclaredIn(request.finish)
    <3>1. CASE request.as = param.name /\ request.finish = <<>>
      BY <2>4, <3>1, NothingResolves
    <3>2. CASE request.finish = <<Declare(param.name, 1), Point(<<param.name>>, request.as, <<>>)>>
      <4>1. PICK own : own = {x}
        OBVIOUS
      <4>2. PICK lines : lines = <<Declare(v, 1), Point(<<v>>, x, <<>>)>>
        OBVIOUS
      <4>3. Introduces(lines, own, {v})
        BY <4>1, <4>2, VariableMade
      <4>4. request.finish = lines
        BY <2>4, <2>5, <3>2, <4>2
      <4>. QED  BY <2>5, <4>1, <4>3, <4>4 DEF Introduces
    <3>. QED  BY <2>3, <3>1, <3>2
  <2>7. /\ ObjectDeclared'
        /\ Known \cup ({request.as} \cup DeclaredIn(request.finish)) \subseteq Known' \cup Pending(frames')
    BY <1>g, <1>t, <2>1, <2>3, <2>6, ObjectDeclaredKept
  <2>8. Pending(frames) = {}
    BY <2>1 DEF Pending
  <2>9. \A i \in Positions : Handled(i) => params[i].name \in Known' \cup Pending(frames')
    BY <2>1, <2>4, <2>6, <2>7 DEF Handled, param
  <2>10. ParamsDeclared'
    BY <1>t, <2>1, <2>7, <2>8, <2>9, ParamsDeclaredNext
  <2>. QED  BY <1>t, <2>7, <2>10 DEF DeclaredInv
<1>9. CASE FillObject
  <2>1. FillStep /\ UNCHANGED <<signature, wishes, stage, at>>
    BY <1>9 DEF FillObject
  <2>2. ObjectDeclared' /\ Known \cup Pending(frames) \subseteq Known' \cup Pending(frames')
    BY <1>g, <1>i, <1>t, <2>1, FillDeclared
  <2>3. ParamsDeclared'
    BY <1>t, <2>1, <2>2, ParamsDeclaredSame
  <2>. QED  BY <1>t, <2>2, <2>3 DEF DeclaredInv
<1>10. CASE EmitConditions
  <2>1. /\ UNCHANGED <<signature, frames, teardown>> /\ frames = <<>> /\ stage = "conditions"
        /\ stage' = "call" /\ \A names \in ToSet(wishes.proposed) : Valid(names)
    BY <1>10 DEF EmitConditions, GoTo, inputs
  <2>2. PICK lines : lines = ConditionLines
    OBVIOUS
  <2>3. code' = code \o lines
    BY <1>10, <2>2, Zenon DEF EmitConditions, Emit, ConditionLines
  <2>4. Introduces(lines, known, none)
    <3>1. lines \in Seq(ConditionLine) /\ ConditionLine \subseteq Statement
      BY <1>t, <2>1, <2>2, ConditionForm
    <3>2. ParameterNames \subseteq known
      BY <1>k, <1>t, <2>1, AllKnown
    <3>3. ConditionLine \subseteq About(known)
      <4>. SUFFICES ASSUME NEW s \in ConditionLine PROVE s \in About(known)
        OBVIOUS
      <4>1. PICK n \in ParameterNames : s = Stated("requires", <<n>>, <<>>, <<>>, 0)
        BY Zenon DEF ConditionLine
      <4>2. s \in Statement /\ s.of = <<n>> /\ s.to = <<>> /\ s.by = <<>>
        BY <3>1, <4>1 DEF Stated
      <4>3. s.of[1] \in known
        BY <3>2, <4>2
      <4>. QED  BY <4>2, <4>3, AboutIf
    <3>4. lines \in Seq(About(known)) /\ lines \in Seq(Statement)
      BY <3>1, <3>3, SeqGrows
    <3>5. Resolves(lines, known)
      BY <3>4, ResolvesEach
    <3>. QED  BY <1>s, <3>4, <3>5 DEF Introduces
  <2>5. ObjectDeclared' /\ Known \subseteq Known' /\ Pending(frames') = Pending(frames)
    BY <1>g, <1>k, <1>t, <1>u, <2>1, <2>3, <2>4, LinesDeclared
  <2>6. ParamsDeclared'
    <3>1. \A i \in Positions : Due(i, stage, at)
      BY <2>1 DEF Due
    <3>. QED  BY <1>g, <1>t, <2>1, <2>5, <3>1 DEF ParamsDeclared
  <2>. QED  BY <1>t, <2>5, <2>6 DEF DeclaredInv
<1>11. CASE EmitCall
  <2>1. UNCHANGED <<signature, frames>> /\ teardown' = <<>> /\ stage = "call" /\ stage' = "done"
    BY <1>11 DEF EmitCall, GoTo, inputs
  <2>2. frames = <<>>
    BY <1>t, <2>1 DEF ParameterTypes
  <2>3. code' = code \o CallLines
    BY <1>11, Zenon DEF EmitCall, Emit, CallLines, UseLines
  <2>4. Introduces(UseLines, known, none)
    <3>1. UseLines \in Seq(UseLine) /\ UseLine \subseteq Statement
      BY <1>t, UseForm
    <3>2. ParameterNames \subseteq known
      BY <1>k, <1>t, <2>1, <2>2, AllKnown
    <3>3. UseLine \subseteq About(known)
      <4>. SUFFICES ASSUME NEW s \in UseLine PROVE s \in About(known)
        OBVIOUS
      <4>1. PICK n \in ParameterNames : s = Stated("use", <<n>>, <<>>, <<>>, 0)
        BY Zenon DEF UseLine
      <4>2. s \in Statement /\ s.of = <<n>> /\ s.to = <<>> /\ s.by = <<>>
        BY <3>1, <4>1 DEF Stated
      <4>3. s.of[1] \in known
        BY <3>2, <4>2
      <4>. QED  BY <4>2, <4>3, AboutIf
    <3>4. UseLines \in Seq(About(known)) /\ UseLines \in Seq(Statement)
      BY <3>1, <3>3, SeqGrows
    <3>5. PICK u : u = UseLines
      OBVIOUS
    <3>6. Resolves(u, known)
      BY <3>4, <3>5, ResolvesEach
    <3>7. Introduces(u, known, none)
      BY <1>s, <3>4, <3>5, <3>6 DEF Introduces
    <3>. QED  BY <3>5, <3>7
  <2>5. PICK u : u = UseLines
    OBVIOUS
  <2>6. PICK t : t = teardown
    OBVIOUS
  <2>7. Introduces(t, known, none)
    <3>1. t \in Seq(About(known)) /\ t \in Seq(Statement)
      BY <1>t, <1>u, <2>6 DEF ObjectTypes
    <3>2. Resolves(t, known)
      BY <3>1, ResolvesEach
    <3>. QED  BY <1>s, <3>1, <3>2 DEF Introduces
  <2>8. PICK r : r = IF signature.receiver THEN <<Declare(Receiver, 1), Library(<<Receiver>>)>> ELSE <<>>
    OBVIOUS
  <2>9. Introduces(r, known, none)
    <3>1. CASE signature.receiver
      <4>1. Introduces(<<Declare(Receiver, 1), Library(<<Receiver>>)>>, known, {Receiver})
        BY OwnNames, VariableMade
      <4>2. Introduces(r, known, {Receiver})
        BY <2>8, <3>1, <4>1, Zenon
      <4>. QED  BY <1>s, <4>2 DEF Introduces
    <3>2. CASE ~signature.receiver
      <4>1. r = <<>>
        BY <2>8, <3>2, Zenon
      <4>. QED  BY <1>s, <4>1, NothingResolves DEF Introduces
    <3>. QED  BY <3>1, <3>2
  <2>10. none \subseteq none \cup none /\ known = known \cup none
    BY <1>s
  <2>11. PICK ru : ru = r \o u
    OBVIOUS
  <2>12. Introduces(ru, known, none)
    BY <2>4, <2>5, <2>9, <2>10, <2>11, IntroducesThen
  <2>13. PICK lines : lines = ru \o t
    OBVIOUS
  <2>14. Introduces(lines, known, none)
    BY <2>7, <2>10, <2>12, <2>13, IntroducesThen
  <2>15. code' = code \o lines
    BY <2>3, <2>5, <2>6, <2>8, <2>11, <2>13, Zenon DEF CallLines
  <2>16. teardown' \in Seq(About(Known \cup none))
    <3>1. <<>> \in Seq(About(Known \cup none))
      OBVIOUS
    <3>. QED  BY <2>1, <3>1
  <2>17. ObjectDeclared' /\ Known \subseteq Known' /\ Pending(frames') = Pending(frames)
    BY <1>g, <1>k, <1>t, <2>1, <2>14, <2>15, <2>16, LinesDeclared
  <2>18. ParamsDeclared'
    <3>1. \A i \in Positions : Due(i, stage, at)
      BY <2>1 DEF Due
    <3>. QED  BY <1>g, <1>t, <2>1, <2>17, <3>1 DEF ParamsDeclared
  <2>. QED  BY <1>t, <2>17, <2>18 DEF DeclaredInv
<1>. QED  BY <1>1, <1>3, <1>4, <1>5, <1>6, <1>7, <1>8, <1>9, <1>10, <1>11 DEF Next

LEMMA DeclaredAtFirst == Init => DeclaredInv
<1>. SUFFICES ASSUME Init PROVE DeclaredInv
  OBVIOUS
<1>1. SaidInv /\ code = <<>> /\ frames = <<>> /\ teardown = <<>> /\ stage = "signature"
  BY SaidAtFirst DEF Init
<1>2. Resolves(<<>>, Globals)
  BY NothingResolves
<1>3. <<>> \in Seq(BoundCalls(Known)) /\ <<>> \in Seq(About(Known))
  OBVIOUS
<1>4. ObjectDeclared
  BY <1>1, <1>2, <1>3 DEF ObjectDeclared
<1>5. ParamsDeclared
  BY <1>1 DEF ParamsDeclared, Due
<1>. QED  BY <1>1, <1>4, <1>5 DEF DeclaredInv

\* Whatever is built for a function, no line of its harness is about a variable that was
\* not declared before: that the names resolve is a question of their being declared once.
THEOREM NamesDeclaredFirst ==
    ASSUME IndexedArraysAreScalars
    PROVE  Spec => [](DeclaredFirst /\ (DeclaredOnce => NamesResolve))
<1>1. DeclaredInv => DeclaredFirst /\ (DeclaredOnce => NamesResolve)
  <2>1. DeclaredInv => DeclaredFirst
    BY DEF DeclaredInv, ObjectDeclared, Resolves, DeclaredFirst, DeclaredBy
  <2>. QED  BY <2>1 DEF NamesResolve
<1>. QED  BY <1>1, DeclaredAtFirst, DeclaredInductive, PTL DEF Spec

-----------------------------------------------------------------------------
(* No count is written after it was bounded. *)

\* Two lvalues that go separate ways: neither is, or is within, the other.
Differ(l, m) == \E i \in DOMAIN l \cap DOMAIN m : l[i] # m[i]

LEMMA DifferForms ==
    ASSUME NEW l \in Lvalue, NEW m \in Lvalue
    PROVE  /\ l # <<>> /\ m # <<>> /\ l[1] # m[1] => Differ(l, m)
           /\ Differ(l, m) => ~IsPrefix(m, l)
           /\ \A x \in Identifier : Differ(l, m) => Differ(Append(l, x), m) /\ Differ(l, Append(m, x))
           /\ \A x, y \in Identifier : x # y => Differ(Append(l, x), Append(l, y))
<1>1. l \in Seq(Identifier) /\ m \in Seq(Identifier)
  BY DEF Lvalue
<1>2. ASSUME l # <<>>, m # <<>>, l[1] # m[1] PROVE Differ(l, m)
  <2>1. 1 \in DOMAIN l \cap DOMAIN m
    BY <1>1, <1>2
  <2>. QED  BY <1>2, <2>1 DEF Differ
<1>3. ASSUME Differ(l, m), IsPrefix(m, l) PROVE FALSE
  <2>1. PICK i \in DOMAIN l \cap DOMAIN m : l[i] # m[i]
    BY <1>3 DEF Differ
  <2>2. SubSeq(m, 1, Len(m)) = SubSeq(l, 1, Len(m)) /\ Len(m) <= Len(l)
    BY <1>3 DEF IsPrefix
  <2>3. i \in 1 .. Len(m)
    BY <1>1
  <2>4. SubSeq(m, 1, Len(m))[i] = m[i] /\ SubSeq(l, 1, Len(m))[i] = l[i]
    BY <1>1, <2>2, <2>3
  <2>. QED  BY <2>1, <2>2, <2>4
<1>4. ASSUME NEW x \in Identifier, Differ(l, m) PROVE Differ(Append(l, x), m) /\ Differ(l, Append(m, x))
  <2>1. PICK i \in DOMAIN l \cap DOMAIN m : l[i] # m[i]
    BY <1>4 DEF Differ
  <2>2. i \in DOMAIN Append(l, x) /\ Append(l, x)[i] = l[i]
    BY <1>1, <2>1, Extended
  <2>3. i \in DOMAIN Append(m, x) /\ Append(m, x)[i] = m[i]
    BY <1>1, <2>1, Extended
  <2>. QED  BY <2>1, <2>2, <2>3 DEF Differ
<1>5. ASSUME NEW x \in Identifier, NEW y \in Identifier, x # y PROVE Differ(Append(l, x), Append(l, y))
  <2>1. PICK n \in Nat : n = Len(l) + 1
    BY <1>1
  <2>2. Append(l, x)[n] = x /\ Append(l, y)[n] = y
    BY <1>1, <2>1, Extended
  <2>3. n \in DOMAIN Append(l, x) /\ n \in DOMAIN Append(l, y)
    BY <1>1, <2>1
  <2>. QED  BY <1>5, <2>2, <2>3 DEF Differ
<1>. QED  BY <1>2, <1>3, <1>4, <1>5

\* What lines write.
Touched(lines) == {m \in Lvalue : \E i \in DOMAIN lines : lines[i].op \in WritingOps /\ lines[i].of = m}
Rooted(m, names) == m # <<>> /\ m[1] \in names

\* Lines that write nothing an lvalue is of, but what they declare.
Spares(lines, l) == \A m \in Touched(lines) : Rooted(m, DeclaredIn(lines)) \/ Differ(l, m)

\* Pointers with a count, and lines without one.
Counted(s) == s.op \in {"point", "null"} /\ s.by # <<>>
Uncounting(lines) == \A i \in DOMAIN lines : ~Counted(lines[i])

LEMMA TouchedEach ==
    ASSUME NEW s \in Seq(Statement), NEW i \in DOMAIN s
    PROVE  s[i] \in Statement /\ (s[i].op \in WritingOps => s[i].of \in Touched(s))
<1>1. s[i] \in Statement
  OBVIOUS
<1>2. s[i].of \in Lvalue
  BY <1>1 DEF Statement
<1>. QED  BY <1>1, <1>2 DEF Touched

LEMMA TouchedJoined ==
    ASSUME NEW s \in Seq(Statement), NEW t \in Seq(Statement)
    PROVE  \A m \in Touched(s \o t) : m \in Touched(s) \/ m \in Touched(t)
<1>. SUFFICES ASSUME NEW m \in Touched(s \o t) PROVE m \in Touched(s) \/ m \in Touched(t)
  OBVIOUS
<1>1. PICK i \in DOMAIN (s \o t) : (s \o t)[i].op \in WritingOps /\ (s \o t)[i].of = m
  BY DEF Touched
<1>2. m \in Lvalue
  BY DEF Touched
<1>3. CASE i \in DOMAIN s
  <2>1. (s \o t)[i] = s[i]
    BY <1>3, Joined
  <2>. QED  BY <1>1, <1>2, <1>3, <2>1 DEF Touched
<1>4. CASE i \notin DOMAIN s
  <2>1. i - Len(s) \in DOMAIN t /\ (s \o t)[i] = t[i - Len(s)]
    BY <1>4, Joined
  <2>. QED  BY <1>1, <1>2, <2>1 DEF Touched
<1>. QED  BY <1>3, <1>4

LEMMA SparesJoined ==
    ASSUME NEW s \in Seq(Statement), NEW t \in Seq(Statement), NEW l, Spares(s, l), Spares(t, l)
    PROVE  Spares(s \o t, l)
<1>1. DeclaredIn(s \o t) = DeclaredIn(s) \cup DeclaredIn(t)
  BY DeclaredJoined
<1>2. \A m \in Touched(s \o t) : m \in Touched(s) \/ m \in Touched(t)
  BY TouchedJoined
<1>. QED  BY <1>1, <1>2 DEF Spares, Rooted

LEMMA UncountingJoined ==
    ASSUME NEW s \in Seq(Statement), NEW t \in Seq(Statement), Uncounting(s), Uncounting(t)
    PROVE  Uncounting(s \o t)
<1>. SUFFICES ASSUME NEW i \in DOMAIN (s \o t) PROVE ~Counted((s \o t)[i])
  BY DEF Uncounting
<1>1. CASE i \in DOMAIN s
  <2>1. (s \o t)[i] = s[i]
    BY <1>1, Joined
  <2>. QED  BY <1>1, <2>1 DEF Uncounting
<1>2. CASE i \notin DOMAIN s
  <2>1. i - Len(s) \in DOMAIN t /\ (s \o t)[i] = t[i - Len(s)]
    BY <1>2, Joined
  <2>. QED  BY <2>1 DEF Uncounting
<1>. QED  BY <1>1, <1>2

\* Lines that write only what they declare.
Afresh(lines) == lines \in Seq(Statement) /\ Uncounting(lines)
                 /\ \A m \in Touched(lines) : Rooted(m, DeclaredIn(lines))

LEMMA AfreshSpares ==
    ASSUME NEW lines, Afresh(lines)
    PROVE  \A l : Spares(lines, l)
BY DEF Afresh, Spares

LEMMA AfreshJoined ==
    ASSUME NEW s, Afresh(s), NEW t, Afresh(t)
    PROVE  Afresh(s \o t)
<1>0. s \in Seq(Statement) /\ t \in Seq(Statement) /\ Uncounting(s) /\ Uncounting(t)
  BY DEF Afresh
<1>1. DeclaredIn(s \o t) = DeclaredIn(s) \cup DeclaredIn(t) /\ s \o t \in Seq(Statement)
  BY <1>0, DeclaredJoined
<1>2. \A m \in Touched(s \o t) : m \in Touched(s) \/ m \in Touched(t)
  BY <1>0, TouchedJoined
<1>3. Uncounting(s \o t)
  BY <1>0, UncountingJoined
<1>. QED  BY <1>1, <1>2, <1>3 DEF Afresh, Rooted

\* No variable is declared twice.
Once(lines) ==
    \A i, j \in DOMAIN lines :
        lines[i].op = "declare" /\ lines[j].op = "declare" /\ lines[i].of = lines[j].of => i = j

LEMMA OnceForms ==
    ASSUME NEW c \in Seq(Statement), NEW lines \in Seq(Statement), Once(c \o lines)
    PROVE  Once(c) /\ \A v \in DeclaredIn(c) : v \notin DeclaredIn(lines)
<1>0. DOMAIN c = 1 .. Len(c) /\ Len(c) \in Nat /\ DOMAIN lines = 1 .. Len(lines) /\ Len(lines) \in Nat
  OBVIOUS
<1>n. \A i \in DOMAIN c, j \in DOMAIN lines : i # Len(c) + j
  BY <1>0
<1>1. /\ \A i \in DOMAIN c : i \in DOMAIN (c \o lines) /\ (c \o lines)[i] = c[i]
      /\ \A i \in DOMAIN lines : Len(c) + i \in DOMAIN (c \o lines) /\ (c \o lines)[Len(c) + i] = lines[i]
  BY Joined
<1>2. Once(c)
  BY <1>1 DEF Once
<1>3. ASSUME NEW v \in DeclaredIn(c), v \in DeclaredIn(lines) PROVE FALSE
  <2>1. PICK i \in DOMAIN c : c[i].op = "declare" /\ c[i].of = <<v>>
    BY DEF DeclaredIn
  <2>2. PICK j \in DOMAIN lines : lines[j].op = "declare" /\ lines[j].of = <<v>>
    BY <1>3 DEF DeclaredIn
  <2>3. PICK b : b = c \o lines
    OBVIOUS
  <2>4. PICK k : k = Len(c) + j
    OBVIOUS
  <2>5. i \in DOMAIN b /\ k \in DOMAIN b /\ b[i] = c[i] /\ b[k] = lines[j]
    BY <1>1, <2>3, <2>4
  <2>6. b[i].op = "declare" /\ b[k].op = "declare" /\ b[i].of = b[k].of
    BY <2>1, <2>2, <2>5
  <2>7. Once(b)
    BY <2>3
  <2>8. i = k
    BY <2>5, <2>6, <2>7, Zenon DEF Once
  <2>. QED  BY <1>n, <2>4, <2>8
<1>. QED  BY <1>2, <1>3

\* What lines spare is not written by them, if nothing is declared twice.
LEMMA NotWritten ==
    ASSUME NEW c \in Seq(Statement), NEW lines \in Seq(Statement), Once(c \o lines),
           NEW l \in Lvalue, Rooted(l, DeclaredIn(c)), Spares(lines, l)
    PROVE  \A i \in DOMAIN lines : ~Writes(lines[i], l)
<1>. SUFFICES ASSUME NEW i \in DOMAIN lines, lines[i].op \in WritingOps, IsPrefix(lines[i].of, l) PROVE FALSE
  BY DEF Writes
<1>1. PICK m \in Lvalue : m = lines[i].of /\ m \in Touched(lines)
  BY TouchedEach DEF Statement
<1>2. CASE Differ(l, m)
  BY <1>1, <1>2, DifferForms
<1>3. CASE Rooted(m, DeclaredIn(lines))
  <2>1. l[1] # m[1] /\ l # <<>> /\ m # <<>>
    BY <1>3, OnceForms DEF Rooted
  <2>2. Differ(l, m)
    BY <2>1, DifferForms
  <2>. QED  BY <1>1, <2>2, DifferForms
<1>. QED  BY <1>1, <1>2, <1>3 DEF Spares

\* The elements a pointer has are n at least.
Fits(c, s, n) ==
    IF s.op = "null" THEN n = 0
    ELSE \E d \in DOMAIN c : c[d].op = "declare" /\ c[d].of = s.to /\ n <= c[d].n

\* The count of a pointer is bounded by what it has, and not written after that.
BoundedAt(c, s, j) ==
    /\ c[j].op = "assume" /\ c[j].of = s.by /\ Fits(c, s, c[j].n)
    /\ \A k \in DOMAIN c : k > j => ~Writes(c[k], s.by)
Bounded(c, s) == \E j \in DOMAIN c : BoundedAt(c, s, j)

LEMMA FitsGrows ==
    ASSUME NEW c \in Seq(Statement), NEW lines \in Seq(Statement), NEW s, NEW n, Fits(c, s, n)
    PROVE  Fits(c \o lines, s, n)
<1>1. \A i \in DOMAIN c : i \in DOMAIN (c \o lines) /\ (c \o lines)[i] = c[i]
  BY Joined
<1>. QED  BY <1>1 DEF Fits

LEMMA BoundedGrows ==
    ASSUME NEW c \in Seq(Statement), NEW lines \in Seq(Statement), NEW s, Bounded(c, s),
           \A i \in DOMAIN lines : ~Writes(lines[i], s.by)
    PROVE  Bounded(c \o lines, s)
<1>1. PICK j \in DOMAIN c : BoundedAt(c, s, j)
  BY DEF Bounded
<1>2. j \in DOMAIN (c \o lines) /\ (c \o lines)[j] = c[j]
  BY Joined
<1>3. Fits(c \o lines, s, c[j].n)
  BY <1>1, FitsGrows DEF BoundedAt
<1>4. ASSUME NEW k \in DOMAIN (c \o lines), k > j PROVE ~Writes((c \o lines)[k], s.by)
  <2>1. CASE k \in DOMAIN c
    <3>1. (c \o lines)[k] = c[k]
      BY <2>1, Joined
    <3>. QED  BY <1>1, <1>4, <2>1, <3>1 DEF BoundedAt
  <2>2. CASE k \notin DOMAIN c
    <3>1. k - Len(c) \in DOMAIN lines /\ (c \o lines)[k] = lines[k - Len(c)]
      BY <2>2, Joined
    <3>. QED  BY <3>1
  <2>. QED  BY <2>1, <2>2
<1>5. BoundedAt(c \o lines, s, j)
  <2>1. (c \o lines)[j].op = "assume" /\ (c \o lines)[j].of = s.by /\ Fits(c \o lines, s, (c \o lines)[j].n)
    BY <1>1, <1>2, <1>3 DEF BoundedAt
  <2>. QED  BY <1>4, <2>1 DEF BoundedAt
<1>. QED  BY <1>2, <1>5 DEF Bounded

LEMMA BoundedStays ==
    ASSUME NEW c \in Seq(Statement), NEW lines \in Seq(Statement), Once(c \o lines),
           NEW s \in Statement, Bounded(c, s), Rooted(s.by, DeclaredIn(c)), Spares(lines, s.by)
    PROVE  Bounded(c \o lines, s)
<1>1. PICK l \in Lvalue : l = s.by
  BY DEF Statement
<1>2. \A i \in DOMAIN lines : ~Writes(lines[i], l)
  BY <1>1, NotWritten
<1>. QED  BY <1>1, <1>2, BoundedGrows

\* Lines that write nothing.
Silent(lines) == \A i \in DOMAIN lines : lines[i].op \notin WritingOps

LEMMA BoundedByOwn ==
    ASSUME NEW c \in Seq(Statement), NEW lines \in Seq(Statement), Silent(lines),
           NEW s, NEW k \in DOMAIN lines,
           lines[k].op = "assume", lines[k].of = s.by, Fits(c, s, lines[k].n)
    PROVE  Bounded(c \o lines, s)
<1>1. PICK j : j = Len(c) + k
  OBVIOUS
<1>2. j \in DOMAIN (c \o lines) /\ (c \o lines)[j] = lines[k]
  BY <1>1, Joined
<1>3. Fits(c \o lines, s, lines[k].n)
  BY FitsGrows
<1>4. ASSUME NEW i \in DOMAIN (c \o lines), i > j PROVE ~Writes((c \o lines)[i], s.by)
  <2>1. i \notin DOMAIN c
    BY <1>1, <1>4
  <2>2. i - Len(c) \in DOMAIN lines /\ (c \o lines)[i] = lines[i - Len(c)]
    BY <2>1, Joined
  <2>. QED  BY <2>2 DEF Silent, Writes
<1>5. BoundedAt(c \o lines, s, j)
  BY <1>2, <1>3, <1>4 DEF BoundedAt
<1>. QED  BY <1>2, <1>5 DEF Bounded

\* What a call is still to write: the fields from the next one on, and the callbacks.
Ahead(p, g) ==
    {p.structs[g.type].fields[k].name :
        k \in {k \in DOMAIN p.structs[g.type].fields : k >= g.next}}
    \cup ToSet(p.structs[g.type].callbacks)

\* None of it is an lvalue, nor what the lvalue is a part of.
Clear(p, g, l) == (\A n \in Ahead(p, g) : Differ(l, Append(g.prefix, n))) /\ Spares(g.finish, l)

AllClear(p, fs, l) == \A i \in DOMAIN fs : Clear(p, fs[i], l)

\* What is declared, and no call is to write.
Settled(p, fs, c, l) == Rooted(l, DeclaredIn(c)) /\ AllClear(p, fs, l)

\* A call that writes what is declared, and assumes what it owes.
Orderly(p, g, names) ==
    /\ Rooted(g.prefix, names) /\ \A n \in Ahead(p, g) : n \in Identifier
    /\ Uncounting(g.finish) /\ Spares(g.finish, g.prefix)
    /\ \A m \in Touched(g.finish) : Rooted(m, names \cup DeclaredIn(g.finish))
    /\ \A k \in DOMAIN g.constraints : g.constraints[k].op = "assume"
    /\ p.structs[g.type].union => g.constraints = <<>>

\* Every call leaves alone what those within it were called for.
Stands(p, fs, c) ==
    /\ \A i \in DOMAIN fs : Orderly(p, fs[i], DeclaredIn(c))
    /\ \A i, j \in DOMAIN fs : i < j => Clear(p, fs[j], fs[i].prefix)

\* A call owes a pointer the bound on its count.
Owes(g, c, s) ==
    /\ \E n \in Identifier : s.by = Append(g.prefix, n)
    /\ \E k \in DOMAIN g.constraints : g.constraints[k].of = s.by /\ Fits(c, s, g.constraints[k].n)
Owed(fs, c, s) == \E i \in DOMAIN fs : Owes(fs[i], c, s)

\* Each counted pointer has a count that is bounded and settled, or will be when a call
\* returns.
Kept(p, fs, c, s) == (Settled(p, fs, c, s.by) /\ Bounded(c, s)) \/ Owed(fs, c, s)
AllKept(p, fs, c) == \A i \in DOMAIN c : Counted(c[i]) => Kept(p, fs, c, c[i])
Counts(p, fs, c) == Stands(p, fs, c) /\ AllKept(p, fs, c)

LEMMA OwesGrows ==
    ASSUME NEW c \in Seq(Statement), NEW lines \in Seq(Statement), NEW g, NEW s, Owes(g, c, s)
    PROVE  Owes(g, c \o lines, s)
BY FitsGrows DEF Owes

LEMMA OrderlyGrows ==
    ASSUME NEW p, NEW g, NEW names, NEW more, names \subseteq more, Orderly(p, g, names)
    PROVE  Orderly(p, g, more)
<1>1. \A m : Rooted(m, names) => Rooted(m, more)
  BY DEF Rooted
<1>2. \A m : Rooted(m, names \cup DeclaredIn(g.finish)) => Rooted(m, more \cup DeclaredIn(g.finish))
  BY DEF Rooted
<1>. QED  BY <1>1, <1>2 DEF Orderly

\* The others are kept by lines whose own counted pointers are: those bounded are spared,
\* by the lines and by the calls there are then, and those owed still are, or are bounded.
LEMMA KeptBy ==
    ASSUME NEW p, NEW fs, NEW gs, NEW c \in Seq(Statement), NEW lines \in Seq(Statement),
           Once(c \o lines),
           \A i \in DOMAIN lines : Counted(lines[i]) => Kept(p, gs, c \o lines, lines[i]),
           AllKept(p, fs, c),
           \A l \in Lvalue : Settled(p, fs, c, l) => Spares(lines, l) /\ Settled(p, gs, c \o lines, l),
           \A s \in Statement : Counted(s) /\ Owed(fs, c, s) => Kept(p, gs, c \o lines, s)
    PROVE  AllKept(p, gs, c \o lines)
<1>. SUFFICES ASSUME NEW i \in DOMAIN (c \o lines), Counted((c \o lines)[i])
              PROVE  Kept(p, gs, c \o lines, (c \o lines)[i])
  BY DEF AllKept
<1>1. CASE i \notin DOMAIN c
  <2>1. i - Len(c) \in DOMAIN lines /\ (c \o lines)[i] = lines[i - Len(c)]
    BY <1>1, Joined
  <2>. QED  BY <2>1
<1>2. CASE i \in DOMAIN c
  <2>1. PICK s : s = c[i]
    OBVIOUS
  <2>2. (c \o lines)[i] = s /\ s \in Statement
    BY <1>2, <2>1, Joined
  <2>3. Counted(s) /\ Kept(p, fs, c, s)
    BY <1>2, <2>1, <2>2 DEF AllKept
  <2>4. CASE Settled(p, fs, c, s.by) /\ Bounded(c, s)
    <3>1. s.by \in Lvalue
      BY <2>2 DEF Statement
    <3>2. Spares(lines, s.by) /\ Settled(p, gs, c \o lines, s.by)
      BY <2>4, <3>1
    <3>3. Bounded(c \o lines, s)
      BY <2>2, <2>4, <3>2, BoundedStays DEF Settled
    <3>. QED  BY <2>2, <3>2, <3>3 DEF Kept
  <2>5. CASE Owed(fs, c, s)
    BY <2>2, <2>3, <2>5
  <2>. QED  BY <2>3, <2>4, <2>5 DEF Kept
<1>. QED  BY <1>1, <1>2

\* One call, and those it was called from.
Over(g, r) == <<g>> \o r

LEMMA OverForm ==
    ASSUME NEW g \in Call, NEW r \in Seq(Call), NEW fs, fs = Over(g, r)
    PROVE  /\ fs \in Seq(Call) /\ fs[1] = g /\ 1 \in DOMAIN fs
           /\ \A i \in DOMAIN r : i + 1 \in DOMAIN fs /\ fs[i + 1] = r[i]
           /\ \A i \in DOMAIN fs : i = 1 \/ (i - 1 \in DOMAIN r /\ fs[i] = r[i - 1])
           /\ DOMAIN r \subseteq Nat \ {0} /\ DOMAIN fs \subseteq Nat \ {0}
BY DEF Over

LEMMA FrontClear ==
    ASSUME NEW g \in Call, NEW r \in Seq(Call), NEW fs, fs = Over(g, r), NEW p, NEW l
    PROVE  AllClear(p, fs, l) <=> Clear(p, g, l) /\ AllClear(p, r, l)
<1>1. /\ fs \in Seq(Call) /\ fs[1] = g /\ 1 \in DOMAIN fs
      /\ \A i \in DOMAIN r : i + 1 \in DOMAIN fs /\ fs[i + 1] = r[i]
      /\ \A i \in DOMAIN fs : i = 1 \/ (i - 1 \in DOMAIN r /\ fs[i] = r[i - 1])
  BY OverForm
<1>. QED  BY <1>1 DEF AllClear

LEMMA FrontOwes ==
    ASSUME NEW g \in Call, NEW r \in Seq(Call), NEW fs, fs = Over(g, r), NEW c, NEW s
    PROVE  Owed(fs, c, s) <=> Owes(g, c, s) \/ Owed(r, c, s)
<1>1. /\ fs \in Seq(Call) /\ fs[1] = g /\ 1 \in DOMAIN fs
      /\ \A i \in DOMAIN r : i + 1 \in DOMAIN fs /\ fs[i + 1] = r[i]
      /\ \A i \in DOMAIN fs : i = 1 \/ (i - 1 \in DOMAIN r /\ fs[i] = r[i - 1])
  BY OverForm
<1>. QED  BY <1>1 DEF Owed

LEMMA FrontStands ==
    ASSUME NEW g \in Call, NEW r \in Seq(Call), NEW fs, fs = Over(g, r), NEW p, NEW c
    PROVE  Stands(p, fs, c) <=> /\ Orderly(p, g, DeclaredIn(c)) /\ Stands(p, r, c)
                                /\ AllClear(p, r, g.prefix)
<1>1. /\ fs \in Seq(Call) /\ fs[1] = g /\ 1 \in DOMAIN fs
      /\ \A i \in DOMAIN r : i + 1 \in DOMAIN fs /\ fs[i + 1] = r[i]
      /\ \A i \in DOMAIN fs : i = 1 \/ (i - 1 \in DOMAIN r /\ fs[i] = r[i - 1])
      /\ DOMAIN r \subseteq Nat \ {0} /\ DOMAIN fs \subseteq Nat \ {0}
  BY OverForm
<1>2. ASSUME Stands(p, fs, c)
      PROVE  Orderly(p, g, DeclaredIn(c)) /\ Stands(p, r, c) /\ AllClear(p, r, g.prefix)
  <2>1. \A j \in DOMAIN r : 1 < j + 1
    BY <1>1
  <2>2. AllClear(p, r, g.prefix)
    BY <1>1, <1>2, <2>1 DEF Stands, AllClear
  <2>3. \A i, j \in DOMAIN r : i < j => i + 1 < j + 1
    BY <1>1
  <2>4. Stands(p, r, c)
    BY <1>1, <1>2, <2>3 DEF Stands
  <2>. QED  BY <1>1, <1>2, <2>2, <2>4 DEF Stands
<1>3. ASSUME Orderly(p, g, DeclaredIn(c)), Stands(p, r, c), AllClear(p, r, g.prefix)
      PROVE  Stands(p, fs, c)
  <2>1. \A i \in DOMAIN fs : Orderly(p, fs[i], DeclaredIn(c))
    BY <1>1, <1>3 DEF Stands
  <2>2. ASSUME NEW i \in DOMAIN fs, NEW j \in DOMAIN fs, i < j PROVE Clear(p, fs[j], fs[i].prefix)
    <3>1. j # 1 /\ j - 1 \in DOMAIN r /\ fs[j] = r[j - 1]
      BY <1>1, <2>2
    <3>2. CASE i = 1
      BY <1>1, <1>3, <3>1, <3>2 DEF AllClear
    <3>3. CASE i # 1
      <4>1. i - 1 \in DOMAIN r /\ fs[i] = r[i - 1] /\ i - 1 < j - 1
        BY <1>1, <2>2, <3>3
      <4>. QED  BY <1>3, <3>1, <4>1 DEF Stands
    <3>. QED  BY <3>2, <3>3
  <2>. QED  BY <2>1, <2>2 DEF Stands
<1>. QED  BY <1>2, <1>3

\* A call that has come to its next field.
Advanced(p, g, h) ==
    /\ g.next \in Nat /\ h.next = g.next + 1 /\ h.type = g.type /\ h.prefix = g.prefix
    /\ h.finish = g.finish /\ g.prefix \in Lvalue /\ g.prefix # <<>>
    /\ ~p.structs[g.type].union /\ g.next \in DOMAIN p.structs[g.type].fields
    /\ DOMAIN p.structs[g.type].fields \subseteq Nat
    /\ \A k \in DOMAIN p.structs[g.type].fields : p.structs[g.type].fields[k].name \in Identifier
    /\ \A n \in ToSet(p.structs[g.type].callbacks) : n \in Identifier
    /\ \A k \in DOMAIN g.constraints : k \in DOMAIN h.constraints /\ h.constraints[k] = g.constraints[k]
    /\ \A k \in DOMAIN h.constraints : k \in DOMAIN g.constraints \/ h.constraints[k].op = "assume"

NameAt(p, g) == p.structs[g.type].fields[g.next].name

\* The members of a struct of the program have names of their own.
Distinct(p) ==
    \A t \in DOMAIN p.structs :
        /\ \A i, j \in DOMAIN p.structs[t].fields :
              p.structs[t].fields[i].name = p.structs[t].fields[j].name => i = j
        /\ \A i \in DOMAIN p.structs[t].fields :
              p.structs[t].fields[i].name \notin ToSet(p.structs[t].callbacks)

LEMMA AdvancedForm ==
    ASSUME NEW p, NEW g, NEW h, Advanced(p, g, h)
    PROVE  /\ NameAt(p, g) \in Ahead(p, g) /\ NameAt(p, g) \in Identifier
           /\ \A n \in Ahead(p, h) : n \in Ahead(p, g)
           /\ \A n \in Ahead(p, g) : n \in Identifier
           /\ \A l : Clear(p, g, l) => Clear(p, h, l)
           /\ \A names : Orderly(p, g, names) => Orderly(p, h, names)
           /\ \A c, s : Owes(g, c, s) => Owes(h, c, s)
<1>0. g.next >= g.next /\ g.next \in Nat
  BY DEF Advanced
<1>1. NameAt(p, g) \in Ahead(p, g) /\ NameAt(p, g) \in Identifier
  BY <1>0 DEF Advanced, Ahead, NameAt
<1>2. \A k \in DOMAIN p.structs[g.type].fields : k >= h.next => k >= g.next
  BY DEF Advanced
<1>3. h.type = g.type /\ h.prefix = g.prefix /\ h.finish = g.finish
  BY DEF Advanced
<1>4. \A n \in Ahead(p, h) : n \in Ahead(p, g)
  BY <1>2, <1>3 DEF Ahead
<1>5. \A n \in Ahead(p, g) : n \in Identifier
  BY DEF Ahead, Advanced
<1>6. \A l : Clear(p, g, l) => Clear(p, h, l)
  BY <1>3, <1>4 DEF Clear
<1>7. \A names : Orderly(p, g, names) => Orderly(p, h, names)
  <2>. SUFFICES ASSUME NEW names, Orderly(p, g, names) PROVE Orderly(p, h, names)
    OBVIOUS
  <2>1. \A k \in DOMAIN h.constraints : h.constraints[k].op = "assume"
    BY DEF Orderly, Advanced
  <2>2. ~p.structs[h.type].union
    BY <1>3 DEF Advanced
  <2>. QED  BY <1>3, <1>4, <1>5, <2>1, <2>2 DEF Orderly
<1>8. \A c, s : Owes(g, c, s) => Owes(h, c, s)
  <2>. SUFFICES ASSUME NEW c, NEW s, Owes(g, c, s) PROVE Owes(h, c, s)
    OBVIOUS
  <2>1. PICK k \in DOMAIN g.constraints : g.constraints[k].of = s.by /\ Fits(c, s, g.constraints[k].n)
    BY DEF Owes
  <2>2. k \in DOMAIN h.constraints /\ h.constraints[k] = g.constraints[k]
    BY DEF Advanced
  <2>. QED  BY <1>3, <2>1, <2>2 DEF Owes
<1>. QED  BY <1>1, <1>4, <1>5, <1>6, <1>7, <1>8

LEMMA NameBehind ==
    ASSUME NEW p, NEW g, NEW h, Advanced(p, g, h), Distinct(p), g.type \in DOMAIN p.structs
    PROVE  NameAt(p, g) \notin Ahead(p, h)
<1>1. h.type = g.type /\ h.next = g.next + 1 /\ g.next \in Nat /\ g.next \in DOMAIN p.structs[g.type].fields
  BY DEF Advanced
<1>2. ASSUME NEW k \in DOMAIN p.structs[g.type].fields, k >= h.next,
             p.structs[g.type].fields[k].name = p.structs[g.type].fields[g.next].name
      PROVE  FALSE
  <2>1. k = g.next
    BY <1>1, <1>2 DEF Distinct
  <2>. QED  BY <1>1, <1>2, <2>1
<1>3. p.structs[g.type].fields[g.next].name \notin ToSet(p.structs[g.type].callbacks)
  BY <1>1 DEF Distinct
<1>. QED  BY <1>1, <1>2, <1>3 DEF Ahead, NameAt

\* Lines declare more, and undo nothing of that.
LEMMA DeclaredGrows ==
    ASSUME NEW c \in Seq(Statement), NEW lines \in Seq(Statement)
    PROVE  /\ \A v \in DeclaredIn(c) : v \in DeclaredIn(c \o lines)
           /\ \A l : Rooted(l, DeclaredIn(c)) => Rooted(l, DeclaredIn(c \o lines))
           /\ \A p, fs, l : Settled(p, fs, c, l) => Settled(p, fs, c \o lines, l)
           /\ \A p, g : Orderly(p, g, DeclaredIn(c)) => Orderly(p, g, DeclaredIn(c \o lines))
           /\ \A p, fs : Stands(p, fs, c) => Stands(p, fs, c \o lines)
<1>1. DeclaredIn(c) \subseteq DeclaredIn(c \o lines)
  BY DeclaredJoined
<1>2. \A l : Rooted(l, DeclaredIn(c)) => Rooted(l, DeclaredIn(c \o lines))
  BY <1>1 DEF Rooted
<1>3. \A p, fs, l : Settled(p, fs, c, l) => Settled(p, fs, c \o lines, l)
  BY <1>2 DEF Settled
<1>4. \A p, g : Orderly(p, g, DeclaredIn(c)) => Orderly(p, g, DeclaredIn(c \o lines))
  BY <1>1, OrderlyGrows
<1>5. \A p, fs : Stands(p, fs, c) => Stands(p, fs, c \o lines)
  BY <1>4 DEF Stands
<1>. QED  BY <1>1, <1>2, <1>3, <1>4, <1>5

\* A field that is written in place.
TargetOf(p, g) == Append(g.prefix, NameAt(p, g))
InPlace(p, g, h, c, lines) ==
    /\ Advanced(p, g, h) /\ Once(c \o lines) /\ \A m \in Touched(lines) : m = TargetOf(p, g)
    /\ \A i \in DOMAIN lines : Counted(lines[i]) => Owes(h, c \o lines, lines[i])

LEMMA PlaceCounts ==
    ASSUME NEW p, NEW g \in Call, NEW h \in Call, NEW r \in Seq(Call),
           NEW c \in Seq(Statement), NEW lines \in Seq(Statement),
           InPlace(p, g, h, c, lines), Counts(p, Over(g, r), c)
    PROVE  Counts(p, Over(h, r), c \o lines)
<1>1. PICK fs, gs : fs = Over(g, r) /\ gs = Over(h, r)
  OBVIOUS
<1>2. PICK d \in Seq(Statement) : d = c \o lines
  BY Joined
<1>3. Stands(p, fs, c) /\ AllKept(p, fs, c)
  BY <1>1 DEF Counts
<1>4. Advanced(p, g, h) /\ h.prefix = g.prefix
  BY DEF InPlace, Advanced
<1>5. Stands(p, gs, d)
  <2>1. Orderly(p, g, DeclaredIn(d)) /\ Stands(p, r, d) /\ AllClear(p, r, g.prefix)
    BY <1>1, <1>2, <1>3, FrontStands, DeclaredGrows
  <2>2. Orderly(p, h, DeclaredIn(d)) /\ AllClear(p, r, h.prefix)
    BY <1>4, <2>1, AdvancedForm
  <2>. QED  BY <1>1, <2>1, <2>2, FrontStands
<1>6. ASSUME NEW l \in Lvalue, Settled(p, fs, c, l)
      PROVE  Spares(lines, l) /\ Settled(p, gs, d, l)
  <2>1. AllClear(p, r, l) /\ Clear(p, g, l) /\ Rooted(l, DeclaredIn(d))
    BY <1>1, <1>2, <1>6, FrontClear, DeclaredGrows DEF Settled
  <2>2. Differ(l, TargetOf(p, g))
    BY <1>4, <2>1, AdvancedForm DEF Clear, TargetOf
  <2>3. Clear(p, h, l)
    BY <1>4, <2>1, AdvancedForm
  <2>4. AllClear(p, gs, l)
    BY <1>1, <2>1, <2>3, FrontClear
  <2>. QED  BY <2>1, <2>2, <2>4 DEF InPlace, Spares, Settled
<1>7. ASSUME NEW s, Owed(fs, c, s) \/ Owes(h, d, s) PROVE Kept(p, gs, d, s)
  <2>1. Owes(g, c, s) \/ Owed(r, c, s) \/ Owes(h, d, s)
    BY <1>1, <1>7, FrontOwes
  <2>2. Owes(h, d, s) \/ Owed(r, d, s)
    BY <1>2, <1>4, <2>1, AdvancedForm, OwesGrows DEF Owed
  <2>3. Owed(gs, d, s)
    BY <1>1, <2>2, FrontOwes
  <2>. QED  BY <2>3 DEF Kept
<1>8. \A i \in DOMAIN lines : Counted(lines[i]) => Kept(p, gs, d, lines[i])
  BY <1>2, <1>7 DEF InPlace
<1>9. Once(c \o lines)
  BY DEF InPlace
<1>10. AllKept(p, gs, d)
  BY <1>2, <1>3, <1>6, <1>7, <1>8, <1>9, KeptBy
<1>. QED  BY <1>1, <1>2, <1>5, <1>10 DEF Counts

\* What is clear of a call is with its parts.
LEMMA SparesWithin ==
    ASSUME NEW lines, NEW l \in Lvalue, NEW x \in Identifier, Spares(lines, l)
    PROVE  Spares(lines, Append(l, x))
<1>1. \A m \in Touched(lines) : m \in Lvalue
  BY DEF Touched
<1>. QED  BY <1>1, DifferForms DEF Spares

LEMMA ClearWithin ==
    ASSUME NEW p, NEW g \in Call, NEW names, Orderly(p, g, names), NEW l \in Lvalue, Clear(p, g, l)
    PROVE  \A x \in Identifier : Clear(p, g, Append(l, x))
<1>. SUFFICES ASSUME NEW x \in Identifier PROVE Clear(p, g, Append(l, x))
  OBVIOUS
<1>1. g.prefix \in Lvalue
  BY DEF Call
<1>2. \A n \in Ahead(p, g) : Append(g.prefix, n) \in Lvalue /\ Differ(l, Append(g.prefix, n))
  BY <1>1, LvalueForms DEF Orderly, Clear
<1>3. \A n \in Ahead(p, g) : Differ(Append(l, x), Append(g.prefix, n))
  BY <1>2, DifferForms
<1>4. Spares(g.finish, Append(l, x))
  BY SparesWithin DEF Clear
<1>. QED  BY <1>3, <1>4 DEF Clear

\* What is not declared yet is clear of every call there is.
LEMMA NewIsClear ==
    ASSUME NEW p, NEW g \in Call, NEW names, Orderly(p, g, names), NEW v \in Identifier, v \notin names
    PROVE  Clear(p, g, <<v>>)
<1>1. g.prefix \in Lvalue /\ g.prefix # <<>> /\ g.prefix[1] \in names
  BY DEF Call, Orderly, Rooted
<1>2. PICK l \in Lvalue : l = <<v>> /\ l # <<>> /\ l[1] = v
  BY LvalueForms
<1>3. \A n \in Ahead(p, g) : Append(g.prefix, n) \in Lvalue /\ Append(g.prefix, n) # <<>>
                             /\ Append(g.prefix, n)[1] = g.prefix[1]
  BY <1>1, LvalueForms DEF Orderly
<1>4. \A n \in Ahead(p, g) : Differ(l, Append(g.prefix, n))
  BY <1>1, <1>2, <1>3, DifferForms
<1>5. Spares(g.finish, l)
  <2>. SUFFICES ASSUME NEW m \in Touched(g.finish), ~Rooted(m, DeclaredIn(g.finish)) PROVE Differ(l, m)
    BY DEF Spares
  <2>1. m \in Lvalue /\ m # <<>> /\ m[1] \in names
    BY DEF Orderly, Rooted, Touched
  <2>. QED  BY <1>2, <2>1, DifferForms
<1>. QED  BY <1>2, <1>4, <1>5 DEF Clear

\* A call that has just begun.
Begins(p, f, prefix, finish) ==
    /\ f.prefix = prefix /\ f.constraints = <<>> /\ f.finish = finish
    /\ \A n \in Ahead(p, f) : n \in Identifier

LEMMA BeginsApart ==
    ASSUME NEW p, NEW f, NEW prefix \in Lvalue, NEW finish, Begins(p, f, prefix, finish),
           NEW l \in Lvalue, Differ(l, prefix), Spares(finish, l)
    PROVE  Clear(p, f, l)
<1>1. f.prefix = prefix /\ f.finish = finish /\ \A n \in Ahead(p, f) : n \in Identifier
  BY DEF Begins
<1>2. \A n \in Ahead(p, f) : Differ(l, Append(prefix, n))
  BY <1>1, DifferForms
<1>. QED  BY <1>1, <1>2 DEF Clear

\* A struct within another.
Inside(p, g, h, f) ==
    /\ Advanced(p, g, h) /\ NameAt(p, g) \notin Ahead(p, h)
    /\ Begins(p, f, TargetOf(p, g), <<>>)

LEMMA NothingTouched == Touched(<<>>) = {} /\ Uncounting(<<>>) /\ \A l : Spares(<<>>, l)
BY DEF Touched, Uncounting, Spares

LEMMA InsideCounts ==
    ASSUME NEW p, NEW g \in Call, NEW h \in Call, NEW r \in Seq(Call), NEW f \in Call,
           NEW c \in Seq(Statement), Once(c), Inside(p, g, h, f), Counts(p, Over(g, r), c)
    PROVE  Counts(p, Over(f, Over(h, r)), c)
<1>1. PICK fs, gs : fs = Over(g, r) /\ gs = Over(h, r)
  OBVIOUS
<1>2. PICK hs : hs = Over(f, gs)
  OBVIOUS
<1>3. Stands(p, fs, c) /\ AllKept(p, fs, c) /\ gs \in Seq(Call)
  BY <1>1, OverForm DEF Counts
<1>4. /\ Advanced(p, g, h) /\ h.prefix = g.prefix /\ g.prefix \in Lvalue /\ g.prefix # <<>> /\ h.finish = g.finish
      /\ NameAt(p, g) \notin Ahead(p, h) /\ NameAt(p, g) \in Identifier
  BY AdvancedForm DEF Inside, Advanced
<1>5. PICK t \in Lvalue : t = TargetOf(p, g) /\ t # <<>> /\ t[1] = g.prefix[1]
  BY <1>4, LvalueForms DEF TargetOf
<1>6. PICK none : none = <<>>
  OBVIOUS
<1>7. Begins(p, f, t, none)
  BY <1>5, <1>6 DEF Inside
<1>8. /\ Orderly(p, g, DeclaredIn(c)) /\ Stands(p, r, c) /\ AllClear(p, r, g.prefix)
  BY <1>1, <1>3, FrontStands
<1>9. Orderly(p, h, DeclaredIn(c))
  BY <1>4, <1>8, AdvancedForm
<1>10. Stands(p, gs, c)
  BY <1>1, <1>4, <1>8, <1>9, FrontStands
<1>11. Orderly(p, f, DeclaredIn(c))
  <2>1. Rooted(t, DeclaredIn(c))
    BY <1>5, <1>8 DEF Orderly, Rooted
  <2>2. f.prefix = t /\ f.finish = none /\ f.constraints = <<>> /\ \A n \in Ahead(p, f) : n \in Identifier
    BY <1>7 DEF Begins
  <2>3. Uncounting(none) /\ Spares(none, t) /\ Touched(none) = {}
    BY <1>6, NothingTouched
  <2>. QED  BY <2>1, <2>2, <2>3 DEF Orderly
<1>12. AllClear(p, gs, t)
  <2>1. Clear(p, h, t)
    <3>1. \A n \in Ahead(p, h) : n \in Identifier /\ n # NameAt(p, g)
      BY <1>4, <1>9 DEF Orderly
    <3>2. \A n \in Ahead(p, h) : Differ(t, Append(h.prefix, n))
      BY <1>4, <1>5, <3>1, DifferForms DEF TargetOf
    <3>3. Spares(h.finish, t)
      BY <1>4, <1>5, <1>8, SparesWithin DEF TargetOf, Orderly
    <3>. QED  BY <3>2, <3>3 DEF Clear
  <2>2. AllClear(p, r, t)
    <3>1. ASSUME NEW i \in DOMAIN r PROVE Clear(p, r[i], t)
      <4>1. PICK k \in Call : k = r[i]
        OBVIOUS
      <4>2. Orderly(p, k, DeclaredIn(c)) /\ Clear(p, k, g.prefix)
        BY <1>8, <4>1 DEF Stands, AllClear
      <4>. QED  BY <1>4, <1>5, <4>1, <4>2, ClearWithin DEF TargetOf
    <3>. QED  BY <3>1 DEF AllClear
  <2>. QED  BY <1>1, <2>1, <2>2, FrontClear
<1>13. Stands(p, hs, c)
  <2>1. f.prefix = t
    BY <1>7 DEF Begins
  <2>. QED  BY <1>2, <1>3, <1>10, <1>11, <1>12, <2>1, FrontStands
<1>14. ASSUME NEW l \in Lvalue, Settled(p, fs, c, l) PROVE Settled(p, hs, c, l)
  <2>1. AllClear(p, r, l) /\ Clear(p, g, l) /\ Rooted(l, DeclaredIn(c))
    BY <1>1, <1>14, FrontClear DEF Settled
  <2>2. Differ(l, t)
    BY <1>4, <1>5, <2>1, AdvancedForm DEF Clear, TargetOf
  <2>3. Clear(p, h, l)
    BY <1>4, <2>1, AdvancedForm
  <2>4. Spares(none, l)
    BY <1>6, NothingTouched
  <2>5. Clear(p, f, l)
    BY <1>7, <2>2, <2>4, BeginsApart
  <2>6. AllClear(p, gs, l)
    BY <1>1, <2>1, <2>3, FrontClear
  <2>7. AllClear(p, hs, l)
    BY <1>2, <1>3, <2>5, <2>6, FrontClear
  <2>. QED  BY <2>1, <2>7 DEF Settled
<1>15. ASSUME NEW s, Owed(fs, c, s) PROVE Owed(hs, c, s)
  <2>1. Owes(g, c, s) \/ Owed(r, c, s)
    BY <1>1, <1>15, FrontOwes
  <2>2. Owes(h, c, s) \/ Owed(r, c, s)
    BY <1>4, <2>1, AdvancedForm
  <2>3. Owed(gs, c, s)
    BY <1>1, <2>2, FrontOwes
  <2>. QED  BY <1>2, <1>3, <2>3, FrontOwes
<1>16. AllKept(p, hs, c)
  <2>1. ASSUME NEW i \in DOMAIN c, Kept(p, fs, c, c[i]) PROVE Kept(p, hs, c, c[i])
    <3>1. PICK s \in Statement : s = c[i]
      OBVIOUS
    <3>2. s.by \in Lvalue
      BY DEF Statement
    <3>. QED  BY <1>14, <1>15, <2>1, <3>1, <3>2 DEF Kept
  <2>. QED  BY <1>3, <2>1 DEF AllKept
<1>. QED  BY <1>1, <1>2, <1>13, <1>16 DEF Counts

\* A call for what lines have just declared: it writes that, and when it returns what it
\* declares then or what no settled count is in.
Opens(p, fs, gs, c, lines, f) ==
    /\ Once(c \o lines) /\ Silent(lines) /\ gs \in Seq(Call) /\ Stands(p, gs, c)
    /\ \A l \in Lvalue : Settled(p, fs, c, l) => AllClear(p, gs, l)
    /\ \A s : Owed(fs, c, s) => Owed(gs, c, s)
    /\ Uncounting(f.finish)
    /\ \A m \in Touched(f.finish) :
          \/ Rooted(m, DeclaredIn(f.finish))
          \/ /\ Rooted(m, DeclaredIn(c))
             /\ \A l \in Lvalue : Settled(p, fs, c, l) => Differ(l, m)

LEMMA SilentLines ==
    ASSUME NEW lines \in Seq(Statement), Silent(lines)
    PROVE  Touched(lines) = {} /\ Uncounting(lines) /\ \A l : Spares(lines, l)
<1>1. Touched(lines) = {}
  BY DEF Touched, Silent
<1>2. \A op : op \in {"point", "null"} => op \in WritingOps
  BY DEF WritingOps
<1>3. Uncounting(lines)
  BY <1>2 DEF Uncounting, Counted, Silent
<1>. QED  BY <1>1, <1>3 DEF Spares

LEMMA OpensCounts ==
    ASSUME NEW p, NEW fs, NEW gs, NEW c \in Seq(Statement), NEW lines \in Seq(Statement),
           NEW f \in Call, Opens(p, fs, gs, c, lines, f), Counts(p, fs, c),
           NEW v \in Identifier, v \in DeclaredIn(lines), Begins(p, f, <<v>>, f.finish)
    PROVE  Counts(p, Over(f, gs), c \o lines)
<1>1. PICK hs : hs = Over(f, gs)
  OBVIOUS
<1>2. PICK d \in Seq(Statement) : d = c \o lines
  BY Joined
<1>3. /\ gs \in Seq(Call) /\ Stands(p, gs, c) /\ AllKept(p, fs, c) /\ Once(c \o lines)
      /\ Touched(lines) = {} /\ Uncounting(lines) /\ \A l : Spares(lines, l)
  BY SilentLines DEF Opens, Counts
<1>4. PICK t \in Lvalue : t = <<v>> /\ t # <<>> /\ t[1] = v
  BY LvalueForms
<1>5. f.prefix = t /\ f.constraints = <<>> /\ \A n \in Ahead(p, f) : n \in Identifier
  BY <1>4 DEF Begins
<1>6. v \notin DeclaredIn(c) /\ v \in DeclaredIn(d)
  <2>1. v \notin DeclaredIn(c)
    BY <1>3, OnceForms
  <2>2. DeclaredIn(c \o lines) = DeclaredIn(c) \cup DeclaredIn(lines)
    BY DeclaredJoined
  <2>. QED  BY <1>2, <2>1, <2>2
<1>7. Orderly(p, f, DeclaredIn(d))
  <2>1. \A m \in Touched(f.finish) : Rooted(m, DeclaredIn(f.finish)) \/ Rooted(m, DeclaredIn(c))
    BY DEF Opens
  <2>2. \A m \in Touched(f.finish) : Rooted(m, DeclaredIn(d) \cup DeclaredIn(f.finish))
    <3>1. \A x \in DeclaredIn(c) : x \in DeclaredIn(d)
      BY <1>2, DeclaredGrows
    <3>. QED  BY <2>1, <3>1 DEF Rooted
  <2>3. Spares(f.finish, t)
    <3>1. ASSUME NEW m \in Touched(f.finish), Rooted(m, DeclaredIn(c)) PROVE Differ(t, m)
      <4>1. m \in Lvalue /\ m # <<>> /\ m[1] # v
        BY <1>6, <3>1 DEF Rooted, Touched
      <4>. QED  BY <1>4, <4>1, DifferForms
    <3>. QED  BY <2>1, <3>1 DEF Spares
  <2>4. Uncounting(f.finish) /\ Rooted(t, DeclaredIn(d))
    BY <1>4, <1>6 DEF Opens, Rooted
  <2>5. Rooted(f.prefix, DeclaredIn(d)) /\ Spares(f.finish, f.prefix)
    BY <1>5, <2>3, <2>4
  <2>6. \A k \in DOMAIN f.constraints : f.constraints[k].op = "assume"
    BY <1>5
  <2>. QED  BY <1>5, <2>2, <2>4, <2>5, <2>6 DEF Orderly
<1>8. AllClear(p, gs, t)
  <2>1. ASSUME NEW i \in DOMAIN gs PROVE Clear(p, gs[i], t)
    <3>1. PICK k \in Call : k = gs[i]
      BY <1>3
    <3>2. Orderly(p, k, DeclaredIn(c))
      BY <1>3, <3>1 DEF Stands
    <3>3. Clear(p, k, <<v>>)
      BY <1>6, <3>2, NewIsClear
    <3>. QED  BY <1>4, <3>1, <3>3
  <2>. QED  BY <2>1 DEF AllClear
<1>9. Stands(p, hs, d)
  <2>1. Stands(p, gs, d)
    BY <1>2, <1>3, DeclaredGrows
  <2>. QED  BY <1>1, <1>3, <1>5, <1>7, <1>8, <2>1, FrontStands
<1>10. ASSUME NEW l \in Lvalue, Settled(p, fs, c, l) PROVE Settled(p, hs, d, l)
  <2>1. Rooted(l, DeclaredIn(c)) /\ Rooted(l, DeclaredIn(d)) /\ AllClear(p, gs, l)
    BY <1>2, <1>10, DeclaredGrows DEF Opens, Settled
  <2>2. Differ(l, t)
    BY <1>4, <1>6, <2>1, DifferForms DEF Rooted
  <2>3. Spares(f.finish, l)
    BY <1>10 DEF Opens, Spares
  <2>4. Begins(p, f, t, f.finish)
    BY <1>4
  <2>5. Clear(p, f, l)
    BY <2>2, <2>3, <2>4, BeginsApart
  <2>6. AllClear(p, hs, l)
    BY <1>1, <1>3, <2>1, <2>5, FrontClear
  <2>. QED  BY <2>1, <2>6 DEF Settled
<1>11. ASSUME NEW s, Owed(fs, c, s) PROVE Kept(p, hs, d, s)
  <2>1. Owed(gs, c, s)
    BY <1>11 DEF Opens
  <2>2. Owed(gs, d, s)
    BY <1>2, <2>1, OwesGrows DEF Owed
  <2>3. Owed(hs, d, s)
    BY <1>1, <1>3, <2>2, FrontOwes
  <2>. QED  BY <2>3 DEF Kept
<1>12. \A i \in DOMAIN lines : Counted(lines[i]) => Kept(p, hs, d, lines[i])
  BY <1>3 DEF Uncounting
<1>13. AllKept(p, hs, d)
  BY <1>2, <1>3, <1>10, <1>11, <1>12, KeptBy
<1>. QED  BY <1>1, <1>2, <1>9, <1>13 DEF Counts

\* A call that returns, with lines that spare what it is clear of: whoever it owed a bound
\* has it now.
Returns(p, g, r, c, lines) ==
    /\ Once(c \o lines) /\ Uncounting(lines)
    /\ \A l \in Lvalue : Clear(p, g, l) => Spares(lines, l)
    /\ \A s \in Statement : Owes(g, c, s) => Bounded(c \o lines, s)

LEMMA ReturnCounts ==
    ASSUME NEW p, NEW g \in Call, NEW r \in Seq(Call),
           NEW c \in Seq(Statement), NEW lines \in Seq(Statement),
           Returns(p, g, r, c, lines), Counts(p, Over(g, r), c)
    PROVE  Counts(p, r, c \o lines)
<1>1. PICK fs : fs = Over(g, r)
  OBVIOUS
<1>2. PICK d \in Seq(Statement) : d = c \o lines
  BY Joined
<1>3. /\ AllKept(p, fs, c) /\ Orderly(p, g, DeclaredIn(c)) /\ Stands(p, r, c) /\ AllClear(p, r, g.prefix)
  BY <1>1, FrontStands DEF Counts
<1>4. Stands(p, r, d)
  BY <1>2, <1>3, DeclaredGrows
<1>5. ASSUME NEW l \in Lvalue, Settled(p, fs, c, l) PROVE Spares(lines, l) /\ Settled(p, r, d, l)
  <2>1. AllClear(p, r, l) /\ Clear(p, g, l) /\ Rooted(l, DeclaredIn(d))
    BY <1>1, <1>2, <1>5, FrontClear, DeclaredGrows DEF Settled
  <2>. QED  BY <2>1 DEF Returns, Settled
<1>6. ASSUME NEW s \in Statement, Owed(fs, c, s) PROVE Kept(p, r, d, s)
  <2>1. Owes(g, c, s) \/ Owed(r, c, s)
    BY <1>1, <1>6, FrontOwes
  <2>2. CASE Owed(r, c, s)
    <3>1. Owed(r, d, s)
      BY <1>2, <2>2, OwesGrows DEF Owed
    <3>. QED  BY <3>1 DEF Kept
  <2>3. CASE Owes(g, c, s)
    <3>1. PICK x \in Identifier : s.by = Append(g.prefix, x)
      BY <2>3 DEF Owes
    <3>2. PICK q \in Lvalue : q = g.prefix /\ q # <<>> /\ q[1] \in DeclaredIn(c)
      BY <1>3 DEF Orderly, Rooted, Call
    <3>3. Rooted(s.by, DeclaredIn(c))
      <4>1. PICK l \in Lvalue : l = Append(q, x) /\ l # <<>> /\ l[1] = q[1]
        BY <3>2, LvalueForms
      <4>2. s.by = l
        BY <3>1, <3>2, <4>1
      <4>. QED  BY <3>2, <4>1, <4>2 DEF Rooted
    <3>4. Rooted(s.by, DeclaredIn(d))
      BY <1>2, <3>3, DeclaredGrows
    <3>5. AllClear(p, r, s.by)
      <4>1. ASSUME NEW i \in DOMAIN r PROVE Clear(p, r[i], s.by)
        <5>1. PICK k \in Call : k = r[i]
          OBVIOUS
        <5>2. Orderly(p, k, DeclaredIn(c)) /\ Clear(p, k, q)
          BY <1>3, <3>2, <5>1 DEF Stands, AllClear
        <5>. QED  BY <3>1, <3>2, <5>1, <5>2, ClearWithin
      <4>. QED  BY <4>1 DEF AllClear
    <3>6. Bounded(d, s)
      BY <1>2, <2>3 DEF Returns
    <3>. QED  BY <3>4, <3>5, <3>6 DEF Kept, Settled
  <2>. QED  BY <2>1, <2>2, <2>3
<1>7. \A i \in DOMAIN lines : Counted(lines[i]) => Kept(p, r, d, lines[i])
  BY DEF Returns, Uncounting
<1>8. Once(c \o lines)
  BY DEF Returns
<1>9. AllKept(p, r, d)
  BY <1>2, <1>3, <1>5, <1>6, <1>7, <1>8, KeptBy
<1>. QED  BY <1>2, <1>4, <1>9 DEF Counts

\* A union owes nobody, and finishes what it was called for.
LEMMA UnionReturns ==
    ASSUME NEW p, NEW g \in Call, NEW r \in Seq(Call), NEW c \in Seq(Statement),
           Once(c \o g.finish), p.structs[g.type].union, Counts(p, Over(g, r), c)
    PROVE  Counts(p, r, c \o g.finish)
<1>1. PICK lines \in Seq(Statement) : lines = g.finish
  BY DEF Call
<1>2. Orderly(p, g, DeclaredIn(c))
  BY FrontStands DEF Counts
<1>3. g.constraints = <<>> /\ Uncounting(lines)
  BY <1>1, <1>2 DEF Orderly
<1>4. \A s : ~Owes(g, c, s)
  BY <1>3 DEF Owes
<1>5. Returns(p, g, r, c, lines)
  BY <1>1, <1>3, <1>4 DEF Returns, Clear
<1>. QED  BY <1>1, <1>5, ReturnCounts

\* Any other writes its callbacks, then what it owes, then lines that write nothing, then
\* what it was called for.
EndsWith(p, g, c, before, after) ==
    /\ Once(c \o (before \o g.constraints \o after \o g.finish))
    /\ Uncounting(before) /\ Silent(after)
    /\ \A m \in Touched(before) : \E n \in Ahead(p, g) : m = Append(g.prefix, n)

Regrouped(c, a, b, d, e) == c \o (a \o b \o d \o e) = ((c \o a) \o b) \o (d \o e)

LEMMA FourParts ==
    ASSUME NEW c \in Seq(Statement), NEW a \in Seq(Statement), NEW b \in Seq(Statement),
           NEW d \in Seq(Statement), NEW e \in Seq(Statement)
    PROVE  Regrouped(c, a, b, d, e)
<1>1. PICK ab \in Seq(Statement) : ab = a \o b
  BY Joined
<1>2. PICK abd \in Seq(Statement) : abd = ab \o d
  BY Joined
<1>3. PICK ca \in Seq(Statement) : ca = c \o a
  BY Joined
<1>4. PICK cab \in Seq(Statement) : cab = ca \o b
  BY Joined
<1>5. c \o (abd \o e) = (c \o abd) \o e
  BY SMTT(30)
<1>6. c \o (ab \o d) = (c \o ab) \o d
  BY SMTT(30)
<1>7. c \o (a \o b) = (c \o a) \o b
  BY SMTT(30)
<1>8. (cab \o d) \o e = cab \o (d \o e)
  BY SMTT(30)
<1>. QED  BY <1>1, <1>2, <1>3, <1>4, <1>5, <1>6, <1>7, <1>8, Zenon DEF Regrouped

LEMMA EndReturns ==
    ASSUME NEW p, NEW g \in Call, NEW r \in Seq(Call), NEW c \in Seq(Statement),
           NEW before \in Seq(Statement), NEW after \in Seq(Statement),
           EndsWith(p, g, c, before, after), Counts(p, Over(g, r), c)
    PROVE  Counts(p, r, c \o (before \o g.constraints \o after \o g.finish))
<1>1. PICK k \in Seq(Statement), finish \in Seq(Statement) : k = g.constraints /\ finish = g.finish
  BY DEF Call
<1>2. PICK last \in Seq(Statement) : last = after \o finish
  BY Joined
<1>3. PICK lines \in Seq(Statement) : lines = before \o k \o after \o finish
  BY Joined
<1>4. PICK first \in Seq(Statement) : first = c \o before
  BY Joined
<1>5. PICK then \in Seq(Statement) : then = first \o k
  BY Joined
<1>6. c \o lines = then \o last
  <2>1. Regrouped(c, before, k, after, finish)
    BY FourParts
  <2>. QED  BY <1>2, <1>3, <1>4, <1>5, <2>1, Zenon DEF Regrouped
<1>7. Orderly(p, g, DeclaredIn(c)) /\ Once(c \o lines)
  BY <1>1, <1>3, FrontStands DEF Counts, EndsWith
<1>8. Silent(k)
  <2>1. "assume" \notin WritingOps
    BY DEF WritingOps
  <2>. QED  BY <1>1, <1>7, <2>1 DEF Orderly, Silent
<1>9. ASSUME NEW l \in Lvalue, Clear(p, g, l)
      PROVE  Spares(lines, l) /\ Spares(last, l)
  <2>1. Spares(before, l)
    BY <1>9 DEF EndsWith, Clear, Spares
  <2>2. Spares(k, l) /\ Spares(after, l) /\ Spares(finish, l)
    BY <1>1, <1>8, <1>9, SilentLines DEF EndsWith, Clear
  <2>3. PICK bk \in Seq(Statement) : bk = before \o k
    BY Joined
  <2>4. PICK bka \in Seq(Statement) : bka = bk \o after
    BY Joined
  <2>5. Spares(bk, l) /\ Spares(last, l)
    BY <1>2, <2>1, <2>2, <2>3, SparesJoined
  <2>6. Spares(bka, l)
    BY <2>2, <2>4, <2>5, SparesJoined
  <2>7. lines = bka \o finish
    BY <1>3, <2>3, <2>4
  <2>. QED  BY <2>2, <2>5, <2>6, <2>7, SparesJoined
<1>10. Uncounting(lines)
  <2>1. Uncounting(before) /\ Uncounting(k) /\ Uncounting(after) /\ Uncounting(finish)
    BY <1>1, <1>7, <1>8, SilentLines DEF EndsWith, Orderly
  <2>2. PICK bk \in Seq(Statement) : bk = before \o k
    BY Joined
  <2>3. PICK bka \in Seq(Statement) : bka = bk \o after
    BY Joined
  <2>4. Uncounting(bk)
    BY <2>1, <2>2, UncountingJoined
  <2>5. Uncounting(bka)
    BY <2>1, <2>3, <2>4, UncountingJoined
  <2>6. lines = bka \o finish
    BY <1>3, <2>2, <2>3
  <2>. QED  BY <2>1, <2>5, <2>6, UncountingJoined
<1>11. ASSUME NEW s \in Statement, Owes(g, c, s) PROVE Bounded(c \o lines, s)
  <2>1. PICK x \in Identifier : s.by = Append(g.prefix, x)
    BY <1>11 DEF Owes
  <2>2. PICK q \in Lvalue : q = g.prefix /\ q # <<>> /\ q[1] \in DeclaredIn(c)
    BY <1>7 DEF Orderly, Rooted, Call
  <2>3. PICK i \in DOMAIN k : k[i].op = "assume" /\ k[i].of = s.by /\ Fits(c, s, k[i].n)
    BY <1>1, <1>7, <1>11 DEF Owes, Orderly
  <2>4. Fits(first, s, k[i].n)
    BY <1>4, <2>3, FitsGrows
  <2>5. Bounded(then, s)
    BY <1>5, <1>8, <2>3, <2>4, BoundedByOwn
  <2>6. Rooted(s.by, DeclaredIn(c))
    <3>1. PICK l \in Lvalue : l = Append(q, x) /\ l # <<>> /\ l[1] = q[1]
      BY <2>2, LvalueForms
    <3>2. s.by = l
      BY <2>1, <2>2, <3>1
    <3>. QED  BY <2>2, <3>1, <3>2 DEF Rooted
  <2>7. Rooted(s.by, DeclaredIn(then))
    BY <1>4, <1>5, <2>6, DeclaredGrows
  <2>8. Spares(last, s.by)
    <3>1. Spares(finish, q)
      BY <1>1, <1>7, <2>2 DEF Orderly
    <3>2. Spares(finish, s.by)
      BY <2>1, <2>2, <3>1, SparesWithin
    <3>3. Spares(after, s.by)
      BY SilentLines DEF EndsWith
    <3>. QED  BY <1>2, <3>2, <3>3, SparesJoined
  <2>9. Once(then \o last)
    BY <1>6, <1>7
  <2>10. Bounded(then \o last, s)
    BY <2>5, <2>7, <2>8, <2>9, BoundedStays
  <2>. QED  BY <1>6, <2>10
<1>12. Returns(p, g, r, c, lines)
  BY <1>7, <1>9, <1>10, <1>11 DEF Returns
<1>13. Counts(p, r, c \o lines)
  BY <1>12, ReturnCounts
<1>. QED  BY <1>1, <1>3, <1>13

\* Lines with no call at hand, that write only what they declare.
LEMMA AfreshCounts ==
    ASSUME NEW p, NEW c \in Seq(Statement), Counts(p, <<>>, c), NEW lines, Afresh(lines), Once(c \o lines)
    PROVE  Counts(p, <<>>, c \o lines)
<1>1. PICK none : none = <<>>
  OBVIOUS
<1>2. lines \in Seq(Statement) /\ Uncounting(lines) /\ \A l : Spares(lines, l)
  BY AfreshSpares DEF Afresh
<1>3. Stands(p, none, c) /\ AllKept(p, none, c)
  BY <1>1 DEF Counts
<1>4. Stands(p, none, c \o lines)
  BY <1>2, <1>3, DeclaredGrows
<1>5. \A l \in Lvalue : Settled(p, none, c, l) => Spares(lines, l) /\ Settled(p, none, c \o lines, l)
  BY <1>2, DeclaredGrows
<1>6. \A s : ~Owed(none, c, s)
  BY <1>1 DEF Owed
<1>7. \A i \in DOMAIN lines : Counted(lines[i]) => Kept(p, none, c \o lines, lines[i])
  BY <1>2 DEF Uncounting
<1>8. AllKept(p, none, c \o lines)
  BY <1>2, <1>3, <1>5, <1>6, <1>7, KeptBy
<1>. QED  BY <1>1, <1>4, <1>8 DEF Counts

\* The calls there are, and the one at a field as it goes on.
LEMMA CallsAt ==
    ASSUME ObjectTypes, frames # <<>>
    PROVE  Top \in Call /\ Tail(frames) \in Seq(Call) /\ frames = Over(Top, Tail(frames))
<1>1. Calls \subseteq Call
  BY DEF Calls
<1>2. frames \in Seq(Call)
  BY <1>1, SeqGrows DEF ObjectTypes
<1>3. PICK fs \in Seq(Call) : fs = frames /\ fs # <<>>
  BY <1>2
<1>4. fs = <<Head(fs)>> \o Tail(fs) /\ Head(fs) \in Call /\ Tail(fs) \in Seq(Call)
  BY <1>3
<1>. QED  BY <1>3, <1>4, Zenon DEF Top, Over

LEMMA CallsOn ==
    ASSUME ObjectTypes, AtField, NEW owed \in Seq(Statement),
           \A i \in DOMAIN owed : owed[i].op = "assume"
    PROVE  /\ Onward(owed) \in Call /\ Further(owed) = Over(Onward(owed), Tail(frames))
           /\ Advanced(program, Top, Onward(owed)) /\ Onward(owed).prefix = Top.prefix
           /\ \A i \in DOMAIN owed : \E k \in DOMAIN Onward(owed).constraints :
                 Onward(owed).constraints[k] = owed[i]
<1>1. /\ Onward(owed) \in Calls /\ Further(owed) = <<Onward(owed)>> \o Tail(frames)
      /\ Onward(owed).next = Top.next + 1
      /\ Onward(owed).constraints = Top.constraints \o owed
      /\ Onward(owed).type = Top.type /\ Onward(owed).prefix = Top.prefix
      /\ Onward(owed).finish = Top.finish
  BY FurtherForm
<1>2. PICK h \in Call : h = Onward(owed)
  BY <1>1 DEF Calls
<1>3. PICK g \in Call : g = Top
  BY CallsAt DEF AtField
<1>4. /\ g.next \in Nat /\ g.prefix \in Lvalue /\ g.prefix # <<>> /\ g.constraints \in Seq(Statement)
      /\ struct.fields \in Seq(Field) /\ struct.callbacks \in Seq(Identifier)
      /\ ~struct.union /\ g.next \in DOMAIN struct.fields
  BY <1>3, TopForm DEF AtField
<1>5. struct = program.structs[g.type]
  BY <1>3 DEF struct
<1>6. h.constraints = g.constraints \o owed
  BY <1>1, <1>2, <1>3
<1>7. PICK a \in Seq(Statement) : a = g.constraints
  BY <1>4
<1>8. PICK ab \in Seq(Statement) : ab = a \o owed
  BY Joined
<1>n. ab = h.constraints
  BY <1>6, <1>7, <1>8
<1>9. \A k \in DOMAIN a : k \in DOMAIN ab /\ ab[k] = a[k]
  BY <1>8, Joined
<1>10. \A k \in DOMAIN ab : k \in DOMAIN a \/ ab[k].op = "assume"
  <2>1. \A k \in DOMAIN ab : k \in DOMAIN a \/ (k - Len(a) \in DOMAIN owed /\ ab[k] = owed[k - Len(a)])
    BY <1>8, Joined
  <2>. QED  BY <2>1
<1>11. \A i \in DOMAIN owed : \E k \in DOMAIN ab : ab[k] = owed[i]
  <2>1. \A i \in DOMAIN owed : Len(a) + i \in DOMAIN ab /\ ab[Len(a) + i] = owed[i]
    BY <1>8, Joined
  <2>. QED  BY <2>1
<1>12. Advanced(program, g, h)
  <2>1. DOMAIN struct.fields \subseteq Nat
    BY <1>4
  <2>2. \A k \in DOMAIN struct.fields : struct.fields[k].name \in Identifier
    BY <1>4, FieldForm
  <2>3. \A n \in ToSet(struct.callbacks) : n \in Identifier
    BY <1>4 DEF ToSet
  <2>4. /\ h.next = g.next + 1 /\ h.type = g.type /\ h.prefix = g.prefix /\ h.finish = g.finish
    BY <1>1, <1>2, <1>3
  <2>5. /\ \A k \in DOMAIN g.constraints : k \in DOMAIN h.constraints /\ h.constraints[k] = g.constraints[k]
        /\ \A k \in DOMAIN h.constraints : k \in DOMAIN g.constraints \/ h.constraints[k].op = "assume"
    BY <1>7, <1>n, <1>9, <1>10
  <2>. QED  BY <1>4, <1>5, <2>1, <2>2, <2>3, <2>4, <2>5 DEF Advanced
<1>. QED  BY <1>1, <1>2, <1>3, <1>n, <1>11, <1>12 DEF Over

\* The member a field is.
LEMMA TargetAt ==
    ASSUME AtField
    PROVE  NameAt(program, Top) = field.name /\ TargetOf(program, Top) = target
BY DEF NameAt, TargetOf, field, struct, target

\* A field that is written in place.
LEMMA PlaceStep ==
    ASSUME ObjectTypes, AtField, NEW owed \in Seq(Statement),
           \A i \in DOMAIN owed : owed[i].op = "assume",
           NEW lines \in Seq(Statement), code' = code \o lines, program' = program,
           frames' = Further(owed), Once(code'), Counts(program, frames, code),
           \A m \in Touched(lines) : m = target,
           \A i \in DOMAIN lines : Counted(lines[i]) => Owes(Onward(owed), code', lines[i])
    PROVE  Counts(program', frames', code')
<1>0. frames # <<>> /\ code \in Seq(Statement)
  BY DEF AtField, ObjectTypes
<1>c. PICK c \in Seq(Statement) : c = code
  BY <1>0
<1>1. PICK p : p = program
  OBVIOUS
<1>2. PICK g \in Call, r \in Seq(Call) : g = Top /\ r = Tail(frames) /\ frames = Over(g, r)
  BY <1>0, CallsAt
<1>3. PICK h \in Call : h = Onward(owed) /\ frames' = Over(h, r) /\ Advanced(p, g, h)
  BY <1>1, <1>2, CallsOn
<1>4. InPlace(p, g, h, c, lines)
  BY <1>c, <1>1, <1>2, <1>3, TargetAt DEF InPlace
<1>5. Counts(p, Over(g, r), c)
  BY <1>c, <1>1, <1>2
<1>6. Counts(p, Over(h, r), c \o lines)
  BY <1>4, <1>5, PlaceCounts
<1>. QED  BY <1>c, <1>1, <1>3, <1>6

\* What a field's lines write.
LEMMA OneTouched ==
    ASSUME NEW s \in Statement, NEW lines, lines = <<s>>
    PROVE  /\ lines \in Seq(Statement) /\ \A m \in Touched(lines) : m = s.of
           /\ \A i \in DOMAIN lines : lines[i] = s
BY DEF Touched

LEMMA StoredTouched ==
    ASSUME NEW d \in Statement, NEW s \in Statement, d.op = "declare", NEW lines, lines = <<d, s>>
    PROVE  /\ lines \in Seq(Statement) /\ \A m \in Touched(lines) : m = s.of
           /\ \A i \in DOMAIN lines : Counted(lines[i]) => lines[i] = s
           /\ \E i \in DOMAIN lines : lines[i] = d
<1>1. /\ lines \in Seq(Statement) /\ DOMAIN lines = {1, 2} /\ lines[1] = d /\ lines[2] = s
  OBVIOUS
<1>2. ~Counted(d) /\ d.op \notin WritingOps
  BY DEF Counted, WritingOps
<1>3. \A m \in Touched(lines) : m = s.of
  BY <1>1, <1>2 DEF Touched
<1>. QED  BY <1>1, <1>2, <1>3

\* A field that is assigned, or pointed to storage of its own, has no count.
LEMMA UncountedStep ==
    ASSUME ObjectTypes, Counts(program, frames, code), Once(code'), program' = program,
           FillOne \/ FillStored
    PROVE  Counts(program', frames', code')
<1>0. AtField /\ frames' = Further(<<>>) /\ code \in Seq(Statement) /\ target \in Lvalue /\ <<>> \in Lvalue
  BY FieldAt, LvalueForms DEF FillOne, FillStored, ObjectTypes
<1>1. PICK none \in Seq(Statement) : none = <<>>
  BY NothingResolves
<1>2. DOMAIN none = {} /\ Touched(none) = {}
  BY <1>1 DEF Touched
<1>3. ASSUME NEW lines \in Seq(Statement), code' = code \o lines,
             \A m \in Touched(lines) : m = target, \A i \in DOMAIN lines : ~Counted(lines[i])
      PROVE  Counts(program', frames', code')
  BY <1>0, <1>1, <1>2, <1>3, PlaceStep
<1>4. CASE code' = code
  <2>1. code' = code \o none
    BY <1>0, <1>1, <1>4
  <2>. QED  BY <1>2, <1>3, <2>1
<1>5. CASE \E s \in {Nondet(target), Null(target, <<>>), Library(target)} : code' = code \o <<s>>
  <2>1. PICK s \in {Nondet(target), Null(target, <<>>), Library(target)} : code' = code \o <<s>>
    BY <1>5
  <2>2. s \in Statement
    BY <1>0, StatementForms
  <2>3. s.of = target /\ s.by = <<>>
    BY DEF Nondet, Null, Library, Stated
  <2>4. PICK lines : lines = <<s>>
    OBVIOUS
  <2>5. lines \in Seq(Statement) /\ \A m \in Touched(lines) : m = target
    BY <2>2, <2>3, <2>4, OneTouched
  <2>6. \A i \in DOMAIN lines : ~Counted(lines[i])
    BY <2>2, <2>3, <2>4, OneTouched DEF Counted
  <2>. QED  BY <1>3, <2>1, <2>4, <2>5, <2>6
<1>6. CASE FillStored
  <2>1. PICK n, storage : /\ n \in Nat /\ storage = Storage(target, "target")
                           /\ code' = code \o <<Declare(storage, n), Point(target, storage, <<>>)>>
    BY <1>6 DEF FillStored
  <2>2. storage \in Identifier
    <3>1. "target" \in Words
      BY DEF Words
    <3>. QED  BY <1>0, <2>1, <3>1, StorageForm
  <2>3. PICK d \in Statement, s \in Statement : d = Declare(storage, n) /\ s = Point(target, storage, <<>>)
    BY <1>0, <2>1, <2>2, StatementForms
  <2>4. d.op = "declare" /\ s.of = target /\ s.by = <<>>
    BY <2>3 DEF Declare, Point, Stated
  <2>5. PICK lines : lines = <<d, s>>
    OBVIOUS
  <2>6. /\ lines \in Seq(Statement) /\ \A m \in Touched(lines) : m = target
        /\ \A i \in DOMAIN lines : Counted(lines[i]) => lines[i] = s
    BY <2>4, <2>5, StoredTouched
  <2>7. \A i \in DOMAIN lines : ~Counted(lines[i])
    BY <2>4, <2>6 DEF Counted
  <2>8. code' = code \o lines
    BY <2>1, <2>3, <2>5
  <2>. QED  BY <1>3, <2>6, <2>7, <2>8
<1>. QED  BY <1>4, <1>5, <1>6 DEF FillOne

\* A counted field has as many elements as the bound on its count, or none and a count of 0,
\* and it is this call that owes the bound.
LEMMA CountedStep ==
    ASSUME ObjectTypes, Counts(program, frames, code), Once(code'), program' = program,
           FillBuffer \/ FillNoBuffer
    PROVE  Counts(program', frames', code')
<1>0. /\ AtField /\ code \in Seq(Statement) /\ target \in Lvalue /\ field.name \in DOMAIN Top.pairs
      /\ Top.prefix \in Lvalue /\ IsProgram(program) /\ frames # <<>>
  BY FieldAt, TopForm DEF FillBuffer, FillNoBuffer, ObjectTypes, AtField
<1>1. PICK x \in Identifier : CountedBy = Append(Top.prefix, x)
  <2>1. Top.pairs \in UNION {[names -> Identifier] : names \in SUBSET Identifier}
    BY <1>0, TopForm, PairingsForm
  <2>2. Top.pairs[field.name] \in Identifier
    BY <1>0, <2>1
  <2>. QED  BY <2>2 DEF CountedBy
<1>2. PICK by \in Lvalue : by = CountedBy /\ by # <<>>
  BY <1>0, <1>1, LvalueForms
<1>3. ASSUME NEW n \in Nat, frames' = Further(<<Assume(by, n)>>),
             NEW lines \in Seq(Statement), code' = code \o lines,
             \A m \in Touched(lines) : m = target,
             \A i \in DOMAIN lines : Counted(lines[i]) => lines[i].by = by /\ Fits(lines, lines[i], n)
      PROVE  Counts(program', frames', code')
  <2>1. PICK t \in Statement : t = Assume(by, n)
    BY StatementForms
  <2>2. t.op = "assume" /\ t.of = by /\ t.n = n
    BY <2>1 DEF Assume, Stated
  <2>3. PICK owed \in Seq(Statement) : owed = <<t>>
    BY Written
  <2>4. DOMAIN owed = {1} /\ owed[1] = t
    BY <2>3
  <2>5. \A i \in DOMAIN owed : owed[i].op = "assume"
    BY <2>2, <2>4
  <2>6. frames' = Further(owed)
    BY <1>3, <2>1, <2>3
  <2>7. PICK h : h = Onward(owed)
    OBVIOUS
  <2>8. h.prefix = Top.prefix /\ \E k \in DOMAIN h.constraints : h.constraints[k] = t
    BY <1>0, <2>4, <2>5, <2>7, CallsOn
  <2>9. ASSUME NEW i \in DOMAIN lines, Counted(lines[i]) PROVE Owes(h, code', lines[i])
    <3>1. PICK s \in Statement : s = lines[i]
      OBVIOUS
    <3>2. s.by = by /\ Fits(lines, s, n)
      BY <1>3, <2>9, <3>1
    <3>3. Fits(code \o lines, s, n)
      <4>1. \A j \in DOMAIN lines : Len(code) + j \in DOMAIN (code \o lines)
                                     /\ (code \o lines)[Len(code) + j] = lines[j]
        BY <1>0, Joined
      <4>. QED  BY <3>2, <4>1 DEF Fits
    <3>4. \E z \in Identifier : s.by = Append(h.prefix, z)
      BY <1>1, <1>2, <2>8, <3>2
    <3>. QED  BY <1>3, <2>2, <2>8, <3>1, <3>2, <3>3, <3>4 DEF Owes
  <2>. QED  BY <1>0, <1>3, <2>5, <2>6, <2>7, <2>9, PlaceStep
<1>4. CASE FillBuffer
  <2>1. PICK word \in {"items", "bytes"} :
           code' = code \o <<Declare(Storage(target, word), MaxArrayLen),
                             Point(target, Storage(target, word), CountedBy)>>
    BY <1>4 DEF FillBuffer
  <2>2. PICK storage \in Identifier : storage = Storage(target, word)
    <3>1. word \in Words
      BY DEF Words
    <3>. QED  BY <1>0, <3>1, StorageForm
  <2>3. PICK n \in Nat : n = MaxArrayLen
    BY ObjectBoundsAssumption
  <2>4. PICK d \in Statement, s \in Statement : d = Declare(storage, n) /\ s = Point(target, storage, by)
    BY <1>0, <2>1, <2>2, StatementForms
  <2>5. /\ d.op = "declare" /\ d.of = <<storage>> /\ d.n = n
        /\ s.op = "point" /\ s.of = target /\ s.by = by /\ s.to = <<storage>>
    BY <2>4 DEF Declare, Point, Stated
  <2>6. PICK lines : lines = <<d, s>>
    OBVIOUS
  <2>7. /\ lines \in Seq(Statement) /\ \A m \in Touched(lines) : m = target
        /\ \A i \in DOMAIN lines : Counted(lines[i]) => lines[i] = s
        /\ \E i \in DOMAIN lines : lines[i] = d
    BY <2>5, <2>6, StoredTouched
  <2>8. n <= n
    OBVIOUS
  <2>9. Fits(lines, s, n)
    BY <2>5, <2>7, <2>8 DEF Fits
  <2>10. code' = code \o lines
    BY <1>2, <2>1, <2>2, <2>3, <2>4, <2>6, Zenon
  <2>11. frames' = Further(<<Assume(by, n)>>)
    BY <1>2, <1>4, <2>3 DEF FillBuffer
  <2>. QED  BY <1>3, <2>5, <2>7, <2>9, <2>10, <2>11
<1>5. CASE FillNoBuffer
  <2>1. code' = code \o <<Null(target, by)>> /\ frames' = Further(<<Assume(by, 0)>>)
    BY <1>2, <1>5 DEF FillNoBuffer
  <2>2. PICK s \in Statement : s = Null(target, by)
    BY <1>0, StatementForms
  <2>3. s.op = "null" /\ s.of = target /\ s.by = by
    BY <2>2 DEF Null, Stated
  <2>4. PICK lines : lines = <<s>>
    OBVIOUS
  <2>5. /\ lines \in Seq(Statement) /\ \A m \in Touched(lines) : m = target
        /\ \A i \in DOMAIN lines : lines[i] = s
    BY <2>3, <2>4, OneTouched
  <2>6. PICK n \in Nat : n = 0
    OBVIOUS
  <2>7. Fits(lines, s, n)
    BY <2>3, <2>6 DEF Fits
  <2>8. code' = code \o lines /\ frames' = Further(<<Assume(by, n)>>)
    BY <2>1, <2>2, <2>4, <2>6
  <2>. QED  BY <1>3, <2>3, <2>5, <2>7, <2>8
<1>. QED  BY <1>4, <1>5

\* What holds of the calls still does when the first of them goes on.
LEMMA GoesOn ==
    ASSUME NEW p, NEW g \in Call, NEW h \in Call, NEW r \in Seq(Call), NEW c \in Seq(Statement),
           Advanced(p, g, h), Counts(p, Over(g, r), c),
           NEW fs, fs = Over(g, r), NEW gs, gs = Over(h, r)
    PROVE  /\ gs \in Seq(Call) /\ Stands(p, gs, c) /\ Rooted(TargetOf(p, g), DeclaredIn(c))
           /\ \A l \in Lvalue : Settled(p, fs, c, l) => AllClear(p, gs, l) /\ Differ(l, TargetOf(p, g))
           /\ \A s : Owed(fs, c, s) => Owed(gs, c, s)
<1>1. Stands(p, fs, c) /\ gs \in Seq(Call)
  BY OverForm DEF Counts
<1>2. /\ h.prefix = g.prefix /\ g.prefix \in Lvalue /\ g.prefix # <<>>
      /\ NameAt(p, g) \in Identifier /\ NameAt(p, g) \in Ahead(p, g)
  BY AdvancedForm DEF Advanced
<1>3. Orderly(p, g, DeclaredIn(c)) /\ Stands(p, r, c) /\ AllClear(p, r, g.prefix)
  BY <1>1, FrontStands
<1>4. Orderly(p, h, DeclaredIn(c))
  BY <1>3, AdvancedForm
<1>5. Stands(p, gs, c)
  BY <1>2, <1>3, <1>4, FrontStands
<1>6. Rooted(TargetOf(p, g), DeclaredIn(c))
  BY <1>2, <1>3, LvalueForms DEF TargetOf, Orderly, Rooted
<1>7. ASSUME NEW l \in Lvalue, Settled(p, fs, c, l)
      PROVE  AllClear(p, gs, l) /\ Differ(l, TargetOf(p, g))
  <2>1. AllClear(p, r, l) /\ Clear(p, g, l)
    BY <1>7, FrontClear DEF Settled
  <2>2. Clear(p, h, l)
    BY <2>1, AdvancedForm
  <2>3. Differ(l, TargetOf(p, g))
    BY <1>2, <2>1 DEF Clear, TargetOf
  <2>. QED  BY <2>1, <2>2, <2>3, FrontClear
<1>8. ASSUME NEW s, Owed(fs, c, s) PROVE Owed(gs, c, s)
  <2>1. Owes(g, c, s) \/ Owed(r, c, s)
    BY <1>8, FrontOwes
  <2>2. Owes(h, c, s) \/ Owed(r, c, s)
    BY <2>1, AdvancedForm
  <2>. QED  BY <2>2, FrontOwes
<1>. QED  BY <1>1, <1>5, <1>6, <1>7, <1>8

\* A call that is new.
LEMMA FreshBegins ==
    ASSUME IsProgram(program), NEW f \in Calls, NEW prefix, NEW finish, Fresh(f, f.type, prefix, finish)
    PROVE  f \in Call /\ Begins(program, f, prefix, finish) /\ f.finish = finish
<1>1. f \in Call /\ f.type \in Structs
  BY DEF Calls
<1>2. PICK type \in Structs : type = f.type
  BY <1>1
<1>3. program.structs[type].fields \in Seq(Field) /\ program.structs[type].callbacks \in Seq(Identifier)
  BY StructForm
<1>4. \A k \in DOMAIN program.structs[type].fields : program.structs[type].fields[k].name \in Identifier
  BY <1>3, FieldForm
<1>5. \A n \in ToSet(program.structs[type].callbacks) : n \in Identifier
  BY <1>3 DEF ToSet
<1>6. \A n \in Ahead(program, f) : n \in Identifier
  BY <1>2, <1>4, <1>5 DEF Ahead
<1>. QED  BY <1>1, <1>6 DEF Begins, Fresh

\* Whose pointer is followed writes the pointer when it returns.
LEMMA FollowedStep ==
    ASSUME ObjectTypes, Counts(program, frames, code), Once(code'), program' = program, FillFollowed
    PROVE  Counts(program', frames', code')
<1>0. /\ AtField /\ code \in Seq(Statement) /\ target \in Lvalue /\ frames # <<>> /\ <<>> \in Lvalue
      /\ IsProgram(program)
  BY FieldAt, LvalueForms DEF FillFollowed, ObjectTypes, AtField
<1>1. PICK f \in Calls, v \in Identifier :
         /\ code' = code \o <<Declare(v, 1)>> /\ frames' = <<f>> \o Further(<<>>)
         /\ Fresh(f, f.type, <<v>>, <<Point(target, v, <<>>)>>)
  BY FollowedForm
<1>2. f \in Call /\ f.finish = <<Point(target, v, <<>>)>>
      /\ Begins(program, f, <<v>>, <<Point(target, v, <<>>)>>)
  BY <1>0, <1>1, FreshBegins
<1>3. PICK none \in Seq(Statement) : none = <<>>
  BY NothingResolves
<1>4. \A i \in DOMAIN none : none[i].op = "assume"
  BY <1>3
<1>c. PICK c \in Seq(Statement) : c = code
  BY <1>0
<1>p. PICK p : p = program
  OBVIOUS
<1>5. PICK g \in Call, r \in Seq(Call) : g = Top /\ r = Tail(frames) /\ frames = Over(g, r)
  BY <1>0, CallsAt
<1>6. PICK h \in Call : Further(none) = Over(h, r) /\ Advanced(p, g, h)
  BY <1>p, <1>0, <1>4, <1>5, CallsOn
<1>7. PICK fs, gs : fs = Over(g, r) /\ gs = Over(h, r)
  OBVIOUS
<1>8. Counts(p, Over(g, r), c)
  BY <1>c, <1>p, <1>5
<1>9. /\ gs \in Seq(Call) /\ Stands(p, gs, c) /\ Rooted(target, DeclaredIn(c))
      /\ \A l \in Lvalue : Settled(p, fs, c, l) => AllClear(p, gs, l) /\ Differ(l, target)
      /\ \A s : Owed(fs, c, s) => Owed(gs, c, s)
  <2>1. PICK q : q = TargetOf(p, g)
    OBVIOUS
  <2>2. /\ gs \in Seq(Call) /\ Stands(p, gs, c) /\ Rooted(q, DeclaredIn(c))
        /\ \A l \in Lvalue : Settled(p, fs, c, l) => AllClear(p, gs, l) /\ Differ(l, q)
        /\ \A s : Owed(fs, c, s) => Owed(gs, c, s)
    BY <1>6, <1>7, <1>8, <2>1, GoesOn
  <2>3. q = target
    BY <1>0, <1>p, <1>5, <2>1, TargetAt
  <2>. QED  BY <2>2, <2>3
<1>10. PICK d \in Statement, s \in Statement : d = Declare(v, 1) /\ s = Point(target, v, <<>>)
  <2>1. PICK one \in Nat : one = 1
    OBVIOUS
  <2>. QED  BY <1>0, <2>1, StatementForms
<1>11. /\ d.op = "declare" /\ d.of = <<v>> /\ s.of = target /\ s.by = <<>>
  BY <1>10 DEF Declare, Point, Stated
<1>12. PICK lines : lines = <<d>>
  OBVIOUS
<1>13. PICK finish : finish = <<s>>
  OBVIOUS
<1>14. lines \in Seq(Statement) /\ Silent(lines) /\ v \in DeclaredIn(lines)
  <2>1. lines \in Seq(Statement) /\ DOMAIN lines = {1} /\ lines[1] = d
    BY <1>12
  <2>. QED  BY <1>11, <2>1 DEF Silent, WritingOps, DeclaredIn
<1>15. finish \in Seq(Statement) /\ Uncounting(finish) /\ \A m \in Touched(finish) : m = target
  BY <1>11, <1>13, OneTouched DEF Uncounting, Counted
<1>16. f.finish = finish
  BY <1>2, <1>10, <1>13
<1>17. code' = c \o lines
  BY <1>c, <1>1, <1>10, <1>12
<1>18. Opens(p, fs, gs, c, lines, f)
  BY <1>9, <1>14, <1>15, <1>16, <1>17 DEF Opens
<1>19. Begins(p, f, <<v>>, f.finish)
  BY <1>p, <1>2
<1>20. Counts(p, fs, c)
  BY <1>7, <1>8
<1>21. Counts(p, Over(f, gs), c \o lines)
  BY <1>2, <1>14, <1>18, <1>19, <1>20, OpensCounts
<1>22. frames' = Over(f, gs)
  BY <1>1, <1>3, <1>6, <1>7, Zenon DEF Over
<1>. QED  BY <1>p, <1>17, <1>21, <1>22

\* A struct within another is filled before what is behind it.
LEMMA WithinStep ==
    ASSUME ObjectTypes, Counts(program, frames, code), Once(code), program' = program, FillWithin,
           Distinct(program)
    PROVE  Counts(program', frames', code')
<1>0. /\ AtField /\ code \in Seq(Statement) /\ frames # <<>> /\ code' = code /\ IsProgram(program)
  BY DEF FillWithin, ObjectTypes, AtField
<1>1. PICK f \in Calls : frames' = <<f>> \o Further(<<>>) /\ Fresh(f, f.type, target, <<>>)
  BY WithinForm
<1>2. f \in Call /\ Begins(program, f, target, <<>>)
  BY <1>0, <1>1, FreshBegins
<1>3. PICK none \in Seq(Statement) : none = <<>>
  BY NothingResolves
<1>4. \A i \in DOMAIN none : none[i].op = "assume"
  BY <1>3
<1>c. PICK c \in Seq(Statement) : c = code
  BY <1>0
<1>p. PICK p : p = program
  OBVIOUS
<1>5. PICK g \in Call, r \in Seq(Call) : g = Top /\ r = Tail(frames) /\ frames = Over(g, r)
  BY <1>0, CallsAt
<1>6. PICK h \in Call : Further(none) = Over(h, r) /\ Advanced(p, g, h)
  BY <1>p, <1>0, <1>4, <1>5, CallsOn
<1>7. g.type \in DOMAIN p.structs
  BY <1>0, <1>p, <1>5, TopForm DEF Structs
<1>8. NameAt(p, g) \notin Ahead(p, h)
  BY <1>p, <1>6, <1>7, NameBehind
<1>9. Inside(p, g, h, f)
  BY <1>0, <1>p, <1>2, <1>5, <1>6, <1>8, TargetAt DEF Inside
<1>10. Counts(p, Over(g, r), c) /\ Once(c)
  BY <1>c, <1>p, <1>5
<1>11. Counts(p, Over(f, Over(h, r)), c)
  BY <1>2, <1>9, <1>10, InsideCounts
<1>12. frames' = Over(f, Over(h, r))
  BY <1>1, <1>3, <1>6, Zenon DEF Over
<1>. QED  BY <1>c, <1>p, <1>0, <1>11, <1>12

\* A call returns.
LEMMA ReturnStep ==
    ASSUME ObjectTypes, Counts(program, frames, code), Once(code'), program' = program,
           LeaveUnion \/ FinishFields
    PROVE  Counts(program', frames', code')
<1>0. /\ code \in Seq(Statement) /\ frames # <<>> /\ frames' = Tail(frames)
  BY DEF LeaveUnion, FinishFields, ObjectTypes
<1>c. PICK c \in Seq(Statement) : c = code
  BY <1>0
<1>p. PICK p : p = program
  OBVIOUS
<1>1. PICK g \in Call, r \in Seq(Call) : g = Top /\ r = Tail(frames) /\ frames = Over(g, r)
  BY <1>0, CallsAt
<1>2. Counts(p, Over(g, r), c)
  BY <1>c, <1>p, <1>1
<1>3. CASE LeaveUnion
  <2>1. code' = c \o g.finish /\ p.structs[g.type].union
    BY <1>c, <1>p, <1>1, <1>3 DEF LeaveUnion, Emit, struct
  <2>2. Counts(p, r, c \o g.finish)
    BY <1>2, <2>1, UnionReturns
  <2>. QED  BY <1>p, <1>0, <1>1, <2>1, <2>2
<1>4. CASE FinishFields
  <2>1. PICK before \in Seq(LinesBefore), after \in Seq(LinesAfter) :
           code' = code \o (before \o Top.constraints \o after \o Top.finish)
    BY <1>4, FinishForm
  <2>2. code' = c \o (before \o g.constraints \o after \o g.finish)
    BY <1>c, <1>1, <2>1
  <2>3. before \in Seq(Statement) /\ after \in Seq(Statement)
    <3>1. LinesBefore \subseteq Statement /\ LinesAfter \subseteq Statement
      BY DEF LinesBefore, LinesAfter
    <3>. QED  BY <3>1, SeqGrows
  <2>4. ASSUME NEW i \in DOMAIN before
        PROVE  ~Counted(before[i]) /\ \E n \in Ahead(p, g) : before[i].of = Append(g.prefix, n)
    <3>1. before[i] \in LinesBefore
      OBVIOUS
    <3>2. PICK n \in ToSet(struct.callbacks) : before[i] = Library(Append(Top.prefix, n))
      BY <3>1 DEF LinesBefore
    <3>3. before[i].of = Append(g.prefix, n) /\ before[i].by = <<>>
      BY <1>1, <3>2 DEF Library, Stated
    <3>4. n \in Ahead(p, g)
      BY <1>p, <1>1 DEF Ahead, struct
    <3>. QED  BY <3>3, <3>4 DEF Counted
  <2>5. Uncounting(before) /\ \A m \in Touched(before) : \E n \in Ahead(p, g) : m = Append(g.prefix, n)
    BY <2>4 DEF Uncounting, Touched
  <2>6. Silent(after)
    <3>1. \A i \in DOMAIN after : after[i] \in LinesAfter
      OBVIOUS
    <3>2. \A s \in LinesAfter : s.op \notin WritingOps
      BY DEF LinesAfter, WritingOps
    <3>. QED  BY <3>1, <3>2 DEF Silent
  <2>7. EndsWith(p, g, c, before, after)
    BY <2>2, <2>5, <2>6 DEF EndsWith
  <2>8. Counts(p, r, c \o (before \o g.constraints \o after \o g.finish))
    BY <1>2, <2>3, <2>7, EndReturns
  <2>. QED  BY <1>p, <1>0, <1>1, <2>2, <2>8
<1>. QED  BY <1>3, <1>4

LEMMA FillCounts ==
    ASSUME ObjectTypes, Counts(program, frames, code), Once(code), Once(code'), FillStep, Distinct(program)
    PROVE  Counts(program', frames', code')
<1>1. /\ program' = program
      /\ \/ LeaveUnion \/ FinishFields
         \/ FillOne \/ FillStored \/ FillBuffer \/ FillNoBuffer \/ FillFollowed \/ FillWithin
  BY FillForms
<1>. QED  BY <1>1, UncountedStep, CountedStep, FollowedStep, WithinStep, ReturnStep

\* Lines that write nothing are such.
LEMMA SilentAfresh ==
    ASSUME NEW lines \in Seq(Statement), Silent(lines)
    PROVE  Afresh(lines)
BY SilentLines DEF Afresh

\* A variable, and its value.
LEMMA PairAfresh ==
    ASSUME NEW v \in Identifier, NEW d \in Statement, NEW s \in Statement,
           d.op = "declare", d.of = <<v>>, s.of = <<v>>, s.by = <<>>,
           NEW lines, lines = <<d, s>>
    PROVE  Afresh(lines)
<1>0. /\ lines \in Seq(Statement) /\ DOMAIN lines = {1, 2} /\ lines[1] = d /\ lines[2] = s
  OBVIOUS
<1>d. ~Counted(d) /\ d.op \notin WritingOps
  BY DEF Counted, WritingOps
<1>1. /\ lines \in Seq(Statement) /\ \A m \in Touched(lines) : m = <<v>>
      /\ \A i \in DOMAIN lines : Counted(lines[i]) => lines[i] = s
      /\ \E i \in DOMAIN lines : lines[i] = d
  BY <1>0, <1>d DEF Touched
<1>2. Uncounting(lines)
  BY <1>1 DEF Uncounting, Counted
<1>3. v \in DeclaredIn(lines)
  BY <1>1 DEF DeclaredIn
<1>4. \A m \in Touched(lines) : Rooted(m, DeclaredIn(lines))
  <2>1. PICK m \in Lvalue : m = <<v>> /\ m # <<>> /\ m[1] = v
    BY LvalueForms
  <2>. QED  BY <1>1, <1>3, <2>1 DEF Rooted
<1>. QED  BY <1>1, <1>2, <1>4 DEF Afresh

LEMMA VariableAfresh ==
    ASSUME NEW v \in Identifier, NEW n \in Nat, NEW storage \in Identifier
    PROVE  /\ Afresh(<<Declare(v, n), Nondet(<<v>>)>>)
           /\ Afresh(<<Declare(v, n), Library(<<v>>)>>)
           /\ Afresh(<<Declare(v, n), Point(<<v>>, storage, <<>>)>>)
           /\ Afresh(Made(v))
<1>0. <<>> \in Lvalue /\ <<v>> \in Lvalue /\ "nonnull" \in Conditions
  BY LvalueForms DEF Conditions
<1>d. ASSUME NEW k \in Nat PROVE Declare(v, k) \in Statement /\ Declare(v, k).op = "declare" /\ Declare(v, k).of = <<v>>
  BY StatementForms DEF Declare, Stated
<1>s. ASSUME NEW k \in Nat, NEW s \in {Nondet(<<v>>), Library(<<v>>), Point(<<v>>, storage, <<>>)}
      PROVE  Afresh(<<Declare(v, k), s>>)
  <2>1. s \in Statement
    BY <1>0, StatementForms
  <2>2. s.of = <<v>> /\ s.by = <<>>
    BY DEF Nondet, Library, Point, Stated
  <2>3. PICK d \in Statement : d = Declare(v, k) /\ d.op = "declare" /\ d.of = <<v>>
    BY <1>d
  <2>4. PICK lines : lines = <<d, s>>
    OBVIOUS
  <2>5. Afresh(lines)
    BY <2>1, <2>2, <2>3, <2>4, PairAfresh
  <2>. QED  BY <2>3, <2>4, <2>5
<1>1. Afresh(Made(v))
  <2>1. PICK one \in Nat : one = 1
    OBVIOUS
  <2>2. PICK d \in Statement, s \in Statement : d = Declare(v, 1) /\ s = Library(<<v>>)
    BY <1>0, <1>d, <2>1, StatementForms
  <2>3. PICK t \in Statement : t = Stated("nonnull", <<v>>, <<>>, <<>>, 0) /\ t.op = "nonnull"
    BY <1>0, StatementForms DEF Stated
  <2>4. PICK first : first = <<d, s>>
    OBVIOUS
  <2>5. Afresh(first)
    BY <1>s, <2>1, <2>2, <2>4
  <2>6. PICK last : last = <<t>>
    OBVIOUS
  <2>7. Afresh(last)
    <3>1. last \in Seq(Statement) /\ \A i \in DOMAIN last : last[i] = t
      BY <2>6
    <3>2. Silent(last)
      BY <2>3, <3>1 DEF Silent, WritingOps
    <3>. QED  BY <3>1, <3>2, SilentAfresh
  <2>8. Afresh(first \o last)
    BY <2>5, <2>7, AfreshJoined
  <2>9. Made(v) = first \o last
    <3>1. <<d, s, t>> = <<d, s>> \o <<t>>
      BY LinesApart
    <3>. QED  BY <2>2, <2>3, <2>4, <2>6, <3>1, Zenon DEF Made
  <2>. QED  BY <2>8, <2>9
<1>. QED  BY <1>s, <1>1

\* What a pointer parameter points to, and the pointer.
LEMMA PointToAfresh ==
    ASSUME NEW v \in Identifier, NEW word \in Words, NEW n \in Nat
    PROVE  Afresh(PointTo(v, word, n))
<1>1. PICK storage \in Identifier : storage = Append(v, word)
  BY LvalueForms
<1>2. PICK one \in Nat : one = 1
  OBVIOUS
<1>3. PICK first : first = <<Declare(storage, n), Nondet(<<storage>>)>>
  OBVIOUS
<1>4. PICK second : second = <<Declare(v, one), Point(<<v>>, storage, <<>>)>>
  OBVIOUS
<1>5. Afresh(first) /\ Afresh(second)
  BY <1>3, <1>4, VariableAfresh
<1>6. Afresh(first \o second)
  BY <1>5, AfreshJoined
<1>7. PointTo(v, word, n) = first \o second
  <2>1. PICK p \in Statement, q \in Statement, r \in Statement, s \in Statement :
           /\ p = Declare(storage, n) /\ q = Nondet(<<storage>>)
           /\ r = Declare(v, 1) /\ s = Point(<<v>>, storage, <<>>)
    BY LineForms
  <2>2. <<p, q, r, s>> = <<p, q>> \o <<r, s>>
    BY LinesApart, SMTT(30)
  <2>3. first = <<p, q>> /\ second = <<r, s>>
    BY <1>2, <1>3, <1>4, <2>1, Zenon
  <2>4. PointTo(v, word, n) = <<p, q, r, s>>
    BY <1>1, <2>1, Zenon DEF PointTo
  <2>. QED  BY <2>2, <2>3, <2>4, Zenon
<1>. QED  BY <1>6, <1>7, Zenon

\* Both ends of a buffer.
LEMMA CursorAfresh ==
    ASSUME NEW v \in Identifier, NEW w \in Identifier, NEW storage \in Identifier, NEW holder \in Identifier
    PROVE  Afresh(CursorLines(v, w, storage, holder))
<1>0. MaxArrayLen \in Nat
  BY ObjectBoundsAssumption
<1>n. PICK one \in Nat : one = 1
  OBVIOUS
<1>1. PICK a : a = <<Declare(storage, MaxArrayLen), Nondet(<<storage>>)>>
  OBVIOUS
<1>2. PICK b : b = <<Declare(w, one), Point(<<w>>, storage, <<>>)>>
  OBVIOUS
<1>3. PICK c : c = <<Declare(holder, one), Point(<<holder>>, storage, <<>>)>>
  OBVIOUS
<1>4. PICK d : d = <<Declare(v, one), Point(<<v>>, holder, <<>>)>>
  OBVIOUS
<1>5. Afresh(a) /\ Afresh(b) /\ Afresh(c) /\ Afresh(d)
  BY <1>0, <1>1, <1>2, <1>3, <1>4, VariableAfresh
<1>6. Afresh(c \o d)
  BY <1>5, AfreshJoined
<1>7. Afresh(b \o (c \o d))
  BY <1>5, <1>6, AfreshJoined
<1>8. Afresh(a \o (b \o (c \o d)))
  BY <1>5, <1>7, AfreshJoined
<1>9. CursorLines(v, w, storage, holder) = a \o (b \o (c \o d))
  <2>0. PICK p \in Statement, q \in Statement : p = Declare(storage, MaxArrayLen) /\ q = Nondet(<<storage>>)
    BY <1>0, LineForms
  <2>1. PICK r \in Statement, s \in Statement : r = Declare(w, 1) /\ s = Point(<<w>>, storage, <<>>)
    BY LineForms
  <2>2. PICK t \in Statement, u \in Statement, x \in Statement, y \in Statement :
           /\ t = Declare(holder, 1) /\ u = Point(<<holder>>, storage, <<>>)
           /\ x = Declare(v, 1) /\ y = Point(<<v>>, holder, <<>>)
    BY LineForms
  <2>3. <<p, q, r, s, t, u, x, y>> = <<p, q>> \o (<<r, s>> \o (<<t, u>> \o <<x, y>>))
    OBVIOUS
  <2>4. a = <<p, q>> /\ b = <<r, s>> /\ c = <<t, u>> /\ d = <<x, y>>
    BY <1>n, <1>1, <1>2, <1>3, <1>4, <2>0, <2>1, <2>2, Zenon
  <2>. QED  BY <2>0, <2>1, <2>2, <2>3, <2>4, Zenon DEF CursorLines
<1>. QED  BY <1>8, <1>9, Zenon

\* The variable asked for, and what is to follow.
LEMMA DeliverAfresh ==
    ASSUME NEW request, Requested(request), Afresh(request.finish), NEW storage \in Identifier
    PROVE  Afresh(Deliver(request, storage))
<1>1. PICK v \in Identifier : v = request.as
  BY DEF Requested
<1>2. PICK one \in Nat : one = 1
  OBVIOUS
<1>3. PICK first : first = <<Declare(v, one), Point(<<v>>, storage, <<>>)>>
  OBVIOUS
<1>4. PICK finish : finish = request.finish
  OBVIOUS
<1>5. Afresh(first) /\ Afresh(finish)
  BY <1>3, <1>4, VariableAfresh
<1>6. Afresh(first \o finish)
  BY <1>5, AfreshJoined
<1>7. Deliver(request, storage) = first \o finish
  BY <1>1, <1>2, <1>3, <1>4, Zenon DEF Deliver
<1>. QED  BY <1>6, <1>7, Zenon

Among(lines, s) == \E i \in DOMAIN lines : lines[i] = s

LEMMA AmongJoined ==
    ASSUME NEW a \in Seq(Statement), NEW b \in Seq(Statement), NEW s, Among(a, s) \/ Among(b, s)
    PROVE  Among(a \o b, s)
<1>1. /\ \A i \in DOMAIN a : i \in DOMAIN (a \o b) /\ (a \o b)[i] = a[i]
      /\ \A i \in DOMAIN b : Len(a) + i \in DOMAIN (a \o b) /\ (a \o b)[Len(a) + i] = b[i]
  BY Joined
<1>2. CASE Among(a, s)
  <2>1. PICK i \in DOMAIN a : a[i] = s
    BY <1>2 DEF Among
  <2>. QED  BY <1>1, <2>1 DEF Among
<1>3. CASE Among(b, s)
  <2>1. PICK i \in DOMAIN b : b[i] = s
    BY <1>3 DEF Among
  <2>. QED  BY <1>1, <2>1 DEF Among
<1>. QED  BY <1>2, <1>3

\* A pointer behind lines that bound its count by what they declare for it: the count is
\* one that was declared before, which none of the lines writes.
LEMMA CountingCounts ==
    ASSUME NEW p, NEW c \in Seq(Statement), NEW front, Afresh(front),
           NEW v \in Identifier, NEW l \in Identifier, l \in DeclaredIn(c),
           NEW t, Among(front, t), t.op = "assume", t.of = <<l>>, t.n \in Nat,
           NEW d, Among(front, d), d.op = "declare", d.n = t.n,
           NEW e \in Statement, e.op = "declare", e.of = <<v>>,
           NEW s \in Statement, s.op = "point", s.of = <<v>>, s.to = d.of, s.by = <<l>>,
           NEW last, last = <<e, s>>, Once(c \o (front \o last)), Counts(p, <<>>, c)
    PROVE  Counts(p, <<>>, c \o (front \o last))
<1>0. /\ last \in Seq(Statement) /\ DOMAIN last = {1, 2} /\ last[1] = e /\ last[2] = s
      /\ front \in Seq(Statement)
  BY DEF Afresh
<1>1. PICK lines \in Seq(Statement) : lines = front \o last
  BY <1>0, Joined
<1>2. PICK by \in Lvalue : by = s.by /\ by = <<l>> /\ by # <<>> /\ by[1] = l
  BY LvalueForms DEF Statement
<1>3. PICK of \in Lvalue : of = <<v>> /\ of = s.of /\ of # <<>> /\ of[1] = v
  BY LvalueForms
<1>4. ~Counted(e) /\ e.op \notin WritingOps
  BY DEF Counted, WritingOps
<1>5. v \in DeclaredIn(last) /\ \A m \in Touched(last) : m = of
  BY <1>0, <1>3, <1>4 DEF DeclaredIn, Touched
<1>6. \A m \in Touched(lines) : Rooted(m, DeclaredIn(lines))
  <2>1. DeclaredIn(lines) = DeclaredIn(front) \cup DeclaredIn(last)
    BY <1>0, <1>1, DeclaredJoined
  <2>2. \A m \in Touched(lines) : m \in Touched(front) \/ m \in Touched(last)
    BY <1>0, <1>1, TouchedJoined
  <2>3. \A m \in Touched(front) : Rooted(m, DeclaredIn(front))
    BY DEF Afresh
  <2>. QED  BY <1>3, <1>5, <2>1, <2>2, <2>3 DEF Rooted
<1>7. \A m : Spares(lines, m)
  BY <1>6 DEF Spares
<1>8. \A i \in DOMAIN lines : Counted(lines[i]) => lines[i] = s
  <2>. SUFFICES ASSUME NEW i \in DOMAIN lines, Counted(lines[i]) PROVE lines[i] = s
    OBVIOUS
  <2>1. CASE i \in DOMAIN front
    <3>1. lines[i] = front[i]
      BY <1>0, <1>1, <2>1, Joined
    <3>. QED  BY <2>1, <3>1 DEF Afresh, Uncounting
  <2>2. CASE i \notin DOMAIN front
    <3>1. i - Len(front) \in DOMAIN last /\ lines[i] = last[i - Len(front)]
      BY <1>0, <1>1, <2>2, Joined
    <3>. QED  BY <1>0, <1>4, <3>1
  <2>. QED  BY <2>1, <2>2
<1>9. Among(lines, t) /\ Among(lines, d)
  BY <1>0, <1>1, AmongJoined
<1>10. PICK b \in Seq(Statement) : b = c \o lines
  BY Joined
<1>o. Once(c \o lines)
  BY <1>1
<1>11. /\ \A i \in DOMAIN lines : Len(c) + i \in DOMAIN b /\ b[Len(c) + i] = lines[i]
       /\ \A i \in DOMAIN b : i \in DOMAIN c \/ (i - Len(c) \in DOMAIN lines /\ b[i] = lines[i - Len(c)])
  BY <1>10, Joined
<1>12. Fits(b, s, t.n)
  <2>1. PICK i \in DOMAIN b : b[i] = d
    BY <1>9, <1>11 DEF Among
  <2>. QED  BY <2>1 DEF Fits
<1>13. Bounded(b, s)
  <2>1. PICK i \in DOMAIN lines : lines[i] = t
    BY <1>9 DEF Among
  <2>2. PICK j \in DOMAIN b : j = Len(c) + i /\ b[j] = t
    BY <1>11, <2>1
  <2>3. Rooted(by, DeclaredIn(c))
    BY <1>2 DEF Rooted
  <2>4. \A k \in DOMAIN lines : ~Writes(lines[k], by)
    BY <1>7, <1>o, <2>3, NotWritten
  <2>5. ASSUME NEW k \in DOMAIN b, k > j PROVE ~Writes(b[k], s.by)
    <3>1. k \notin DOMAIN c
      BY <2>2, <2>5
    <3>. QED  BY <1>2, <1>11, <2>4, <3>1
  <2>6. BoundedAt(b, s, j)
    BY <1>12, <2>2, <2>5 DEF BoundedAt
  <2>. QED  BY <2>6 DEF Bounded
<1>14. PICK none : none = <<>>
  OBVIOUS
<1>15. Stands(p, none, c) /\ AllKept(p, none, c)
  BY <1>14 DEF Counts
<1>16. Stands(p, none, b) /\ \A m : Rooted(m, DeclaredIn(c)) => Rooted(m, DeclaredIn(b))
  BY <1>10, <1>15, DeclaredGrows
<1>17. \A m \in Lvalue : Settled(p, none, c, m) => Spares(lines, m) /\ Settled(p, none, b, m)
  BY <1>7, <1>16 DEF Settled
<1>18. \A x : ~Owed(none, c, x)
  BY <1>14 DEF Owed
<1>19. Kept(p, none, b, s)
  <2>1. Rooted(by, DeclaredIn(b)) /\ AllClear(p, none, by)
    BY <1>2, <1>14, <1>16 DEF Rooted, AllClear
  <2>. QED  BY <1>2, <1>13, <2>1 DEF Kept, Settled
<1>20. \A i \in DOMAIN lines : Counted(lines[i]) => Kept(p, none, b, lines[i])
  BY <1>8, <1>19
<1>21. AllKept(p, none, b)
  BY <1>o, <1>10, <1>15, <1>17, <1>18, <1>20, KeptBy
<1>. QED  BY <1>1, <1>10, <1>14, <1>16, <1>21 DEF Counts

\* A buffer whose length was declared.
LEMMA BufferCounts ==
    ASSUME NEW p, NEW c \in Seq(Statement), Counts(p, <<>>, c),
           NEW v \in Identifier, NEW l \in Identifier, l \in DeclaredIn(c), NEW storage \in Identifier,
           NEW signed, NEW text, NEW lines, lines = BufferLines(v, l, storage, signed, text),
           Once(c \o lines)
    PROVE  Counts(p, <<>>, c \o lines)
<1>0. MaxArrayLen \in Nat /\ <<l>> \in Lvalue /\ <<v>> \in Lvalue /\ <<>> \in Lvalue /\ <<storage>> \in Lvalue
  BY ObjectBoundsAssumption, LvalueForms
<1>n. PICK one \in Nat : one = 1
  OBVIOUS
<1>m. PICK n \in Nat : n = MaxArrayLen
  BY <1>0
<1>1. PICK t \in Statement : t = Assume(<<l>>, n) /\ t.op = "assume" /\ t.of = <<l>> /\ t.n = n
  BY <1>0, StatementForms DEF Assume, Stated
<1>2. PICK u \in Statement : u = Stated("nonnegative", <<l>>, <<>>, <<>>, 0) /\ u.op = "nonnegative"
  BY <1>0, StatementForms DEF Conditions, Stated
<1>3. PICK d \in Statement : d = Declare(storage, n) /\ d.op = "declare" /\ d.of = <<storage>> /\ d.n = n
  BY StatementForms DEF Declare, Stated
<1>4. PICK w \in Statement : w = Nondet(<<storage>>)
  BY <1>0, StatementForms
<1>5. PICK x \in Statement : x = Stated("text", <<storage>>, <<>>, <<l>>, 0) /\ x.op = "text"
  BY <1>0, StatementForms DEF Conditions, Stated
<1>6. PICK e \in Statement : e = Declare(v, one) /\ e.op = "declare" /\ e.of = <<v>>
  BY StatementForms DEF Declare, Stated
<1>7. PICK s \in Statement : /\ s = Point(<<v>>, storage, <<l>>) /\ s.op = "point"
                             /\ s.of = <<v>> /\ s.to = <<storage>> /\ s.by = <<l>>
  BY <1>0, StatementForms DEF Point, Stated
<1>8. PICK nothing \in Seq(Statement) : nothing = <<>>
  BY NothingResolves
<1>9. ASSUME NEW y \in Statement, y.op \in {"assume", "nonnegative", "text"}, NEW only, only = <<y>>
      PROVE  Afresh(only) /\ Among(only, y)
  <2>1. only \in Seq(Statement) /\ DOMAIN only = {1} /\ only[1] = y
    BY <1>9
  <2>2. Silent(only)
    BY <1>9, <2>1 DEF Silent, WritingOps
  <2>. QED  BY <2>1, <2>2, SilentAfresh DEF Among
<1>10. Afresh(nothing)
  <2>1. Silent(nothing)
    BY <1>8 DEF Silent
  <2>. QED  BY <2>1, SilentAfresh
<1>11. PICK a : a = Bounding(l, signed)
  OBVIOUS
<1>12. Afresh(a) /\ Among(a, t)
  <2>1. PICK first : first = <<t>>
    OBVIOUS
  <2>2. PICK second : second = <<u>>
    OBVIOUS
  <2>3. Afresh(first) /\ Among(first, t) /\ Afresh(second)
    BY <1>1, <1>2, <1>9, <2>1, <2>2
  <2>4. first \in Seq(Statement) /\ second \in Seq(Statement)
    BY <2>3 DEF Afresh
  <2>5. Afresh(first \o second) /\ Among(first \o second, t)
    BY <2>3, <2>4, AfreshJoined, AmongJoined
  <2>6. Afresh(first \o nothing) /\ Among(first \o nothing, t)
    BY <1>10, <2>3, <2>4, AfreshJoined, AmongJoined
  <2>7. a = first \o second \/ a = first \o nothing
    BY <1>m, <1>1, <1>2, <1>8, <1>11, <2>1, <2>2, Zenon DEF Bounding
  <2>. QED  BY <2>5, <2>6, <2>7, Zenon
<1>13. PICK b : b = <<d, w>>
  OBVIOUS
<1>14. Afresh(b) /\ Among(b, d)
  <2>1. Afresh(<<Declare(storage, n), Nondet(<<storage>>)>>)
    BY VariableAfresh
  <2>2. Among(b, d)
    BY <1>13 DEF Among
  <2>. QED  BY <1>3, <1>4, <1>13, <2>1, <2>2
<1>15. PICK h : h = Texting(storage, l, text)
  OBVIOUS
<1>16. Afresh(h)
  <2>1. PICK only : only = <<x>>
    OBVIOUS
  <2>2. Afresh(only)
    BY <1>5, <1>9, <2>1
  <2>3. h = only \/ h = nothing
    BY <1>5, <1>8, <1>15, <2>1, Zenon DEF Texting
  <2>. QED  BY <1>10, <2>2, <2>3, Zenon
<1>17. PICK last : last = <<e, s>>
  OBVIOUS
<1>18. PICK ab : ab = a \o b
  OBVIOUS
<1>19. PICK front : front = ab \o h
  OBVIOUS
<1>20. Afresh(front) /\ Among(front, t) /\ Among(front, d)
  <2>1. a \in Seq(Statement) /\ b \in Seq(Statement) /\ h \in Seq(Statement)
    BY <1>12, <1>14, <1>16 DEF Afresh
  <2>2. Afresh(ab) /\ Among(ab, t) /\ Among(ab, d)
    BY <1>12, <1>14, <1>18, <2>1, AfreshJoined, AmongJoined
  <2>3. ab \in Seq(Statement)
    BY <2>2 DEF Afresh
  <2>. QED  BY <1>16, <1>19, <2>1, <2>2, <2>3, AfreshJoined, AmongJoined
<1>21. lines = front \o last
  <2>1. Storing(storage) = b
    BY <1>m, <1>3, <1>4, <1>13, Zenon DEF Storing
  <2>2. Counting(v, storage, l) = last
    BY <1>n, <1>6, <1>7, <1>17, Zenon DEF Counting
  <2>. QED  BY <1>11, <1>15, <1>18, <1>19, <2>1, <2>2, Zenon DEF BufferLines
<1>22. Once(c \o (front \o last))
  BY <1>21
<1>23. Counts(p, <<>>, c \o (front \o last))
  BY <1>1, <1>3, <1>6, <1>7, <1>17, <1>20, <1>22, CountingCounts
<1>. QED  BY <1>21, <1>23

\* What is to follow an object writes only what it declares.
LEMMA RequestAfresh ==
    ASSUME ParameterTypes, stage = "scalars", NEW request, request = ObjectRequest
    PROVE  Requested(request) /\ Afresh(request.finish)
<1>1. /\ Requested(request)
      /\ \/ request.as = param.name /\ request.finish = <<>>
         \/ request.finish = <<Declare(param.name, 1), Point(<<param.name>>, request.as, <<>>)>>
  BY RequestForm
<1>2. PICK v \in Identifier : v = param.name
  BY ParamForm
<1>3. PICK x \in Identifier : x = request.as
  BY <1>1 DEF Requested
<1>4. CASE request.finish = <<>>
  <2>1. PICK nothing \in Seq(Statement) : nothing = <<>>
    BY NothingResolves
  <2>2. Silent(nothing)
    BY <2>1 DEF Silent
  <2>3. Afresh(nothing)
    BY <2>2, SilentAfresh
  <2>. QED  BY <1>1, <1>4, <2>1, <2>3
<1>5. CASE request.finish = <<Declare(param.name, 1), Point(<<param.name>>, request.as, <<>>)>>
  <2>1. PICK one \in Nat : one = 1
    OBVIOUS
  <2>2. Afresh(<<Declare(v, one), Point(<<v>>, x, <<>>)>>)
    BY VariableAfresh
  <2>3. request.finish = <<Declare(v, one), Point(<<v>>, x, <<>>)>>
    BY <1>2, <1>3, <1>5, <2>1, Zenon
  <2>4. Afresh(request.finish)
    BY <2>2, <2>3, Zenon
  <2>. QED  BY <1>1, <2>4
<1>. QED  BY <1>1, <1>4, <1>5

\* An object that is there at once, or a call to fill it.
LEMMA ObjectCounts ==
    ASSUME ObjectTypes, frames = <<>>, Counts(program, frames, code), Once(code'),
           NEW request, Requested(request), Afresh(request.finish), EmitObject(request)
    PROVE  Counts(program', frames', code')
<1>0. program' = program /\ (ObjectGiven(request) \/ ObjectBegun(request))
  BY ObjectForms
<1>c. PICK c \in Seq(Statement) : c = code
  BY DEF ObjectTypes
<1>p. PICK p : p = program
  OBVIOUS
<1>n. PICK none \in Seq(Call) : none = <<>>
  <2>1. <<>> \in Seq(Call)
    OBVIOUS
  <2>. QED  BY <2>1, Zenon
<1>s. Counts(p, none, c) /\ Counts(p, <<>>, c)
  BY <1>c, <1>p, <1>n
<1>1. CASE ObjectGiven(request)
  <2>0. request.as \in Identifier /\ {"obj", "src"} \subseteq Words
    BY DEF Requested, Words
  <2>1. PICK storage \in Identifier : storage = Append(request.as, "obj")
    BY <2>0, LvalueForms
  <2>2. PICK holder \in Identifier : holder = Append(request.as, "src")
    BY <2>0, LvalueForms
  <2>3. /\ frames' = frames
        /\ \/ GivenMade(request, storage) \/ GivenLibrary(request, storage)
           \/ GivenFrom(request, holder, storage)
    BY <1>1, <2>1, <2>2 DEF ObjectGiven
  <2>4. PICK end : end = Deliver(request, storage)
    OBVIOUS
  <2>5. PICK one \in Nat : one = 1
    OBVIOUS
  <2>6. PICK a, b, l : a = Made(storage) /\ b = Made(holder) /\ l = <<Declare(storage, one), Library(<<storage>>)>>
    OBVIOUS
  <2>7. Afresh(end) /\ Afresh(a) /\ Afresh(b) /\ Afresh(l)
    BY <2>4, <2>6, DeliverAfresh, VariableAfresh
  <2>8. PICK ba : ba = b \o a
    OBVIOUS
  <2>9. Afresh(ba)
    BY <2>7, <2>8, AfreshJoined
  <2>10. \E first \in {a, l, ba} : code' = c \o (first \o end)
    BY <1>c, <2>3, <2>4, <2>5, <2>6, <2>8, Zenon DEF GivenMade, GivenLibrary, GivenFrom
  <2>11. PICK first \in {a, l, ba} : code' = c \o (first \o end)
    BY <2>10
  <2>12. Afresh(first)
    BY <2>7, <2>9
  <2>13. PICK lines : lines = first \o end
    OBVIOUS
  <2>14. Afresh(lines)
    BY <2>7, <2>12, <2>13, AfreshJoined
  <2>15. code' = c \o lines
    BY <2>11, <2>13
  <2>16. Counts(p, <<>>, c \o lines)
    BY <1>s, <2>14, <2>15, AfreshCounts
  <2>. QED  BY <1>0, <1>p, <2>3, <2>15, <2>16
<1>2. CASE ObjectBegun(request)
  <2>1. PICK f \in Calls, storage \in Identifier :
           /\ code' = code \o <<Declare(storage, 1)>>
           /\ frames' = <<f>>
           /\ Fresh(f, f.type, <<storage>>, Deliver(request, storage))
    BY <1>2, BegunForm
  <2>2. /\ f \in Call /\ f.finish = Deliver(request, storage)
        /\ Begins(p, f, <<storage>>, f.finish)
    <3>1. IsProgram(program)
      BY DEF ObjectTypes
    <3>. QED  BY <1>p, <2>1, <3>1, FreshBegins
  <2>3. Afresh(f.finish)
    BY <2>2, DeliverAfresh
  <2>4. PICK one \in Nat : one = 1
    OBVIOUS
  <2>5. PICK d \in Statement : d = Declare(storage, one) /\ d.op = "declare" /\ d.of = <<storage>>
    BY StatementForms DEF Declare, Stated
  <2>6. PICK lines : lines = <<d>>
    OBVIOUS
  <2>7. lines \in Seq(Statement) /\ Silent(lines) /\ storage \in DeclaredIn(lines)
    <3>1. lines \in Seq(Statement) /\ DOMAIN lines = {1} /\ lines[1] = d
      BY <2>6
    <3>. QED  BY <2>5, <3>1 DEF Silent, WritingOps, DeclaredIn
  <2>8. code' = c \o lines
    BY <1>c, <2>1, <2>4, <2>5, <2>6, Zenon
  <2>9. Opens(p, none, none, c, lines, f)
    <3>1. Stands(p, none, c)
      BY <1>s DEF Counts
    <3>2. \A l \in Lvalue : Settled(p, none, c, l) => AllClear(p, none, l)
      BY DEF Settled
    <3>. QED  BY <2>3, <2>7, <2>8, <3>1, <3>2 DEF Opens, Afresh
  <2>10. Counts(p, Over(f, none), c \o lines)
    BY <1>s, <2>2, <2>7, <2>9, OpensCounts
  <2>11. frames' = Over(f, none)
    <3>1. <<f>> \in Seq(Call) /\ \A s \in Seq(Call) : s \o <<>> = s
      BY <2>2
    <3>2. <<f>> \o <<>> = <<f>>
      BY <3>1, Zenon
    <3>. QED  BY <1>n, <2>1, <3>2, Zenon DEF Over
  <2>. QED  BY <1>0, <1>p, <2>8, <2>10, <2>11
<1>. QED  BY <1>0, <1>1, <1>2

\* The lengths have been declared where their buffers' turn comes.
LengthsDeclared ==
    \A i \in Positions : IsIntegral(params[i]) /\ Due(i, stage, at) => params[i].name \in DeclaredIn(code)

\* Lines for a parameter.
LEMMA BuiltCounts ==
    ASSUME TypeInv, LengthsDeclared, frames = <<>>, Counts(program, frames, code), Once(code'),
           BuiltValue \/ BuiltPointer \/ BuiltCursor \/ BuiltBuffer
    PROVE  Counts(program', frames', code')
<1>0. /\ stage \in {"cursors", "scalars", "buffers"} /\ ParameterTypes /\ code \in Seq(Statement)
      /\ at \in Positions /\ param.name \in Identifier /\ param = params[at]
  BY ParamForm DEF TypeInv, ObjectTypes, BuiltValue, BuiltPointer, BuiltCursor, BuiltBuffer, param
<1>n. {"buf", "cursor", "bytes", "str", "obj"} \subseteq Words
  BY DEF Words
<1>p. /\ \A i \in Positions : params[i].name \in Identifier
      /\ \A word \in Words, n \in Identifier : Append(n, word) \in Identifier
  BY <1>0, InputForm
<1>v. PICK v \in Identifier : v = param.name
  BY <1>0
<1>c. PICK c \in Seq(Statement) : c = code
  BY <1>0
<1>q. PICK p : p = program
  OBVIOUS
<1>s. Counts(p, <<>>, c)
  BY <1>c, <1>q
<1>g. ASSUME NEW lines, NEW mentioned, Built(lines, mentioned)
      PROVE  code' = c \o lines /\ program' = p /\ frames' = <<>>
  BY <1>c, <1>q, <1>g DEF Built, Emit, inputs
<1>a. ASSUME NEW lines, NEW mentioned, Built(lines, mentioned), Afresh(lines)
      PROVE  Counts(program', frames', code')
  <2>1. code' = c \o lines /\ program' = p /\ frames' = <<>>
    BY <1>a, <1>g
  <2>2. Counts(p, <<>>, c \o lines)
    BY <1>s, <1>a, <2>1, AfreshCounts
  <2>. QED  BY <2>1, <2>2
<1>2. CASE BuiltValue
  <2>1. PICK mentioned \in {{}, {<<param.name>>}} : Built(ValueLines(param.name), mentioned)
    BY <1>2 DEF BuiltValue
  <2>2. PICK one \in Nat : one = 1
    OBVIOUS
  <2>3. PICK lines : lines = <<Declare(v, one), Nondet(<<v>>)>>
    OBVIOUS
  <2>4. Afresh(lines)
    BY <2>3, VariableAfresh
  <2>5. lines = ValueLines(param.name)
    BY <1>v, <2>2, <2>3, Zenon DEF ValueLines
  <2>. QED  BY <1>a, <2>1, <2>4, <2>5
<1>3. CASE BuiltPointer
  <2>1. PICK word \in Words, n \in Nat : Built(PointTo(param.name, word, n), {<<param.name>>})
    BY <1>3, <1>n DEF BuiltPointer
  <2>2. PICK lines : lines = PointTo(v, word, n)
    OBVIOUS
  <2>3. Afresh(lines)
    BY <2>2, PointToAfresh
  <2>4. PICK mentioned : mentioned = {<<param.name>>}
    OBVIOUS
  <2>5. Built(lines, mentioned)
    BY <1>v, <2>1, <2>2, <2>4
  <2>. QED  BY <1>a, <2>3, <2>5
<1>4. CASE BuiltCursor
  <2>1. PICK storage \in {Append(param.name, "buf")}, holder \in {Append(param.name, "cursor")} :
           Built(CursorLines(param.name, params[at + 1].name, storage, holder),
                 {<<param.name>>, <<params[at + 1].name>>})
    BY <1>4 DEF BuiltCursor
  <2>2. PICK w \in Identifier : w = params[at + 1].name
    BY <1>4, <1>p DEF BuiltCursor
  <2>3. storage \in Identifier /\ holder \in Identifier
    <3>1. storage = Append(param.name, "buf") /\ holder = Append(param.name, "cursor")
      OBVIOUS
    <3>2. Append(param.name, "buf") \in Identifier /\ Append(param.name, "cursor") \in Identifier
      BY <1>0, <1>n, <1>p
    <3>. QED  BY <3>1, <3>2, Zenon
  <2>4. PICK lines : lines = CursorLines(v, w, storage, holder)
    OBVIOUS
  <2>5. Afresh(lines)
    BY <2>3, <2>4, CursorAfresh
  <2>6. PICK mentioned : mentioned = {<<param.name>>, <<params[at + 1].name>>}
    OBVIOUS
  <2>7. Built(lines, mentioned)
    BY <1>v, <2>1, <2>2, <2>4, <2>6
  <2>. QED  BY <1>a, <2>5, <2>7
<1>5. CASE BuiltBuffer
  <2>1. PICK storage \in {Append(param.name, "buf")} :
           Built(BufferLines(param.name, params[LengthOf(at)].name, storage,
                             params[LengthOf(at)].signed, param.text),
                 {<<param.name>>, <<params[LengthOf(at)].name>>})
    BY <1>5 DEF BuiltBuffer
  <2>2. PICK j \in Positions : j = LengthOf(at)
    BY <1>5 DEF BuiltBuffer
  <2>3. PICK l \in Identifier : l = params[j].name
    BY <1>p
  <2>4. storage \in Identifier
    <3>1. storage = Append(param.name, "buf")
      OBVIOUS
    <3>2. Append(param.name, "buf") \in Identifier
      BY <1>0, <1>n, <1>p
    <3>. QED  BY <3>1, <3>2, Zenon
  <2>5. l \in DeclaredIn(c)
    <3>1. LengthOf(at) # 0 /\ signature \in Signature
      BY <1>0, <2>2, InputForm
    <3>2. IsIntegral(params[j])
      BY <1>0, <2>2, <3>1, LengthForm
    <3>3. ~Countable(params[j])
      BY <3>2 DEF IsIntegral, Countable
    <3>4. LengthOf(j) = 0
      BY <3>3, Zenon DEF LengthOf
    <3>5. Due(j, stage, at)
      BY <1>5, <3>4 DEF Due, BuiltBuffer
    <3>. QED  BY <1>c, <2>3, <3>2, <3>5 DEF LengthsDeclared
  <2>6. PICK signed, text : signed = params[LengthOf(at)].signed /\ text = param.text
    OBVIOUS
  <2>7. PICK lines : lines = BufferLines(v, l, storage, signed, text)
    OBVIOUS
  <2>8. PICK mentioned : mentioned = {<<param.name>>, <<params[LengthOf(at)].name>>}
    OBVIOUS
  <2>9. Built(lines, mentioned)
    BY <1>v, <2>1, <2>2, <2>3, <2>6, <2>7, <2>8
  <2>10. code' = c \o lines /\ program' = p /\ frames' = <<>>
    BY <1>g, <2>9
  <2>11. Once(c \o lines)
    BY <2>10
  <2>12. Counts(p, <<>>, c \o lines)
    BY <1>s, <2>4, <2>5, <2>7, <2>11, BufferCounts
  <2>. QED  BY <2>10, <2>12
<1>. QED  BY <1>2, <1>3, <1>4, <1>5

\* The code only gets longer.
Grew == \E lines \in Seq(Statement) : code' = code \o lines

LEMMA GrewForms ==
    ASSUME code \in Seq(Statement), Grew
    PROVE  /\ \A v \in DeclaredIn(code) : v \in DeclaredIn(code')
           /\ Once(code') => Once(code)
<1>1. PICK lines \in Seq(Statement) : code' = code \o lines
  BY DEF Grew
<1>2. PICK c \in Seq(Statement) : c = code
  OBVIOUS
<1>3. PICK d : d = code'
  OBVIOUS
<1>4. d = c \o lines
  BY <1>1, <1>2, <1>3
<1>5. \A v \in DeclaredIn(c) : v \in DeclaredIn(d)
  BY <1>4, DeclaredGrows
<1>6. Once(d) => Once(c)
  BY <1>4, OnceForms
<1>. QED  BY <1>2, <1>3, <1>5, <1>6

LEMMA FillGrows ==
    ASSUME ObjectTypes, FillStep
    PROVE  Grew
<1>0. code \in Seq(Statement) /\ <<>> \in Lvalue
  BY LvalueForms DEF ObjectTypes
<1>1. \/ LeaveUnion \/ FinishFields
      \/ FillOne \/ FillStored \/ FillBuffer \/ FillNoBuffer \/ FillFollowed \/ FillWithin
  BY FillForms
<1>n. PICK one \in Nat, nil \in Nat : one = 1 /\ nil = 0
  OBVIOUS
<1>m. MaxArrayLen \in Nat
  BY ObjectBoundsAssumption
<1>w. {"items", "bytes", "target"} \subseteq Words
  BY DEF Words
<1>2. CASE code' = code
  <2>1. <<>> \in Seq(Statement) /\ code' = code \o <<>>
    BY <1>0, <1>2
  <2>. QED  BY <2>1 DEF Grew
<1>3. CASE LeaveUnion
  <2>1. code' = code \o Top.finish /\ Top.finish \in Seq(Statement)
    BY <1>3, TopForm DEF LeaveUnion, Emit
  <2>. QED  BY <2>1 DEF Grew
<1>4. CASE FinishFields
  <2>1. PICK before \in Seq(LinesBefore), after \in Seq(LinesAfter) :
           code' = code \o (before \o Top.constraints \o after \o Top.finish)
    BY <1>4, FinishForm
  <2>2. before \in Seq(Statement) /\ after \in Seq(Statement)
    <3>1. LinesBefore \subseteq Statement /\ LinesAfter \subseteq Statement
      BY DEF LinesBefore, LinesAfter
    <3>. QED  BY <3>1, SeqGrows
  <2>3. Top.constraints \in Seq(Statement) /\ Top.finish \in Seq(Statement)
    BY <1>4, TopForm DEF FinishFields
  <2>4. before \o Top.constraints \o after \o Top.finish \in Seq(Statement)
    BY <2>2, <2>3, Written
  <2>. QED  BY <2>1, <2>4 DEF Grew
<1>5. ASSUME AtField PROVE target \in Lvalue /\ (field.name \in DOMAIN Top.pairs => CountedBy \in Lvalue)
  <2>1. target \in Lvalue /\ frames # <<>>
    BY <1>5, FieldAt DEF AtField
  <2>2. ASSUME field.name \in DOMAIN Top.pairs PROVE CountedBy \in Lvalue
    <3>1. Top.pairs[field.name] \in Identifier /\ Top.prefix \in Lvalue
      BY <1>5, <2>2, TopForm, PairingsForm DEF AtField, ObjectTypes
    <3>. QED  BY <3>1, LvalueForms DEF CountedBy
  <2>. QED  BY <2>1, <2>2
<1>6. CASE FillOne
  <2>1. target \in Lvalue
    BY <1>5, <1>6 DEF FillOne
  <2>2. code' = code \/ \E s \in {Nondet(target), Null(target, <<>>), Library(target)} : code' = code \o <<s>>
    BY <1>6 DEF FillOne
  <2>3. CASE \E s \in {Nondet(target), Null(target, <<>>), Library(target)} : code' = code \o <<s>>
    <3>1. PICK s \in {Nondet(target), Null(target, <<>>), Library(target)} : code' = code \o <<s>>
      BY <2>3
    <3>2. <<s>> \in Seq(Statement)
      BY <1>0, <2>1, StatementForms, Written
    <3>. QED  BY <3>1, <3>2 DEF Grew
  <2>. QED  BY <1>2, <2>2, <2>3
<1>7. CASE FillStored
  <2>1. PICK n \in Nat, storage \in {Storage(target, "target")} :
           code' = code \o <<Declare(storage, n), Point(target, storage, <<>>)>>
    BY <1>7 DEF FillStored
  <2>2. target \in Lvalue /\ storage \in Identifier
    <3>1. target \in Lvalue
      BY <1>5, <1>7 DEF FillStored
    <3>2. Storage(target, "target") \in Identifier
      BY <1>w, <3>1, StorageForm
    <3>. QED  BY <3>1, <3>2
  <2>3. <<Declare(storage, n), Point(target, storage, <<>>)>> \in Seq(Statement)
    BY <1>0, <2>2, StatementForms, Written
  <2>. QED  BY <2>1, <2>3 DEF Grew
<1>8. CASE FillBuffer
  <2>1. PICK word \in {"items", "bytes"} :
           code' = code \o <<Declare(Storage(target, word), MaxArrayLen),
                             Point(target, Storage(target, word), CountedBy)>>
    BY <1>8 DEF FillBuffer
  <2>2. target \in Lvalue /\ CountedBy \in Lvalue
    BY <1>5, <1>8 DEF FillBuffer
  <2>3. PICK storage \in Identifier : storage = Storage(target, word)
    BY <1>w, <2>2, StorageForm
  <2>4. <<Declare(storage, MaxArrayLen), Point(target, storage, CountedBy)>> \in Seq(Statement)
    BY <1>m, <2>2, StatementForms, Written
  <2>. QED  BY <2>1, <2>3, <2>4 DEF Grew
<1>9. CASE FillNoBuffer
  <2>1. target \in Lvalue /\ CountedBy \in Lvalue /\ code' = code \o <<Null(target, CountedBy)>>
    BY <1>5, <1>9 DEF FillNoBuffer
  <2>2. <<Null(target, CountedBy)>> \in Seq(Statement)
    BY <2>1, StatementForms, Written
  <2>. QED  BY <2>1, <2>2 DEF Grew
<1>10. CASE FillFollowed
  <2>1. PICK storage \in {Storage(target, "target")} : code' = code \o <<Declare(storage, 1)>>
    BY <1>10 DEF FillFollowed
  <2>2. storage \in Identifier
    <3>1. target \in Lvalue
      BY <1>5, <1>10 DEF FillFollowed
    <3>2. Storage(target, "target") \in Identifier
      BY <1>w, <3>1, StorageForm
    <3>. QED  BY <3>2
  <2>3. <<Declare(storage, one)>> \in Seq(Statement)
    BY <2>2, StatementForms, Written
  <2>. QED  BY <1>n, <2>1, <2>3 DEF Grew
<1>11. CASE FillWithin
  BY <1>2, <1>11 DEF FillWithin
<1>. QED  BY <1>1, <1>3, <1>4, <1>6, <1>7, <1>8, <1>9, <1>10, <1>11

LEMMA ObjectGrows ==
    ASSUME ObjectTypes, NEW request, Requested(request), EmitObject(request)
    PROVE  Grew
<1>0. (ObjectGiven(request) \/ ObjectBegun(request)) /\ request.as \in Identifier /\ {"obj", "src"} \subseteq Words
  BY ObjectForms DEF Requested, Words
<1>n. PICK one \in Nat : one = 1
  OBVIOUS
<1>1. CASE ObjectGiven(request)
  <2>1. PICK storage \in Identifier : storage = Append(request.as, "obj")
    BY <1>0, LvalueForms
  <2>2. PICK holder \in Identifier : holder = Append(request.as, "src")
    BY <1>0, LvalueForms
  <2>3. \/ GivenMade(request, storage) \/ GivenLibrary(request, storage)
        \/ GivenFrom(request, holder, storage)
    BY <1>1, <2>1, <2>2 DEF ObjectGiven
  <2>4. Made(storage) \in Seq(Statement) /\ Made(holder) \in Seq(Statement)
        /\ Deliver(request, storage) \in Seq(Statement)
    BY MadeTypes, DeliverTypes
  <2>5. <<Declare(storage, one), Library(<<storage>>)>> \in Seq(Statement)
    BY LvalueForms, StatementForms, Written
  <2>6. \A a, b \in Seq(Statement) : a \o b \in Seq(Statement)
    BY Written
  <2>7. CASE GivenMade(request, storage)
    <3>1. Made(storage) \o Deliver(request, storage) \in Seq(Statement)
      BY <2>4, <2>6, Zenon
    <3>. QED  BY <2>7, <3>1, Zenon DEF GivenMade, Grew
  <2>8. CASE GivenLibrary(request, storage)
    <3>1. <<Declare(storage, one), Library(<<storage>>)>> \o Deliver(request, storage) \in Seq(Statement)
      BY <2>4, <2>5, <2>6, Zenon
    <3>. QED  BY <1>n, <2>8, <3>1, Zenon DEF GivenLibrary, Grew
  <2>9. CASE GivenFrom(request, holder, storage)
    <3>1. Made(holder) \o Made(storage) \in Seq(Statement)
      BY <2>4, <2>6, Zenon
    <3>2. Made(holder) \o Made(storage) \o Deliver(request, storage) \in Seq(Statement)
      BY <2>4, <2>6, <3>1, Zenon
    <3>. QED  BY <2>9, <3>2, Zenon DEF GivenFrom, Grew
  <2>. QED  BY <2>3, <2>7, <2>8, <2>9
<1>2. CASE ObjectBegun(request)
  <2>1. PICK storage \in Identifier : code' = code \o <<Declare(storage, 1)>>
    BY <1>2, BegunForm
  <2>2. <<Declare(storage, one)>> \in Seq(Statement)
    BY StatementForms, Written
  <2>. QED  BY <1>n, <2>1, <2>2 DEF Grew
<1>. QED  BY <1>0, <1>1, <1>2

\* The lines for a parameter declare it.
LEMMA BuiltGrows ==
    ASSUME TypeInv, BuiltValue \/ BuiltPointer \/ BuiltCursor \/ BuiltBuffer
    PROVE  /\ Grew /\ Advance /\ UNCHANGED signature
           /\ \A i \in Positions : Handled(i) => params[i].name \in DeclaredIn(code')
<1>0. /\ stage \in {"cursors", "scalars", "buffers"} /\ ParameterTypes /\ code \in Seq(Statement)
      /\ at \in Positions /\ param.name \in Identifier /\ param = params[at]
  BY ParamForm DEF TypeInv, ObjectTypes, BuiltValue, BuiltPointer, BuiltCursor, BuiltBuffer, param
<1>n. {"buf", "cursor", "bytes", "str", "obj"} \subseteq Words
  BY DEF Words
<1>p. /\ \A i \in Positions : params[i].name \in Identifier
      /\ \A word \in Words, n \in Identifier : Append(n, word) \in Identifier
  BY <1>0, InputForm
<1>v. PICK v \in Identifier : v = param.name
  BY <1>0
<1>1. ASSUME NEW lines, NEW mentioned, Built(lines, mentioned), NEW known, NEW new,
             Introduces(lines, known, new), \A i \in Positions : Handled(i) => params[i].name \in new
      PROVE  /\ Grew /\ Advance /\ UNCHANGED signature
             /\ \A i \in Positions : Handled(i) => params[i].name \in DeclaredIn(code')
  <2>1. code' = code \o lines /\ Advance /\ UNCHANGED signature
    BY <1>1 DEF Built, Emit, inputs
  <2>2. lines \in Seq(Statement) /\ new \subseteq DeclaredIn(lines)
    BY <1>1 DEF Introduces
  <2>3. DeclaredIn(code \o lines) = DeclaredIn(code) \cup DeclaredIn(lines)
    BY <1>0, <2>2, DeclaredJoined
  <2>4. new \subseteq DeclaredIn(code')
    BY <2>1, <2>2, <2>3
  <2>. QED  BY <1>1, <2>1, <2>2, <2>4 DEF Grew
<1>2. CASE BuiltValue
  <2>1. PICK mentioned \in {{}, {<<param.name>>}} : Built(ValueLines(param.name), mentioned)
    BY <1>2 DEF BuiltValue
  <2>2. PICK lines : lines = ValueLines(v)
    OBVIOUS
  <2>3. PICK one \in Nat : one = 1
    OBVIOUS
  <2>4. PICK known : known = {}
    OBVIOUS
  <2>5. Introduces(<<Declare(v, one), Nondet(<<v>>)>>, known, {v})
    BY VariableMade
  <2>6. PICK new : new = {v}
    OBVIOUS
  <2>7. Introduces(lines, known, new)
    BY <2>2, <2>3, <2>5, <2>6, Zenon DEF ValueLines
  <2>8. \A i \in Positions : Handled(i) => params[i].name \in new
    BY <1>0, <1>2, <1>v, <2>6 DEF Handled, BuiltValue
  <2>9. Built(lines, mentioned)
    BY <1>v, <2>1, <2>2
  <2>. QED  BY <1>1, <2>7, <2>8, <2>9
<1>3. CASE BuiltPointer
  <2>1. PICK word \in Words, n \in Nat : Built(PointTo(param.name, word, n), {<<param.name>>})
    BY <1>3, <1>n DEF BuiltPointer
  <2>2. PICK lines : lines = PointTo(v, word, n)
    OBVIOUS
  <2>3. PICK new : new = {v}
    OBVIOUS
  <2>4. PICK known : known = {}
    OBVIOUS
  <2>5. Introduces(lines, known, new)
    BY <2>2, <2>3, PointToIntroduces
  <2>6. \A i \in Positions : Handled(i) => params[i].name \in new
    BY <1>0, <1>3, <1>v, <2>3 DEF Handled, BuiltPointer
  <2>7. PICK mentioned : mentioned = {<<param.name>>}
    OBVIOUS
  <2>8. Built(lines, mentioned)
    BY <1>v, <2>1, <2>2, <2>7
  <2>. QED  BY <1>1, <2>5, <2>6, <2>8
<1>4. CASE BuiltCursor
  <2>1. PICK storage \in {Append(param.name, "buf")}, holder \in {Append(param.name, "cursor")} :
           Built(CursorLines(param.name, params[at + 1].name, storage, holder),
                 {<<param.name>>, <<params[at + 1].name>>})
    BY <1>4 DEF BuiltCursor
  <2>2. PICK w \in Identifier : w = params[at + 1].name
    BY <1>4, <1>p DEF BuiltCursor
  <2>3. storage \in Identifier /\ holder \in Identifier
    <3>1. storage = Append(param.name, "buf") /\ holder = Append(param.name, "cursor")
      OBVIOUS
    <3>2. Append(param.name, "buf") \in Identifier /\ Append(param.name, "cursor") \in Identifier
      BY <1>0, <1>n, <1>p
    <3>. QED  BY <3>1, <3>2, Zenon
  <2>4. PICK lines : lines = CursorLines(v, w, storage, holder)
    OBVIOUS
  <2>5. PICK new : new = {v, w}
    OBVIOUS
  <2>6. PICK known : known = {}
    OBVIOUS
  <2>7. Introduces(lines, known, new)
    BY <2>3, <2>4, <2>5, CursorIntroduces
  <2>8. \A i \in Positions : Handled(i) => params[i].name \in new
    BY <1>0, <1>4, <1>v, <2>2, <2>5 DEF Handled, BuiltCursor
  <2>9. PICK mentioned : mentioned = {<<param.name>>, <<params[at + 1].name>>}
    OBVIOUS
  <2>10. Built(lines, mentioned)
    BY <1>v, <2>1, <2>2, <2>4, <2>9
  <2>. QED  BY <1>1, <2>7, <2>8, <2>10
<1>5. CASE BuiltBuffer
  <2>1. PICK storage \in {Append(param.name, "buf")} :
           Built(BufferLines(param.name, params[LengthOf(at)].name, storage,
                             params[LengthOf(at)].signed, param.text),
                 {<<param.name>>, <<params[LengthOf(at)].name>>})
    BY <1>5 DEF BuiltBuffer
  <2>2. PICK j \in Positions : j = LengthOf(at)
    BY <1>5 DEF BuiltBuffer
  <2>3. PICK l \in Identifier : l = params[j].name
    BY <1>p
  <2>4. storage \in Identifier
    <3>1. storage = Append(param.name, "buf")
      OBVIOUS
    <3>2. Append(param.name, "buf") \in Identifier
      BY <1>0, <1>n, <1>p
    <3>. QED  BY <3>1, <3>2, Zenon
  <2>5. PICK known : known = {l}
    OBVIOUS
  <2>6. PICK signed, text : signed = params[LengthOf(at)].signed /\ text = param.text
    OBVIOUS
  <2>7. PICK lines : lines = BufferLines(v, l, storage, signed, text)
    OBVIOUS
  <2>8. PICK new : new = {v}
    OBVIOUS
  <2>9. Introduces(lines, known, new)
    BY <2>4, <2>5, <2>7, <2>8, BufferIntroduces
  <2>10. \A i \in Positions : Handled(i) => params[i].name \in new
    BY <1>0, <1>5, <1>v, <2>8 DEF Handled, BuiltBuffer
  <2>11. PICK mentioned : mentioned = {<<param.name>>, <<params[LengthOf(at)].name>>}
    OBVIOUS
  <2>12. Built(lines, mentioned)
    BY <1>v, <2>1, <2>2, <2>3, <2>6, <2>7, <2>11
  <2>. QED  BY <1>1, <2>9, <2>10, <2>12
<1>. QED  BY <1>2, <1>3, <1>4, <1>5

\* A parameter is done with.
LEMMA LengthsNext ==
    ASSUME ParameterTypes, LengthsDeclared, stage \in {"cursors", "scalars", "buffers"}, Advance,
           UNCHANGED signature, \A v \in DeclaredIn(code) : v \in DeclaredIn(code'),
           \A i \in Positions : Handled(i) /\ IsIntegral(params[i]) => params[i].name \in DeclaredIn(code')
    PROVE  LengthsDeclared'
<1>1. params' = params /\ Positions' = Positions
  BY DEF params, Positions
<1>2. PICK s, a : s = stage' /\ a = at'
  OBVIOUS
<1>3. PICK names : names = DeclaredIn(code')
  OBVIOUS
<1>4. ASSUME NEW i \in Positions, IsIntegral(params[i]), Due(i, s, a) PROVE params[i].name \in names
  <2>1. Due(i, stage, at) \/ Handled(i)
    BY <1>2, <1>4, DueNext
  <2>. QED  BY <1>3, <1>4, <2>1 DEF LengthsDeclared
<1>5. \A i \in Positions : Due(i, s, a)' <=> Due(i, s, a)
  BY DueSame
<1>6. \A i \in Positions' : IsIntegral(params'[i]) /\ Due(i, s, a)' => params'[i].name \in names
  BY <1>1, <1>4, <1>5
<1>. QED  BY <1>2, <1>3, <1>6, Zenon DEF LengthsDeclared, IsIntegral

\* No parameter is.
LEMMA LengthsStay ==
    ASSUME LengthsDeclared, UNCHANGED signature, \A v \in DeclaredIn(code) : v \in DeclaredIn(code'),
           \A i \in Positions : Due(i, stage', at') => Due(i, stage, at)
    PROVE  LengthsDeclared'
<1>1. params' = params /\ Positions' = Positions
  BY DEF params, Positions
<1>2. PICK s, a : s = stage' /\ a = at'
  OBVIOUS
<1>3. PICK names : names = DeclaredIn(code')
  OBVIOUS
<1>4. ASSUME NEW i \in Positions, IsIntegral(params[i]), Due(i, s, a) PROVE params[i].name \in names
  BY <1>2, <1>3, <1>4 DEF LengthsDeclared
<1>5. \A i \in Positions : Due(i, s, a)' <=> Due(i, s, a)
  BY DueSame
<1>6. \A i \in Positions' : IsIntegral(params'[i]) /\ Due(i, s, a)' => params'[i].name \in names
  BY <1>1, <1>4, <1>5
<1>. QED  BY <1>2, <1>3, <1>6, Zenon DEF LengthsDeclared, IsIntegral

\* What is known when there is no call: what the lines so far count is settled.
LEMMA NothingOwed ==
    ASSUME NEW p, NEW c, Uncounting(c)
    PROVE  Counts(p, <<>>, c)
BY DEF Counts, Stands, AllKept, Uncounting

CountInv ==
    /\ DeclaredInv /\ LengthsDeclared
    /\ stage \in {"signature", "hooks"} => code = <<>>
    /\ DeclaredOnce => Counts(program, frames, code)

\* Once nothing is declared twice, nothing was.
LEMMA CountInvIf ==
    ASSUME DeclaredInv', LengthsDeclared', stage' \notin {"signature", "hooks"},
           Once(code') => Counts(program', frames', code')
    PROVE  CountInv'
<1>1. DeclaredOnce' => Once(code')
  BY DEF DeclaredOnce, Once
<1>. QED  BY <1>1, Zenon DEF CountInv

LEMMA CountInductive ==
    ASSUME IndexedArraysAreScalars, MembersDistinct
    PROVE  CountInv /\ [Next]_harnessVars => CountInv'
<1>. SUFFICES ASSUME CountInv, [Next]_harnessVars PROVE CountInv'
  OBVIOUS
<1>t. /\ DeclaredInv' /\ TypeInv /\ ParameterTypes /\ ObjectTypes /\ ObjectSaid
      /\ LengthsDeclared /\ code \in Seq(Statement) /\ program \in Programs
      /\ teardown \in Seq(Frees)
  BY DeclaredInductive DEF CountInv, DeclaredInv, SaidInv, TypeInv, ObjectTypes, ObjectSaid
<1>o. Once(code) => Counts(program, frames, code)
  BY DEF CountInv, DeclaredOnce, Once
<1>d. Distinct(program)
  BY <1>t DEF MembersDistinct, Distinct
<1>f. stage \notin {"scalars", "buffers"} => frames = <<>>
  BY <1>t DEF ParameterTypes
<1>n. stage \in {"cursors", "scalars", "buffers"} /\ Advance => stage' \notin {"signature", "hooks"}
  BY DEF Advance, After
<1>a. ASSUME NEW lines, code' = code \o lines, Afresh(lines), frames = <<>>, frames' = <<>>, program' = program
      PROVE  /\ \A v \in DeclaredIn(code) : v \in DeclaredIn(code')
             /\ Once(code') => Counts(program', frames', code')
  <2>1. PICK c \in Seq(Statement) : c = code
    BY <1>t
  <2>2. PICK p : p = program
    OBVIOUS
  <2>3. Grew
    BY <1>a DEF Grew, Afresh
  <2>4. ASSUME Once(code') PROVE Counts(program', frames', code')
    <3>1. Counts(p, <<>>, c)
      BY <1>a, <1>o, <1>t, <2>1, <2>2, <2>3, <2>4, GrewForms
    <3>2. code' = c \o lines /\ Once(c \o lines)
      BY <1>a, <2>1, <2>4
    <3>3. Counts(p, <<>>, c \o lines)
      BY <1>a, <3>1, <3>2, AfreshCounts
    <3>. QED  BY <1>a, <2>2, <3>2, <3>3
  <2>. QED  BY <1>t, <2>3, <2>4, GrewForms
<1>1. CASE RefuseSource \/ RefuseSetup \/ RefuseParameter \/ RefusePrecondition
  <2>1. stage' = "refused" /\ frames' = <<>> /\ code' = <<>>
    BY <1>1 DEF RefuseSource, RefuseSetup, RefuseParameter, RefusePrecondition, Refuse
  <2>2. \A i : ~Due(i, stage, at)'
    BY <2>1 DEF Due
  <2>3. LengthsDeclared'
    BY <2>2 DEF LengthsDeclared
  <2>4. PICK none : none = <<>>
    OBVIOUS
  <2>5. Counts(program', <<>>, none)
    <3>1. PICK p : p = program'
      OBVIOUS
    <3>2. Uncounting(none)
      BY <2>4 DEF Uncounting
    <3>. QED  BY <3>1, <3>2, NothingOwed
  <2>. QED  BY <1>t, <2>1, <2>3, <2>4, <2>5, CountInvIf
<1>2. ASSUME UNCHANGED <<program, frames, code>> PROVE Once(code') => Counts(program', frames', code')
  BY <1>2, <1>o, Zenon
<1>3. CASE FindFunction
  <2>1. UNCHANGED <<program, signature, frames, code>> /\ stage = "signature" /\ stage' = "hooks"
    BY <1>3 DEF FindFunction, GoTo, inputs
  <2>2. \A i : ~Due(i, stage, at)'
    BY <2>1 DEF Due
  <2>3. LengthsDeclared'
    BY <2>2 DEF LengthsDeclared
  <2>4. code' = <<>>
    BY <2>1 DEF CountInv
  <2>5. DeclaredOnce' => Counts(program', frames', code')
    BY <2>1, Zenon DEF CountInv, DeclaredOnce
  <2>. QED  BY <1>t, <2>3, <2>4, <2>5, Zenon DEF CountInv
<1>4. CASE SkipParameter
  <2>1. /\ UNCHANGED <<program, signature, frames, code>> /\ Advance
        /\ stage \in {"cursors", "scalars", "buffers"}
        /\ \/ stage = "cursors" /\ ~IsCursor(at)
           \/ stage = "scalars" /\ (InCursorPair(at) \/ LengthOf(at) # 0)
           \/ stage = "buffers" /\ (InCursorPair(at) \/ LengthOf(at) = 0)
    BY <1>4 DEF SkipParameter, Skip, inputs
  <2>2. \A i \in Positions : ~Handled(i)
    BY <2>1 DEF Handled
  <2>3. \A v \in DeclaredIn(code) : v \in DeclaredIn(code')
    BY <2>1
  <2>4. LengthsDeclared'
    BY <1>t, <2>1, <2>2, <2>3, LengthsNext
  <2>. QED  BY <1>2, <1>n, <1>t, <2>1, <2>4, CountInvIf
<1>5. CASE UNCHANGED harnessVars
  <2>1. UNCHANGED <<program, signature, frames, code, stage, at>>
    BY <1>5 DEF harnessVars, objectVars
  <2>2. LengthsDeclared'
    <3>1. \A v \in DeclaredIn(code) : v \in DeclaredIn(code')
      BY <2>1
    <3>. QED  BY <1>t, <2>1, <3>1, LengthsStay
  <2>3. DeclaredOnce' => Counts(program', frames', code')
    BY <2>1, Zenon DEF CountInv, DeclaredOnce
  <2>4. stage' \in {"signature", "hooks"} => code' = <<>>
    BY <2>1 DEF CountInv
  <2>. QED  BY <1>t, <2>2, <2>3, <2>4, Zenon DEF CountInv
<1>6. CASE EmitHooks
  <2>1. /\ UNCHANGED <<program, signature, frames>> /\ at' = 1 /\ stage = "hooks"
        /\ stage' = (IF params = <<>> THEN "conditions" ELSE "cursors")
    BY <1>6 DEF EmitHooks, GoTo, inputs
  <2>2. PICK lines : lines = HookLines
    OBVIOUS
  <2>3. code' = code \o lines /\ code = <<>> /\ frames' = <<>>
    BY <1>6, <1>f, <2>1, <2>2, Zenon DEF EmitHooks, Emit, HookLines, CountInv
  <2>4. lines \in Seq(Statement) /\ Uncounting(lines)
    <3>1. lines \in Seq(HookLine)
      BY <1>t, <2>2, HookForm
    <3>2. HookLine \subseteq Statement /\ \A s \in HookLine : ~Counted(s)
      BY DEF HookLine, Counted, Library, Stated
    <3>3. lines \in Seq(Statement)
      BY <3>1, <3>2, SeqGrows
    <3>. QED  BY <3>1, <3>2, <3>3 DEF Uncounting
  <2>5. code' = lines
    BY <2>3, <2>4
  <2>6. Counts(program', frames', code')
    <3>1. PICK p : p = program'
      OBVIOUS
    <3>. QED  BY <2>3, <2>4, <2>5, <3>1, NothingOwed
  <2>7. LengthsDeclared'
    <3>p. params \in Seq(Parameter) /\ Positions = 1 .. Len(params) /\ Len(params) \in Nat
      BY <1>t, InputForm
    <3>1. ASSUME NEW i \in Positions, Due(i, stage', at') PROVE FALSE
      <4>1. stage' = "cursors" /\ at' = 1 /\ i \in Nat /\ i >= 1
        BY <2>1, <3>1, <3>p
      <4>2. (IsCursor(i) /\ i < 1) \/ (IsCursor(i - 1) /\ i - 1 < 1)
        BY <3>1, <4>1 DEF Due
      <4>3. i - 1 = 0
        BY <4>1, <4>2
      <4>4. 0 \notin Positions
        BY <3>p
      <4>. QED  BY <4>1, <4>2, <4>3, <4>4 DEF IsCursor
    <3>2. \A v \in DeclaredIn(code) : v \in DeclaredIn(code')
      BY <2>3, NothingResolves
    <3>. QED  BY <1>t, <2>1, <3>1, <3>2, LengthsStay
  <2>. QED  BY <1>t, <2>1, <2>6, <2>7, CountInvIf
<1>7. CASE EmitCursor \/ EmitValue \/ EmitBytes \/ EmitString \/ EmitElements \/ EmitReference \/ EmitBuffer
  <2>1. /\ frames = <<>> /\ stage \in {"cursors", "scalars", "buffers"}
        /\ BuiltValue \/ BuiltPointer \/ BuiltCursor \/ BuiltBuffer
    BY <1>7, <1>t, ParameterForms DEF EmitCursor, EmitValue, EmitBytes, EmitString, EmitElements, EmitReference,
       EmitBuffer, Unpaired, Ready
  <2>2. /\ Grew /\ Advance /\ UNCHANGED signature
        /\ \A i \in Positions : Handled(i) => params[i].name \in DeclaredIn(code')
    BY <1>t, <2>1, BuiltGrows
  <2>3. LengthsDeclared'
    <3>1. \A v \in DeclaredIn(code) : v \in DeclaredIn(code')
      BY <1>t, <2>2, GrewForms
    <3>. QED  BY <1>t, <2>1, <2>2, <3>1, LengthsNext
  <2>4. Once(code') => Counts(program', frames', code')
    BY <1>o, <1>t, <2>1, <2>2, GrewForms, BuiltCounts
  <2>. QED  BY <1>n, <1>t, <2>1, <2>2, <2>3, <2>4, CountInvIf
<1>8. CASE EmitObjectParameter
  <2>1. /\ stage = "scalars" /\ EmitObject(ObjectRequest) /\ frames = <<>> /\ Advance
        /\ UNCHANGED <<signature, wishes>> /\ param.of \notin Scalars
    BY <1>8 DEF EmitObjectParameter, Unpaired, Ready, IsObject
  <2>2. PICK request : request = ObjectRequest
    OBVIOUS
  <2>3. Requested(request) /\ Afresh(request.finish) /\ EmitObject(request)
    BY <1>t, <2>1, <2>2, RequestAfresh
  <2>4. Grew
    BY <1>t, <2>3, ObjectGrows
  <2>5. Once(code') => Counts(program', frames', code')
    BY <1>o, <1>t, <2>1, <2>3, <2>4, GrewForms, ObjectCounts
  <2>6. LengthsDeclared'
    <3>1. \A v \in DeclaredIn(code) : v \in DeclaredIn(code')
      BY <1>t, <2>4, GrewForms
    <3>2. \A i \in Positions : ~(Handled(i) /\ IsIntegral(params[i]))
      BY <2>1 DEF Handled, IsIntegral, param, Scalars
    <3>. QED  BY <1>t, <2>1, <3>1, <3>2, LengthsNext
  <2>. QED  BY <1>n, <1>t, <2>1, <2>5, <2>6, CountInvIf
<1>9. CASE FillObject
  <2>1. FillStep /\ UNCHANGED <<signature, wishes, stage, at>>
    BY <1>9 DEF FillObject
  <2>2. frames # <<>>
    <3>1. \/ LeaveUnion \/ FinishFields
          \/ FillOne \/ FillStored \/ FillBuffer \/ FillNoBuffer \/ FillFollowed \/ FillWithin
      BY <1>t, <2>1, FillForms
    <3>. QED  BY <3>1 DEF LeaveUnion, FinishFields, FillOne, FillStored, FillBuffer, FillNoBuffer,
              FillFollowed, FillWithin, AtField
  <2>3. stage' \notin {"signature", "hooks"}
    BY <1>f, <2>1, <2>2
  <2>4. Grew
    BY <1>t, <2>1, FillGrows
  <2>5. Once(code') => Counts(program', frames', code')
    BY <1>d, <1>o, <1>t, <2>1, <2>4, GrewForms, FillCounts
  <2>6. LengthsDeclared'
    <3>1. \A v \in DeclaredIn(code) : v \in DeclaredIn(code')
      BY <1>t, <2>4, GrewForms
    <3>. QED  BY <1>t, <2>1, <3>1, LengthsStay
  <2>. QED  BY <1>t, <2>3, <2>5, <2>6, CountInvIf
<1>10. CASE EmitConditions
  <2>1. /\ UNCHANGED <<program, signature, frames>> /\ frames = <<>> /\ stage = "conditions"
        /\ stage' = "call" /\ \A names \in ToSet(wishes.proposed) : Valid(names)
    BY <1>10 DEF EmitConditions, GoTo, inputs
  <2>2. PICK lines : lines = ConditionLines
    OBVIOUS
  <2>3. code' = code \o lines
    BY <1>10, <2>2, Zenon DEF EmitConditions, Emit, ConditionLines
  <2>4. Afresh(lines)
    <3>1. lines \in Seq(ConditionLine) /\ ConditionLine \subseteq Statement
      BY <1>t, <2>1, <2>2, ConditionForm
    <3>2. \A s \in ConditionLine : s.op = "requires"
      BY DEF ConditionLine, Stated
    <3>3. lines \in Seq(Statement)
      BY <3>1, SeqGrows
    <3>4. Silent(lines)
      BY <3>1, <3>2 DEF Silent, WritingOps
    <3>. QED  BY <3>3, <3>4, SilentAfresh
  <2>5. /\ \A v \in DeclaredIn(code) : v \in DeclaredIn(code')
        /\ Once(code') => Counts(program', frames', code')
    BY <1>a, <2>1, <2>3, <2>4
  <2>6. LengthsDeclared'
    <3>1. \A i \in Positions : Due(i, stage, at)
      BY <2>1 DEF Due
    <3>. QED  BY <1>t, <2>1, <2>5, <3>1, LengthsStay
  <2>. QED  BY <1>t, <2>1, <2>5, <2>6, CountInvIf
<1>11. CASE EmitCall
  <2>1. UNCHANGED <<program, signature, frames>> /\ stage = "call" /\ stage' = "done"
    BY <1>11 DEF EmitCall, GoTo, inputs
  <2>2. frames = <<>> /\ frames' = <<>>
    BY <1>f, <2>1
  <2>3. code' = code \o CallLines
    BY <1>11, Zenon DEF EmitCall, Emit, CallLines, UseLines
  <2>4. PICK u : u = UseLines
    OBVIOUS
  <2>5. Afresh(u)
    <3>1. u \in Seq(UseLine) /\ UseLine \subseteq Statement
      BY <1>t, <2>4, UseForm
    <3>2. \A s \in UseLine : s.op = "use"
      BY DEF UseLine, Stated
    <3>3. u \in Seq(Statement)
      BY <3>1, SeqGrows
    <3>4. Silent(u)
      BY <3>1, <3>2 DEF Silent, WritingOps
    <3>. QED  BY <3>3, <3>4, SilentAfresh
  <2>6. PICK t : t = teardown
    OBVIOUS
  <2>7. Afresh(t)
    <3>1. t \in Seq(Frees) /\ t \in Seq(Statement)
      BY <1>t, <2>6 DEF ObjectTypes
    <3>2. Silent(t)
      BY <3>1 DEF Silent, WritingOps, Frees
    <3>. QED  BY <3>1, <3>2, SilentAfresh
  <2>8. PICK r : r = IF signature.receiver THEN <<Declare(Receiver, 1), Library(<<Receiver>>)>> ELSE <<>>
    OBVIOUS
  <2>9. Afresh(r)
    <3>1. CASE signature.receiver
      <4>1. PICK one \in Nat : one = 1
        OBVIOUS
      <4>2. Afresh(<<Declare(Receiver, one), Library(<<Receiver>>)>>)
        BY OwnNames, VariableAfresh
      <4>. QED  BY <2>8, <3>1, <4>1, <4>2, Zenon
    <3>2. CASE ~signature.receiver
      <4>1. PICK nothing \in Seq(Statement) : nothing = <<>>
        BY NothingResolves
      <4>2. Silent(nothing)
        BY <4>1 DEF Silent
      <4>3. Afresh(nothing)
        BY <4>2, SilentAfresh
      <4>4. r = nothing
        BY <2>8, <3>2, <4>1, Zenon
      <4>. QED  BY <4>3, <4>4
    <3>. QED  BY <3>1, <3>2
  <2>10. PICK ru : ru = r \o u
    OBVIOUS
  <2>11. Afresh(ru)
    BY <2>5, <2>9, <2>10, AfreshJoined
  <2>12. PICK lines : lines = ru \o t
    OBVIOUS
  <2>13. Afresh(lines)
    BY <2>7, <2>11, <2>12, AfreshJoined
  <2>14. code' = code \o lines
    BY <2>3, <2>4, <2>6, <2>8, <2>10, <2>12, Zenon DEF CallLines
  <2>15. /\ \A v \in DeclaredIn(code) : v \in DeclaredIn(code')
         /\ Once(code') => Counts(program', frames', code')
    BY <1>a, <2>1, <2>2, <2>13, <2>14
  <2>16. LengthsDeclared'
    <3>1. \A i \in Positions : Due(i, stage, at)
      BY <2>1 DEF Due
    <3>. QED  BY <1>t, <2>1, <2>15, <3>1, LengthsStay
  <2>. QED  BY <1>t, <2>1, <2>15, <2>16, CountInvIf
<1>. QED  BY <1>1, <1>3, <1>4, <1>5, <1>6, <1>7, <1>8, <1>9, <1>10, <1>11 DEF Next

LEMMA CountAtFirst == Init => CountInv
<1>. SUFFICES ASSUME Init PROVE CountInv
  OBVIOUS
<1>1. DeclaredInv /\ code = <<>> /\ frames = <<>> /\ stage = "signature"
  BY DeclaredAtFirst DEF Init
<1>2. LengthsDeclared
  BY <1>1 DEF LengthsDeclared, Due
<1>3. Counts(program, frames, code)
  <2>1. PICK p, c : p = program /\ c = code
    OBVIOUS
  <2>2. Uncounting(c)
    BY <1>1, <2>1 DEF Uncounting
  <2>. QED  BY <1>1, <2>1, <2>2, NothingOwed
<1>. QED  BY <1>1, <1>2, <1>3 DEF CountInv

\* The harness of any function never calls it with a count of more elements than the
\* pointer has: nothing it writes undoes the bound on a count, if the source's members
\* have names of their own and nothing is declared twice.
THEOREM CountsHold ==
    ASSUME IndexedArraysAreScalars, MembersDistinct
    PROVE  Spec => [](DeclaredOnce => CountsFit)
<1>1. CountInv => (DeclaredOnce => CountsFit)
  <2>. SUFFICES ASSUME CountInv, DeclaredOnce, stage = "done",
                       NEW i \in DOMAIN code, code[i].op \in {"point", "null"}, code[i].by # <<>>
                PROVE  \E j \in DOMAIN code :
                          /\ code[j].op = "assume" /\ code[j].of = code[i].by
                          /\ code[j].n <= ElementsAt(code[i])
                          /\ \A k \in DOMAIN code : k > j => ~Writes(code[k], code[i].by)
    BY DEF CountsFit
  <2>1. frames = <<>> /\ code \in Seq(Statement)
    BY DEF CountInv, DeclaredInv, SaidInv, TypeInv, ObjectTypes, ParameterTypes
  <2>2. PICK s \in Statement : s = code[i]
    BY <2>1
  <2>3. PICK p, fs, c : p = program /\ fs = frames /\ c = code
    OBVIOUS
  <2>4. Counts(p, fs, c)
    BY <2>3 DEF CountInv
  <2>5. Kept(p, fs, c, s)
    BY <2>2, <2>3, <2>4 DEF Counts, AllKept, Counted
  <2>6. ~Owed(fs, c, s)
    BY <2>1, <2>3 DEF Owed
  <2>7. Bounded(c, s)
    BY <2>5, <2>6 DEF Kept
  <2>8. PICK j \in DOMAIN c : BoundedAt(c, s, j)
    BY <2>7 DEF Bounded
  <2>9. /\ code[j].op = "assume" /\ code[j].of = s.by /\ Fits(c, s, code[j].n)
        /\ \A k \in DOMAIN code : k > j => ~Writes(code[k], s.by)
    BY <2>3, <2>8 DEF BoundedAt
  <2>10. code[j].n <= ElementsAt(s)
    <3>1. CASE s.op = "null"
      <4>1. code[j].n = 0 /\ ElementsAt(s) = 0
        BY <2>9, <3>1 DEF Fits, ElementsAt
      <4>. QED  BY <4>1
    <3>2. CASE s.op # "null"
      <4>1. PICK d \in DOMAIN code : code[d].op = "declare" /\ code[d].of = s.to /\ code[j].n <= code[d].n
        BY <2>3, <2>9, <3>2 DEF Fits
      <4>2. \A x \in DOMAIN code : code[x].op = "declare" /\ code[x].of = s.to => x = d
        BY <4>1 DEF DeclaredOnce
      <4>3. (CHOOSE x \in DOMAIN code : code[x].op = "declare" /\ code[x].of = s.to) = d
        BY <4>1, <4>2
      <4>4. ElementsAt(s) = code[d].n
        BY <3>2, <4>3, Zenon DEF ElementsAt
      <4>. QED  BY <4>1, <4>4
    <3>. QED  BY <3>1, <3>2
  <2>. QED  BY <2>2, <2>3, <2>9, <2>10
<1>. QED  BY <1>1, CountAtFirst, CountInductive, PTL DEF Spec

=============================================================================
