-------------------------- MODULE ScanPassesProofs --------------------------
(***************************************************************************)
(* What a scan's report says is true, for every file, every order in which *)
(* the functions are dealt with and every budget.                          *)
(*                                                                         *)
(* Each pass is first shown to make a sound result out of a sound result   *)
(* (the first half, about one function); the invariant then follows the    *)
(* table of results through the phases.                                    *)
(***************************************************************************)
EXTENDS ScanPasses, CheckerProofs, FiniteSetTheorems

ProvedUnder(w, k) == w.ends[k] /\ (~HarnessLoops => "bug" \notin w.fails[k])

\* What a result that is marked as the harness's doing can be: a counterexample, or,
\* in a harness that has loops, a bound too small for one of them.
ArtifactOutcome(outcome) ==
    outcome = "counterexample" \/ (HarnessLoops /\ outcome = "unwind_limit")

\* What a finding's property can be: a failure of the code, or the bound of one of
\* its loops that was exhausted behind an artifact.
IsFailure(w, p) ==
    \/ p = "bug" /\ "bug" \in w.fails[0]
    \/ p = "unwinding" /\ "artifact" \in w.fails[0]

\* All that is true of a result, whichever pass it is from.
Sound(w, r) ==
    /\ r \in FunctionResult
    /\ r.outcome = "verified" => ProvedUnder(w, 0)
    /\ r.outcome = "preconditioned" => r.preconditions > 0 /\ ProvedUnder(w, r.preconditions)
    /\ r.preconditions > 0 => r.outcome = "preconditioned"
    /\ worth_triage(r) => IsFailure(w, r.detail)
    /\ r.terminates # None => r.outcome = "verified"
    /\ r.artifact => ArtifactOutcome(r.outcome)

-----------------------------------------------------------------------------
(* One function. *)

\* What is nobody's artifact in a scan is the code's or a bound's.
LEMMA NotAnArtifact ==
    ASSUME NEW w \in Functions, NEW p \in Showable(w, w.fails[0]),
           ~mechanical_artifact(w, p)
    PROVE  IsFailure(w, p)
<1>1. w \in World /\ w.generated /\ 0 \in Rounds
  BY FunctionsAssumption, RoundsAssumption DEF Rounds
<1>2. w.fails[0] \subseteq {"bug", "artifact"}
  BY <1>1 DEF World
<1>. QED
  BY <1>1, <1>2 DEF mechanical_artifact, Showable, Unwinding, IsFailure

\* Where the checker named no property, nothing is an artifact.
LEMMA NoProperty ==
    ASSUME NEW w
    PROVE  mechanical_artifact(w, None) = FALSE
BY ResultAssumption DEF mechanical_artifact, Property

\* A loop of the code is not the harness's doing.
LEMMA LoopsOfTheCode ==
    ASSUME NEW w, NEW p \in Unwinding, mechanical_artifact(w, p)
    PROVE  HarnessLoops
BY DEF Unwinding, mechanical_artifact

LEMMA MechanicalForm ==
    ASSUME NEW o \in Verdict, NEW p \in Property \cup {None}, NEW b \in BOOLEAN,
           NEW t \in BOOLEAN \cup {None}
    PROVE  /\ Mechanical(o, p, b, t) \in FunctionResult
           /\ Mechanical(o, p, b, t).outcome = o
           /\ Mechanical(o, p, b, t).detail = p
           /\ Mechanical(o, p, b, t).artifact = b
           /\ Mechanical(o, p, b, t).terminates = t
           /\ Mechanical(o, p, b, t).preconditions = 0
<1>1. 0 \in Rounds
  BY RoundsAssumption DEF Rounds
<1>2. Mechanical(o, p, b, t) =
        [outcome |-> o, detail |-> p, artifact |-> b,
         preconditions |-> 0, triage_kind |-> None, terminates |-> t]
  BY DEF Mechanical
<1>3. Mechanical(o, p, b, t) \in FunctionResult
  BY <1>1, <1>2 DEF FunctionResult
<1>. QED
  BY <1>2, <1>3

\* The answers of the first pass are sound.
LEMMA FromRunSound ==
    ASSUME NEW w \in Functions, NEW r \in run(w, Unassumed, Config), NEW m \in FromRun(w, r)
    PROVE  Sound(w, m) /\ m.preconditions = 0
<1>0. ~(0 > 0)
  OBVIOUS
<1>1. w \in World /\ Unassumed \in Program
  BY FunctionsAssumption, RoundsAssumption DEF Unassumed, Program, Rounds
<1>2. Fails(w, Unassumed) = w.fails[0] /\ (Ends(w, Unassumed) => w.ends[0])
  <2>1. /\ ~Unassumed.rewritten /\ Unassumed.pre = 0
        /\ Unassumed.inserted # "fails"
    BY DEF Unassumed
  <2>2. {p \in {"inserted"} : Unassumed.inserted = "fails"} = {}
    BY <2>1
  <2>3. Fails(w, Unassumed) = w.fails[0] \cup {}
    BY <2>1, <2>2 DEF Fails
  <2>4. Ends(w, Unassumed) => w.ends[0]
    BY <2>1 DEF Ends
  <2>. QED
    BY <2>3, <2>4
<1>3. /\ r \in VerifyResult
      /\ r.outcome = "verified" => w.fails[0] = {}
      /\ r.outcome = "counterexample" => r.violated_property \in w.fails[0]
      /\ r.outcome = "unwind_limit" =>
            /\ is_unwinding_assertion(r.violated_property)
            /\ r.violated_property \in w.fails[0] \cup Unwinding
      /\ r.outcome \notin {"counterexample", "unwind_limit"} => r.violated_property = None
  BY <1>1, <1>2, FailsAreProperties, AnswerIsSound, ConfigAssumption DEF run
<1>4. CASE r.outcome = "verified"
  <2> DEFINE Called(a) == {Mechanical(ProbedAs[a], None, FALSE, t) : t \in Termination(a)}
  <2>0. m \in UNION {Called(a) : a \in probe_reachability(w, Unassumed, Config)}
    BY <1>4 DEF FromRun
  <2>1. PICK a \in probe_reachability(w, Unassumed, Config) : m \in Called(a)
    BY <2>0
  <2>2. PICK t \in Termination(a) : m = Mechanical(ProbedAs[a], None, FALSE, t)
    BY <2>1
  <2>3. /\ a \in Reachability
        /\ a = "reachable" => w.ends[0]
    BY <1>1, <1>2, ProbeIsSound, ConfigAssumption
  <2>4. /\ t \in BOOLEAN \cup {None}
        /\ t # None => a = "reachable"
    BY DEF Termination
  <2>5. /\ ProbedAs[a] \in {"verified", "vacuous", "unconfirmed"}
        /\ ProbedAs[a] = "verified" <=> a = "reachable"
    BY <2>3 DEF ProbedAs, Reachability
  <2>6. ProbedAs[a] \in Verdict
    BY <2>5 DEF Verdict, Outcome
  <2>7. /\ m \in FunctionResult
        /\ m.outcome = ProbedAs[a] /\ m.artifact = FALSE /\ m.terminates = t
        /\ m.preconditions = 0
    <3> DEFINE M(b) == Mechanical(ProbedAs[a], None, b, t)
    <3>1. \A b \in BOOLEAN : /\ M(b) \in FunctionResult
                             /\ M(b).outcome = ProbedAs[a] /\ M(b).artifact = b
                             /\ M(b).terminates = t /\ M(b).preconditions = 0
      BY <2>4, <2>6, MechanicalForm
    <3>2. FALSE \in BOOLEAN /\ m = M(FALSE)
      BY <2>2
    <3>. HIDE DEF M
    <3>. QED
      BY <3>1, <3>2, Zenon
  <2>8. m.outcome = "verified" => ProvedUnder(w, 0)
    BY <1>3, <1>4, <2>3, <2>5, <2>7 DEF ProvedUnder
  <2>9. ~worth_triage(m) /\ m.outcome # "preconditioned"
    BY <2>5, <2>7 DEF worth_triage, failing
  <2>. QED
    BY <1>0, <2>4, <2>5, <2>7, <2>8, <2>9 DEF Sound
<1>5. CASE r.outcome # "verified"
  <2>1. m = Mechanical(r.outcome, r.violated_property,
                       mechanical_artifact(w, r.violated_property), None)
    BY <1>5 DEF FromRun
  <2>2. /\ r.outcome \in Verdict /\ r.outcome # "preconditioned"
        /\ r.violated_property \in Property \cup {None}
    BY <1>3 DEF VerifyResult, Verdict, Outcome
  <2>3. mechanical_artifact(w, r.violated_property) \in BOOLEAN
    BY <1>1 DEF mechanical_artifact, World
  <2>4. /\ m \in FunctionResult
        /\ m.outcome = r.outcome /\ m.detail = r.violated_property
        /\ m.artifact = mechanical_artifact(w, r.violated_property)
        /\ m.terminates = None /\ m.preconditions = 0
    BY <2>1, <2>2, <2>3, MechanicalForm
  <2>5. worth_triage(m) => IsFailure(w, m.detail)
    BY <1>3, <2>4, NotAnArtifact DEF worth_triage, failing, Showable
  <2>6. m.artifact => ArtifactOutcome(m.outcome)
    <3>1. CASE r.outcome = "unwind_limit"
      <4>1. w.fails[0] \subseteq {"bug", "artifact"}
        BY <1>1, RoundsAssumption DEF World, Rounds
      <4>2. r.violated_property \in Unwinding
        BY <1>3, <3>1, <4>1 DEF is_unwinding_assertion
      <4>. QED
        BY <2>4, <3>1, <4>2, LoopsOfTheCode DEF ArtifactOutcome
    <3>2. CASE r.outcome \notin {"counterexample", "unwind_limit"}
      BY <1>3, <2>4, <3>2, NoProperty
    <3>. QED
      BY <2>4, <3>1, <3>2 DEF ArtifactOutcome
  <2>. QED
    BY <1>0, <1>5, <2>2, <2>4, <2>5, <2>6 DEF Sound
<1>. QED
  BY <1>4, <1>5

\* What one() returns is sound, and is conditional on nothing.
LEMMA OneSound ==
    ASSUME NEW w \in Functions, NEW m \in one(w)
    PROVE  Sound(w, m) /\ m.preconditions = 0
<1>0. ~(0 > 0)
  OBVIOUS
<1>1. ASSUME NEW o \in {"refused", "tool_error"}, NEW b \in BOOLEAN, ~b,
             m = Mechanical(o, None, b, None)
      PROVE  Sound(w, m) /\ m.preconditions = 0
  <2>1. o \in Verdict /\ o \notin {"verified", "counterexample", "preconditioned"}
    BY DEF Verdict, Outcome
  <2>2. /\ m \in FunctionResult /\ m.outcome = o /\ m.terminates = None
        /\ m.preconditions = 0 /\ m.artifact = b
    BY <1>1, <2>1, MechanicalForm
  <2>3. ~m.artifact
    BY <1>1, <2>2, Zenon
  <2>. QED
    BY <1>0, <2>1, <2>2, <2>3 DEF Sound, worth_triage, failing
<1>2. ASSUME NEW r \in run(w, Unassumed, Config), m \in FromRun(w, r)
      PROVE  Sound(w, m) /\ m.preconditions = 0
  BY <1>2, FromRunSound
<1>. QED
  BY <1>1, <1>2 DEF one

LEMMA ReplyForm ==
    ASSUME NEW w \in Functions, NEW offline \in BOOLEAN, NEW a \in Replies[w][offline]
    PROVE  a \in Reply /\ Promised(w, offline, a)
BY DEF Replies, verify_with_agent

\* A retry that settles an open result settles it soundly, and unconditionally.
LEMMA RetrySound ==
    ASSUME NEW w \in Functions, NEW r, Sound(w, r), r.outcome \in Retryable,
           NEW a \in Reply, Promised(w, TRUE, a), settles(a)
    PROVE  /\ Sound(w, Resettled(w, r, a))
           /\ Resettled(w, r, a).preconditions = 0
           /\ Resettled(w, r, a).outcome \in {"verified", "counterexample"}
<1> DEFINE x == Resettled(w, r, a)
<1>0. ~(0 > 0) /\ 0 \in Rounds
  BY RoundsAssumption DEF Rounds
<1>1. r \in FunctionResult /\ r.preconditions = 0
  <2>1. r \in FunctionResult /\ ~(r.preconditions > 0)
    BY DEF Sound, Retryable
  <2>. QED
    BY <2>1, RoundsAssumption DEF FunctionResult, Rounds
<1>2. a.accepted = 0 /\ ~conditional(a)
  BY <1>0 DEF Promised, Unaided, conditional
<1>3. a.outcome \in {"verified", "counterexample"} /\ a.outcome \in Verdict
  BY DEF settles, Verdict, Outcome
<1>4. mechanical_artifact(w, a.property) \in BOOLEAN
  BY FunctionsAssumption DEF mechanical_artifact, World
<1>5. x = [r EXCEPT !.outcome = a.outcome, !.detail = a.property,
                    !.preconditions = r.preconditions,
                    !.artifact = mechanical_artifact(w, a.property),
                    !.terminates = a.terminates]
  BY <1>2, Zenon DEF Resettled, ArtifactOf
<1>6. /\ x \in FunctionResult
      /\ x.outcome = a.outcome /\ x.detail = a.property
      /\ x.artifact = mechanical_artifact(w, a.property)
      /\ x.preconditions = 0 /\ x.terminates = a.terminates
  BY <1>1, <1>3, <1>4, <1>5 DEF FunctionResult, Reply
<1>. HIDE DEF x
<1>7. x.outcome = "verified" => ProvedUnder(w, 0)
  BY <1>2, <1>6 DEF settles, Promised, ProofHolds, ProvedUnder
<1>8. worth_triage(x) => IsFailure(w, x.detail)
  <2>. SUFFICES ASSUME worth_triage(x) PROVE IsFailure(w, x.detail)
    OBVIOUS
  <2>1. a.outcome = "counterexample" /\ ~mechanical_artifact(w, a.property)
    BY <1>6 DEF worth_triage, failing
  <2>2. a.property \in Showable(w, w.fails[0])
    <3>1. a.property \in Failing(w, TRUE, 0)
      BY <2>1 DEF Promised, Unaided, CounterexampleHolds
    <3>2. {p \in {"inserted"} : ~TRUE} = {}
      OBVIOUS
    <3>. QED
      BY <3>1, <3>2 DEF Failing
  <2>. QED
    BY <1>6, <2>1, <2>2, NotAnArtifact
<1>9. x.terminates # None => x.outcome = "verified"
  BY <1>6 DEF Promised, ProofHolds
<1>10. x.artifact => ArtifactOutcome(x.outcome)
  BY <1>3, <1>6, NoProperty DEF Promised, ArtifactOutcome
<1>11. Sound(w, x)
  BY <1>0, <1>3, <1>6, <1>7, <1>8, <1>9, <1>10 DEF Sound
<1>. QED
  BY <1>3, <1>6, <1>11 DEF x

\* Triage labels a finding, or makes it a proof under preconditions.
LEMMA TriageSound ==
    ASSUME NEW w \in Functions, NEW r, Sound(w, r), worth_triage(r),
           NEW a \in Reply, Promised(w, FALSE, a), NEW x \in Labelled(r, a)
    PROVE  /\ Sound(w, Conditioned(x, a))
           /\ Conditioned(x, a).outcome \in {"counterexample", "preconditioned"}
<1>1. /\ r \in FunctionResult /\ r.outcome = "counterexample"
      /\ ~(r.preconditions > 0) /\ r.terminates = None
  BY DEF Sound, worth_triage, failing
<1>2. /\ x \in FunctionResult /\ x.outcome = r.outcome
      /\ x.preconditions = r.preconditions /\ x.terminates = r.terminates
      /\ x.detail = r.detail /\ x.artifact = r.artifact
  BY <1>1 DEF Labelled, FunctionResult, Reply
<1>3. Sound(w, x)
  BY <1>1, <1>2 DEF Sound, worth_triage, failing
<1>4. CASE conditional(a) /\ a.verified
  <2> DEFINE y == [x EXCEPT !.outcome = "preconditioned", !.preconditions = a.accepted]
  <2>1. "preconditioned" \in Verdict /\ a.accepted \in Rounds
    BY DEF Verdict, Reply
  <2>2. /\ y \in FunctionResult /\ y.outcome = "preconditioned"
        /\ y.preconditions = a.accepted /\ y.terminates = x.terminates
        /\ y.artifact = r.artifact
    BY <1>2, <2>1 DEF FunctionResult
  <2>3. Conditioned(x, a) = y
    BY <1>4 DEF Conditioned
  <2>. HIDE DEF y
  <2>4. a.accepted > 0 /\ ProvedUnder(w, a.accepted)
    BY <1>4 DEF conditional, Promised, ProofHolds, ProvedUnder
  <2>. QED
    BY <1>1, <1>2, <2>2, <2>3, <2>4 DEF Sound, worth_triage, failing
<1>5. CASE ~(conditional(a) /\ a.verified)
  <2>1. Conditioned(x, a) = x
    BY <1>5 DEF Conditioned
  <2>. QED
    BY <1>1, <1>2, <1>3, <2>1
<1>. QED
  BY <1>4, <1>5

-----------------------------------------------------------------------------
(* The table of results. *)

\* The functions and the request are what they were at the start.
Fixed == world \in [Names -> Functions] /\ asks \in SUBSET Pass /\ phase \in Phase
         /\ todo \in SUBSET Names

\* Every result there is is sound; only the triage pass makes it conditional.
Each == /\ results \in [Names -> FunctionResult \cup {None}]
        /\ \A n \in Names : results[n] # None => Sound(world[n], results[n])

\* A result is there as soon as the first pass has dealt with the function.
Dealt == /\ phase = "pool" => \A n \in todo : results[n] = None
         /\ \A n \in Names : results[n] = None =>
                n \in todo /\ phase \in {"pool", "raised"}

\* What a later pass has to deal with is what it was chosen for.
Chosen == /\ phase = "retry" =>
                \A n \in todo : "retry" \in asks /\ results[n].outcome \in Retryable
          /\ phase = "triage" =>
                \A n \in todo : "triage" \in asks /\ worth_triage(results[n])

Late == ConditionsComeFromTriage

Counts == /\ retried \in Nat /\ settled \in 0 .. retried
          /\ retried <= Cardinality(Names)
          /\ phase = "pool" => retried = 0
          /\ phase = "retry" => retried + Cardinality(todo) <= Cardinality(Names)

Outside == triaged \in BOOLEAN /\ exit \in {None, 0, 1}

IInv == Fixed /\ Each /\ Dealt /\ Chosen /\ Late /\ Counts /\ Outside

\* Sets of names can be counted, and taking one of them out counts.
LEMMA CountNames ==
    ASSUME NEW S \in SUBSET Names
    PROVE  /\ Cardinality(S) \in Nat /\ Cardinality(S) <= Cardinality(Names)
           /\ \A n \in S : Cardinality(S \ {n}) = Cardinality(S) - 1
<1>1. IsFiniteSet(Names) /\ IsFiniteSet(S)
  BY NamesAssumption, FS_Subset
<1>. QED
  BY <1>1, FS_CardinalityType, FS_RemoveElement, FS_Subset

LEMMA Initially == Init => IInv
<1>. SUFFICES ASSUME Init PROVE IInv
  OBVIOUS
<1>1. Fixed
  BY RequestsAssumption DEF Init, Fixed, Phase
<1>2. Each /\ Dealt /\ Late
  BY DEF Init, Each, Dealt, Late, ConditionsComeFromTriage, Attempted
<1>3. Chosen /\ Outside
  BY DEF Init, Chosen, Outside
<1>4. Cardinality(Names) \in Nat
  BY CountNames
<1>5. Counts
  BY <1>4 DEF Init, Counts
<1>. QED
  BY <1>1, <1>2, <1>3, <1>5 DEF IInv

\* A step that fills in one entry, soundly, keeps the table sound.
LEMMA EntryFilled ==
    ASSUME NEW n \in Names, NEW r, Each, Sound(world[n], r), world' = world,
           results' = [results EXCEPT ![n] = r]
    PROVE  /\ Each' /\ results'[n] = r
           /\ \A m \in Names \ {n} : results'[m] = results[m]
<1>1. r \in FunctionResult
  BY DEF Sound
<1>. QED
  BY <1>1 DEF Each

LEMMA AttemptKeeps ==
    ASSUME IInv, NEW n \in Names, Attempt(n)
    PROVE  IInv'
<1>1. PICK r \in one(world[n]) : results' = [results EXCEPT ![n] = r]
  BY DEF Attempt
<1>2. /\ phase = "pool" /\ phase' = "pool" /\ n \in todo /\ todo' = todo \ {n}
      /\ world' = world /\ asks' = asks /\ exit' = exit
      /\ retried' = retried /\ settled' = settled /\ triaged' = triaged
  BY DEF Attempt, Remaining, counters
<1>3. world[n] \in Functions
  BY DEF IInv, Fixed
<1>4. Sound(world[n], r) /\ r.preconditions = 0 /\ r \in FunctionResult
  BY <1>1, <1>3, OneSound DEF Sound
<1>5. r # None /\ ~(r.preconditions > 0)
  BY <1>4, ResultAssumption
<1>6. /\ Each' /\ results'[n] = r
      /\ \A m \in Names \ {n} : results'[m] = results[m]
  BY <1>1, <1>2, <1>4, EntryFilled DEF IInv
<1>7. Fixed'
  BY <1>2 DEF IInv, Fixed
<1>8. Dealt'
  BY <1>2, <1>5, <1>6 DEF IInv, Dealt, Fixed
<1>9. Chosen' /\ Counts' /\ Outside'
  BY <1>2 DEF IInv, Chosen, Counts, Outside
<1>10. Late'
  BY <1>2, <1>5, <1>6 DEF IInv, Late, ConditionsComeFromTriage, Attempted
<1>. QED
  BY <1>6, <1>7, <1>8, <1>9, <1>10 DEF IInv

LEMMA BeginRetryKeeps ==
    ASSUME IInv, BeginRetry
    PROVE  IInv'
<1>1. /\ phase = "pool" /\ todo = {} /\ phase' = "retry"
      /\ todo' = {n \in Names : "retry" \in asks /\ results[n].outcome \in Retryable}
      /\ world' = world /\ asks' = asks /\ results' = results /\ exit' = exit
      /\ retried' = retried /\ settled' = settled /\ triaged' = triaged
  BY DEF BeginRetry, counters
<1>2. Fixed' /\ Each' /\ Outside'
  BY <1>1 DEF IInv, Fixed, Each, Outside, Phase
<1>3. Dealt' /\ Chosen' /\ Late'
  BY <1>1 DEF IInv, Dealt, Chosen, Late, ConditionsComeFromTriage, Attempted
<1>4. /\ Cardinality(todo') \in Nat /\ Cardinality(todo') <= Cardinality(Names)
      /\ Cardinality(Names) \in Nat
  BY <1>1, CountNames
<1>5. Counts'
  BY <1>1, <1>4 DEF IInv, Counts
<1>. QED
  BY <1>2, <1>3, <1>5 DEF IInv

\* What the retry pass has still to deal with is open, and open unconditionally.
LEMMA RetryTodo ==
    ASSUME IInv, phase = "retry", NEW n \in todo
    PROVE  /\ n \in Names /\ world[n] \in Functions /\ results[n] # None
           /\ Sound(world[n], results[n]) /\ results[n].outcome \in Retryable
           /\ retried + 1 <= Cardinality(Names)
           /\ retried + 1 + Cardinality(todo \ {n}) <= Cardinality(Names)
           /\ Cardinality(todo \ {n}) \in Nat /\ Cardinality(Names) \in Nat
<1>1. n \in Names /\ world[n] \in Functions /\ results[n] # None
  BY DEF IInv, Fixed, Dealt
<1>2. Sound(world[n], results[n]) /\ results[n].outcome \in Retryable
  BY <1>1 DEF IInv, Each, Chosen
<1>3. /\ Cardinality(todo) \in Nat /\ Cardinality(todo \ {n}) \in Nat
      /\ Cardinality(todo \ {n}) = Cardinality(todo) - 1 /\ Cardinality(Names) \in Nat
  BY CountNames DEF IInv, Fixed
<1>. QED
  BY <1>1, <1>2, <1>3 DEF IInv, Counts

LEMMA RetrySettlesKeeps ==
    ASSUME IInv, NEW n \in Names, RetrySettles(n)
    PROVE  IInv'
<1>1. PICK a \in Replies[world[n]][TRUE] :
        settles(a) /\ results' = [results EXCEPT ![n] = Resettled(world[n], @, a)]
  BY DEF RetrySettles, WithoutLLM
<1> DEFINE r == Resettled(world[n], results[n], a)
<1>2. /\ phase = "retry" /\ phase' = "retry" /\ n \in todo /\ todo' = todo \ {n}
      /\ world' = world /\ asks' = asks /\ exit' = exit /\ triaged' = triaged
      /\ retried' = retried + 1 /\ settled' = settled + 1
  BY DEF RetrySettles, Remaining
<1>3. /\ world[n] \in Functions /\ Sound(world[n], results[n])
      /\ results[n].outcome \in Retryable
      /\ retried + 1 + Cardinality(todo \ {n}) <= Cardinality(Names)
      /\ retried + 1 <= Cardinality(Names)
  BY <1>2, RetryTodo
<1>4. /\ Sound(world[n], r) /\ r.preconditions = 0
      /\ r.outcome \in {"verified", "counterexample"}
  BY <1>1, <1>3, ReplyForm, RetrySound
<1>5. results' = [results EXCEPT ![n] = r]
  BY <1>1 DEF IInv, Each
<1>. HIDE DEF r
<1>6. r # None /\ ~(r.preconditions > 0)
  BY <1>4, ResultAssumption DEF Sound
<1>7. /\ Each' /\ results'[n] = r
      /\ \A m \in Names \ {n} : results'[m] = results[m]
  BY <1>2, <1>4, <1>5, EntryFilled DEF IInv
<1>8. Fixed'
  BY <1>2 DEF IInv, Fixed
<1>9. Dealt' /\ Chosen'
  BY <1>2, <1>6, <1>7 DEF IInv, Dealt, Chosen, Fixed
<1>10. Late'
  BY <1>2, <1>6, <1>7 DEF IInv, Late, ConditionsComeFromTriage, Attempted
<1>11. Counts' /\ Outside'
  BY <1>2, <1>3 DEF IInv, Counts, Outside
<1>. QED
  BY <1>7, <1>8, <1>9, <1>10, <1>11 DEF IInv

LEMMA RetryInVainKeeps ==
    ASSUME IInv, NEW n \in Names, RetryInVain(n)
    PROVE  IInv'
<1>1. /\ phase = "retry" /\ phase' = "retry" /\ n \in todo /\ todo' = todo \ {n}
      /\ world' = world /\ asks' = asks /\ results' = results /\ exit' = exit
      /\ retried' = retried + 1 /\ settled' = settled /\ triaged' = triaged
  BY DEF RetryInVain, Remaining
<1>2. Fixed' /\ Each' /\ Outside'
  BY <1>1 DEF IInv, Fixed, Each, Outside
<1>3. Dealt' /\ Chosen' /\ Late'
  BY <1>1 DEF IInv, Dealt, Chosen, Late, ConditionsComeFromTriage, Attempted, Fixed
<1>4. Counts'
  BY <1>1, RetryTodo DEF IInv, Counts
<1>. QED
  BY <1>2, <1>3, <1>4 DEF IInv

\* Leaving some functions as they are keeps everything.
LEMMA SkippingKeeps ==
    ASSUME IInv, phase \in {"retry", "triage"}, phase' = phase, todo' \subseteq todo,
           UNCHANGED <<world, asks, results, counters, exit>>
    PROVE  IInv'
<1>1. /\ world' = world /\ asks' = asks /\ results' = results /\ exit' = exit
      /\ retried' = retried /\ settled' = settled /\ triaged' = triaged
  BY DEF counters
<1>2. Fixed' /\ Each' /\ Outside'
  BY <1>1 DEF IInv, Fixed, Each, Outside
<1>3. Dealt' /\ Chosen' /\ Late'
  BY <1>1 DEF IInv, Dealt, Chosen, Late, ConditionsComeFromTriage, Attempted, Fixed
<1>4. Cardinality(todo') \in Nat /\ Cardinality(todo') <= Cardinality(todo)
  <2>1. IsFiniteSet(todo)
    BY NamesAssumption, FS_Subset DEF IInv, Fixed
  <2>. QED
    BY <2>1, FS_Subset, FS_CardinalityType
<1>5. Counts'
  <2>1. Cardinality(todo) \in Nat /\ Cardinality(Names) \in Nat
    BY CountNames DEF IInv, Fixed
  <2>. QED
    BY <1>1, <1>4, <2>1 DEF IInv, Counts
<1>. QED
  BY <1>2, <1>3, <1>5 DEF IInv

LEMMA BeginTriageKeeps ==
    ASSUME IInv, BeginTriage
    PROVE  IInv'
<1>1. /\ phase = "retry" /\ todo = {} /\ phase' = "triage"
      /\ todo' = {n \in Names : "triage" \in asks /\ worth_triage(results[n])}
      /\ world' = world /\ asks' = asks /\ results' = results /\ exit' = exit
      /\ retried' = retried /\ settled' = settled /\ triaged' = triaged
  BY DEF BeginTriage, counters
<1>2. Fixed' /\ Each' /\ Outside'
  BY <1>1 DEF IInv, Fixed, Each, Outside, Phase
<1>3. Dealt' /\ Chosen' /\ Late' /\ Counts'
  BY <1>1 DEF IInv, Dealt, Chosen, Late, ConditionsComeFromTriage, Attempted, Counts
<1>. QED
  BY <1>2, <1>3 DEF IInv

LEMMA TriageKeeps ==
    ASSUME IInv, NEW n \in Names, Triage(n)
    PROVE  IInv'
<1>1. PICK a \in Replies[world[n]][FALSE] :
        \E x \in Labelled(results[n], a) :
           results' = [results EXCEPT ![n] = Conditioned(x, a)]
  BY DEF Triage
<1>2. PICK x \in Labelled(results[n], a) :
        results' = [results EXCEPT ![n] = Conditioned(x, a)]
  BY <1>1
<1> DEFINE r == Conditioned(x, a)
<1>3. /\ phase = "triage" /\ phase' = "triage" /\ n \in todo /\ todo' = todo \ {n}
      /\ world' = world /\ asks' = asks /\ exit' = exit
      /\ retried' = retried /\ settled' = settled /\ triaged' = triaged
  BY DEF Triage, Remaining, counters
<1>4. /\ world[n] \in Functions /\ Sound(world[n], results[n])
      /\ worth_triage(results[n]) /\ "triage" \in asks
  BY <1>3 DEF IInv, Fixed, Each, Dealt, Chosen
<1>5. Sound(world[n], r) /\ r \in FunctionResult
  BY <1>2, <1>4, ReplyForm, TriageSound DEF Sound
<1>6. r # None
  BY <1>5, ResultAssumption
<1>7. results' = [results EXCEPT ![n] = r]
  BY <1>2
<1>. HIDE DEF r
<1>8. /\ Each' /\ results'[n] = r
      /\ \A m \in Names \ {n} : results'[m] = results[m]
  BY <1>3, <1>5, <1>7, EntryFilled DEF IInv
<1>9. Fixed'
  BY <1>3 DEF IInv, Fixed
<1>10. Dealt' /\ Chosen'
  BY <1>3, <1>6, <1>8 DEF IInv, Dealt, Chosen, Fixed
<1>11. Late'
  <2>1. r.preconditions > 0 => r.outcome = "preconditioned"
    BY <1>5 DEF Sound
  <2>. QED
    BY <1>3, <1>4, <1>8, <2>1 DEF IInv, Late, ConditionsComeFromTriage, Attempted
<1>12. Counts' /\ Outside'
  BY <1>3 DEF IInv, Counts, Outside
<1>. QED
  BY <1>8, <1>9, <1>10, <1>11, <1>12 DEF IInv

LEMMA EndingKeeps ==
    ASSUME IInv, Report \/ Raise
    PROVE  IInv'
<1>1. CASE Report
  <2>1. /\ phase' = "report" /\ phase = "triage"
        /\ triaged' \in BOOLEAN /\ exit' \in {0, 1}
        /\ world' = world /\ asks' = asks /\ results' = results /\ todo' = todo
        /\ retried' = retried /\ settled' = settled
    BY <1>1 DEF Report, apply_baseline
  <2>2. Fixed' /\ Each' /\ Outside'
    BY <2>1 DEF IInv, Fixed, Each, Outside, Phase
  <2>3. Dealt' /\ Chosen' /\ Late' /\ Counts'
    BY <2>1 DEF IInv, Dealt, Chosen, Late, ConditionsComeFromTriage, Attempted, Counts
  <2>. QED
    BY <2>2, <2>3 DEF IInv
<1>2. CASE Raise
  <2>1. /\ phase' = "raised" /\ phase \in {"pool", "retry", "triage"}
        /\ world' = world /\ asks' = asks /\ results' = results /\ todo' = todo
        /\ retried' = retried /\ settled' = settled /\ triaged' = triaged
        /\ exit' = exit
    BY <1>2 DEF Raise, counters
  <2>2. Fixed' /\ Each' /\ Outside'
    BY <2>1 DEF IInv, Fixed, Each, Outside, Phase
  <2>3. Dealt' /\ Chosen' /\ Late' /\ Counts'
    BY <2>1 DEF IInv, Dealt, Chosen, Late, ConditionsComeFromTriage, Attempted, Counts
  <2>. QED
    BY <2>2, <2>3 DEF IInv
<1>. QED
  BY <1>1, <1>2

LEMMA StepKeeps == IInv /\ [Next]_vars => IInv'
<1>. SUFFICES ASSUME IInv, [Next]_vars PROVE IInv'
  OBVIOUS
<1>1. CASE \E n \in Names : Attempt(n)
  BY <1>1, AttemptKeeps
<1>2. CASE BeginRetry
  BY <1>2, BeginRetryKeeps
<1>3. ASSUME NEW n \in Names, RetrySettles(n) \/ RetryInVain(n) \/ TooDear(n)
      PROVE  IInv'
  <2>1. CASE TooDear(n)
    BY <2>1, SkippingKeeps DEF TooDear, Remaining
  <2>. QED
    BY <1>3, <2>1, RetrySettlesKeeps, RetryInVainKeeps
<1>4. CASE BudgetSpent
  BY <1>4, SkippingKeeps DEF BudgetSpent
<1>5. CASE BeginTriage
  BY <1>5, BeginTriageKeeps
<1>6. ASSUME NEW n \in Names, Triage(n) \/ TriageFails(n)
      PROVE  IInv'
  <2>1. CASE TriageFails(n)
    BY <2>1, SkippingKeeps DEF TriageFails, Remaining
  <2>. QED
    BY <1>6, <2>1, TriageKeeps
<1>7. CASE Report \/ Raise
  BY <1>7, EndingKeeps
<1>8. CASE UNCHANGED vars
  BY <1>8 DEF vars, counters, IInv, Fixed, Each, Dealt, Chosen, Late,
              ConditionsComeFromTriage, Attempted, Counts, Outside
<1>. QED
  BY <1>1, <1>2, <1>3, <1>4, <1>5, <1>6, <1>7, <1>8 DEF Next

\* The table is sound whichever passes have written to it so far.
THEOREM ScanInvariant == Spec => []IInv
BY Initially, StepKeeps, PTL DEF Spec

-----------------------------------------------------------------------------

\* Every field of the report keeps its type, and no function is retried twice.
THEOREM ScanTypesCorrect == Spec => []TypeOK
<1>1. IInv => TypeOK
  <2>. SUFFICES ASSUME IInv PROVE TypeOK
    OBVIOUS
  <2>1. world \in [Names -> World]
    BY FunctionsAssumption DEF IInv, Fixed
  <2>2. results \in [Names -> FunctionResult \cup {None}]
    BY DEF IInv, Each, Sound
  <2>3. Cardinality(Names) \in Nat
    BY CountNames
  <2>. QED
    BY <2>1, <2>2, <2>3 DEF IInv, Fixed, Counts, Outside, TypeOK
<1>. QED
  BY <1>1, ScanInvariant, PTL

\* Where no harness has loops of its own past the bound, what the table calls
\* proved is proved, and what it calls preconditioned under that many.
THEOREM ScanProofsAreGenuine ==
    ASSUME ~HarnessLoops PROVE Spec => []ResultsAreProofs
<1>1. IInv => ResultsAreProofs
  BY DEF IInv, Each, Sound, ProvedUnder, ResultsAreProofs, Attempted
<1>. QED
  BY <1>1, ScanInvariant, PTL

\* A finding is a failure of the code under test, or the bound of one of its loops
\* that was exhausted behind an artifact.
THEOREM ScanFindingsAreFailures == Spec => []FindingsAreFailures
<1>1. IInv => FindingsAreFailures
  BY DEF IInv, Each, Sound, IsFailure, FindingsAreFailures, Attempted
<1>. QED
  BY <1>1, ScanInvariant, PTL

\* No result is conditional before the triage pass, or in a scan without one.
THEOREM ScanConditionsComeFromTriage == Spec => []ConditionsComeFromTriage
<1>1. IInv => ConditionsComeFromTriage
  BY DEF IInv, Late
<1>. QED
  BY <1>1, ScanInvariant, PTL

\* Termination is only claimed of what is proved.
THEOREM ScanTerminationOfProofs == Spec => []TerminationOfProofs
<1>1. IInv => TerminationOfProofs
  BY DEF IInv, Each, Sound, TerminationOfProofs, Attempted
<1>. QED
  BY <1>1, ScanInvariant, PTL

\* Where no harness has loops of its own past the bound, the report counts every
\* candidate exactly once (ScanReport.summary).
THEOREM ScanCountsEachOnce ==
    ASSUME ~HarnessLoops PROVE Spec => []OneBucketEach
<1> DEFINE buckets == <<proved, counterexamples, artifacts, preconditioned, refused,
                        inconclusive>>
<1>1. ASSUME IInv, phase = "report", NEW n \in Names
      PROVE  \E k \in 1 .. 6 : {i \in 1 .. 6 : n \in buckets[i]} = {k}
  <2>1. Sound(world[n], results[n])
    BY <1>1 DEF IInv, Each, Dealt
  <2>2. /\ results[n].artifact \in BOOLEAN
        /\ results[n].artifact => results[n].outcome = "counterexample"
    BY <2>1 DEF Sound, ArtifactOutcome, FunctionResult
  <2> DEFINE o == results[n].outcome
  <2>3. /\ n \in buckets[1] <=> o = "verified"
        /\ n \in buckets[2] <=> o = "counterexample" /\ ~results[n].artifact
        /\ n \in buckets[3] <=> results[n].artifact
        /\ n \in buckets[4] <=> o = "preconditioned"
        /\ n \in buckets[5] <=> o = "refused"
        /\ n \in buckets[6] <=> o \notin {"verified", "counterexample", "refused", "preconditioned"}
    BY DEF proved, counterexamples, artifacts, preconditioned, refused, inconclusive,
           worth_triage, failing
  <2>. QED
    BY <2>2, <2>3
<1>2. IInv => OneBucketEach
  <2>. SUFFICES ASSUME IInv, phase = "report", NEW n \in Names
                PROVE  Cardinality({i \in 1 .. 6 : n \in buckets[i]}) = 1
    BY DEF OneBucketEach
  <2>. HIDE DEF buckets
  <2>. QED
    BY <1>1, FS_Singleton
<1>. QED
  BY <1>2, ScanInvariant, PTL

\* A later pass answers what was open or makes a finding conditional, and
\* touches nothing else.
THEOREM ScanAnswersAreKept == Spec => AnswersAreKept
<1> DEFINE Kept(n) == results'[n].outcome # results[n].outcome =>
              \/ /\ results[n].outcome \in {"timeout", "unwind_limit", "unknown"}
                 /\ results'[n].outcome \in {"verified", "counterexample"}
              \/ /\ worth_triage(results[n])
                 /\ results'[n].outcome = "preconditioned"
<1>1. ASSUME IInv, [Next]_vars, NEW n \in Attempted PROVE Kept(n)
  <2>0. n \in Names /\ results[n] # None
    BY <1>1 DEF Attempted
  <2>1. CASE results'[n] = results[n]
    BY <2>1
  <2>2. ASSUME NEW m \in Names, Attempt(m) PROVE Kept(n)
    <3>1. n # m
      BY <1>1, <2>0, <2>2 DEF Attempt, IInv, Dealt
    <3>2. results'[n] = results[n]
      BY <1>1, <2>0, <2>2, <3>1 DEF Attempt, IInv, Each
    <3>. QED
      BY <3>2
  <2>3. ASSUME NEW m \in Names, RetrySettles(m) PROVE Kept(n)
    <3>1. PICK a \in Replies[world[m]][TRUE] :
            settles(a) /\ results' = [results EXCEPT ![m] = Resettled(world[m], @, a)]
      BY <2>3 DEF RetrySettles, WithoutLLM
    <3>2. CASE n # m
      BY <1>1, <2>0, <3>1, <3>2, <2>1 DEF IInv, Each
    <3>3. CASE n = m
      <4>1. /\ phase = "retry" /\ n \in todo
        BY <2>3, <3>3 DEF RetrySettles
      <4>2. /\ world[n] \in Functions /\ Sound(world[n], results[n])
            /\ results[n].outcome \in Retryable
        BY <1>1, <4>1, RetryTodo
      <4>3. Resettled(world[n], results[n], a).outcome \in {"verified", "counterexample"}
        BY <3>1, <3>3, <4>2, ReplyForm, RetrySound
      <4>4. results'[n] = Resettled(world[n], results[n], a)
        BY <1>1, <2>0, <3>1, <3>3 DEF IInv, Each
      <4>. QED
        BY <4>2, <4>3, <4>4 DEF Retryable
    <3>. QED
      BY <3>2, <3>3
  <2>4. ASSUME NEW m \in Names, Triage(m) PROVE Kept(n)
    <3>1. PICK a \in Replies[world[m]][FALSE] :
            \E x \in Labelled(results[m], a) :
               results' = [results EXCEPT ![m] = Conditioned(x, a)]
      BY <2>4 DEF Triage
    <3>2. PICK x \in Labelled(results[m], a) :
            results' = [results EXCEPT ![m] = Conditioned(x, a)]
      BY <3>1
    <3>3. CASE n # m
      BY <1>1, <2>0, <3>2, <3>3, <2>1 DEF IInv, Each
    <3>4. CASE n = m
      <4>1. /\ world[n] \in Functions /\ Sound(world[n], results[n])
            /\ worth_triage(results[n])
        BY <1>1, <2>0, <2>4, <3>4 DEF Triage, IInv, Fixed, Each, Chosen
      <4>2. Conditioned(x, a).outcome \in {"counterexample", "preconditioned"}
        BY <3>1, <3>2, <3>4, <4>1, ReplyForm, TriageSound
      <4>3. results'[n] = Conditioned(x, a)
        BY <1>1, <2>0, <3>2, <3>4 DEF IInv, Each
      <4>. QED
        BY <4>1, <4>2, <4>3 DEF worth_triage, failing
    <3>. QED
      BY <3>3, <3>4
  <2>5. CASE results' = results
    BY <2>1, <2>5
  <2>6. \/ \E m \in Names : Attempt(m) \/ RetrySettles(m) \/ Triage(m)
        \/ results' = results
    BY <1>1 DEF Next, BeginRetry, RetryInVain, TooDear, BudgetSpent, BeginTriage,
                TriageFails, Report, Raise, vars
  <2>. QED
    BY <2>2, <2>3, <2>4, <2>5, <2>6
<1>2. IInv /\ [Next]_vars => \A n \in Attempted : Kept(n)
  BY <1>1
<1>. HIDE DEF Kept
<1>3. IInv /\ [Next]_vars => [\A n \in Attempted : Kept(n)]_vars
  BY <1>2
<1>4. Spec => [][\A n \in Attempted : Kept(n)]_vars
  BY <1>3, ScanInvariant, PTL DEF Spec
<1>. QED
  BY <1>4 DEF AnswersAreKept, Kept

=============================================================================
