-------------------------- MODULE AgentLoopProofs --------------------------
(***************************************************************************)
(* The safety of the agent loop, for every budget, every set of functions  *)
(* and every starting configuration.                                       *)
(*                                                                         *)
(* The properties speak of reports, which say nothing while the loop runs. *)
(* The inductive invariant IInv therefore adds what the loop knows at each *)
(* stage: which program the next run is given and what the context says of *)
(* it, what the last answer established, and what was diagnosed.           *)
(***************************************************************************)
EXTENDS AgentLoop, CheckerProofs

(* The inductive invariant. *)

\* The program about to be run is the one the context describes, under the
\* preconditions in force; no LLM has changed anything but assertions in it.
Described ==
    /\ ~source.rewritten
    /\ source.pre = preconditions
    /\ context.assumptions = preconditions
    /\ NamedHarness(context) = source
    /\ source.inserted # "none" => context.llm_invariants

\* There is a last attempt whenever a report may need one, and the one look
\* past an artifact is taken within the budget.
Counted ==
    /\ attempts > 0 => last \in VerifyResult
    /\ stage \notin {"attempt", "raised"} => attempts > 0
    /\ stage \in {"triage", "look_past"} /\ ~looked_past_artifact => attempts <= MaxAttempts
    /\ attempts <= MaxAttempts + 2

Counterexample(r) ==
    /\ r.outcome = "counterexample"
    /\ r.violated_property \in Showable(world, Fails(world, source))
    /\ is_unwinding_assertion(r.violated_property) => looked_past_artifact

\* What the answer being handled says of the program it is about.
Judged ==
    /\ stage \in {"verified", "triage", "look_past", "only_artifacts", "settle"} =>
          result \in VerifyResult /\ result.source = source
    /\ stage = "verified" => result.outcome = "verified" /\ Fails(world, source) = {}
    /\ stage = "only_artifacts" =>
          /\ result.outcome = "verified"
          /\ ~HarnessLoops => "bug" \notin Fails(world, source)
    /\ stage \in {"triage", "look_past", "settle"} => Counterexample(result)

\* The diagnosis is of the counterexample being handled; an artifact is called
\* one, never leads to a precondition, and is reported only when looked past.
Diagnosed ==
    /\ stage \in {"look_past", "settle"} =>
          /\ diagnosis \in Diagnosis /\ diagnosis.about = result
          /\ mechanical_artifact(world, result.violated_property) =>
                diagnosis.kind = "harness_issue" /\ ~diagnosis.proposed_precondition
    /\ stage = "look_past" => ~looked_past_artifact
    /\ stage = "settle" /\ mechanical_artifact(world, result.violated_property) =>
          looked_past_artifact

\* Whatever was diagnosed did fail in the function as first asked about.
Seen == diagnosis # None =>
            diagnosis.about.violated_property \in Failing(world, Offline, 0)

\* The stages in which the last answer settled nothing.
Open == {"attempt", "tool_error", "timeout", "escalate", "parse_error"}

\* Without an LLM the harness stays as it was handed over, and a counterexample
\* is reported, never tried again.
Alone ==
    Offline =>
        /\ preconditions = 0 /\ source.inserted = "none"
        /\ stage \in Open /\ attempts > 0 => last.outcome # "counterexample"
        /\ stage \in {"look_past", "settle"} => ~diagnosis.proposed_precondition

Reported == /\ ~HarnessLoops => GenuineProof
            /\ ClaimDescribesProgram /\ HonestCounterexample /\ KeepsPromise

IInv == /\ TypeOK /\ Described /\ Counted /\ Judged /\ Diagnosed
        /\ Seen /\ Alone /\ Reported

-----------------------------------------------------------------------------
(* Lemmas. *)

LEMMA RunIsSound ==
    ASSUME NEW w \in World, NEW s \in Program, NEW c \in VerifyConfig,
           NEW r \in run(w, s, c)
    PROVE  /\ r \in VerifyResult /\ r.source = s
           /\ r.outcome = "verified" => Fails(w, s) = {}
           /\ r.outcome = "counterexample" =>
                 /\ r.properties \in Violated(Fails(w, s), c)
                 /\ r.violated_property \in r.properties
                 /\ r.violated_property \in Fails(w, s)
BY FailsAreProperties, AnswerIsSound DEF run

\* Every outcome is handled somewhere, and only a verified run and a
\* counterexample where something is claimed.
LEMMA EveryOutcomeHandled ==
    ASSUME NEW o \in Outcome
    PROVE  /\ Handler[o] \in {"verified", "triage", "tool_error", "timeout",
                              "escalate", "parse_error"}
           /\ Handler[o] = "verified" => o = "verified"
           /\ Handler[o] = "triage" => o = "counterexample"
           /\ Handler[o] \in Open => o # "counterexample"
BY DEF Handler, Outcome, Open

LEMMA WidenedConfig ==
    ASSUME NEW c \in VerifyConfig
    PROVE  /\ [c EXCEPT !.multi_property = TRUE] \in VerifyConfig
           /\ [c EXCEPT !.multi_property = TRUE].multi_property
           /\ [c EXCEPT !.k_induction = TRUE] \in VerifyConfig
           /\ [c EXCEPT !.incremental_bmc = TRUE, !.k_induction = FALSE] \in VerifyConfig
           /\ [c EXCEPT !.unwind = c.unwind + 1] \in VerifyConfig
<1>1. /\ [c EXCEPT !.multi_property = TRUE] \in VerifyConfig
      /\ [c EXCEPT !.multi_property = TRUE].multi_property
  BY DEF VerifyConfig
<1>2. [c EXCEPT !.k_induction = TRUE] \in VerifyConfig
  BY DEF VerifyConfig
<1>3. [c EXCEPT !.incremental_bmc = TRUE, !.k_induction = FALSE] \in VerifyConfig
  BY DEF VerifyConfig
<1>4. [c EXCEPT !.unwind = c.unwind + 1] \in VerifyConfig
  <2>1. c.unwind + 1 \in Nat
    BY DEF VerifyConfig
  <2>. QED
    BY <2>1 DEF VerifyConfig
<1>. QED
  BY <1>1, <1>2, <1>3, <1>4

\* What triage says of a counterexample.
LEMMA TriageForm ==
    ASSUME TypeOK, NEW r \in VerifyResult, NEW d \in triage_counterexample(r)
    PROVE  /\ d \in Diagnosis /\ d.about = r
           /\ mechanical_artifact(world, r.violated_property) =>
                 d.kind = "harness_issue" /\ ~d.proposed_precondition
           /\ Offline => ~d.proposed_precondition
<1> DEFINE artifact == mechanical_artifact(world, r.violated_property)
           Of(kinds, proposals) == [kind : kinds, proposed_precondition : proposals]
           debatable == {k \in {"missing_assumption", "harness_issue"} : ~Offline}
           proposals == {b \in BOOLEAN : b => world.target}
<1>1. PICK c \in Conclusions(artifact, Offline, world.target) :
         d = [kind |-> c.kind, proposed_precondition |-> c.proposed_precondition,
              about |-> r]
  BY DEF triage_counterexample
<1>2. ASSUME NEW kinds \in SUBSET Kind, NEW offers \in SUBSET BOOLEAN, c \in Of(kinds, offers)
      PROVE  /\ d \in Diagnosis /\ d.about = r
             /\ d.kind \in kinds /\ d.proposed_precondition \in offers
  BY <1>1, <1>2 DEF Diagnosis
<1>3. CASE artifact
  <2>1. c \in Of({"harness_issue"}, {FALSE})
    BY <1>1, <1>3 DEF Conclusions
  <2>2. {"harness_issue"} \in SUBSET Kind /\ {FALSE} \in SUBSET BOOLEAN
    BY DEF Kind
  <2>. HIDE DEF Of
  <2>. QED
    BY <1>2, <2>1, <2>2
<1>4. CASE ~artifact
  <2>1. c \in Of({"real_bug"}, {FALSE}) \/ c \in Of(debatable, proposals)
    BY <1>1, <1>4 DEF Conclusions
  <2>2. /\ {"real_bug"} \in SUBSET Kind /\ debatable \in SUBSET Kind
        /\ {FALSE} \in SUBSET BOOLEAN /\ proposals \in SUBSET BOOLEAN
    BY DEF Kind
  <2>3. Offline => debatable = {}
    OBVIOUS
  <2>. HIDE DEF Of, debatable, proposals
  <2>. QED
    BY <1>2, <1>4, <2>1, <2>2, <2>3
<1>. QED
  BY <1>3, <1>4

\* A report says what it was made of.
LEMMA ReportForm ==
    ASSUME context \in Context, NEW final \in VerifyResult,
           NEW diag \in Diagnosis \cup {None}, NEW accepted \in Rounds,
           NEW reachability \in Reachability \cup {None},
           NEW terminates \in BOOLEAN \cup {None}, NEW claim \in BOOLEAN,
           Report(final, diag, accepted, reachability, terminates, claim)
    PROVE  /\ report' \in AgentReport /\ stage' = "done"
           /\ report'.final = final /\ report'.diagnosis = diag
           /\ report'.accepted_preconditions = accepted /\ report'.context = context
           /\ report'.reachability = reachability /\ report'.claim = claim
           /\ report'.terminates = terminates
BY DEF Report, AgentReport

\* The more fails, the more can be shown.
LEMMA ShowableGrows ==
    ASSUME NEW w, NEW F, NEW G, F \subseteq G
    PROVE  Showable(w, F) \subseteq Showable(w, G)
BY DEF Showable

\* What fails in the program being run is a failure of the function as asked
\* about under its preconditions, and so of the function as first asked about.
LEMMA CounterexampleSeen ==
    ASSUME TypeOK, Described, Alone, NEW p \in Showable(world, Fails(world, source))
    PROVE  p \in Failing(world, Offline, source.pre) /\ p \in Failing(world, Offline, 0)
<1> DEFINE Asked(n) == world.fails[n] \cup {q \in {"inserted"} : ~Offline}
<1>1. Fails(world, source) \subseteq Asked(source.pre)
  BY DEF Fails, Alone
<1>2. world.fails[source.pre] \subseteq world.fails[0]
  <2>1. 0 \in Rounds /\ source.pre \in Rounds /\ 0 <= source.pre
    BY RoundsAssumption DEF TypeOK, Program, Rounds
  <2>. QED
    BY <2>1 DEF TypeOK, World
<1>3. Fails(world, source) \subseteq Asked(0)
  BY <1>1, <1>2
<1>. QED
  BY <1>1, <1>3, ShowableGrows DEF Failing

\* A reply that satisfies every clause of the promise is one a caller expects.
LEMMA ReplyPromised ==
    ASSUME NEW w \in World, NEW a \in Reply, NEW offline \in BOOLEAN,
           Promised(w, offline, a)
    PROVE  a \in verify_with_agent(w, offline)
BY DEF verify_with_agent

\* The reply read off a report, field by field.
LEMMA ReplyForm ==
    ASSUME NEW r \in AgentReport, NEW a, a = ReplyOf(r)
    PROVE  /\ a \in Reply
           /\ a.outcome = r.final.outcome /\ a.accepted = r.accepted_preconditions
           /\ a.verified = proves(r) /\ a.terminates = r.terminates
           /\ r.final.outcome = "counterexample" =>
                 a.property = r.final.violated_property /\ a.pre = r.final.source.pre
           /\ r.final.outcome # "counterexample" => a.property = None /\ a.pre = 0
           /\ r.diagnosis = None => a.kind = None /\ a.about = None
           /\ r.diagnosis # None => /\ a.kind = r.diagnosis.kind /\ a.kind # None
                                    /\ a.about = r.diagnosis.about.violated_property
<1> DEFINE failed == r.final.outcome = "counterexample"
           property == IF failed THEN r.final.violated_property ELSE None
           pre == IF failed THEN r.final.source.pre ELSE 0
           kind == IF r.diagnosis = None THEN None ELSE r.diagnosis.kind
           about == IF r.diagnosis = None THEN None ELSE r.diagnosis.about.violated_property
<1>1. a = [outcome |-> r.final.outcome, property |-> property, pre |-> pre,
           verified |-> proves(r), accepted |-> r.accepted_preconditions,
           kind |-> kind, about |-> about, terminates |-> r.terminates]
  BY DEF ReplyOf
<1>2. /\ r.final \in VerifyResult /\ r.diagnosis \in Diagnosis \cup {None}
      /\ r.accepted_preconditions \in Rounds /\ r.terminates \in BOOLEAN \cup {None}
  BY DEF AgentReport
<1>3. /\ r.final.outcome \in Outcome /\ r.final.violated_property \in Property \cup {None}
      /\ r.final.source.pre \in Rounds
  BY <1>2 DEF VerifyResult, Program
<1>4. r.diagnosis # None =>
         /\ r.diagnosis.kind \in Kind /\ r.diagnosis.kind # None
         /\ r.diagnosis.about.violated_property \in Property \cup {None}
  BY <1>2, KindAssumption DEF Diagnosis, VerifyResult
<1>5. 0 \in Rounds
  BY RoundsAssumption DEF Rounds
<1>6. property \in Property \cup {None} /\ pre \in Rounds
  BY <1>3, <1>5
<1>7. kind \in Kind \cup {None} /\ about \in Property \cup {None}
  BY <1>4
<1>8. proves(r) \in BOOLEAN
  BY DEF proves
<1>9. a \in Reply
  <2>. HIDE DEF property, pre, kind, about
  <2>. QED
    BY <1>1, <1>2, <1>3, <1>6, <1>7, <1>8 DEF Reply
<1>. QED
  BY <1>1, <1>4, <1>9

\* A report that makes no claim keeps the promise.
LEMMA NoClaimPromised ==
    ASSUME NEW w \in World, NEW r \in AgentReport, r.diagnosis = None,
           r.accepted_preconditions = 0, r.reachability = None, r.terminates = None,
           Offline => r.final.outcome # "counterexample"
    PROVE  ReplyOf(r) \in verify_with_agent(w, Offline)
<1> DEFINE a == ReplyOf(r)
<1>1. /\ a \in Reply /\ a.outcome = r.final.outcome /\ a.accepted = 0
      /\ a.verified = proves(r) /\ a.terminates = None
      /\ a.kind = None /\ a.about = None
      /\ a.outcome # "counterexample" => a.property = None /\ a.pre = 0
  BY ReplyForm
<1>2. ~proves(r)
  BY NoneAssumption DEF proves, Reachability
<1>. HIDE DEF a
<1>3. Promised(w, Offline, a)
  BY <1>1, <1>2 DEF Promised, Unaided
<1>4. a \in verify_with_agent(w, Offline)
  BY <1>1, <1>3, ReplyPromised, OfflineAssumption
<1>. QED
  BY <1>4 DEF a

\* A report keeps the promise when what it claims is true.
LEMMA ClaimPromised ==
    ASSUME NEW w \in World, NEW r \in AgentReport,
           r.diagnosis # None =>
              r.diagnosis.about.violated_property \in Failing(w, Offline, 0),
           proves(r) => /\ w.ends[r.accepted_preconditions]
                        /\ ~HarnessLoops => "bug" \notin w.fails[r.accepted_preconditions],
           r.final.outcome = "counterexample" =>
              /\ r.diagnosis \in Diagnosis /\ r.diagnosis.about = r.final
              /\ r.final.violated_property \in Failing(w, Offline, r.final.source.pre)
              /\ mechanical_artifact(w, r.final.violated_property) =>
                    r.diagnosis.kind = "harness_issue",
           r.accepted_preconditions > 0 => r.final.outcome = "verified",
           r.terminates # None => proves(r),
           Offline => /\ r.accepted_preconditions = 0
                      /\ r.final.outcome = "counterexample" => r.final.source.pre = 0
    PROVE  ReplyOf(r) \in verify_with_agent(w, Offline)
<1> DEFINE a == ReplyOf(r)
<1>1. /\ a \in Reply
      /\ a.outcome = r.final.outcome /\ a.accepted = r.accepted_preconditions
      /\ a.verified = proves(r) /\ a.terminates = r.terminates
      /\ r.final.outcome = "counterexample" =>
            a.property = r.final.violated_property /\ a.pre = r.final.source.pre
      /\ r.final.outcome # "counterexample" => a.property = None /\ a.pre = 0
      /\ r.diagnosis = None => a.kind = None /\ a.about = None
      /\ r.diagnosis # None => /\ a.kind = r.diagnosis.kind /\ a.kind # None
                               /\ a.about = r.diagnosis.about.violated_property
  BY ReplyForm
<1>. HIDE DEF a
<1>2. a.verified => ProofHolds(w, a)
  BY <1>1 DEF ProofHolds, proves
<1>3. a.outcome = "counterexample" => CounterexampleHolds(w, Offline, a) /\ a.kind # None
  BY <1>1, DiagnosisAssumption DEF CounterexampleHolds
<1>4. Offline => Unaided(a)
  BY <1>1, <1>3 DEF Unaided
<1>5. Promised(w, Offline, a)
  BY <1>1, <1>2, <1>3, <1>4 DEF Promised
<1>6. a \in verify_with_agent(w, Offline)
  BY <1>1, <1>5, ReplyPromised, OfflineAssumption
<1>. QED
  BY <1>6 DEF a

-----------------------------------------------------------------------------
(* The steps that end in a report. *)

\* A report that makes no claim keeps every promise.
LEMMA InconclusiveStep ==
    ASSUME IInv, inconclusive, attempts > 0,
           Offline => last.outcome # "counterexample"
    PROVE  IInv'
<1>. USE DEF IInv
<1>1. last \in VerifyResult
  BY DEF Counted
<1>2. /\ report' \in AgentReport /\ stage' = "done"
      /\ report'.reachability = None /\ report'.claim = FALSE
      /\ report'.final = last /\ report'.diagnosis = None
      /\ report'.accepted_preconditions = 0 /\ report'.terminates = None
  <2>1. 0 \in Rounds
    BY RoundsAssumption DEF Rounds
  <2>. QED
    BY <1>1, <2>1, ReportForm DEF inconclusive, TypeOK
<1>3. UNCHANGED <<world, source, config, context, preconditions, unwind_idx, timeout_idx,
                  looked_past_artifact, attempts, last, result, diagnosis>>
  BY DEF inconclusive, Unmoved, ladder, checked
<1>4. TypeOK'
  BY <1>2, <1>3 DEF TypeOK, Stage
<1>5. Described'
  BY <1>3 DEF Described, NamedHarness
<1>6. Counted' /\ Judged' /\ Diagnosed' /\ Seen' /\ Alone'
  BY <1>2, <1>3 DEF Counted, Judged, Diagnosed, Seen, Alone, Open
<1>7. Reported'
  <2>1. ~verified'
    BY <1>2, NoneAssumption DEF verified, proves, Reachability
  <2>2. ReplyOf(report') \in verify_with_agent(world, Offline)
    BY <1>2, NoClaimPromised DEF TypeOK
  <2>3. KeepsPromise'
    BY <1>3, <2>2 DEF KeepsPromise, ReplyOf, proves
  <2>. QED
    BY <1>2, <2>1, <2>3 DEF Reported, GenuineProof, ClaimDescribesProgram, HonestCounterexample
<1>. QED
  BY <1>4, <1>5, <1>6, <1>7

\* A report that claims something keeps the promises when what it says of the
\* program last run is true.
LEMMA ClaimStep ==
    ASSUME IInv, result \in VerifyResult, result.source = source,
           NEW accepted \in Rounds,
           NEW reachability \in Reachability \cup {None},
           NEW terminates \in BOOLEAN \cup {None},
           Report(result, diagnosis, accepted, reachability, terminates, TRUE),
           UNCHANGED <<checked, result, diagnosis>>, Unmoved,
           result.outcome = "verified" /\ reachability = "reachable" =>
              /\ accepted = preconditions
              /\ ~HarnessLoops => "bug" \notin Fails(world, source)
              /\ Ends(world, source),
           result.outcome = "counterexample" =>
              /\ Counterexample(result)
              /\ diagnosis \in Diagnosis /\ diagnosis.about = result
              /\ mechanical_artifact(world, result.violated_property) =>
                    diagnosis.kind = "harness_issue" /\ looked_past_artifact,
           accepted > 0 => result.outcome = "verified",
           Offline => accepted = 0,
           terminates # None => result.outcome = "verified" /\ reachability = "reachable",
           attempts > 0
    PROVE  IInv'
<1>. USE DEF IInv
<1>1. /\ report' \in AgentReport /\ stage' = "done"
      /\ report'.final = result /\ report'.diagnosis = diagnosis
      /\ report'.accepted_preconditions = accepted /\ report'.context = context
      /\ report'.reachability = reachability /\ report'.terminates = terminates
  BY ReportForm DEF TypeOK
<1>2. UNCHANGED <<world, source, config, context, preconditions, unwind_idx, timeout_idx,
                  looked_past_artifact, attempts, last, result, diagnosis>>
  BY DEF Unmoved, ladder, checked
<1>3. TypeOK'
  BY <1>1, <1>2 DEF TypeOK, Stage
<1>4. Described'
  BY <1>2 DEF Described, NamedHarness
<1>5. Counted' /\ Judged' /\ Diagnosed' /\ Seen' /\ Alone'
  BY <1>1, <1>2 DEF Counted, Judged, Diagnosed, Seen, Alone, Open
<1>6. verified' => /\ accepted = preconditions
                   /\ ~HarnessLoops => "bug" \notin Fails(world, source)
                   /\ Ends(world, source)
  BY <1>1 DEF verified, proves
<1>7. ~HarnessLoops => GenuineProof'
  <2>1. "bug" \notin Fails(world, source) => "bug" \notin world.fails[preconditions]
    BY DEF Described, Fails
  <2>2. Ends(world, source) => world.ends[preconditions]
    BY DEF Described, Ends
  <2>. QED
    BY <1>1, <1>2, <1>6, <2>1, <2>2 DEF GenuineProof
<1>8. ClaimDescribesProgram'
  <2>1. /\ NamedHarness(context) = source /\ context.assumptions = source.pre
        /\ source.inserted # "none" => context.llm_invariants
        /\ preconditions = source.pre
    BY DEF Described
  <2>2. NamedHarness(report.context)' = NamedHarness(context)
    BY <1>1 DEF NamedHarness
  <2>. QED
    BY <1>1, <1>6, <2>1, <2>2 DEF ClaimDescribesProgram
<1>9. HonestCounterexample'
  <2>. SUFFICES ASSUME result.outcome = "counterexample" PROVE HonestCounterexample'
    BY <1>1 DEF HonestCounterexample
  <2>1. Fails(world', report'.final.source) = Fails(world, source)
    BY <1>1, <1>2
  <2>2. mechanical_artifact(world', report'.final.violated_property)
          = mechanical_artifact(world, result.violated_property)
    BY <1>1, <1>2
  <2>. QED
    BY <1>1, <1>2, <2>1, <2>2 DEF HonestCounterexample, Counterexample
<1>10. KeepsPromise'
  <2>1. proves(report') => /\ world.ends[accepted]
                           /\ ~HarnessLoops => "bug" \notin world.fails[accepted]
    <3>1. proves(report') => verified'
      BY <1>1 DEF verified, proves, done
    <3>2. Ends(world, source) => world.ends[preconditions]
      BY DEF Described, Ends
    <3>3. "bug" \notin Fails(world, source) => "bug" \notin world.fails[preconditions]
      BY DEF Described, Fails
    <3>. QED
      BY <1>6, <3>1, <3>2, <3>3
  <2>2. result.outcome = "counterexample" =>
          result.violated_property \in Failing(world, Offline, source.pre)
    BY CounterexampleSeen DEF Counterexample
  <2>3. Offline => source.pre = 0
    BY DEF Alone, Described
  <2>4. proves(report') = (result.outcome = "verified" /\ reachability = "reachable")
    BY <1>1 DEF proves
  <2>5. diagnosis # None => diagnosis.about.violated_property \in Failing(world, Offline, 0)
    BY DEF Seen
  <2>6. world \in World
    BY DEF TypeOK
  <2>7. ReplyOf(report') \in verify_with_agent(world, Offline)
    BY <1>1, <2>1, <2>2, <2>3, <2>4, <2>5, <2>6, ClaimPromised
  <2>. QED
    BY <1>2, <2>7 DEF KeepsPromise, ReplyOf, proves
<1>. QED
  BY <1>3, <1>4, <1>5, <1>7, <1>8, <1>9, <1>10 DEF Reported

-----------------------------------------------------------------------------
(* Looking past an artifact. *)

\* What a run asking for every property says of what is behind the artifact.
LEMMA WiderIsSound ==
    ASSUME IInv, NEW w \in wider
    PROVE  /\ w \in VerifyResult /\ w.source = source
           /\ w.outcome = "counterexample" =>
                 /\ w.properties \subseteq Fails(world, source) \cup Unwinding
                 /\ w.properties \cap Unwinding = {} => w.properties = Fails(world, source)
                 /\ \E q \in w.properties : ~is_unwinding_assertion(q)
<1> DEFINE Wide == [config EXCEPT !.multi_property = TRUE]
<1>1. Wide \in VerifyConfig /\ Wide.multi_property
  BY WidenedConfig DEF IInv, TypeOK
<1>2. w \in run(world, source, Wide)
  BY DEF wider
<1>3. world \in World /\ source \in Program
  BY DEF IInv, TypeOK
<1>. HIDE DEF Wide
<1>4. /\ w \in VerifyResult /\ w.source = source
      /\ w.outcome = "counterexample" =>
            /\ w.properties \in Violated(Fails(world, source), Wide)
            /\ w.violated_property \in w.properties
            /\ w.violated_property \in Fails(world, source)
  BY <1>1, <1>2, <1>3, RunIsSound
<1>5. w.outcome = "counterexample" => ~is_unwinding_assertion(w.violated_property)
  BY <1>3, <1>4, FailuresAreGenuine
<1>. QED
  BY <1>1, <1>4, <1>5, ViolatedForm

\* When every failure is the harness's, the code under test is not among them:
\* the unwinding assertion of a loop of the code, which could hide it, is nobody's
\* artifact.  One of a loop of the harness is, so there must be none.
LEMMA OnlyArtifactsLeft ==
    ASSUME IInv, NEW w \in wider, w.outcome = "counterexample",
           real_failures(world, w) = {}, ~HarnessLoops
    PROVE  "bug" \notin Fails(world, source)
<1>1. "unwinding" \notin w.properties /\ "bug" \notin w.properties
  BY DEF real_failures, mechanical_artifact
<1>2. Unwinding = {"unwinding"}
  BY DEF Unwinding
<1>. QED
  BY <1>1, <1>2, WiderIsSound

\* When an exhausted bound leads what is left, what made the wider look a
\* counterexample is among the harness's own failures.
LEMMA OnlyBoundsLeft ==
    ASSUME IInv, NEW w \in wider, w.outcome = "counterexample",
           NEW p \in violated_property(real_failures(world, w)),
           real_failures(world, w) # {}
    PROVE  p \in w.properties /\ p \in Showable(world, Fails(world, source))
<1>1. /\ p \in real_failures(world, w)
      /\ is_unwinding_assertion(p) =>
            \A q \in real_failures(world, w) : is_unwinding_assertion(q)
  BY LeadingProperty
<1>2. /\ p \in w.properties
      /\ w.properties \subseteq Fails(world, source) \cup Unwinding
      /\ \E q \in w.properties : ~is_unwinding_assertion(q)
  BY <1>1, WiderIsSound DEF real_failures
<1>3. CASE is_unwinding_assertion(p)
  <2>1. PICK q \in w.properties : ~is_unwinding_assertion(q)
    BY <1>2
  <2>2. q \in Fails(world, source) /\ mechanical_artifact(world, q)
    BY <1>1, <1>2, <1>3, <2>1, UnwindingRecognised DEF real_failures
  <2>. QED
    BY <1>2, <2>2 DEF Showable
<1>4. CASE ~is_unwinding_assertion(p)
  BY <1>2, <1>4, UnwindingRecognised DEF Showable
<1>. QED
  BY <1>2, <1>3, <1>4

\* The results the loop goes on with after the wider look.
Narrowed(w, S, p) == [w EXCEPT !.properties = S, !.violated_property = p]

LEMMA NarrowedToReal ==
    ASSUME NEW w \in VerifyResult, NEW S \in SUBSET Property, NEW p \in Property
    PROVE  /\ Narrowed(w, S, p) \in VerifyResult
           /\ Narrowed(w, S, p).source = w.source
           /\ Narrowed(w, S, p).outcome = w.outcome
           /\ Narrowed(w, S, p).violated_property = p
BY DEF VerifyResult, Narrowed

Verified(w) == [w EXCEPT !.outcome = "verified", !.properties = {},
                         !.violated_property = None]

LEMMA NarrowedToNothing ==
    ASSUME NEW w \in VerifyResult
    PROVE  /\ Verified(w) \in VerifyResult /\ Verified(w).source = w.source
           /\ Verified(w).outcome = "verified"
<1>1. "verified" \in Outcome /\ {} \in SUBSET Property
  BY DEF Outcome
<1>. QED
  BY <1>1 DEF VerifyResult, Verified

-----------------------------------------------------------------------------
(* The inductive invariant holds. *)

LEMMA InvariantInitially == Init => IInv
<1>. SUFFICES ASSUME Init PROVE IInv
  OBVIOUS
<1>1. Unassumed \in Program /\ 0 \in Rounds
  BY RoundsAssumption DEF Unassumed, Program, Rounds
<1>2. TypeOK
  <2>1. context \in Context
    BY <1>1 DEF Init, Context
  <2>2. world \in World /\ config \in VerifyConfig
    BY WorldsAssumption, BaseConfigsAssumption DEF Init
  <2>3. /\ stage \in Stage /\ source \in Program /\ preconditions \in Rounds
        /\ looked_past_artifact \in BOOLEAN
        /\ last = None /\ result = None /\ diagnosis = None /\ report = None
    BY <1>1 DEF Init, Stage
  <2>4. unwind_idx \in 0 .. UnwindEscalations /\ timeout_idx \in 0 .. TimeoutEscalations
    BY DEF Init, UnwindEscalations, TimeoutEscalations
  <2>5. attempts \in Nat
    BY DEF Init
  <2>. QED
    BY <2>1, <2>2, <2>3, <2>4, <2>5 DEF TypeOK
<1>3. Described
  BY <1>1 DEF Init, Described, NamedHarness, Unassumed
<1>4. Counted /\ Judged /\ Diagnosed /\ Seen /\ Alone
  BY AttemptsAssumption DEF Init, Counted, Judged, Diagnosed, Seen, Alone, Unassumed
<1>5. Reported
  BY DEF Init, Reported, GenuineProof, ClaimDescribesProgram, HonestCounterexample,
         KeepsPromise, verified, proves, done
<1>. QED
  BY <1>2, <1>3, <1>4, <1>5 DEF IInv

\* A step that does not end the loop has no report to answer for.
LEMMA StillWorking ==
    ASSUME stage' # "done"
    PROVE  Reported'
BY DEF Reported, GenuineProof, ClaimDescribesProgram, HonestCounterexample,
   KeepsPromise, verified, proves, done

\* A step that leaves the program, its context and the budget's ladders alone.
LEMMA UnmovedStep ==
    ASSUME IInv, Unmoved, stage' \in Stage \ {"done"},
           attempts' \in Nat, last' \in VerifyResult \cup {None},
           result' \in VerifyResult \cup {None}, diagnosis' \in Diagnosis \cup {None},
           UNCHANGED report
    PROVE  TypeOK' /\ Described' /\ Reported'
<1>1. UNCHANGED <<world, source, config, context, preconditions, unwind_idx, timeout_idx,
                  looked_past_artifact>>
  BY DEF Unmoved, ladder
<1>2. TypeOK'
  BY <1>1 DEF IInv, TypeOK
<1>3. Described'
  BY <1>1 DEF IInv, Described, NamedHarness
<1>. QED
  BY <1>2, <1>3, StillWorking

LEMMA RunCheckerStep == IInv /\ RunChecker => IInv'
<1>. SUFFICES ASSUME IInv, RunChecker PROVE IInv'
  OBVIOUS
<1>1. PICK r \in run(world, source, config) :
        result' = r /\ last' = r /\ stage' = Handler[r.outcome]
  BY DEF RunChecker
<1>2. /\ attempts' = attempts + 1 /\ attempts' \in Nat /\ attempts < MaxAttempts
      /\ attempts \in Nat
  BY AttemptsAssumption DEF RunChecker, Recorded, OutOfAttempts, IInv, TypeOK
<1>3. /\ r \in VerifyResult /\ r.source = source
      /\ r.outcome = "verified" => Fails(world, source) = {}
      /\ r.outcome = "counterexample" => r.violated_property \in Fails(world, source)
  BY RunIsSound DEF IInv, TypeOK
<1>4. /\ stage' \in {"verified", "triage", "tool_error", "timeout", "escalate", "parse_error"}
      /\ stage' = "verified" => r.outcome = "verified"
      /\ stage' = "triage" => r.outcome = "counterexample"
      /\ stage' \in Open => r.outcome # "counterexample"
  BY <1>1, <1>3, EveryOutcomeHandled DEF VerifyResult
<1>5. UNCHANGED <<diagnosis, report, world, source, looked_past_artifact>> /\ Unmoved
  BY DEF RunChecker, Unmoved
<1>6. TypeOK' /\ Described' /\ Reported'
  BY <1>1, <1>2, <1>3, <1>4, <1>5, UnmovedStep DEF IInv, TypeOK, Stage
<1>7. Counted'
  BY <1>1, <1>2, <1>3, <1>4, AttemptsAssumption DEF Counted
<1>8. Judged'
  <2>1. r.outcome = "counterexample" =>
          /\ r.violated_property \in Showable(world, Fails(world, source))
          /\ ~is_unwinding_assertion(r.violated_property)
    BY <1>3, FailuresAreGenuine DEF Showable, IInv, TypeOK
  <2>. QED
    BY <1>1, <1>3, <1>4, <1>5, <2>1 DEF Judged, Counterexample
<1>9. Diagnosed'
  BY <1>4 DEF Diagnosed
<1>10. Seen' /\ Alone'
  BY <1>1, <1>4, <1>5 DEF IInv, Seen, Alone, Unmoved
<1>. QED
  BY <1>6, <1>7, <1>8, <1>9, <1>10 DEF IInv

LEMMA RaiseStep == IInv /\ Raise => IInv'
<1>. SUFFICES ASSUME IInv, Raise PROVE IInv'
  OBVIOUS
<1>1. /\ UNCHANGED <<attempts, last, result, diagnosis, report, world, source>>
      /\ Unmoved /\ stage' = "raised"
  BY DEF Raise, Unmoved, checked
<1>2. TypeOK' /\ Described' /\ Reported'
  BY <1>1, UnmovedStep DEF IInv, TypeOK, Stage
<1>3. Counted' /\ Judged' /\ Diagnosed' /\ Seen' /\ Alone'
  BY <1>1 DEF IInv, Counted, Judged, Diagnosed, Seen, Alone, Open, Unmoved
<1>. QED
  BY <1>2, <1>3 DEF IInv

LEMMA TriageStep == IInv /\ Triage => IInv'
<1>. SUFFICES ASSUME IInv, Triage PROVE IInv'
  OBVIOUS
<1>1. /\ diagnosis' \in triage_counterexample(result)
      /\ stage' = IF LooksPast(diagnosis') THEN "look_past" ELSE "settle"
  BY DEF Triage
<1>2. /\ stage = "triage" /\ Unmoved
      /\ UNCHANGED <<attempts, last, result, report, world, source, looked_past_artifact>>
  BY DEF Triage, Unmoved, checked
<1>3. result \in VerifyResult /\ result.source = source /\ Counterexample(result)
  BY <1>2 DEF IInv, Judged
<1>4. /\ diagnosis' \in Diagnosis /\ diagnosis'.about = result
      /\ mechanical_artifact(world, result.violated_property) =>
            diagnosis'.kind = "harness_issue" /\ ~diagnosis'.proposed_precondition
      /\ Offline => ~diagnosis'.proposed_precondition
  BY <1>1, <1>3, TriageForm DEF IInv
<1>5. stage' \in {"look_past", "settle"}
  BY <1>1
<1>6. TypeOK' /\ Described' /\ Reported'
  BY <1>1, <1>2, <1>4, <1>5, UnmovedStep DEF IInv, TypeOK, Stage
<1>7. Counted'
  BY <1>2, <1>5 DEF IInv, Counted
<1>8. Judged'
  BY <1>2, <1>3, <1>5 DEF Judged, Counterexample
<1>9. Diagnosed'
  <2>1. /\ stage' = "look_past" => ~looked_past_artifact
        /\ stage' = "settle" /\ diagnosis'.kind = "harness_issue" => looked_past_artifact
    BY <1>1 DEF LooksPast
  <2>2. mechanical_artifact(world', result'.violated_property)
          = mechanical_artifact(world, result.violated_property)
    BY <1>2
  <2>. QED
    BY <1>1, <1>2, <1>4, <1>5, <2>1, <2>2 DEF Diagnosed
<1>10. Seen'
  <2>1. result.violated_property \in Failing(world, Offline, 0)
    BY <1>3, CounterexampleSeen DEF IInv, Counterexample
  <2>. QED
    BY <1>2, <1>4, <2>1 DEF Seen
<1>11. Alone'
  BY <1>2, <1>4, <1>5 DEF IInv, Alone, Open, Unmoved
<1>. QED
  BY <1>6, <1>7, <1>8, <1>9, <1>10, <1>11 DEF IInv

\* What the three outcomes of the wider look have in common.
LEMMA LookStep ==
    ASSUME IInv, NEW w, Look(w), stage' \in Stage \ (Open \cup {"done"}),
           attempts' \in Nat, last' \in VerifyResult, result' \in VerifyResult
    PROVE  /\ TypeOK' /\ Described' /\ Reported' /\ Seen' /\ Alone'
           /\ UNCHANGED <<world, source, diagnosis>> /\ looked_past_artifact' = TRUE
           /\ attempts \in Nat /\ attempts <= MaxAttempts
           /\ result.source = source /\ Counterexample(result)
           /\ diagnosis \in Diagnosis /\ diagnosis.about = result
           /\ mechanical_artifact(world, result.violated_property) =>
                 diagnosis.kind = "harness_issue" /\ ~diagnosis.proposed_precondition
<1>1. /\ UNCHANGED <<world, source, config, context, preconditions, unwind_idx, timeout_idx,
                     diagnosis, report>>
      /\ looked_past_artifact' = TRUE /\ stage = "look_past"
  BY DEF Look, ladder
<1>2. TypeOK'
  BY <1>1 DEF IInv, TypeOK
<1>3. Described'
  BY <1>1 DEF IInv, Described, NamedHarness
<1>4. attempts \in Nat /\ attempts <= MaxAttempts
  BY <1>1 DEF IInv, TypeOK, Counted, Diagnosed
<1>5. result.source = source /\ Counterexample(result)
  BY <1>1 DEF IInv, Judged
<1>6. /\ diagnosis \in Diagnosis /\ diagnosis.about = result
      /\ mechanical_artifact(world, result.violated_property) =>
            diagnosis.kind = "harness_issue" /\ ~diagnosis.proposed_precondition
  BY <1>1 DEF IInv, Diagnosed
<1>7. Seen'
  BY <1>1 DEF IInv, Seen
<1>8. Alone'
  BY <1>1 DEF IInv, Alone
<1>. QED
  BY <1>1, <1>2, <1>3, <1>4, <1>5, <1>6, <1>7, <1>8, StillWorking

LEMMA LookInVainStep == IInv /\ LookInVain => IInv'
<1>. SUFFICES ASSUME IInv, LookInVain PROVE IInv'
  OBVIOUS
<1>1. PICK w \in wider : /\ Look(w) /\ last' = w /\ attempts' = attempts + 1
                         /\ stage' = "settle" /\ UNCHANGED result
  BY DEF LookInVain, Recorded
<1>2. w \in VerifyResult
  BY WiderIsSound
<1>3. attempts' \in Nat /\ result' \in VerifyResult
  BY <1>1 DEF IInv, TypeOK, Judged, Look
<1>4. /\ TypeOK' /\ Described' /\ Reported' /\ Seen' /\ Alone'
      /\ UNCHANGED <<world, source, diagnosis>> /\ looked_past_artifact' = TRUE
      /\ attempts \in Nat /\ attempts <= MaxAttempts
      /\ result.source = source /\ Counterexample(result)
      /\ diagnosis \in Diagnosis /\ diagnosis.about = result
      /\ mechanical_artifact(world, result.violated_property) =>
            diagnosis.kind = "harness_issue" /\ ~diagnosis.proposed_precondition
  BY <1>1, <1>2, <1>3, LookStep DEF Stage, Open
<1>5. Counted'
  BY <1>1, <1>2, <1>4, AttemptsAssumption DEF Counted
<1>6. Judged'
  BY <1>1, <1>3, <1>4 DEF Judged, Counterexample
<1>7. Diagnosed'
  BY <1>1, <1>4 DEF Diagnosed, mechanical_artifact
<1>. QED
  BY <1>4, <1>5, <1>6, <1>7 DEF IInv

LEMMA FindRealFailureStep == IInv /\ FindRealFailure => IInv'
<1>. SUFFICES ASSUME IInv, FindRealFailure PROVE IInv'
  OBVIOUS
<1>1. PICK w \in wider :
        /\ Look(w) /\ w.outcome = "counterexample" /\ real_failures(world, w) # {}
        /\ last' = w /\ attempts' = attempts + 1 /\ stage' = "triage"
        /\ \E p \in violated_property(real_failures(world, w)) :
              result' = [w EXCEPT !.properties = real_failures(world, w),
                                  !.violated_property = p]
  BY DEF FindRealFailure, AfterRealFailure, Recorded
<1>2. PICK p \in violated_property(real_failures(world, w)) :
        result' = [w EXCEPT !.properties = real_failures(world, w),
                            !.violated_property = p]
  BY <1>1
<1>3. /\ w \in VerifyResult /\ w.source = source
  BY <1>1, WiderIsSound
<1>4. /\ real_failures(world, w) \in SUBSET Property
      /\ p \in Property /\ p \in Showable(world, Fails(world, source))
  <2>1. real_failures(world, w) \subseteq w.properties
    BY DEF real_failures
  <2>2. w.properties \subseteq Property
    BY <1>3 DEF VerifyResult
  <2>. QED
    BY <1>1, <1>2, <2>1, <2>2, OnlyBoundsLeft
<1>5. /\ result' \in VerifyResult /\ result'.source = source
      /\ result'.outcome = "counterexample" /\ result'.violated_property = p
  <2>1. result' = Narrowed(w, real_failures(world, w), p)
    BY <1>2 DEF Narrowed
  <2>2. w.outcome = "counterexample"
    BY <1>1
  <2>3. real_failures(world, w) \in SUBSET Property /\ p \in Property
    BY <1>4
  <2>. QED
    BY <1>3, <2>1, <2>2, <2>3, NarrowedToReal
<1>6. attempts' \in Nat
  BY <1>1 DEF IInv, TypeOK
<1>7. /\ TypeOK' /\ Described' /\ Reported' /\ Seen' /\ Alone'
      /\ UNCHANGED <<world, source>> /\ looked_past_artifact' = TRUE
      /\ attempts \in Nat /\ attempts <= MaxAttempts
  BY <1>1, <1>3, <1>5, <1>6, LookStep DEF Stage, Open
<1>8. Counted'
  BY <1>1, <1>3, <1>7, AttemptsAssumption DEF Counted
<1>9. Judged'
  BY <1>1, <1>4, <1>5, <1>7 DEF Judged, Counterexample
<1>10. Diagnosed'
  BY <1>1 DEF Diagnosed
<1>. QED
  BY <1>7, <1>8, <1>9, <1>10 DEF IInv

LEMMA FindOnlyArtifactsStep == IInv /\ FindOnlyArtifacts => IInv'
<1>. SUFFICES ASSUME IInv, FindOnlyArtifacts PROVE IInv'
  OBVIOUS
<1>1. PICK w \in wider :
        /\ Look(w) /\ w.outcome = "counterexample" /\ real_failures(world, w) = {}
        /\ result' = [w EXCEPT !.outcome = "verified", !.properties = {},
                               !.violated_property = None]
        /\ last' = result' /\ attempts' = attempts + 2 /\ stage' = "only_artifacts"
  BY DEF FindOnlyArtifacts, Recorded
<1>2. w \in VerifyResult /\ w.source = source
  BY WiderIsSound
<1>3. ~HarnessLoops => "bug" \notin Fails(world, source)
  BY <1>1, OnlyArtifactsLeft
<1>4. /\ result' \in VerifyResult /\ result'.source = source
      /\ result'.outcome = "verified"
  BY <1>1, <1>2, NarrowedToNothing DEF Verified
<1>5. attempts' \in Nat
  BY <1>1 DEF IInv, TypeOK
<1>6. /\ TypeOK' /\ Described' /\ Reported' /\ Seen' /\ Alone'
      /\ UNCHANGED <<world, source>> /\ attempts \in Nat /\ attempts <= MaxAttempts
  BY <1>1, <1>4, <1>5, LookStep DEF Stage, Open
<1>7. Counted'
  BY <1>1, <1>4, <1>6, AttemptsAssumption DEF Counted
<1>8. Judged'
  BY <1>1, <1>3, <1>4, <1>6 DEF Judged
<1>9. Diagnosed'
  BY <1>1 DEF Diagnosed
<1>. QED
  BY <1>6, <1>7, <1>8, <1>9 DEF IInv

\* The steps that change the program or the search and try again.
LEMMA RetryStep ==
    ASSUME IInv, stage' = "attempt", source' \in Program, config' \in VerifyConfig,
           context' \in Context, preconditions' \in Rounds,
           unwind_idx' \in 0 .. UnwindEscalations, timeout_idx' \in 0 .. TimeoutEscalations,
           UNCHANGED <<world, looked_past_artifact, checked, result, diagnosis, report>>,
           Described', Alone'
    PROVE  IInv'
<1>1. TypeOK'
  BY DEF IInv, TypeOK, Stage, checked
<1>2. Counted'
  BY DEF IInv, Counted, checked
<1>3. Judged' /\ Diagnosed' /\ Seen'
  BY DEF IInv, Judged, Diagnosed, Seen
<1>. QED
  BY <1>1, <1>2, <1>3, StillWorking DEF IInv

LEMMA RegenerateStep == IInv /\ Regenerate => IInv'
<1>. SUFFICES ASSUME IInv, Regenerate PROVE IInv'
  OBVIOUS
<1>1. /\ preconditions' = preconditions + 1 /\ preconditions < MaxRounds
      /\ source' = [pre |-> preconditions', inserted |-> "none", rewritten |-> FALSE]
      /\ context' = [context EXCEPT !.assumptions = source'.pre, !.harness = source']
      /\ unwind_idx' = 0 /\ stage' = "attempt"
      /\ UNCHANGED <<world, config, timeout_idx, looked_past_artifact, checked, result,
                     diagnosis, report>>
  BY DEF Regenerate, MayRefine, ContextOf
<1>2. TypeOK
  BY DEF IInv
<1>3. preconditions' \in Rounds
  BY <1>1, <1>2, RoundsAssumption DEF TypeOK, Rounds
<1>4. source' \in Program /\ source'.pre = preconditions' /\ ~source'.rewritten
      /\ source'.inserted = "none"
  BY <1>1, <1>3 DEF Program
<1>5. /\ context' \in Context /\ context'.harness = source'
      /\ context'.assumptions = preconditions'
  BY <1>1, <1>2, <1>3, <1>4 DEF TypeOK, Context
<1>6. Described'
  BY <1>4, <1>5, NoneAssumption DEF Described, NamedHarness
<1>7. unwind_idx' \in 0 .. UnwindEscalations
  BY <1>1 DEF UnwindEscalations
<1>8. Alone'
  <2>1. ~Offline
    BY DEF IInv, Alone, Regenerate, MayRefine
  <2>. QED
    BY <2>1 DEF Alone
<1>. QED
  BY <1>8, <1>1, <1>2, <1>3, <1>4, <1>5, <1>6, <1>7, RetryStep DEF TypeOK

LEMMA EscalateTimeoutStep == IInv /\ EscalateTimeout => IInv'
<1>. SUFFICES ASSUME IInv, EscalateTimeout PROVE IInv'
  OBVIOUS
<1>1. /\ timeout_idx < TimeoutEscalations /\ timeout_idx' = timeout_idx + 1
      /\ config' = [config EXCEPT !.incremental_bmc = TRUE, !.k_induction = FALSE]
      /\ stage' = "attempt"
      /\ UNCHANGED <<world, source, context, preconditions, unwind_idx,
                     looked_past_artifact, checked, result, diagnosis, report>>
  BY DEF EscalateTimeout
<1>2. TypeOK /\ Described
  BY DEF IInv
<1>3. config' \in VerifyConfig
  BY <1>1, <1>2, WidenedConfig DEF TypeOK
<1>4. Described'
  BY <1>1, <1>2 DEF Described, NamedHarness
<1>5. timeout_idx' \in 0 .. TimeoutEscalations
  BY <1>1, <1>2 DEF TypeOK, TimeoutEscalations
<1>6. Alone'
  BY <1>1 DEF IInv, Alone, Open, checked, EscalateTimeout
<1>. QED
  BY <1>1, <1>2, <1>3, <1>4, <1>5, <1>6, RetryStep DEF TypeOK

LEMMA EscalateUnwindStep == IInv /\ EscalateUnwind => IInv'
<1>. SUFFICES ASSUME IInv, EscalateUnwind PROVE IInv'
  OBVIOUS
<1>1. /\ unwind_idx < UnwindEscalations /\ unwind_idx' = unwind_idx + 1
      /\ config' = Escalated /\ stage' = "attempt"
      /\ UNCHANGED <<world, source, context, preconditions, timeout_idx,
                     looked_past_artifact, checked, result, diagnosis, report>>
  BY DEF EscalateUnwind, RungLeft
<1>2. TypeOK /\ Described
  BY DEF IInv
<1>3. config' \in VerifyConfig
  BY <1>1, <1>2, WidenedConfig DEF TypeOK, Escalated
<1>4. Described'
  BY <1>1, <1>2 DEF Described, NamedHarness
<1>5. unwind_idx' \in 0 .. UnwindEscalations
  BY <1>1, <1>2 DEF TypeOK, UnwindEscalations
<1>6. Alone'
  BY <1>1 DEF IInv, Alone, Open, checked, EscalateUnwind
<1>. QED
  BY <1>1, <1>2, <1>3, <1>4, <1>5, <1>6, RetryStep DEF TypeOK

LEMMA TakeInvariantsStep == IInv /\ TakeInvariants => IInv'
<1>. SUFFICES ASSUME IInv, TakeInvariants PROVE IInv'
  OBVIOUS
<1>1. PICK p \in Proposal :
        /\ ~p.rewritten /\ source' = p
        /\ context' = [context EXCEPT !.llm_invariants = TRUE, !.harness = p]
  BY DEF TakeInvariants, not_just_assertions
<1>2. /\ config' = [config EXCEPT !.k_induction = TRUE] /\ stage' = "attempt"
      /\ UNCHANGED <<world, preconditions, unwind_idx, timeout_idx,
                     looked_past_artifact, checked, result, diagnosis, report>>
  BY DEF TakeInvariants, ladder
<1>3. TypeOK /\ Described
  BY DEF IInv
<1>4. config' \in VerifyConfig
  BY <1>2, <1>3, WidenedConfig DEF TypeOK
<1>5. p \in Program /\ p.pre = source.pre
  BY DEF Proposal
<1>6. /\ context' \in Context /\ context'.harness = p /\ context'.llm_invariants
      /\ context'.assumptions = context.assumptions
  BY <1>1, <1>3, <1>5 DEF TypeOK, Context
<1>7. Described'
  BY <1>1, <1>2, <1>3, <1>5, <1>6, NoneAssumption DEF Described, NamedHarness
<1>8. Alone'
  BY DEF TakeInvariants, Alone
<1>. QED
  BY <1>8, <1>1, <1>2, <1>3, <1>4, <1>5, <1>6, <1>7, RetryStep DEF TypeOK

LEMMA ReportVerifiedStep == IInv /\ ReportVerified => IInv'
<1>. SUFFICES ASSUME IInv, ReportVerified PROVE IInv'
  OBVIOUS
<1>1. PICK reachability \in probe_reachability(world, source, config) :
        \E t \in Termination(reachability) :
          Report(result, diagnosis, preconditions, reachability, t, TRUE)
  BY DEF ReportVerified, AcceptedPreconditions
<1>2. PICK t \in Termination(reachability) :
        Report(result, diagnosis, preconditions, reachability, t, TRUE)
  BY <1>1
<1>3. stage = "verified" /\ UNCHANGED <<checked, result, diagnosis>> /\ Unmoved
  BY DEF ReportVerified
<1>4. TypeOK /\ Described /\ Counted /\ Judged
  BY DEF IInv
<1>5. /\ result \in VerifyResult /\ result.source = source
      /\ result.outcome = "verified" /\ "bug" \notin Fails(world, source)
  BY <1>3, <1>4 DEF Judged
<1>6. /\ reachability \in Reachability
      /\ reachability = "reachable" => Ends(world, source)
  BY <1>4, ProbeIsSound DEF TypeOK
<1>7. t \in BOOLEAN \cup {None} /\ preconditions \in Rounds /\ attempts > 0
  BY <1>3, <1>4 DEF Termination, TypeOK, Counted
<1>8. t # None => reachability = "reachable"
  BY DEF Termination
<1>9. Offline => preconditions = 0
  BY DEF IInv, Alone
<1>. QED
  BY <1>2, <1>3, <1>5, <1>6, <1>7, <1>8, <1>9, ClaimStep

LEMMA ReportOnlyArtifactsStep == IInv /\ ReportOnlyArtifacts => IInv'
<1>. SUFFICES ASSUME IInv, ReportOnlyArtifacts PROVE IInv'
  OBVIOUS
<1>1. PICK reachability \in probe_reachability(world, source, config) :
        Report(result, diagnosis, preconditions, reachability, None, TRUE)
  BY DEF ReportOnlyArtifacts, AcceptedPreconditions
<1>2. stage = "only_artifacts" /\ UNCHANGED <<checked, result, diagnosis>> /\ Unmoved
  BY DEF ReportOnlyArtifacts
<1>3. TypeOK /\ Described /\ Counted /\ Judged
  BY DEF IInv
<1>4. /\ result \in VerifyResult /\ result.source = source
      /\ result.outcome = "verified"
      /\ ~HarnessLoops => "bug" \notin Fails(world, source)
  BY <1>2, <1>3 DEF Judged
<1>5. /\ reachability \in Reachability
      /\ reachability = "reachable" => Ends(world, source)
  BY <1>3, ProbeIsSound DEF TypeOK
<1>6. preconditions \in Rounds /\ attempts > 0
  BY <1>2, <1>3 DEF TypeOK, Counted
<1>7. Offline => preconditions = 0
  BY DEF IInv, Alone
<1>. QED
  BY <1>7, <1>1, <1>2, <1>4, <1>5, <1>6, ClaimStep

LEMMA ReportCounterexampleStep == IInv /\ ReportCounterexample => IInv'
<1>. SUFFICES ASSUME IInv, ReportCounterexample PROVE IInv'
  OBVIOUS
<1>1. /\ stage = "settle" /\ Report(result, diagnosis, 0, None, None, TRUE)
      /\ UNCHANGED <<checked, result, diagnosis>> /\ Unmoved
  BY DEF ReportCounterexample
<1>2. Counted /\ Judged /\ Diagnosed
  BY DEF IInv
<1>3. /\ result \in VerifyResult /\ result.source = source /\ Counterexample(result)
      /\ diagnosis \in Diagnosis /\ diagnosis.about = result /\ attempts > 0
      /\ mechanical_artifact(world, result.violated_property) =>
            diagnosis.kind = "harness_issue" /\ looked_past_artifact
  BY <1>1, <1>2 DEF Judged, Diagnosed, Counted
<1>4. result.outcome = "counterexample"
  BY <1>3 DEF Counterexample
<1>5. 0 \in Rounds /\ ~(0 > 0)
  BY RoundsAssumption DEF Rounds
<1>. QED
  BY <1>1, <1>3, <1>4, <1>5, ClaimStep

\* Every step of the loop preserves the invariant.
LEMMA InvariantPreserved == IInv /\ [Next]_vars => IInv'
<1>. SUFFICES ASSUME IInv, [Next]_vars PROVE IInv'
  OBVIOUS
<1>1. CASE inconclusive /\ attempts > 0 /\ stage \in Open
  <2>1. Offline => last.outcome # "counterexample"
    BY <1>1 DEF IInv, Alone
  <2>. QED
    BY <1>1, <2>1, InconclusiveStep
<1>2. attempts \in Nat /\ Counted
  BY DEF IInv, TypeOK
<1>3. CASE AttemptBudgetExhausted \/ WallTimeExhausted
  BY <1>1, <1>2, <1>3, AttemptsAssumption
     DEF AttemptBudgetExhausted, WallTimeExhausted, OutOfAttempts, Open
<1>4. CASE ReportToolError \/ TimedOutEverywhere
  BY <1>1, <1>2, <1>4 DEF ReportToolError, TimedOutEverywhere, Counted, Open
<1>5. CASE RefuseInvariants \/ ReportParseError
  BY <1>1, <1>2, <1>5 DEF RefuseInvariants, ReportParseError, LadderExhausted, Counted, Open
<1>6. CASE ReportVerified \/ ReportOnlyArtifacts \/ ReportCounterexample
  BY <1>6, ReportVerifiedStep, ReportOnlyArtifactsStep, ReportCounterexampleStep
<1>7. CASE RunChecker \/ Raise \/ Triage
  BY <1>7, RunCheckerStep, RaiseStep, TriageStep
<1>8. CASE LookInVain \/ FindRealFailure \/ FindOnlyArtifacts
  BY <1>8, LookInVainStep, FindRealFailureStep, FindOnlyArtifactsStep
<1>9. CASE Regenerate \/ EscalateTimeout \/ EscalateUnwind \/ TakeInvariants
  BY <1>9, RegenerateStep, EscalateTimeoutStep, EscalateUnwindStep, TakeInvariantsStep
<1>10. CASE UNCHANGED vars
  <2>1. /\ TypeOK' /\ Described' /\ Counted' /\ Judged' /\ Diagnosed'
    BY <1>10 DEF IInv, vars, ladder, checked, TypeOK, Described, NamedHarness, Counted,
                 Judged, Counterexample, Diagnosed
  <2>2. Reported'
    BY <1>10 DEF IInv, vars, ladder, checked, Reported, GenuineProof,
         ClaimDescribesProgram, HonestCounterexample, KeepsPromise, ReplyOf, verified, proves, done, NamedHarness
  <2>3. Seen' /\ Alone'
    BY <1>10 DEF IInv, vars, ladder, checked, Seen, Alone
  <2>. QED
    BY <2>1, <2>2, <2>3 DEF IInv
<1>. QED
  BY <1>3, <1>4, <1>5, <1>6, <1>7, <1>8, <1>9, <1>10 DEF Next

\* The invariant the other theorems are read off.
THEOREM Invariant == Spec => []IInv
BY InvariantInitially, InvariantPreserved, PTL DEF Spec

-----------------------------------------------------------------------------
(* What follows. *)

\* The loop's variables keep their types.
THEOREM TypesCorrect == Spec => []TypeOK
<1>1. IInv => TypeOK
  BY DEF IInv
<1>. QED
  BY <1>1, Invariant, PTL

\* "verified" is never vacuous and never hides a failure of the code under
\* test, however many attempts, preconditions and inserted assertions it took,
\* when the harness has no loop longer than the bound.
THEOREM ProofsAreGenuine == ASSUME ~HarnessLoops PROVE Spec => []GenuineProof
<1>1. IInv => GenuineProof
  BY DEF IInv, Reported
<1>. QED
  BY <1>1, Invariant, PTL

\* A report that makes a claim describes the program the checker was run on.
THEOREM ClaimsDescribeTheirProgram == Spec => []ClaimDescribesProgram
<1>1. IInv => ClaimDescribesProgram
  BY DEF IInv, Reported
<1>. QED
  BY <1>1, Invariant, PTL

\* A reported counterexample fails in the program named, or is an exhausted bound
\* behind a failure of the harness's own, and is diagnosed itself.
THEOREM CounterexamplesAreHonest == Spec => []HonestCounterexample
<1>1. IInv => HonestCounterexample
  BY DEF IInv, Reported
<1>. QED
  BY <1>1, Invariant, PTL

\* Every report keeps the promise ScanPasses builds on, with an LLM or without.
THEOREM PromiseIsKept == Spec => []KeepsPromise
<1>1. IInv => KeepsPromise
  BY DEF IInv, Reported
<1>. QED
  BY <1>1, Invariant, PTL

\* The attempts overrun the budget by at most the one look past an artifact.
THEOREM AttemptsAreBounded == Spec => []AttemptsBounded
<1>1. IInv => AttemptsBounded
  BY DEF IInv, Counted, AttemptsBounded
<1>. QED
  BY <1>1, Invariant, PTL

\* A precondition answers a counterexample of the program without it, diagnosed
\* itself and not the harness's own.
THEOREM PreconditionsAnswerCounterexamples == Spec => PreconditionAnswersCounterexample
<1> DEFINE Answering ==
      preconditions' # preconditions =>
        /\ result.outcome = "counterexample" /\ result.source = source
        /\ ~mechanical_artifact(world, result.violated_property)
        /\ diagnosis.about = result
<1>1. ASSUME IInv, [Next]_vars PROVE Answering
  <2>. SUFFICES ASSUME preconditions' # preconditions PROVE Answering
    OBVIOUS
  <2>1. Regenerate
    BY <1>1 DEF Next, vars, ladder, checked, inconclusive, Unmoved, Look,
       AttemptBudgetExhausted, WallTimeExhausted, RunChecker, Raise, ReportVerified, Triage,
       LookInVain, FindRealFailure, FindOnlyArtifacts, ReportOnlyArtifacts,
       ReportCounterexample, ReportToolError, EscalateTimeout, TimedOutEverywhere,
       EscalateUnwind, RefuseInvariants, LadderExhausted, TakeInvariants, ReportParseError
  <2>2. stage = "settle" /\ diagnosis.proposed_precondition
    BY <2>1 DEF Regenerate, MayRefine
  <2>3. /\ result.source = source /\ Counterexample(result) /\ diagnosis.about = result
        /\ ~mechanical_artifact(world, result.violated_property)
    BY <1>1, <2>2 DEF IInv, Judged, Diagnosed
  <2>. QED
    BY <2>3 DEF Counterexample
<1>2. IInv /\ [Next]_vars => [Answering]_vars
  BY <1>1
<1>. QED
  BY <1>2, Invariant, PTL DEF Spec, PreconditionAnswersCounterexample

-----------------------------------------------------------------------------
(* The loop implements SoundVerdict. *)

\* While the loop runs, the question is open under the preconditions in force.
LEMMA OpenWhileWorking ==
    ASSUME stage # "done"
    PROVE  answer = "open" /\ condition = preconditions
BY DEF answer, condition, verified, proves, done

\* A step that does not end the loop leaves the question as it is, or narrows it.
LEMMA WorkingStep ==
    ASSUME IInv, stage # "done", stage' # "done", UNCHANGED world,
           \/ UNCHANGED preconditions
           \/ preconditions' = preconditions + 1 /\ preconditions < MaxRounds
    PROVE  [Promise!Next]_(Promise!vars)
<1>1. answer = "open" /\ condition = preconditions
  BY OpenWhileWorking
<1>2. answer' = "open" /\ condition' = preconditions'
  BY DEF answer, condition, verified, proves, done
<1>. QED
  BY <1>1, <1>2 DEF Promise!Next, Promise!Narrow, Promise!vars

\* A report answers the question, as it then stands, with what is true.
LEMMA AnsweringStep ==
    ASSUME ~HarnessLoops, IInv, IInv', stage # "done", stage' = "done", Unmoved,
           verified' => report'.accepted_preconditions = preconditions,
           report'.claim /\ report'.final.outcome = "counterexample" =>
              report'.final.source = source
    PROVE  [Promise!Next]_(Promise!vars)
<1>1. answer = "open" /\ condition = preconditions
  BY OpenWhileWorking
<1>2. UNCHANGED <<world, preconditions>> /\ done'
  BY DEF Unmoved, done
<1>3. condition' = preconditions
  BY <1>2 DEF condition
<1>4. CASE verified'
  <2>1. answer' = "proved"
    BY <1>2, <1>4 DEF answer
  <2>2. "bug" \notin world.fails[preconditions] /\ world.ends[preconditions]
    BY <1>2, <1>4 DEF IInv, Reported, GenuineProof
  <2>. QED
    BY <1>1, <1>2, <1>3, <2>1, <2>2 DEF Promise!Next, Promise!Prove, Promise!Answer
<1>5. CASE ~verified' /\ answer' = "refuted"
  <2>1. /\ report'.claim /\ report'.final.outcome = "counterexample"
        /\ report'.final.violated_property = "bug"
    BY <1>2, <1>5 DEF answer
  <2>2. "bug" \in Fails(world, source)
    BY <1>2, <2>1 DEF IInv, Reported, HonestCounterexample, Showable, Unwinding
  <2>3. "bug" \in world.fails[preconditions]
    BY <2>2 DEF IInv, Described, Fails
  <2>4. "bug" \in world.fails[0]
    <3>1. 0 \in Rounds /\ preconditions \in Rounds /\ 0 <= preconditions
      BY RoundsAssumption DEF IInv, TypeOK, Rounds
    <3>. QED
      BY <2>3, <3>1 DEF IInv, TypeOK, World
  <2>. QED
    BY <1>1, <1>2, <1>3, <1>5, <2>4 DEF Promise!Next, Promise!Refute, Promise!Answer
<1>6. CASE ~verified' /\ answer' # "refuted"
  <2>1. answer' = "no_claim"
    BY <1>2, <1>6 DEF answer
  <2>. QED
    BY <1>1, <1>2, <1>3, <2>1 DEF Promise!Next, Promise!MakeNoClaim, Promise!Answer
<1>. QED
  BY <1>4, <1>5, <1>6

LEMMA ImplementsInitially == IInv /\ Init => Promise!Init
<1>. SUFFICES ASSUME IInv, Init PROVE Promise!Init
  OBVIOUS
<1>1. stage # "done" /\ preconditions = 0
  BY DEF Init
<1>2. answer = "open" /\ condition = 0
  BY <1>1, OpenWhileWorking
<1>3. Promise!World = World
  BY DEF Promise!World, World, Promise!Rounds, Rounds
<1>. QED
  BY <1>2, <1>3 DEF Promise!Init, IInv, TypeOK

LEMMA ImplementsStep ==
    ASSUME ~HarnessLoops
    PROVE  IInv /\ IInv' /\ [Next]_vars => [Promise!Next]_(Promise!vars)
<1>. SUFFICES ASSUME IInv, IInv', [Next]_vars PROVE [Promise!Next]_(Promise!vars)
  OBVIOUS
<1>1. CASE inconclusive /\ stage # "done"
  <2>1. last \in VerifyResult \/ last = None
    BY DEF IInv, TypeOK
  <2>2. /\ stage' = "done" /\ Unmoved
        /\ report'.claim = FALSE /\ report'.reachability = None
    BY <1>1 DEF inconclusive, Report
  <2>3. ~verified'
    BY <2>2, NoneAssumption DEF verified, proves, Reachability
  <2>. QED
    BY <1>1, <2>2, <2>3, AnsweringStep
<1>2. CASE AttemptBudgetExhausted \/ WallTimeExhausted \/ ReportToolError \/ TimedOutEverywhere
           \/ RefuseInvariants \/ ReportParseError
  BY <1>1, <1>2 DEF AttemptBudgetExhausted, WallTimeExhausted, ReportToolError,
     TimedOutEverywhere, RefuseInvariants, LadderExhausted, ReportParseError
<1>3. CASE ReportVerified \/ ReportOnlyArtifacts
  <2>1. /\ stage # "done" /\ stage' = "done" /\ Unmoved
        /\ report'.accepted_preconditions = preconditions /\ report'.final = result
    BY <1>3 DEF ReportVerified, ReportOnlyArtifacts, Report, AcceptedPreconditions
  <2>2. result.outcome = "verified"
    BY <1>3 DEF IInv, Judged, ReportVerified, ReportOnlyArtifacts
  <2>. QED
    BY <2>1, <2>2, AnsweringStep
<1>4. CASE ReportCounterexample
  <2>1. /\ stage = "settle" /\ stage' = "done" /\ Unmoved /\ report'.final = result
    BY <1>4 DEF ReportCounterexample, Report
  <2>2. result.outcome = "counterexample" /\ result.source = source
    BY <2>1 DEF IInv, Judged, Counterexample
  <2>3. ~verified'
    BY <2>1, <2>2 DEF verified, proves
  <2>. QED
    BY <2>1, <2>2, <2>3, AnsweringStep
<1>5. CASE RunChecker
  <2>1. PICK r \in run(world, source, config) : stage' = Handler[r.outcome]
    BY <1>5 DEF RunChecker
  <2>2. r.outcome \in Outcome
    BY <2>1, RunIsSound DEF IInv, TypeOK, VerifyResult
  <2>3. stage # "done" /\ stage' # "done" /\ UNCHANGED <<world, preconditions>>
    BY <1>5, <2>1, <2>2, EveryOutcomeHandled DEF RunChecker, Unmoved
  <2>. QED
    BY <2>3, WorkingStep
<1>6. CASE Raise \/ Triage
  <2>1. stage # "done" /\ stage' # "done" /\ UNCHANGED <<world, preconditions>>
    BY <1>6 DEF Raise, Triage, LadderExhausted, Unmoved
  <2>. QED
    BY <2>1, WorkingStep
<1>7. CASE LookInVain \/ FindRealFailure \/ FindOnlyArtifacts
  <2>1. stage # "done" /\ stage' # "done" /\ UNCHANGED <<world, preconditions>>
    BY <1>7 DEF LookInVain, FindRealFailure, FindOnlyArtifacts, AfterRealFailure, Look
  <2>. QED
    BY <2>1, WorkingStep
<1>8. CASE Regenerate
  <2>1. /\ stage # "done" /\ stage' # "done" /\ UNCHANGED world
        /\ preconditions' = preconditions + 1 /\ preconditions < MaxRounds
    BY <1>8 DEF Regenerate, MayRefine
  <2>. QED
    BY <2>1, WorkingStep
<1>9. CASE EscalateTimeout \/ EscalateUnwind \/ TakeInvariants
  <2>1. stage # "done" /\ stage' # "done" /\ UNCHANGED <<world, preconditions>>
    BY <1>9 DEF EscalateTimeout, EscalateUnwind, TakeInvariants, LadderExhausted
  <2>. QED
    BY <2>1, WorkingStep
<1>10. CASE UNCHANGED vars
  <2>1. UNCHANGED <<world, answer, condition>>
    BY <1>10 DEF vars, ladder, checked, answer, condition, verified, proves, done
  <2>. QED
    BY <2>1 DEF Promise!vars
<1>. QED
  BY <1>2, <1>3, <1>4, <1>5, <1>6, <1>7, <1>8, <1>9, <1>10 DEF Next

\* What the loop reports is what SoundVerdict promises: every run of the loop is
\* a narrowing of one question that ends in a true answer or in no claim, when
\* the harness has no loop longer than the bound.
THEOREM LoopDeliversPromise == ASSUME ~HarnessLoops PROVE Spec => DeliversPromise
<1>1. Spec => Promise!Init
  BY Invariant, ImplementsInitially, PTL DEF Spec
<1>2. Spec => [][Promise!Next]_(Promise!vars)
  BY Invariant, ImplementsStep, PTL DEF Spec
<1>. QED
  BY <1>1, <1>2 DEF DeliversPromise, Promise!Spec

=============================================================================
