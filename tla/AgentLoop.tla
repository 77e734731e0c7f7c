----------------------------- MODULE AgentLoop -----------------------------
(***************************************************************************)
(* verify_with_agent of src/veripp/agent.py: attempt, triage, escalate.    *)
(*                                                                         *)
(* The loop hands the current harness to the checker and acts on the       *)
(* outcome: it widens the search, asks an LLM to explain a counterexample  *)
(* and to propose a precondition, regenerates the harness with it, asks    *)
(* for loop invariants, probes whether a harness that verified can run at  *)
(* all, and ends in one report.  A stage is where the loop's body is; each *)
(* action is the code from one call to the checker or to the LLM up to the *)
(* next.  The checker's answers come from Checker, the LLM's from small    *)
(* sets: it may answer anything, or fail, at any call.                     *)
(***************************************************************************)
EXTENDS AgentAnswer

CONSTANTS
    MaxAttempts,  \* Budget.max_attempts
    Offline,      \* no LLM was asked for: NullLLM stands in
    Worlds,       \* the functions the loop is run on
    BaseConfigs   \* the configurations it is started with

ASSUME AttemptsAssumption == MaxAttempts \in Nat \ {0}
ASSUME OfflineAssumption == Offline \in BOOLEAN
ASSUME WorldsAssumption == Worlds \subseteq World
ASSUME BaseConfigsAssumption == BaseConfigs \subseteq VerifyConfig

VARIABLES
    world,                 \* the truth about the code under test, fixed
    stage,                 \* where in the loop's body
    source,                \* the program the next run is given
    config,
    context,               \* assumptions, harness, llm_invariants
    preconditions,         \* how many proposed preconditions are in force
    unwind_idx,
    timeout_idx,
    looked_past_artifact,
    attempts,              \* len(attempts)
    last,                  \* attempts[-1]
    result,
    diagnosis,             \* diagnosis and last_diagnosis, always equal
    report                 \* the AgentReport returned

ladder == <<unwind_idx, timeout_idx>>
checked == <<attempts, last>>
vars == <<world, stage, source, config, context, preconditions, ladder,
          looked_past_artifact, checked, result, diagnosis, report>>

UnwindEscalations == 3   \* len(_UNWIND_ESCALATIONS)
TimeoutEscalations == 1  \* len(_TIMEOUT_ESCALATIONS)

-----------------------------------------------------------------------------
(* The types. *)

Stage == {"attempt", "verified", "triage", "look_past", "only_artifacts",
          "settle", "timeout", "escalate", "tool_error", "parse_error",
          "done", "raised"}

Context == [assumptions : Rounds, harness : Program \cup {None},
            llm_invariants : BOOLEAN]

\* about: the counterexample that was diagnosed.
Diagnosis == [kind : Kind, proposed_precondition : BOOLEAN, about : VerifyResult]

ASSUME DiagnosisAssumption == None \notin Diagnosis

\* claim is FALSE where the narrative says that no claim is made.
AgentReport == [final : VerifyResult, diagnosis : Diagnosis \cup {None},
                accepted_preconditions : Rounds, context : Context,
                reachability : Reachability \cup {None},
                terminates : BOOLEAN \cup {None}, claim : BOOLEAN]

-----------------------------------------------------------------------------

\* The harness as first handed over.
Unassumed == [pre |-> 0, inserted |-> "none", rewritten |-> FALSE]

TypeOK ==
    /\ world \in World
    /\ stage \in Stage
    /\ source \in Program
    /\ config \in VerifyConfig
    /\ context \in Context
    /\ preconditions \in Rounds
    /\ unwind_idx \in 0 .. UnwindEscalations
    /\ timeout_idx \in 0 .. TimeoutEscalations
    /\ looked_past_artifact \in BOOLEAN
    /\ attempts \in Nat
    /\ last \in VerifyResult \cup {None}
    /\ result \in VerifyResult \cup {None}
    /\ diagnosis \in Diagnosis \cup {None}
    /\ report \in AgentReport \cup {None}

Init ==
    /\ world \in Worlds
    /\ stage = "attempt"
    /\ source = Unassumed
    /\ config \in BaseConfigs
    /\ context = [assumptions |-> 0, llm_invariants |-> FALSE,
                  harness |-> IF world.generated THEN source ELSE None]
    /\ preconditions = 0
    /\ unwind_idx = 0 /\ timeout_idx = 0
    /\ looked_past_artifact = FALSE
    /\ attempts = 0 /\ last = None
    /\ result = None /\ diagnosis = None /\ report = None

-----------------------------------------------------------------------------
(* Ending in a report. *)

Report(final, diag, accepted, reachability, terminates, claim) ==
    /\ report' = [final |-> final, diagnosis |-> diag,
                  accepted_preconditions |-> accepted, context |-> context,
                  reachability |-> reachability, terminates |-> terminates,
                  claim |-> claim]
    /\ stage' = "done"

\* What every report leaves as it is.
Unmoved == UNCHANGED <<world, source, config, context, preconditions, ladder,
                       looked_past_artifact>>

\* _inconclusive: the last attempt, and no claim.
inconclusive ==
    /\ Report(last, None, 0, None, None, FALSE)
    /\ UNCHANGED <<checked, result, diagnosis>> /\ Unmoved

-----------------------------------------------------------------------------
(* The head of the loop. *)

OutOfAttemptsLate == attempts > MaxAttempts  \* mutant: off by one
OutOfAttempts == attempts >= MaxAttempts

\* attempts.append, n times.
RecordedAsOne(n) == 1  \* mutant: a list started afresh
Recorded(n) == attempts + n

AttemptBudgetExhausted ==
    /\ stage = "attempt" /\ OutOfAttempts
    /\ inconclusive

\* The wall clock may pass the limit between any two attempts.
WallTimeExhausted ==
    /\ stage = "attempt" /\ ~OutOfAttempts /\ attempts > 0
    /\ inconclusive

\* Which part of the loop's body an outcome is handled in.
Handler == [verified |-> "verified", counterexample |-> "triage",
            tool_error |-> "tool_error", timeout |-> "timeout",
            unwind_limit |-> "escalate", unknown |-> "escalate",
            parse_error |-> "parse_error"]

RunChecker ==
    /\ stage = "attempt" /\ ~OutOfAttempts
    /\ \E r \in run(world, source, config) :
          /\ result' = r /\ last' = r
          /\ stage' = Handler[r.outcome]
    /\ attempts' = Recorded(1)
    /\ UNCHANGED <<diagnosis, report>> /\ Unmoved

-----------------------------------------------------------------------------
(* Nothing failed: can the harness run at all? *)

\* _check_termination is asked only of a reachable harness whose source has a
\* loop; it answers None when the checker cannot be started.
TerminationUnprobed(reachability) == {None} \cup BOOLEAN  \* mutant
Termination(reachability) ==
    {None} \cup {t \in BOOLEAN : reachability = "reachable" /\ world.target}

\* What a proof is reported as conditional on.
NoPreconditions == 0  \* mutant: forgotten in the report
AcceptedPreconditions == preconditions

ReportVerified ==
    /\ stage = "verified"
    /\ \E reachability \in probe_reachability(world, source, config) :
          \E terminates \in Termination(reachability) :
             Report(result, diagnosis, AcceptedPreconditions, reachability, terminates, TRUE)
    /\ UNCHANGED <<checked, result, diagnosis>> /\ Unmoved

-----------------------------------------------------------------------------
(* A counterexample. *)

\* The diagnosis is of the counterexample at hand.
triage_counterexample(r) ==
    {[kind |-> c.kind, proposed_precondition |-> c.proposed_precondition, about |-> r] :
        c \in Conclusions(mechanical_artifact(world, r.violated_property),
                          Offline, world.target)}

NeverLooks(d) == FALSE  \* mutant: the artifact is reported as it is
LooksPast(d) == d.kind = "harness_issue" /\ ~looked_past_artifact

\* Both calls in the loop: on the first counterexample, and on what is left
\* of the wider look at an artifact.
Triage ==
    /\ stage = "triage"
    /\ diagnosis' \in triage_counterexample(result)
    /\ stage' = IF LooksPast(diagnosis') THEN "look_past" ELSE "settle"
    /\ UNCHANGED <<checked, result, report>> /\ Unmoved

\* An artifact hides whatever the checker would have found after it, so every
\* property is asked about, once.
wider == run(world, source, [config EXCEPT !.multi_property = TRUE])

Look(w) ==
    /\ stage = "look_past"
    /\ looked_past_artifact' = TRUE
    /\ w \in wider
    /\ UNCHANGED <<world, source, config, context, preconditions, ladder,
                   diagnosis, report>>

LookInVain ==
    \E w \in wider :
        /\ Look(w)
        /\ w.outcome # "counterexample"
        /\ last' = w /\ attempts' = Recorded(1)
        /\ stage' = "settle"
        /\ UNCHANGED result

\* What is found behind the artifact is another failure: it is triaged itself.
Untriaged == "settle"  \* mutant: the artifact's diagnosis is kept
AfterRealFailure == "triage"

FindRealFailure ==
    \E w \in wider :
        LET real == real_failures(world, w) IN
        /\ Look(w)
        /\ w.outcome = "counterexample" /\ real # {}
        /\ last' = w /\ attempts' = Recorded(1)
        /\ \E p \in violated_property(real) :
              result' = [w EXCEPT !.properties = real, !.violated_property = p]
        /\ stage' = AfterRealFailure

\* Every failure was the harness's: recorded as an attempt that verified.
FindOnlyArtifacts ==
    \E w \in wider :
        /\ Look(w)
        /\ w.outcome = "counterexample" /\ real_failures(world, w) = {}
        /\ result' = [w EXCEPT !.outcome = "verified", !.properties = {},
                               !.violated_property = None]
        /\ last' = result' /\ attempts' = Recorded(2)
        /\ stage' = "only_artifacts"

ReportOnlyArtifacts ==
    /\ stage = "only_artifacts"
    /\ \E reachability \in probe_reachability(world, source, config) :
          Report(result, diagnosis, AcceptedPreconditions, reachability, None, TRUE)
    /\ UNCHANGED <<checked, result, diagnosis>> /\ Unmoved

MayRefine ==
    /\ diagnosis.kind \in {"missing_assumption", "harness_issue"}
    /\ diagnosis.proposed_precondition
    /\ world.target
    /\ preconditions < MaxRounds

\* What a report will say of the regenerated harness.
ContextOfTheFirst(prog) == [context EXCEPT !.assumptions = prog.pre]  \* mutant
ContextOf(prog) == [context EXCEPT !.assumptions = prog.pre, !.harness = prog]

\* The harness is generated again, from the code, under one more precondition,
\* and the unwind ladder starts over.
Regenerate ==
    /\ stage = "settle" /\ MayRefine
    /\ preconditions' = preconditions + 1
    /\ source' = [pre |-> preconditions', inserted |-> "none", rewritten |-> FALSE]
    /\ context' = ContextOf(source')
    /\ unwind_idx' = 0
    /\ stage' = "attempt"
    /\ UNCHANGED <<world, config, timeout_idx, looked_past_artifact, checked,
                   result, diagnosis, report>>

\* No usable proposal, no round left, or generate() refused it (HarnessError).
ReportCounterexample ==
    /\ stage = "settle"
    /\ Report(result, diagnosis, 0, None, None, TRUE)
    /\ UNCHANGED <<checked, result, diagnosis>> /\ Unmoved

-----------------------------------------------------------------------------
(* No verdict. *)

ReportToolError == stage = "tool_error" /\ inconclusive

EscalateTimeout ==
    /\ stage = "timeout" /\ timeout_idx < TimeoutEscalations
    /\ config' = [config EXCEPT !.incremental_bmc = TRUE, !.k_induction = FALSE]
    /\ timeout_idx' = timeout_idx + 1
    /\ stage' = "attempt"
    /\ UNCHANGED <<world, source, context, preconditions, unwind_idx,
                   looked_past_artifact, checked, result, diagnosis, report>>

TimedOutEverywhere ==
    stage = "timeout" /\ timeout_idx = TimeoutEscalations /\ inconclusive

\* Widen the bound twice, then try to escape it.
Escalated ==
    IF unwind_idx < 2 THEN [config EXCEPT !.unwind = config.unwind + 1]
    ELSE [config EXCEPT !.k_induction = TRUE]

RungLeftLate == unwind_idx <= UnwindEscalations  \* mutant: off by one
RungLeft == unwind_idx < UnwindEscalations

EscalateUnwind ==
    /\ stage = "escalate" /\ RungLeft
    /\ config' = Escalated
    /\ unwind_idx' = unwind_idx + 1
    /\ stage' = "attempt"
    /\ UNCHANGED <<world, source, context, preconditions, timeout_idx,
                   looked_past_artifact, checked, result, diagnosis, report>>

LadderExhausted == stage = "escalate" /\ ~RungLeft

\* What the LLM can hand back when asked for loop invariants: the file with
\* assertions added, which may or may not hold, or any other file.
Proposal == {p \in Program : p.pre = source.pre /\ p.inserted # "none"
                             /\ (source.inserted = "fails" => p.inserted = "fails")}

\* Why the proposal is refused, if it is.
never_refused(p) == FALSE  \* mutant: the guard is skipped
not_just_assertions(p) == p.rewritten

\* No proposal, an unreadable one, or one that changes more than it may.
RefuseInvariants == LadderExhausted /\ inconclusive

TakeInvariants ==
    /\ LadderExhausted /\ ~Offline
    /\ \E p \in Proposal :
          /\ ~not_just_assertions(p)
          /\ source' = p
          /\ context' = [context EXCEPT !.llm_invariants = TRUE, !.harness = p]
    /\ config' = [config EXCEPT !.k_induction = TRUE]
    /\ stage' = "attempt"
    /\ UNCHANGED <<world, preconditions, ladder, looked_past_artifact, checked,
                   result, diagnosis, report>>

\* With or without an LLM's rewrite of the file, which is never run.
ReportParseError == stage = "parse_error" /\ inconclusive

\* run() raises when there is no checker or it cannot be started.  So do reading
\* a file for triage and writing a harness, a proposal or the probe's own copy.
\* Nothing here catches it: the loop ends without a report.
Raise ==
    /\ \/ stage = "attempt" /\ ~OutOfAttempts
       \/ stage \in {"triage", "look_past", "parse_error"}
       \/ stage = "settle" /\ MayRefine
       \/ LadderExhausted
       \/ stage \in {"verified", "only_artifacts"} /\ ~world.generated
    /\ stage' = "raised"
    /\ UNCHANGED <<checked, result, diagnosis, report>> /\ Unmoved

-----------------------------------------------------------------------------

Next ==
    \/ AttemptBudgetExhausted \/ WallTimeExhausted
    \/ RunChecker
    \/ ReportVerified
    \/ Triage
    \/ LookInVain \/ FindRealFailure \/ FindOnlyArtifacts \/ ReportOnlyArtifacts
    \/ Regenerate \/ ReportCounterexample
    \/ ReportToolError
    \/ EscalateTimeout \/ TimedOutEverywhere
    \/ EscalateUnwind \/ RefuseInvariants \/ TakeInvariants
    \/ ReportParseError
    \/ Raise

\* One thread, and every call it waits for has a timeout of its own.
Fairness == WF_vars(Next)

Spec == Init /\ [][Next]_vars /\ Fairness

-----------------------------------------------------------------------------
(* Properties. *)

done == stage = "done"

\* AgentReport.verified.
proves(r) == r.final.outcome = "verified" /\ r.reachability = "reachable"

verified == done /\ proves(report)

\* The program a report's harness path names: the file given, by default.
NamedHarness(c) == IF c.harness = None THEN Unassumed ELSE c.harness

\* "verified" is never vacuous and never hides a failure: under the
\* preconditions the report lists, no execution of the code under test fails
\* and there is one (AgentReport.verified, probe_reachability, real_failures,
\* _not_just_assertions and the precondition rounds taken together).
GenuineProof ==
    verified => /\ "bug" \notin world.fails[report.accepted_preconditions]
                /\ world.ends[report.accepted_preconditions]

\* A report that makes a claim describes the very program the checker was run
\* on: its harness, its assumptions, and, when there are any, its inserted
\* assertions; and a proof owns up to every precondition that program has.
ClaimDescribesProgram ==
    done /\ report.claim =>
        LET prog == report.final.source IN
        /\ NamedHarness(report.context) = prog
        /\ report.context.assumptions = prog.pre
        /\ prog.inserted # "none" => report.context.llm_invariants
        /\ verified => report.accepted_preconditions = prog.pre

\* A reported counterexample fails in the program the report names, the
\* diagnosis beside it is of that failure and of no earlier one, and what the
\* harness caused is called so and was looked past first.  The one it may show
\* that does not fail is an exhausted bound, and only where something of the
\* harness's own does fail and was looked past (see ExhaustedBoundIsNoBug).
HonestCounterexample ==
    done /\ report.claim /\ report.final.outcome = "counterexample" =>
        LET p == report.final.violated_property IN
        /\ p \in Showable(world, Fails(world, report.final.source))
        /\ is_unwinding_assertion(p) => looked_past_artifact
        /\ report.diagnosis.about = report.final
        /\ mechanical_artifact(world, p) =>
              report.diagnosis.kind = "harness_issue" /\ looked_past_artifact

\* The budget is checked only at the head of the loop, so the one look past an
\* artifact may overrun it by the wider run and the synthetic attempt.
AttemptsBounded == attempts <= MaxAttempts + 2

\* A precondition is tried only against a counterexample of the program without
\* it that is not an artifact, and it never displaces another program than the
\* one that failed.
PreconditionAnswersCounterexample ==
    [][preconditions' # preconditions =>
         /\ result.outcome = "counterexample" /\ result.source = source
         /\ ~mechanical_artifact(world, result.violated_property)
         /\ diagnosis.about = result]_vars

\* The loop ends: in a report, or in an exception it does not catch.
LoopEnds == <>(stage \in {"done", "raised"})

\* What a caller reads off a report.
ReplyOf(r) ==
    LET failed == r.final.outcome = "counterexample" IN
    [outcome |-> r.final.outcome,
     property |-> IF failed THEN r.final.violated_property ELSE None,
     pre |-> IF failed THEN r.final.source.pre ELSE 0,
     verified |-> proves(r),
     accepted |-> r.accepted_preconditions,
     kind |-> IF r.diagnosis = None THEN None ELSE r.diagnosis.kind,
     about |-> IF r.diagnosis = None THEN None ELSE r.diagnosis.about.violated_property,
     terminates |-> r.terminates]

\* Every report keeps the promise the scan builds on (AgentReport, scan.py).
KeepsPromise == done => ReplyOf(report) \in verify_with_agent(world, Offline)

\* What SoundVerdict promises of the answer is what the loop delivers.
answer ==
    IF ~done THEN "open"
    ELSE IF verified THEN "proved"
    ELSE IF /\ report.claim
            /\ report.final.outcome = "counterexample"
            /\ report.final.violated_property = "bug"
         THEN "refuted"
    ELSE "no_claim"

condition == IF verified THEN report.accepted_preconditions ELSE preconditions

Promise == INSTANCE SoundVerdict WITH preconditions <- condition

DeliversPromise == Promise!Spec

-----------------------------------------------------------------------------
(* What the source says of itself and the loop does not keep. *)

\* An inserted assertion "can only remove executions by failing -- and a failure
\* is reported" (agent.py, _not_just_assertions).
FailedInsertionReported == verified => report.final.source.inserted # "fails"

\* "An exhausted unwind bound is reported as inconclusive (and retried wider), not
\* as a bug" (README.md, and the comment above _STATE_RE in esbmc.py).
ExhaustedBoundIsNoBug ==
    done /\ report.claim /\ report.final.outcome = "counterexample" =>
        ~is_unwinding_assertion(report.final.violated_property)

=============================================================================
