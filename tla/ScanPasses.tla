----------------------------- MODULE ScanPasses -----------------------------
(***************************************************************************)
(* scan of src/veripp/scan.py and what the command line makes of it.       *)
(*                                                                         *)
(* Three passes fill in one table of results: a pool of workers runs the   *)
(* checker once per function, without an LLM; a retry pass gives what that *)
(* left open to the verify loop, without an LLM; a triage pass gives it    *)
(* the counterexamples, with one.  The loop is only known by what it       *)
(* promises (AgentAnswer).  The passes overwrite each other's results      *)
(* field by field, and the report sorts the functions by what is there     *)
(* at the end.                                                             *)
(***************************************************************************)
EXTENDS AgentAnswer

CONSTANTS
    Names,      \* the functions of the file that are candidates
    Functions,  \* what the truth about a function can be
    Config,     \* the configuration the scan was started with
    Requests,   \* which passes beyond the first it can be asked for
    Baselines   \* which findings can have been accepted before

Pass == {"retry", "triage"}

\* A finding's key, within the one file (baseline.Key).
Key == Names \X (Property \cup {None})

\* What the verify loop can reply, with and without an LLM.
Replies == [w \in Functions |->
               [offline \in BOOLEAN |-> verify_with_agent(w, offline)]]

ASSUME NamesAssumption == IsFiniteSet(Names)
ASSUME FunctionsAssumption ==
    Functions \subseteq {w \in World : w.generated /\ w.target}
ASSUME ConfigAssumption == Config \in VerifyConfig
ASSUME RequestsAssumption == Requests \subseteq SUBSET Pass
ASSUME BaselinesAssumption == Baselines \subseteq SUBSET Key

VARIABLES
    world,    \* the truth about each function, fixed
    asks,     \* the passes asked for, fixed
    phase,
    todo,     \* the functions the phase has still to deal with
    results,  \* report.results, by name
    retried,
    settled,
    triaged,
    exit      \* the command's exit code

counters == <<retried, settled, triaged>>
vars == <<world, asks, phase, todo, results, counters, exit>>

-----------------------------------------------------------------------------

Phase == {"pool", "retry", "triage", "report", "raised"}

Verdict == Outcome \cup {"refused", "vacuous", "unconfirmed", "preconditioned"}

\* detail: the property violated, if any; preconditions: how many it is
\* conditional on.
FunctionResult ==
    [outcome : Verdict, detail : Property \cup {None}, artifact : BOOLEAN,
     preconditions : Rounds, triage_kind : Kind \cup {None},
     terminates : BOOLEAN \cup {None}]

ASSUME ResultAssumption == None \notin Property /\ None \notin FunctionResult

TypeOK ==
    /\ world \in [Names -> World]
    /\ asks \in SUBSET Pass
    /\ phase \in Phase
    /\ todo \in SUBSET Names
    /\ results \in [Names -> FunctionResult \cup {None}]
    /\ retried \in 0 .. Cardinality(Names)
    /\ settled \in 0 .. retried
    /\ triaged \in BOOLEAN
    /\ exit \in {None, 0, 1}

Init ==
    /\ world \in [Names -> Functions]
    /\ asks \in Requests
    /\ phase = "pool" /\ todo = Names
    /\ results = [n \in Names |-> None]
    /\ retried = 0 /\ settled = 0 /\ triaged = FALSE
    /\ exit = None

-----------------------------------------------------------------------------
(* The mechanical pass. *)

Unassumed == [pre |-> 0, inserted |-> "none", rewritten |-> FALSE]

Mechanical(outcome, detail, artifact, terminates) ==
    [outcome |-> outcome, detail |-> detail, artifact |-> artifact,
     preconditions |-> 0, triage_kind |-> None, terminates |-> terminates]

\* What a run that verified is called, by what the probe says.
ProbedAs == [reachable |-> "verified", vacuous |-> "vacuous",
             unconfirmed |-> "unconfirmed"]

\* Termination is asked where there is a loop and the proof is one.
TerminationUnprobed(reachability) == {None} \cup BOOLEAN  \* mutant
Termination(reachability) == {None} \cup {t \in BOOLEAN : reachability = "reachable"}

\* What becomes of the last answer of the checker.  Widening only changes the
\* bound, so that any answer to the first question may be the last one.
FromRun(w, r) ==
    IF r.outcome = "verified"
    THEN UNION {{Mechanical(ProbedAs[a], None, FALSE, t) : t \in Termination(a)} :
                   a \in probe_reachability(w, Unassumed, Config)}
    ELSE {Mechanical(r.outcome, r.violated_property,
                     mechanical_artifact(w, r.violated_property), None)}

\* What one() may return: generate() refuses, something raises, or it ran.
one(w) ==
    {Mechanical("refused", None, FALSE, None), Mechanical("tool_error", None, FALSE, None)}
    \cup UNION {FromRun(w, r) : r \in run(w, Unassumed, Config)}

RetriedAgain(n) == IF phase = "retry" THEN todo ELSE todo \ {n}  \* mutant
Remaining(n) == todo \ {n}

Attempt(n) ==
    /\ phase = "pool" /\ n \in todo
    /\ \E r \in one(world[n]) : results' = [results EXCEPT ![n] = r]
    /\ todo' = Remaining(n)
    /\ UNCHANGED <<world, asks, phase, counters, exit>>

-----------------------------------------------------------------------------
(* The retry pass. *)

AnyButProved == Outcome \ {"verified"}  \* mutant: findings are retried as well
Retryable == {"timeout", "unwind_limit", "unknown"}

BeginRetry ==
    /\ phase = "pool" /\ todo = {}
    /\ phase' = "retry"
    /\ todo' = {n \in Names : "retry" \in asks /\ results[n].outcome \in Retryable}
    /\ UNCHANGED <<world, asks, results, counters, exit>>

\* A verified run that was not shown to check anything settles nothing.
settlesUnprobed(a) == a.outcome \in {"verified", "counterexample"}  \* mutant
settles(a) ==
    \/ a.outcome = "verified" /\ a.verified
    \/ a.outcome = "counterexample"

conditional(a) == a.outcome = "verified" /\ a.accepted > 0

\* The result after a retry that settled it.
KeepsArtifact(w, r, a) == r.artifact  \* mutant: left behind
ArtifactOf(w, r, a) == mechanical_artifact(w, a.property)

Resettled(w, r, a) ==
    [r EXCEPT !.outcome = IF conditional(a) THEN "preconditioned" ELSE a.outcome,
              !.preconditions = IF conditional(a) THEN a.accepted ELSE @,
              !.detail = a.property,
              !.artifact = ArtifactOf(w, r, a),
              !.terminates = a.terminates]

\* No LLM takes part, even when one was given.
WithTheLLM == "triage" \notin asks  \* mutant: it is handed on
WithoutLLM == TRUE

RetrySettles(n) ==
    /\ phase = "retry" /\ n \in todo
    /\ \E a \in Replies[world[n]][WithoutLLM] :
          /\ settles(a)
          /\ results' = [results EXCEPT ![n] = Resettled(world[n], @, a)]
    /\ retried' = retried + 1 /\ settled' = settled + 1
    /\ todo' = Remaining(n)
    /\ UNCHANGED <<world, asks, phase, triaged, exit>>

\* No verdict, or an OSError or RuntimeError.
RetryInVain(n) ==
    /\ phase = "retry" /\ n \in todo
    /\ retried' = retried + 1
    /\ todo' = Remaining(n)
    /\ UNCHANGED <<world, asks, phase, results, settled, triaged, exit>>

\* What is left of the budget is less than this function will cost.
TooDear(n) ==
    /\ phase = "retry" /\ n \in todo
    /\ todo' = Remaining(n)
    /\ UNCHANGED <<world, asks, phase, results, counters, exit>>

\* Next to nothing is left, and the loop breaks off.
BudgetSpent ==
    /\ phase = "retry" /\ todo # {}
    /\ todo' = {}
    /\ UNCHANGED <<world, asks, phase, results, counters, exit>>

-----------------------------------------------------------------------------
(* The triage pass. *)

failing(r) == r.outcome = "counterexample"

AnyFailure(r) == failing(r)  \* mutant: artifacts are triaged as well
worth_triage(r) == failing(r) /\ ~r.artifact

BeginTriage ==
    /\ phase = "retry" /\ todo = {}
    /\ phase' = "triage"
    /\ todo' = {n \in Names : "triage" \in asks /\ worth_triage(results[n])}
    /\ UNCHANGED <<world, asks, results, counters, exit>>

\* The label, which stays away when the LLM failed.
Labelled(r, a) ==
    {r} \cup {[r EXCEPT !.triage_kind = k] : k \in {a.kind} \ {None}}

\* A proof under a precondition the LLM proposed is no longer a finding.
Conditioned(r, a) ==
    IF conditional(a) /\ a.verified
    THEN [r EXCEPT !.outcome = "preconditioned", !.preconditions = a.accepted]
    ELSE r

Triage(n) ==
    /\ phase = "triage" /\ n \in todo
    /\ \E a \in Replies[world[n]][FALSE] :
          \E r \in Labelled(results[n], a) :
             results' = [results EXCEPT ![n] = Conditioned(r, a)]
    /\ todo' = Remaining(n)
    /\ UNCHANGED <<world, asks, phase, counters, exit>>

\* An OSError or RuntimeError: noted in triage_error.
TriageFails(n) ==
    /\ phase = "triage" /\ n \in todo
    /\ todo' = Remaining(n)
    /\ UNCHANGED <<world, asks, phase, results, counters, exit>>

\* Any other exception in the two passes, or an unreadable source at the start.
Raise ==
    /\ \/ phase = "pool" /\ todo = Names
       \/ phase \in {"retry", "triage"} /\ todo # {}
    /\ phase' = "raised"
    /\ UNCHANGED <<world, asks, todo, results, counters, exit>>

-----------------------------------------------------------------------------
(* The report and the exit code. *)

proved == {n \in Names : results[n].outcome = "verified"}
counterexamples == {n \in Names : worth_triage(results[n])}
artifacts == {n \in Names : results[n].artifact}
preconditioned == {n \in Names : results[n].outcome = "preconditioned"}
refused == {n \in Names : results[n].outcome = "refused"}
inconclusive ==
    {n \in Names : results[n].outcome \notin
                      {"verified", "counterexample", "refused", "preconditioned"}}

findings == {<<n, results[n].detail>> : n \in counterexamples}

\* The exit code once accepted findings are discounted.
apply_baseline(baseline) == IF findings \subseteq baseline THEN 0 ELSE 1

Report ==
    /\ phase = "triage" /\ todo = {}
    /\ phase' = "report"
    /\ triaged' = ("triage" \in asks)
    /\ \E baseline \in Baselines : exit' = apply_baseline(baseline)
    /\ UNCHANGED <<world, asks, todo, results, retried, settled>>

-----------------------------------------------------------------------------

Next ==
    \/ \E n \in Names : Attempt(n)
    \/ BeginRetry
    \/ \E n \in Names : RetrySettles(n) \/ RetryInVain(n) \/ TooDear(n)
    \/ BudgetSpent
    \/ BeginTriage
    \/ \E n \in Names : Triage(n) \/ TriageFails(n)
    \/ Report
    \/ Raise

Spec == Init /\ [][Next]_vars

-----------------------------------------------------------------------------
(* Properties. *)

\* The functions a pass has already said something of.
Attempted == {n \in Names : results[n] # None}

\* What the table calls proved is proved, and what it calls preconditioned is
\* proved under that many preconditions, whichever passes wrote the result
\* (FunctionResult.proved, preconditioned).
ResultsAreProofs ==
    \A n \in Attempted :
        /\ results[n].outcome = "verified" =>
              "bug" \notin world[n].fails[0] /\ world[n].ends[0]
        /\ results[n].outcome = "preconditioned" =>
              LET k == results[n].preconditions IN
              k > 0 /\ "bug" \notin world[n].fails[k] /\ world[n].ends[k]

\* A finding is a failure of the code under test, of the function as it was asked
\* about (ScanReport.counterexamples).  The one exception is the verify loop's,
\* that the retry pass hands on: the bound of one of the code's own loops that
\* was exhausted behind an artifact (AgentLoop's ExhaustedBoundIsNoBug).
FindingsAreFailures ==
    \A n \in Attempted :
        worth_triage(results[n]) =>
            \/ results[n].detail = "bug" /\ "bug" \in world[n].fails[0]
            \/ results[n].detail = "unwinding" /\ "artifact" \in world[n].fails[0]

\* Only the triage pass settles anything under an assumption: before it, and in
\* a scan that was not asked for it, no result is conditional (_retry_pass).
ConditionsComeFromTriage ==
    \A n \in Attempted :
        results[n].preconditions > 0 =>
            /\ phase \in {"triage", "report", "raised"} /\ "triage" \in asks
            /\ results[n].outcome = "preconditioned"

\* The report counts every candidate exactly once (ScanReport.summary).
OneBucketEach ==
    LET buckets == <<proved, counterexamples, artifacts, preconditioned, refused,
                     inconclusive>>
    IN  phase = "report" =>
            \A n \in Names : Cardinality({i \in 1 .. 6 : n \in buckets[i]}) = 1

\* Termination is only ever claimed of what is proved (FunctionResult.terminates,
\* which the retry pass overwrites with the verify loop's).
TerminationOfProofs ==
    \A n \in Attempted : results[n].terminates # None => results[n].outcome = "verified"

\* A result is never unsettled, nor settled twice in different ways: a later
\* pass answers what was open, or makes a finding conditional.
AnswersAreKept ==
    [][\A n \in Attempted :
          results'[n].outcome # results[n].outcome =>
              \/ /\ results[n].outcome \in {"timeout", "unwind_limit", "unknown"}
                 /\ results'[n].outcome \in {"verified", "counterexample"}
              \/ /\ worth_triage(results[n])
                 /\ results'[n].outcome = "preconditioned"]_vars

-----------------------------------------------------------------------------
(* What the source says of itself and the scan does not keep. *)

\* "Neither is a proof, and both exit 3" (README.md, of VACUOUS and UNCONFIRMED
\* in `verify` and `scan` alike).
UnprovedIsNoPass ==
    exit = 0 => \A n \in Names : results[n].outcome \notin {"vacuous", "unconfirmed"}

=============================================================================
