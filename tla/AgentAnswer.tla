---------------------------- MODULE AgentAnswer ----------------------------
(***************************************************************************)
(* What verify_with_agent of src/veripp/agent.py promises its callers: the *)
(* fields of an AgentReport that scan.py reads, and what relates them to   *)
(* the truth about the function.  AgentLoop is shown to keep this promise, *)
(* ScanPasses relies on it and on nothing else.                            *)
(***************************************************************************)
EXTENDS Checker

\* Diagnosis.kind (triage.py).
Kind == {"real_bug", "missing_assumption", "harness_issue"}

ASSUME KindAssumption == None \notin Kind

\* pre: the preconditions of the program a counterexample is of; accepted: those
\* a proof is conditional on; kind, about: the diagnosis and what it is of.
\* property and pre are only there for a counterexample.
Reply == [outcome : Outcome, property : Property \cup {None}, pre : Rounds,
          verified : BOOLEAN, accepted : Rounds, kind : Kind \cup {None},
          about : Property \cup {None}, terminates : BOOLEAN \cup {None}]

\* A proof is one of the function under the preconditions it lists.
ProofHolds(w, a) ==
    /\ a.outcome = "verified"
    /\ w.ends[a.accepted]
    /\ ~HarnessLoops => "bug" \notin w.fails[a.accepted]

\* What one triage may conclude, and whether it then proposes a precondition.  An
\* artifact is recognised without a model; NullLLM, and an LLM that fails at any
\* question, leave a real bug; parameters are only known of a target.
Conclusions(artifact, offline, target) ==
    LET Concluded(kinds, proposals) == [kind : kinds, proposed_precondition : proposals]
        debatable == {k \in {"missing_assumption", "harness_issue"} : ~offline}
    IN  IF artifact THEN Concluded({"harness_issue"}, {FALSE})
        ELSE Concluded({"real_bug"}, {FALSE})
             \cup Concluded(debatable, {b \in BOOLEAN : b => target})

\* What a counterexample may show of a program in which exactly F fails: one of
\* F, or, where the harness's own failure was looked past, a bound too small.
Showable(w, F) == F \cup {p \in Unwinding : \E q \in F : mechanical_artifact(w, q)}

\* What a counterexample may show under n preconditions; only an LLM inserts.
Failing(w, offline, n) == Showable(w, w.fails[n] \cup {p \in {"inserted"} : ~offline})

\* A counterexample that was diagnosed fails in the program it is of.
CounterexampleHolds(w, offline, a) ==
    /\ a.about = a.property
    /\ a.property \in Failing(w, offline, a.pre)
    /\ mechanical_artifact(w, a.property) => a.kind = "harness_issue"

\* Without an LLM nothing is assumed or inserted, and nothing left undiagnosed.
Unaided(a) ==
    /\ a.accepted = 0 /\ a.pre = 0
    /\ a.outcome = "counterexample" => a.kind # None

Promised(w, offline, a) ==
    /\ a.verified => ProofHolds(w, a)
    /\ a.kind # None => a.about \in Failing(w, offline, 0)
    /\ a.outcome = "counterexample" /\ a.kind # None => CounterexampleHolds(w, offline, a)
    /\ a.outcome # "counterexample" => a.property = None /\ a.pre = 0
    /\ a.kind = None => a.about = None
    /\ a.accepted > 0 => a.outcome = "verified"
    /\ a.terminates # None => a.verified
    /\ offline => Unaided(a)

\* The replies a caller has to reckon with.
verify_with_agent(w, offline) == {a \in Reply : Promised(w, offline, a)}

=============================================================================
