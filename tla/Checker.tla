------------------------------ MODULE Checker ------------------------------
(***************************************************************************)
(* One run of the model checker ESBMC, as src/veripp/esbmc.py sees it.     *)
(*                                                                         *)
(* ESBMC itself is external: it is handed a program, and what it prints is *)
(* constrained only by the truth about that program.  A program is what    *)
(* the loop in agent.py hands to it: the generated harness under some      *)
(* number of LLM-proposed preconditions, possibly with LLM-inserted        *)
(* assertions.  A World says which properties really fail in it.           *)
(***************************************************************************)
EXTENDS Integers, FiniteSets

CONSTANTS
    None,         \* the absent value (Python's None)
    MaxRounds,    \* Budget.max_precondition_rounds
    HarnessLoops  \* may a harness have loops longer than the unwind bound?

ASSUME RoundsAssumption == MaxRounds \in Nat
ASSUME HarnessLoopsAssumption == HarnessLoops \in BOOLEAN

(***************************************************************************)
(* What can be violated.  "bug" is a property of the code under test;      *)
(* "artifact" one of _MECHANICAL_ARTIFACTS; "inserted" an assertion an LLM *)
(* put into the file; "reached" the reachability probe's own assertion;    *)
(* "unwinding" the unwinding assertion of a loop of the code, and          *)
(* "harness_unwinding" that of a loop of the generated harness.            *)
(***************************************************************************)
Property == {"bug", "artifact", "inserted", "reached", "unwinding",
             "harness_unwinding"}
is_unwinding_assertion(p) == p \in {"unwinding", "harness_unwinding"}

Outcome == {"verified", "counterexample", "unwind_limit", "parse_error",
            "timeout", "tool_error", "unknown"}

VerifyConfig == [unwind : Nat, k_induction : BOOLEAN,
                 incremental_bmc : BOOLEAN, multi_property : BOOLEAN]

(***************************************************************************)
(* The bound and the mode on the command line: --k-induction wins over     *)
(* --incremental-bmc, which wins over --unwind.  An unwind of n stands for *)
(* the configured bound times 4^n.                                         *)
(***************************************************************************)
to_args(c) ==
    [mode |-> IF c.k_induction THEN <<"--k-induction">>
              ELSE IF c.incremental_bmc THEN <<"--incremental-bmc">>
              ELSE <<"--unwind", c.unwind>>,
     multi_property |-> c.multi_property]

-----------------------------------------------------------------------------
(* Programs and the truth about them. *)

Rounds == 0 .. MaxRounds

\* pre: how many proposed preconditions the harness was generated with;
\* inserted: whether an LLM put assertions in, and whether they hold;
\* rewritten: whether an LLM changed anything but assertions.
Program == [pre : Rounds, inserted : {"none", "holds", "fails"},
            rewritten : BOOLEAN]

\* fails[n], ends[n]: what fails in the harness under n preconditions, and
\* whether its end can be reached.  A precondition only removes executions.
\* generated: the file is named veripp_harness_*; target: --function was given.
World == {w \in [fails : [Rounds -> SUBSET {"bug", "artifact"}],
                 ends : [Rounds -> BOOLEAN],
                 generated : BOOLEAN, target : BOOLEAN] :
            /\ w.target => w.generated
            /\ \A m, n \in Rounds : m <= n => /\ w.fails[n] \subseteq w.fails[m]
                                              /\ w.ends[n] => w.ends[m]}

\* A rewritten file is a different program: it can be one in which nothing fails.
Fails(w, prog) ==
    IF prog.rewritten THEN {}
    ELSE w.fails[prog.pre] \cup {p \in {"inserted"} : prog.inserted = "fails"}

Ends(w, prog) == prog.rewritten \/ w.ends[prog.pre]

-----------------------------------------------------------------------------
(* Transcripts and how parse_output classifies them. *)

(***************************************************************************)
(* The sets of properties a FAILED transcript can list when exactly F      *)
(* fails.  Without --multi-property ESBMC stops at the first violation;    *)
(* with it, it lists them all, or those within the bound together with     *)
(* unwinding assertions, which only a run with a fixed bound has.  Every   *)
(* FAILED transcript is taken to have blocks that name a location, which   *)
(* is what _parse_properties needs to read them: of one it cannot read the *)
(* code makes a counterexample that shows no property.                     *)
(***************************************************************************)
Unwinding == {"unwinding"} \cup {p \in {"harness_unwinding"} : HarnessLoops}

Violated(F, config) ==
    LET cuts == {p \in Unwinding : ~config.k_induction /\ ~config.incremental_bmc}
        listed == {F} \cup {S \in SUBSET (F \cup cuts) : S \cap cuts # {}}
    IN  IF config.multi_property THEN listed \ {{}} ELSE {{p} : p \in F \cup cuts}

\* What a transcript's words are taken to mean; "failed" needs a second look.
OutcomeOf == [successful |-> "verified", unknown |-> "unknown",
              timed_out |-> "timeout", frontend_error |-> "parse_error",
              tool_error |-> "tool_error"]

Inconclusive == {"unknown", "timed_out", "frontend_error", "tool_error"}

Transcript(F, config) ==
    [says : Inconclusive, props : {{}}]
    \cup [says : {"failed"}, props : Violated(F, config)]
    \cup [says : {s \in {"successful"} : F = {}}, props : {{}}]

\* A FAILED run whose only violations are unwinding assertions says that the
\* bound was too small, not that the program is wrong.
parse_output(t) ==
    IF t.says # "failed" THEN OutcomeOf[t.says]
    ELSE IF t.props # {} /\ \A p \in t.props : is_unwinding_assertion(p)
         THEN "unwind_limit" ELSE "counterexample"

\* properties[0], with the genuine properties kept first.
violated_property(props) ==
    LET genuine == {p \in props : ~is_unwinding_assertion(p)} IN
    IF props = {} THEN {None} ELSE IF genuine = {} THEN props ELSE genuine

VerifyResult == [outcome : Outcome, properties : SUBSET Property,
                 violated_property : Property \cup {None},
                 source : Program, config : VerifyConfig]

\* The results run(source, config) can return when exactly F fails in source.
Answers(F, source, config) ==
    UNION {{[outcome |-> parse_output(t), properties |-> t.props,
             violated_property |-> p, source |-> source, config |-> config] :
               p \in violated_property(t.props)} :
           t \in Transcript(F, config)}

run(w, source, config) == Answers(Fails(w, source), source, config)

-----------------------------------------------------------------------------
(* The reachability probe (agent.probe_reachability). *)

Reachability == {"reachable", "vacuous", "unconfirmed"}

ASSUME NoneAssumption == None \notin Program /\ None \notin Reachability

reached(r) == "reached" \in r.properties

\* The first answer that is the probe's last word: its first run, or, when a
\* counterexample for something else came first, a run asking for every property.
ProbeAnswers(w, source, config) ==
    LET F == Fails(w, source) \cup {p \in {"reached"} : Ends(w, source)}
        Answer(multi) == Answers(F, source, [config EXCEPT !.multi_property = multi])
        InTheWay(r) == r.outcome = "counterexample" /\ ~reached(r)
    IN  {r \in Answer(config.multi_property) : ~InTheWay(r)}
        \cup {r \in Answer(TRUE) :
                 \E first \in Answer(config.multi_property) : InTheWay(first)}

\* No main to probe, an unreadable file and a checker that cannot be started
\* settle nothing, like every answer that is neither of the two conclusive ones.
probe_reachability(w, source, config) ==
    {"unconfirmed"} \cup
    {IF r.outcome = "verified" THEN "vacuous"
     ELSE IF r.outcome = "counterexample" /\ reached(r) THEN "reachable"
     ELSE "unconfirmed" : r \in ProbeAnswers(w, source, config)}

-----------------------------------------------------------------------------
(* Which failures are the harness's doing (triage.py). *)

\* What is recognised by its description, and a property failing inside the
\* generated file, which its own loops do, and an inserted assertion too, for
\* the LLM's copy of the file keeps the generated name.
mechanical_artifact(w, p) ==
    p = "artifact" \/ (w.generated /\ p \in {"inserted", "harness_unwinding"})

real_failures(w, r) == {p \in r.properties : ~mechanical_artifact(w, p)}

=============================================================================
