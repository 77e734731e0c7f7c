--------------------------- MODULE CheckerProofs ---------------------------
(***************************************************************************)
(* What the operators of Checker guarantee, for every program and every    *)
(* configuration.                                                          *)
(***************************************************************************)
EXTENDS Checker, TLAPS

\* Every unwinding assertion is recognised as one.
LEMMA UnwindingRecognised ==
    /\ \A p \in Unwinding : is_unwinding_assertion(p)
    /\ Unwinding \subseteq Property
BY DEF Unwinding, is_unwinding_assertion, Property

\* Everything a transcript can be.
LEMMA TranscriptForm ==
    ASSUME NEW F, NEW config, NEW t \in Transcript(F, config)
    PROVE  \/ t.says \in Inconclusive /\ t.props = {}
           \/ t.says = "failed" /\ t.props \in Violated(F, config)
           \/ t.says = "successful" /\ t.props = {} /\ F = {}
BY DEF Transcript

\* What a FAILED transcript lists did fail, up to an unwinding assertion; and
\* without that assertion a run asked for every property lists all of them.
LEMMA ViolatedForm ==
    ASSUME NEW F, NEW config \in VerifyConfig, NEW S \in Violated(F, config)
    PROVE  /\ S # {} /\ S \subseteq F \cup Unwinding
           /\ config.multi_property /\ S \cap Unwinding = {} => S = F
<1> DEFINE cuts == {p \in Unwinding : ~config.k_induction /\ ~config.incremental_bmc}
<1>0. cuts \subseteq Unwinding
  OBVIOUS
<1>. HIDE DEF cuts
<1>1. CASE config.multi_property
  <2>1. S # {} /\ (S = F \/ (S \subseteq F \cup cuts /\ S \cap cuts # {}))
    BY <1>1 DEF Violated, cuts
  <2>. QED
    BY <1>0, <2>1
<1>2. CASE ~config.multi_property
  <2>1. \E p \in F \cup cuts : S = {p}
    BY <1>2 DEF Violated, cuts
  <2>. QED
    BY <1>0, <1>2, <2>1
<1>. QED
  BY <1>1, <1>2

\* violated_property is a listed property, and a genuine one if there is one.
LEMMA LeadingProperty ==
    ASSUME NEW S, S # {}, NEW p \in violated_property(S)
    PROVE  p \in S /\ (is_unwinding_assertion(p) => \A q \in S : is_unwinding_assertion(q))
<1>1. CASE \E q \in S : ~is_unwinding_assertion(q)
  BY <1>1 DEF violated_property
<1>2. CASE \A q \in S : is_unwinding_assertion(q)
  BY <1>2 DEF violated_property
<1>. QED
  BY <1>1, <1>2

\* A transcript that says FAILED is a counterexample or an unwinding limit, and
\* only one that says SUCCESSFUL verifies.
LEMMA Classification ==
    ASSUME NEW F, NEW config \in VerifyConfig, NEW t \in Transcript(F, config)
    PROVE  /\ parse_output(t) \in Outcome
           /\ parse_output(t) = "verified" => F = {} /\ t.props = {}
           /\ parse_output(t) = "counterexample" =>
                 /\ t.props \in Violated(F, config)
                 /\ \E p \in t.props : ~is_unwinding_assertion(p)
           /\ parse_output(t) = "unwind_limit" =>
                 /\ t.props \in Violated(F, config)
                 /\ \A p \in t.props : is_unwinding_assertion(p)
           /\ parse_output(t) \notin {"counterexample", "unwind_limit"} => t.props = {}
<1>1. CASE t.says \in Inconclusive /\ t.props = {}
  BY <1>1 DEF Inconclusive, parse_output, OutcomeOf, Outcome
<1>2. CASE t.says = "failed" /\ t.props \in Violated(F, config)
  <2>1. t.props # {}
    BY <1>2, ViolatedForm
  <2>2. parse_output(t) = IF \A p \in t.props : is_unwinding_assertion(p)
                          THEN "unwind_limit" ELSE "counterexample"
    BY <1>2, <2>1 DEF parse_output
  <2>. QED
    BY <1>2, <2>1, <2>2 DEF Outcome
<1>3. CASE t.says = "successful" /\ t.props = {} /\ F = {}
  BY <1>3 DEF parse_output, OutcomeOf, Outcome
<1>. QED
  BY <1>1, <1>2, <1>3, TranscriptForm

\* What a result of the checker on a program in which exactly F fails says.
LEMMA AnswerIsSound ==
    ASSUME NEW F, F \subseteq Property, NEW s \in Program,
           NEW config \in VerifyConfig, NEW r \in Answers(F, s, config)
    PROVE  /\ r \in VerifyResult /\ r.source = s /\ r.config = config
           /\ r.outcome = "verified" => F = {}
           /\ r.outcome = "counterexample" =>
                 /\ r.properties \in Violated(F, config)
                 /\ r.violated_property \in r.properties
                 /\ r.violated_property \in F
           /\ r.outcome = "unwind_limit" =>
                 /\ is_unwinding_assertion(r.violated_property)
                 /\ r.violated_property \in F \cup Unwinding
           /\ r.outcome \notin {"counterexample", "unwind_limit"} => r.violated_property = None
<1>0. PICK t \in Transcript(F, config) :
        \E p \in violated_property(t.props) :
          r = [outcome |-> parse_output(t), properties |-> t.props,
               violated_property |-> p, source |-> s, config |-> config]
  BY DEF Answers
<1>1. PICK p \in violated_property(t.props) :
        r = [outcome |-> parse_output(t), properties |-> t.props,
             violated_property |-> p, source |-> s, config |-> config]
  BY <1>0
<1>2. t.props \subseteq Property
  BY TranscriptForm, ViolatedForm, UnwindingRecognised
<1>3. p \in Property \cup {None}
  BY <1>2 DEF violated_property
<1>4. parse_output(t) = "counterexample" => p \in t.props /\ p \in F
  <2>. SUFFICES ASSUME parse_output(t) = "counterexample" PROVE p \in t.props /\ p \in F
    OBVIOUS
  <2>1. t.props \in Violated(F, config) /\ \E q \in t.props : ~is_unwinding_assertion(q)
    BY Classification
  <2>2. t.props # {} /\ t.props \subseteq F \cup Unwinding
    BY <2>1, ViolatedForm
  <2>3. p \in t.props /\ ~is_unwinding_assertion(p)
    BY <2>1, <2>2, LeadingProperty
  <2>. QED
    BY <2>2, <2>3, UnwindingRecognised
<1>5. parse_output(t) = "unwind_limit" => is_unwinding_assertion(p) /\ p \in F \cup Unwinding
  <2>1. ASSUME parse_output(t) = "unwind_limit"
        PROVE  t.props # {} /\ t.props \subseteq F \cup Unwinding
    BY <2>1, Classification, ViolatedForm
  <2>. QED
    BY <2>1, Classification, LeadingProperty
<1>6. parse_output(t) \notin {"counterexample", "unwind_limit"} => p = None
  BY Classification DEF violated_property
<1>. QED
  BY <1>1, <1>2, <1>3, <1>4, <1>5, <1>6, Classification DEF VerifyResult

\* Whatever fails in a program is a property.
LEMMA FailsAreProperties ==
    ASSUME NEW w \in World, NEW s \in Program
    PROVE  Fails(w, s) \subseteq Property
BY DEF Fails, World, Program, Property

\* No failure of a program is an unwinding assertion: those are only cut short.
LEMMA FailuresAreGenuine ==
    ASSUME NEW w \in World, NEW s \in Program, NEW p \in Fails(w, s)
    PROVE  ~is_unwinding_assertion(p)
BY DEF Fails, World, Program, is_unwinding_assertion

\* The probe answers "reachable" only for a harness whose end can be reached.
LEMMA ProbeIsSound ==
    ASSUME NEW w \in World, NEW s \in Program, NEW config \in VerifyConfig,
           NEW answer \in probe_reachability(w, s, config)
    PROVE  /\ answer \in Reachability
           /\ answer = "reachable" => Ends(w, s)
<1> DEFINE F == Fails(w, s) \cup {p \in {"reached"} : Ends(w, s)}
           Asking(multi) == [config EXCEPT !.multi_property = multi]
<1>1. F \subseteq Property
  BY FailsAreProperties DEF Property
<1>2. \A multi \in BOOLEAN : Asking(multi) \in VerifyConfig
  BY DEF VerifyConfig
<1>3. config.multi_property \in BOOLEAN
  BY DEF VerifyConfig
<1>4. ASSUME NEW multi \in BOOLEAN, NEW r \in Answers(F, s, Asking(multi)),
             r.outcome = "counterexample", reached(r)
      PROVE  Ends(w, s)
  <2>1. r.properties \in Violated(F, Asking(multi))
    BY <1>1, <1>2, <1>4, AnswerIsSound
  <2>2. "reached" \in F
    BY <1>2, <1>4, <2>1, ViolatedForm DEF reached, Unwinding
  <2>3. "reached" \notin Fails(w, s)
    BY DEF Fails, World, Program
  <2>. QED
    BY <2>2, <2>3
<1>5. \A r \in ProbeAnswers(w, s, config) :
        r.outcome = "counterexample" /\ reached(r) => Ends(w, s)
  BY <1>3, <1>4 DEF ProbeAnswers
<1>. QED
  BY <1>5 DEF probe_reachability, Reachability

=============================================================================
