----------------------------- MODULE TriageCall -----------------------------
(***************************************************************************)
(* triage_counterexample of src/veripp/triage.py against an endpoint that  *)
(* speaks the OpenAI protocol (src/veripp/llm.py): up to three questions,  *)
(* each of one or two requests, and any of them may fail.                  *)
(*                                                                         *)
(* AgentLoop takes a triage as one step with any outcome; this module is   *)
(* how that step is taken, and TriageIsConservative (in McpServer) says    *)
(* that its outcomes are those.  Requests and replies are external: an     *)
(* endpoint may answer anything, refuse the token cap in either of the two *)
(* ways that are known of it, or fail.                                     *)
(***************************************************************************)
EXTENDS AgentAnswer, Sequences

CONSTANTS
    Endpoints,  \* what an endpoint may answer: subsets of HttpOutcome
    Sayings,    \* what a model may say: a subset of Text
    Unreadable  \* may a body be neither text nor the protocol's shape?

ASSUME UnreadableAssumption == Unreadable \in BOOLEAN

VARIABLES
    endpoint,   \* the answers the endpoint gives
    question,   \* what is being asked, or how the triage ended
    posts,      \* the requests of this question: TRUE where capped
    subject,    \* whether an artifact, and whether there are parameters
    kind,       \* what classify concluded
    diagnosis

triageVars == <<endpoint, question, posts, subject, kind, diagnosis>>

Question == {"classify", "explain", "propose"}

\* A reply as its lines are read: labels to classify by, and lines that are an
\* expression, an expression in a sentence, prose, or NONE.
Line == Kind \cup {"expression", "worded_expression", "prose", "NONE"}
Text == [fenced : BOOLEAN, lines : Seq(Line)]

\* Capped requests may be refused by a status that names the cap or by a dropped
\* connection; "dropped" comes of other causes as well.
Refusal == {"cap_status", "dropped"}
Failure == {"error_status", "unreachable", "not_json", "other_shape"}
NoText == {"undecodable", "no_string"}
HttpOutcome == {"content"} \cup Refusal \cup Failure \cup NoText

ASSUME EndpointsAssumption == Endpoints \subseteq SUBSET HttpOutcome
ASSUME SayingsAssumption == Sayings \subseteq Text

TriageDiagnosis == [kind : Kind, proposed_precondition : BOOLEAN, llm_error : BOOLEAN]

ASSUME TriageDiagnosisAssumption == None \notin TriageDiagnosis

TriageTypeOK ==
    /\ endpoint \in Endpoints
    /\ question \in Question \cup {"none", "asked", "done", "raised"}
    /\ posts \in {<<>>, <<TRUE>>, <<TRUE, FALSE>>}
    /\ subject \in [artifact : BOOLEAN, parameters : BOOLEAN]
    /\ kind \in Kind \cup {None}
    /\ diagnosis \in TriageDiagnosis \cup {None}

TriageInit ==
    /\ endpoint \in Endpoints
    /\ question = "none" /\ posts = <<>>
    /\ subject = [artifact |-> FALSE, parameters |-> FALSE]
    /\ kind = None /\ diagnosis = None

-----------------------------------------------------------------------------
(* Reading a reply. *)

\* The last line that is one of these.
LastLine(text, lines) ==
    LET found == {i \in DOMAIN text.lines : text.lines[i] \in lines}
    IN  IF found = {} THEN None
        ELSE text.lines[CHOOSE i \in found : \A j \in found : j <= i]

\* _last_label: the conclusion comes last; all labels are named in the question.
last_label(text) == LastLine(text, Kind)

\* _expression_from: the last line that is an expression, unless NONE comes later;
\* a sentence is taken for one only inside a fence.
expression_from(text) ==
    LET plausible == {"expression"} \cup {l \in {"worded_expression"} : text.fenced}
    IN  LastLine(text, plausible \cup {"NONE"}) \in plausible

-----------------------------------------------------------------------------
(* The triage. *)

Ask(q) == question' = q /\ posts' = <<>>

Diagnosed(k, proposed, failed) ==
    /\ diagnosis' = [kind |-> k, proposed_precondition |-> proposed, llm_error |-> failed]
    /\ Ask("done")

\* The context is built first; what is recognised mechanically costs no request,
\* and NullLLM asks nobody.
BeginTriage(artifact, parameters, asks) ==
    /\ question = "none"
    /\ subject' = [artifact |-> artifact, parameters |-> parameters]
    /\ \/ artifact /\ Diagnosed("harness_issue", FALSE, FALSE)
       \/ ~artifact /\ ~asks /\ Diagnosed("real_bug", FALSE, FALSE)
       \/ ~artifact /\ asks /\ Ask("classify") /\ UNCHANGED diagnosis
    /\ kind' = None
    /\ UNCHANGED endpoint

\* build_context reads the source again, which may be gone.
BuildContextRaises ==
    /\ question = "none"
    /\ Ask("raised")
    /\ UNCHANGED <<endpoint, subject, kind, diagnosis>>

\* LLMError at any question: what was concluded before is dropped.
KeepsTheLabel == Diagnosed(IF kind = None THEN "real_bug" ELSE kind, FALSE, TRUE)  \* mutant
Degrade == Diagnosed("real_bug", FALSE, TRUE)

\* _ask: the first request carries the cap, the second does not.
AlwaysCapped == TRUE  \* mutant: the cap is left in
capped == posts = <<>>

Post(r) ==
    /\ question \in Question
    /\ r \in endpoint
    /\ r \in NoText => Unreadable
    /\ UNCHANGED <<endpoint, subject>>

\* _CapRefused: asked once more, uncapped.
PostRefused ==
    /\ \E r \in Refusal : Post(r)
    /\ capped
    /\ posts' = Append(posts, capped)
    /\ UNCHANGED <<question, kind, diagnosis>>

PostFails ==
    /\ \E r \in Refusal \cup Failure : Post(r) /\ (capped => r \notin Refusal)
    /\ Degrade
    /\ UNCHANGED kind

\* A body that is no UTF-8, and a content that is no string where it is read for a
\* label or an expression: nothing in _post or in triage_counterexample catches
\* what they raise.
PostRaises ==
    /\ \E r \in NoText : Post(r) /\ (question = "explain" => r = "undecodable")
    /\ Ask("raised")
    /\ UNCHANGED <<kind, diagnosis>>

Classified ==
    /\ question = "classify" /\ Post("content")
    /\ \E text \in Sayings :
          \/ /\ last_label(text) \notin Kind /\ Degrade
             /\ UNCHANGED kind
          \/ /\ last_label(text) \in Kind /\ Ask("explain")
             /\ kind' = last_label(text)
             /\ UNCHANGED diagnosis

MayProposeAnyway == kind # "real_bug"  \* mutant: of a target without parameters
MayPropose == kind \in {"missing_assumption", "harness_issue"} /\ subject.parameters

\* The explanation is passed on as it came.
Explained ==
    /\ question = "explain" /\ \E r \in {"content", "no_string"} : Post(r)
    /\ \/ MayPropose /\ Ask("propose") /\ UNCHANGED diagnosis
       \/ ~MayPropose /\ Diagnosed(kind, FALSE, FALSE)
    /\ UNCHANGED kind

Proposed ==
    /\ question = "propose" /\ Post("content")
    /\ \E text \in Sayings : Diagnosed(kind, expression_from(text), FALSE)
    /\ UNCHANGED kind

TriageStep == \/ PostRefused \/ PostFails \/ PostRaises
              \/ Classified \/ Explained \/ Proposed

=============================================================================
