-------------------------- MODULE McpServerProofs --------------------------
(***************************************************************************)
(* What a command and the server around it keep to, for every function,    *)
(* environment, endpoint, command line and session.                        *)
(*                                                                         *)
(* A triage under way, the client made and the report concluded are each   *)
(* made at one step and used at a later one; the invariants say what is    *)
(* still true of them there.                                               *)
(***************************************************************************)
EXTENDS McpServer, TLAPS

-----------------------------------------------------------------------------
(* The triage. *)

\* Where a triage is: questions are asked only within one, of a model, about what is
\* no artifact; a later question has the first one's conclusion; and there is a
\* diagnosis only once it is done.
TriageInv ==
    /\ question # "none" => step = "triage"
    /\ question \in Question => llm = "client" /\ ~subject.artifact
    /\ question \in {"explain", "propose"} => kind \in Kind
    /\ question = "propose" => kind # "real_bug" /\ subject.parameters
    /\ diagnosis # None => question = "done"
    /\ TriageIsConservative

\* What a client was made for is still so.
ClientInv ==
    /\ llm \in {"null", "client"}
    /\ llm = "client" => (args.model \/ env.model) /\ ~args.no_llm

\* Where a scratch directory can be, and who has been told of it.
ScratchInv ==
    /\ step \in {"idle", "parse", "source", "build"} => scratch = "none" /\ printed = None
    /\ step = "ended" => (scratch = "made" => args.keep_harness)
    /\ printed # None /\ printed.harness => scratch = "made" /\ args.keep_harness

\* The report is one that the loop gives, and an exit code was made from it.
AnswerInv ==
    /\ world \in Worlds
    /\ answer # None /\ answer.verified => ProofHolds(world, answer)
    /\ step \in {"callers", "repro", "emit", "json_out"} => answer # None
    /\ args.parses = "help" => step \in {"idle", "parse", "ended"}
    /\ step \in {"leave", "ended"} /\ args.command = "verify" /\ exit = EXIT_VERIFIED =>
          IF args.parses = "help" THEN printed = PlainText
          ELSE answer # None /\ answer.verified /\ ~broken

IInv == TriageInv /\ ClientInv /\ ScratchInv /\ AnswerInv

\* A reading is yes or no.
LEMMA ReadingIsBoolean == ASSUME NEW text PROVE expression_from(text) \in BOOLEAN
BY DEF expression_from

\* The codes differ, and none is the lack of one.
LEMMA CodesDiffer ==
    /\ EXIT_VERIFIED # EXIT_COUNTEREXAMPLE /\ EXIT_VERIFIED # EXIT_USAGE
    /\ EXIT_VERIFIED # EXIT_INCONCLUSIVE /\ EXIT_VERIFIED # Uncaught
BY CommandNoneAssumption
   DEF EXIT_VERIFIED, EXIT_COUNTEREXAMPLE, EXIT_USAGE, EXIT_INCONCLUSIVE, Uncaught

\* Code 0 takes a verified report that no caller breaks.
LEMMA CodeZero == exit_code = EXIT_VERIFIED => answer.verified /\ ~broken
<1>1. \/ answer.outcome = "verified" /\ answer.verified /\ ~broken
      \/ exit_code = EXIT_COUNTEREXAMPLE
      \/ exit_code = EXIT_INCONCLUSIVE
  BY Zenon DEF exit_code
<1>. QED  BY <1>1, CodesDiffer

\* A verified report of the loop is a proof.
LEMMA ReportsHold ==
    ASSUME NEW w \in Worlds, NEW o \in BOOLEAN, NEW a \in ReportsOf[w][o], a.verified
    PROVE  ProofHolds(w, a)
<1>1. PICK r \in verify_with_agent(w, o) : a = AnswerOf(r)
  BY DEF ReportsOf
<1>2. r \in Reply /\ (r.verified => ProofHolds(w, r))
  BY DEF verify_with_agent, Promised
<1>3. a.outcome = r.outcome /\ a.verified = r.verified /\ a.accepted = r.accepted
  BY <1>1 DEF AnswerOf
<1>. QED  BY <1>2, <1>3 DEF ProofHolds

\* No report is None.
LEMMA ReportsAreAnswers ==
    ASSUME NEW w \in Worlds, NEW o \in BOOLEAN, NEW a \in ReportsOf[w][o]
    PROVE  a # None
<1>1. PICK r \in verify_with_agent(w, o) : a = AnswerOf(r)
  BY DEF ReportsOf
<1>2. r \in Reply
  BY DEF verify_with_agent
<1>3. a \in Answer
  BY <1>1, <1>2 DEF Reply, Answer, AnswerOf
<1>. QED  BY <1>3, CommandNoneAssumption

LEMMA InvariantInitially == Init => IInv
BY DEF Init, Idle, TriageInit, IInv, TriageInv, ClientInv, ScratchInv, AnswerInv,
       TriageIsConservative, Question

-----------------------------------------------------------------------------
(* The steps outside the triage. *)

\* Where no triage is under way there is nothing to say of one.
LEMMA NoTriageBefore ==
    ASSUME IInv, step # "triage"
    PROVE  question = "none" /\ diagnosis = None
BY DEF IInv, TriageInv

LEMMA NoTriageAfter ==
    ASSUME question' = "none", diagnosis' = None
    PROVE  TriageInv'
BY DEF TriageInv, TriageIsConservative, Question

\* A step that leaves the triage alone, and is not taken during one.
LEMMA TriageSpared ==
    ASSUME IInv, step # "triage", UNCHANGED triageVars
    PROVE  TriageInv'
BY NoTriageBefore, NoTriageAfter DEF triageVars

LEMMA CallStep ==
    ASSUME IInv, step = "idle", NEW a, Call(a)
    PROVE  IInv'
<1>1. TriageInv'
  BY TriageSpared DEF Call
<1>2. ClientInv' /\ ScratchInv'
  BY DEF Call, ClientInv, ScratchInv
<1>3. AnswerInv'
  BY DEF Call, IInv, AnswerInv
<1>. QED  BY <1>1, <1>2, <1>3 DEF IInv

\* The steps that go on, or end, before anything is made.
LEMMA EarlySteps ==
    ASSUME IInv,
           Parse \/ CheckSource \/ BuildRefused \/ BuildRaises \/ DatabaseRefused
           \/ PrintHarness \/ VerifyWholeFile
    PROVE  IInv'
<1> USE DEF Parse, CheckSource, BuildRefused, BuildRaises, DatabaseRefused,
            PrintHarness, VerifyWholeFile, Proceed, Return, LeaveVerify
<1>1. TriageInv'
  BY TriageSpared
<1>2. ClientInv'
  BY DEF IInv, ClientInv
<1>3. ScratchInv'
  BY DEF IInv, ScratchInv, PlainText
<1>4. AnswerInv'
  BY CodesDiffer DEF IInv, AnswerInv
<1>. QED  BY <1>1, <1>2, <1>3, <1>4 DEF IInv

LEMMA BuildHarnessStep == IInv /\ BuildHarness => IInv'
<1> SUFFICES ASSUME IInv, BuildHarness PROVE IInv'
  OBVIOUS
<1> USE DEF BuildHarness, Proceed, LeaveVerify
<1>1. TriageInv'
  BY TriageSpared
<1>2. ClientInv'
  BY DEF IInv, ClientInv
<1>3. ScratchInv'
  BY DEF IInv, ScratchInv
<1>4. AnswerInv'
  BY CodesDiffer DEF IInv, AnswerInv
<1>. QED  BY <1>1, <1>2, <1>3, <1>4 DEF IInv

\* A client is made of what was asked for.
LEMMA ConnectStep == IInv /\ Connect => IInv'
<1> SUFFICES ASSUME IInv, Connect PROVE IInv'
  OBVIOUS
<1> USE DEF Connect, Proceed
<1>1. TriageInv'
  BY TriageSpared
<1>2. ClientInv'
  BY DEF IInv, ClientInv, Asked
<1>3. ScratchInv'
  BY DEF IInv, ScratchInv
<1>4. AnswerInv'
  BY DEF IInv, AnswerInv
<1>. QED  BY <1>1, <1>2, <1>3, <1>4 DEF IInv

\* What becomes of the report, and the exit code made of it.
LEMMA LateSteps ==
    ASSUME IInv, CheckerMissing \/ CheckCallers \/ WriteRepro \/ Emit \/ WriteJson
    PROVE  IInv'
<1> USE DEF CheckerMissing, CheckCallers, WriteRepro, Emit, WriteJson, Proceed, LeaveVerify
<1>1. TriageInv'
  BY TriageSpared
<1>2. ClientInv'
  BY DEF IInv, ClientInv
<1>3. ScratchInv'
  <2>1. CASE Emit
    <3>1. printed'.harness = NamesHarness
      BY <2>1
    <3>2. printed'.harness => scratch' = "made" /\ args'.keep_harness
      BY <2>1, <3>1, Zenon DEF NamesHarness
    <3>. QED  BY <2>1, <3>2 DEF ScratchInv
  <2>2. CASE ~Emit
    BY <2>2 DEF IInv, ScratchInv
  <2>. QED  BY <2>1, <2>2
<1>4. AnswerInv'
  BY CodesDiffer, CodeZero DEF IInv, AnswerInv
<1>. QED  BY <1>1, <1>2, <1>3, <1>4 DEF IInv

LEMMA LeaveStep == IInv /\ Leave => IInv'
<1> SUFFICES ASSUME IInv, Leave PROVE IInv'
  OBVIOUS
<1>1. TriageInv'
  BY TriageSpared DEF Leave
<1>2. ClientInv'
  BY DEF Leave, IInv, ClientInv
<1>3. ScratchInv'
  BY DEF Leave, Removes, IInv, ScratchInv
<1>4. AnswerInv'
  BY DEF Leave, IInv, AnswerInv
<1>. QED  BY <1>1, <1>2, <1>3, <1>4 DEF IInv

-----------------------------------------------------------------------------
(* The triage's steps. *)

\* What a triage may conclude when a model was asked about no artifact.
LEMMA ConclusionsForm ==
    ASSUME NEW k \in Kind, NEW b \in BOOLEAN, NEW artifact, NEW without, NEW parameters,
           artifact => k = "harness_issue" /\ ~b,
           ~artifact /\ without => k = "real_bug",
           k = "real_bug" => ~b,
           b => parameters
    PROVE  [kind |-> k, proposed_precondition |-> b] \in Conclusions(artifact, without, parameters)
BY DEF Conclusions, Kind

\* The diagnosis is one of them.
LEMMA DiagnosisStep ==
    ASSUME NEW k \in Kind, NEW b \in BOOLEAN, NEW failed \in BOOLEAN,
           Diagnosed(k, b, failed),
           step' = "triage",
           subject'.artifact => k = "harness_issue" /\ ~b,
           ~subject'.artifact /\ llm' = "null" => k = "real_bug",
           k = "real_bug" => ~b,
           b => subject'.parameters,
           failed => k = "real_bug"
    PROVE  TriageInv'
<1>1. diagnosis' = [kind |-> k, proposed_precondition |-> b, llm_error |-> failed]
      /\ question' = "done"
  BY DEF Diagnosed, Ask
<1>2. [kind |-> k, proposed_precondition |-> b]
        \in Conclusions(subject'.artifact, llm' = "null", subject'.parameters)
  BY ConclusionsForm
<1>3. diagnosis'.kind = k /\ diagnosis'.proposed_precondition = b /\ diagnosis'.llm_error = failed
  BY <1>1
<1>4. TriageIsConservative'
  BY <1>2, <1>3 DEF TriageIsConservative, offline
<1>. QED  BY <1>1, <1>4 DEF TriageInv, Question

\* A step within the command, of the triage only.
LEMMA OnlyTriage ==
    ASSUME IInv, step = "triage", step' \in {"triage", "leave"}, exit' \in {exit, Uncaught},
           UNCHANGED <<args, world, env, llm, scratch, answer, broken, printed>>,
           step' = "triage" => exit' = exit, step' = "leave" => exit' = Uncaught
    PROVE  ClientInv' /\ ScratchInv' /\ AnswerInv'
BY CodesDiffer DEF IInv, ClientInv, ScratchInv, AnswerInv

LEMMA BeginLastTriageStep == IInv /\ BeginLastTriage => IInv'
<1> SUFFICES ASSUME IInv, BeginLastTriage PROVE IInv'
  OBVIOUS
<1>1. PICK artifact \in BOOLEAN, parameters \in BOOLEAN :
          BeginTriage(artifact, parameters, ~offline)
  BY DEF BeginLastTriage
<1>2. question = "none" /\ diagnosis = None
  BY NoTriageBefore DEF BeginLastTriage
<1>3. /\ step' = "triage" /\ UNCHANGED <<args, world, env, exit, llm, scratch, answer, broken, printed>>
      /\ subject' = [artifact |-> artifact, parameters |-> parameters]
      /\ kind' = None
  BY <1>1 DEF BeginLastTriage, Proceed, BeginTriage
<1>4. subject'.artifact = artifact /\ subject'.parameters = parameters
  BY <1>3
<1>5. TriageInv'
  <2>1. CASE artifact /\ Diagnosed("harness_issue", FALSE, FALSE)
    <3>1. "harness_issue" \in Kind
      BY DEF Kind
    <3>. QED  BY <1>3, <1>4, <2>1, <3>1, DiagnosisStep
  <2>2. CASE ~artifact /\ offline /\ Diagnosed("real_bug", FALSE, FALSE)
    <3>1. "real_bug" \in Kind
      BY DEF Kind
    <3>. QED  BY <1>3, <1>4, <2>2, <3>1, DiagnosisStep
  <2>3. CASE ~artifact /\ ~offline /\ Ask("classify") /\ UNCHANGED diagnosis
    <3>1. llm' = "client"
      BY <1>3, <2>3 DEF IInv, ClientInv, offline
    <3>2. question' = "classify" /\ diagnosis' = None
      BY <1>2, <2>3 DEF Ask
    <3>. QED  BY <1>3, <1>4, <2>3, <3>1, <3>2 DEF TriageInv, TriageIsConservative
  <2>. QED  BY <1>1, <2>1, <2>2, <2>3 DEF BeginTriage
<1>6. ClientInv' /\ ScratchInv' /\ AnswerInv'
  <2>1. step = "agent"
    BY DEF BeginLastTriage
  <2>. QED  BY <1>3, <2>1 DEF IInv, ClientInv, ScratchInv, AnswerInv
<1>. QED  BY <1>5, <1>6 DEF IInv

LEMMA TriageRaisesStep == IInv /\ TriageRaisesAtOnce => IInv'
<1> SUFFICES ASSUME IInv, TriageRaisesAtOnce PROVE IInv'
  OBVIOUS
<1>1. question = "none" /\ diagnosis = None
  BY NoTriageBefore DEF TriageRaisesAtOnce
<1>2. TriageInv'
  BY <1>1 DEF TriageRaisesAtOnce, BuildContextRaises, Ask, Proceed, TriageInv,
              TriageIsConservative, Question
<1>3. ClientInv' /\ ScratchInv' /\ AnswerInv'
  BY DEF TriageRaisesAtOnce, Proceed, IInv, ClientInv, ScratchInv, AnswerInv
<1>. QED  BY <1>2, <1>3 DEF IInv

\* A question of the triage fails, or is answered.
LEMMA TriageGoesOnStep == IInv /\ TriageGoesOn => IInv'
<1> SUFFICES ASSUME IInv, TriageGoesOn PROVE IInv'
  OBVIOUS
<1>1. /\ step = "triage" /\ step' = "triage"
      /\ UNCHANGED <<args, world, env, exit, llm, scratch, answer, broken, printed>>
  BY DEF TriageGoesOn, commandVars
<1>2. ClientInv' /\ ScratchInv' /\ AnswerInv'
  BY <1>1 DEF IInv, ClientInv, ScratchInv, AnswerInv
<1>3. /\ question \in Question /\ subject' = subject /\ ~subject.artifact
      /\ llm = "client" /\ diagnosis = None
  <2>1. question \in Question /\ subject' = subject
    BY DEF TriageGoesOn, TriageStep, PostRefused, PostFails, PostRaises, Classified,
           Explained, Proposed, Post
  <2>. QED  BY <2>1 DEF IInv, TriageInv, Question
<1>4. "real_bug" \in Kind
  BY DEF Kind
<1>5. CASE PostRefused
  <2>1. question' = question /\ kind' = kind /\ diagnosis' = None
    BY <1>3, <1>5 DEF PostRefused
  <2>2. TriageInv'
    BY <1>1, <1>3, <2>1 DEF IInv, TriageInv, TriageIsConservative, Question
  <2>. QED  BY <1>2, <2>2 DEF IInv
<1>6. CASE PostRaises
  <2>1. question' = "raised" /\ diagnosis' = None
    BY <1>3, <1>6 DEF PostRaises, Ask
  <2>. QED  BY <1>1, <1>2, <2>1 DEF IInv, TriageInv, TriageIsConservative, Question
<1>7. CASE Degrade
  <2>1. TriageInv'
    BY <1>1, <1>3, <1>4, <1>7, DiagnosisStep DEF Degrade
  <2>. QED  BY <1>2, <2>1 DEF IInv
<1>8. CASE Classified
  <2>1. CASE ~Degrade
    <3>1. question' = "explain" /\ kind' \in Kind /\ diagnosis' = None
      BY <1>3, <1>8, <2>1 DEF Classified, Ask
    <3>. QED  BY <1>1, <1>2, <1>3, <3>1 DEF IInv, TriageInv, TriageIsConservative
  <2>. QED  BY <1>7, <2>1
<1>9. CASE Explained
  <2>1. kind \in Kind /\ kind' = kind
    BY <1>9 DEF Explained, IInv, TriageInv
  <2>2. CASE MayPropose /\ Ask("propose") /\ UNCHANGED diagnosis
    <3>1. question' = "propose" /\ diagnosis' = None /\ kind # "real_bug" /\ subject.parameters
      BY <1>3, <2>2 DEF Ask, MayPropose
    <3>. QED  BY <1>1, <1>2, <1>3, <2>1, <3>1 DEF IInv, TriageInv, TriageIsConservative
  <2>3. CASE Diagnosed(kind, FALSE, FALSE)
    <3>1. TriageInv'
      BY <1>1, <1>3, <2>1, <2>3, DiagnosisStep
    <3>. QED  BY <1>2, <3>1 DEF IInv
  <2>. QED  BY <1>9, <2>2, <2>3 DEF Explained
<1>10. CASE Proposed
  <2>1. kind \in Kind /\ kind # "real_bug" /\ subject.parameters
    BY <1>10 DEF Proposed, IInv, TriageInv
  <2>2. PICK text \in Sayings : Diagnosed(kind, expression_from(text), FALSE)
    BY <1>10 DEF Proposed
  <2>3. PICK b \in BOOLEAN : b = expression_from(text)
    BY ReadingIsBoolean
  <2>4. TriageInv'
    BY <1>1, <1>3, <2>1, <2>2, <2>3, DiagnosisStep
  <2>. QED  BY <1>2, <2>4 DEF IInv
<1>. QED
  BY <1>5, <1>6, <1>7, <1>8, <1>9, <1>10 DEF TriageGoesOn, TriageStep, PostFails

LEMMA ConcludeStep ==
    ASSUME IInv, ConcludeUntriaged \/ ConcludeTriaged
    PROVE  IInv'
<1>1. PICK kinds : Concluded(kinds)
  BY DEF ConcludeUntriaged, ConcludeTriaged
<1>2. step \in {"agent", "triage"} /\ step' = "callers"
      /\ UNCHANGED <<args, world, env, exit, llm, scratch, broken, printed>>
  BY <1>1 DEF ConcludeUntriaged, ConcludeTriaged, Concluded, Proceed
<1>3. TriageInv'
  BY <1>1, NoTriageAfter DEF Concluded
<1>4. ClientInv' /\ ScratchInv'
  BY <1>2 DEF IInv, ClientInv, ScratchInv
<1>5. world \in Worlds /\ offline \in BOOLEAN /\ answer' \in ReportsOf[world][offline]
  BY <1>1 DEF IInv, AnswerInv, Concluded, offline
<1>6. answer' # None /\ (answer'.verified => ProofHolds(world, answer'))
  BY <1>5, ReportsHold, ReportsAreAnswers
<1>7. AnswerInv'
  BY <1>2, <1>5, <1>6 DEF IInv, AnswerInv
<1>. QED  BY <1>3, <1>4, <1>7 DEF IInv

LEMMA AgentRaisesStep == IInv /\ AgentRaises => IInv'
<1> SUFFICES ASSUME IInv, AgentRaises PROVE IInv'
  OBVIOUS
<1>1. question' = "none" /\ diagnosis' = None
  BY DEF AgentRaises, IInv, TriageInv
<1>2. TriageInv'
  BY <1>1, NoTriageAfter
<1>3. ClientInv' /\ ScratchInv' /\ AnswerInv'
  BY OnlyTriage DEF AgentRaises, LeaveVerify
<1>. QED  BY <1>2, <1>3 DEF IInv

-----------------------------------------------------------------------------
(* Every step. *)

LEMMA CommandStepPreserves == IInv /\ CommandStep => IInv'
BY EarlySteps, BuildHarnessStep, ConnectStep, BeginLastTriageStep, TriageRaisesStep,
   TriageGoesOnStep, ConcludeStep, AgentRaisesStep, LateSteps, LeaveStep DEF CommandStep

\* The server makes room for the next command.
LEMMA AnsweredStep ==
    ASSUME IInv, Answered
    PROVE  IInv'
<1>1. TriageInv'
  BY TriageSpared DEF Answered
<1>2. ClientInv' /\ ScratchInv'
  BY DEF Answered, ClientInv, ScratchInv
<1>3. AnswerInv'
  BY DEF Answered, IInv, AnswerInv
<1>. QED  BY <1>1, <1>2, <1>3 DEF IInv

\* IInv speaks of the command only.
LEMMA CommandSpared ==
    ASSUME IInv, UNCHANGED vars
    PROVE  IInv'
BY DEF vars, triageVars, commandVars, IInv, TriageInv, ClientInv, ScratchInv, AnswerInv,
       TriageIsConservative, offline, ProofHolds

\* A tool is called when no command runs.
ServerInv ==
    /\ server = "listening" => step = "idle"
    /\ IInv

LEMMA InvariantPreserved == ServerInv /\ [Next]_allVars => ServerInv'
<1> SUFFICES ASSUME ServerInv, [Next]_allVars PROVE ServerInv'
  OBVIOUS
<1> USE DEF ServerInv
<1>1. CASE Ignore \/ RefuseMessage \/ Respond \/ RefuseCall \/ Die \/ Close \/ UNCHANGED allVars
  <2>1. UNCHANGED vars /\ server' \in {server, "died", "closed"}
    BY <1>1 DEF Ignore, RefuseMessage, Respond, RefuseCall, Die, Close, allVars, serverVars
  <2>2. step' = step
    BY <2>1 DEF vars, commandVars
  <2>. QED  BY <2>1, <2>2, CommandSpared
<1>2. CASE call_tool
  BY <1>2, CallStep DEF call_tool, Read
<1>3. CASE RunFromShell
  BY <1>3, CallStep DEF RunFromShell, serverVars
<1>4. CASE Work
  BY <1>4, CommandStepPreserves DEF Work, serverVars
<1>5. CASE AnswerExit \/ AnswerException
  BY <1>5, AnsweredStep DEF AnswerExit, AnswerException, Answered
<1>. QED  BY <1>1, <1>2, <1>3, <1>4, <1>5 DEF Next

\* Whatever lines a client sends and whatever the endpoint answers, a command's locals
\* (llm, scratch, the report) agree with its arguments at each of its steps (_verify).
THEOREM Invariant == Spec => []ServerInv
<1>1. Init => ServerInv
  BY InvariantInitially DEF Init, Idle, ServerInv
<1>. QED  BY <1>1, InvariantPreserved, PTL DEF Spec

-----------------------------------------------------------------------------
(* Types. *)

LEMMA CodesAreCodes ==
    /\ EXIT_VERIFIED \in 0 .. 3 /\ EXIT_COUNTEREXAMPLE \in 0 .. 3
    /\ EXIT_USAGE \in 0 .. 3 /\ EXIT_INCONCLUSIVE \in 0 .. 3
BY DEF EXIT_VERIFIED, EXIT_COUNTEREXAMPLE, EXIT_USAGE, EXIT_INCONCLUSIVE

LEMMA ExitCodeIsCode == exit_code \in 0 .. 3
<1>1. exit_code \in {EXIT_VERIFIED, EXIT_COUNTEREXAMPLE, EXIT_INCONCLUSIVE}
  BY Zenon DEF exit_code
<1>. QED  BY <1>1, CodesAreCodes

LEMMA CodesHaveMeanings == \A code \in 0 .. 3 : EXIT_MEANING[code] \in Meaning
<1> SUFFICES ASSUME NEW code \in 0 .. 3 PROVE EXIT_MEANING[code] \in Meaning
  OBVIOUS
<1>1. code = EXIT_VERIFIED \/ code = EXIT_COUNTEREXAMPLE \/ code = EXIT_USAGE
      \/ code = EXIT_INCONCLUSIVE
  BY DEF EXIT_VERIFIED, EXIT_COUNTEREXAMPLE, EXIT_USAGE, EXIT_INCONCLUSIVE
<1>2. EXIT_MEANING[code] \in {"verified", "counterexample", "nothing_checked", "inconclusive"}
  BY <1>1, Zenon DEF EXIT_MEANING
<1>. QED  BY <1>2 DEF Meaning

\* The triage's variables have their types whatever step is taken of it.
LEMMA DiagnosisIsTyped ==
    ASSUME NEW k \in Kind, NEW b \in BOOLEAN, NEW failed \in BOOLEAN, Diagnosed(k, b, failed)
    PROVE  diagnosis' \in TriageDiagnosis /\ question' = "done" /\ posts' = <<>>
BY DEF Diagnosed, Ask, TriageDiagnosis

LEMMA TriageTypes ==
    ASSUME TriageTypeOK, TriageInv, TriageStep
    PROVE  TriageTypeOK'
<1>1. endpoint' = endpoint /\ subject' = subject
  BY DEF TriageStep, PostRefused, PostFails, PostRaises, Classified, Explained, Proposed, Post
<1>2. "real_bug" \in Kind
  BY DEF Kind
<1>3. CASE PostRefused
  <2>1. posts = <<>> /\ posts' = <<TRUE>>
    <3>1. posts = <<>>
      BY <1>3 DEF PostRefused, capped
    <3>2. capped = TRUE
      BY <3>1 DEF capped
    <3>3. posts' = Append(<<>>, TRUE)
      BY <1>3, <3>1, <3>2, Zenon DEF PostRefused
    <3>4. Append(<<>>, TRUE) = <<TRUE>>
      OBVIOUS
    <3>. QED  BY <3>1, <3>3, <3>4, Zenon
  <2>. QED  BY <1>1, <1>3, <2>1 DEF PostRefused, TriageTypeOK
<1>4. CASE PostRaises
  BY <1>1, <1>4 DEF PostRaises, Ask, TriageTypeOK
<1>5. CASE Degrade /\ kind' = kind
  BY <1>1, <1>2, <1>5, DiagnosisIsTyped DEF Degrade, TriageTypeOK
<1>6. CASE Classified
  <2>1. CASE ~(Degrade /\ kind' = kind)
    BY <1>1, <1>6, <2>1 DEF Classified, Ask, TriageTypeOK, Question
  <2>. QED  BY <1>5, <2>1
<1>7. CASE Explained
  <2>1. kind \in Kind /\ kind' = kind
    BY <1>7 DEF Explained, TriageInv
  <2>2. CASE Diagnosed(kind, FALSE, FALSE)
    BY <1>1, <2>1, <2>2, DiagnosisIsTyped DEF TriageTypeOK
  <2>3. CASE Ask("propose") /\ UNCHANGED diagnosis
    BY <1>1, <2>1, <2>3 DEF Ask, TriageTypeOK, Question
  <2>. QED  BY <1>7, <2>2, <2>3 DEF Explained
<1>8. CASE Proposed
  <2>1. kind \in Kind /\ kind' = kind
    BY <1>8 DEF Proposed, TriageInv
  <2>2. PICK text \in Sayings : Diagnosed(kind, expression_from(text), FALSE)
    BY <1>8 DEF Proposed
  <2>3. PICK b \in BOOLEAN : b = expression_from(text)
    BY ReadingIsBoolean
  <2>. QED  BY <1>1, <2>1, <2>2, <2>3, DiagnosisIsTyped DEF TriageTypeOK
<1>. QED
  BY <1>3, <1>4, <1>5, <1>6, <1>7, <1>8 DEF TriageStep, PostFails

LEMMA TriageTypesSpared ==
    ASSUME TriageTypeOK, UNCHANGED triageVars
    PROVE  TriageTypeOK'
BY DEF TriageTypeOK, triageVars

LEMMA CallTypes ==
    ASSUME CommandTypeOK, NEW a \in Args, Call(a)
    PROVE  CommandTypeOK'
BY TriageTypesSpared DEF Call, CommandTypeOK, Step

\* The steps that neither take part in the triage nor conclude one.
LEMMA OtherTypes ==
    ASSUME CommandTypeOK, IInv,
           Parse \/ CheckSource \/ BuildRefused \/ BuildRaises \/ DatabaseRefused \/ PrintHarness
           \/ BuildHarness \/ VerifyWholeFile \/ Connect \/ CheckerMissing \/ CheckCallers
           \/ WriteRepro \/ Emit \/ WriteJson \/ Leave
    PROVE  CommandTypeOK'
<1>1. TriageTypeOK'
  BY TriageTypesSpared DEF CommandTypeOK, Parse, CheckSource, BuildRefused, BuildRaises,
     DatabaseRefused, PrintHarness, BuildHarness, VerifyWholeFile, Connect, CheckerMissing,
     CheckCallers, WriteRepro, Emit, WriteJson, Leave
<1>2. CASE Emit
  <2>1. NamesHarness \in BOOLEAN
    BY DEF NamesHarness
  <2>2. answer \in Answer
    BY <1>2 DEF Emit, CommandTypeOK, IInv, AnswerInv
  <2>3. printed' \in Payload
    <3>1. answer.outcome \in Outcome /\ answer.verified \in BOOLEAN
      BY <2>2 DEF Answer
    <3>. QED  BY <1>2, <2>1, <3>1 DEF Emit, Payload
  <2>. QED  BY <1>1, <1>2, <2>3 DEF Emit, Proceed, CommandTypeOK, Step
<1>3. CASE PrintHarness \/ Parse
  <2>1. PlainText \in Payload
    BY DEF PlainText, Payload
  <2>. QED  BY <1>1, <1>3, <2>1, CodesAreCodes DEF PrintHarness, Parse, Return, Proceed, CommandTypeOK, Step
<1>4. CASE CheckCallers
  <2>1. broken' \in BOOLEAN
    BY <1>4 DEF CheckCallers, CommandTypeOK
  <2>. QED
    BY <1>1, <1>4, <2>1 DEF CheckCallers, Proceed, LeaveVerify, Uncaught, CommandTypeOK, Step
<1>5. CASE ~Emit /\ ~PrintHarness /\ ~Parse /\ ~CheckCallers
  BY <1>1, <1>5, CodesAreCodes, ExitCodeIsCode
     DEF CheckSource, BuildRefused, BuildRaises, DatabaseRefused,
         BuildHarness, VerifyWholeFile, Connect, CheckerMissing, WriteRepro, WriteJson, Leave,
         Proceed, Return, LeaveVerify, Uncaught, CommandTypeOK, Step
<1>. QED  BY <1>2, <1>3, <1>4, <1>5

LEMMA AgentTypes ==
    ASSUME CommandTypeOK, IInv,
           BeginLastTriage \/ TriageRaisesAtOnce \/ TriageGoesOn \/ ConcludeUntriaged
           \/ ConcludeTriaged \/ AgentRaises
    PROVE  CommandTypeOK'
<1>1. CASE BeginLastTriage
  <2>1. PICK artifact \in BOOLEAN, parameters \in BOOLEAN :
            BeginTriage(artifact, parameters, ~offline)
    BY <1>1 DEF BeginLastTriage
  <2>2. subject' \in [artifact : BOOLEAN, parameters : BOOLEAN] /\ kind' = None
        /\ endpoint' = endpoint
    BY <2>1 DEF BeginTriage
  <2>3. "harness_issue" \in Kind /\ "real_bug" \in Kind
    BY DEF Kind
  <2>4. /\ question' \in {"done", "classify"} /\ posts' = <<>>
        /\ diagnosis' \in TriageDiagnosis \cup {diagnosis}
    BY <2>1, <2>3, DiagnosisIsTyped DEF BeginTriage, Ask
  <2>5. TriageTypeOK'
    BY <2>2, <2>4 DEF CommandTypeOK, TriageTypeOK, Question
  <2>. QED  BY <1>1, <2>5 DEF BeginLastTriage, Proceed, CommandTypeOK, Step
<1>2. CASE TriageRaisesAtOnce
  BY <1>2 DEF TriageRaisesAtOnce, BuildContextRaises, Ask, Proceed, CommandTypeOK,
              TriageTypeOK, Step
<1>3. CASE TriageGoesOn
  <2>1. TriageTypeOK'
    BY <1>3, TriageTypes DEF TriageGoesOn, CommandTypeOK, IInv
  <2>. QED  BY <1>3, <2>1 DEF TriageGoesOn, commandVars, CommandTypeOK
<1>4. CASE ConcludeUntriaged \/ ConcludeTriaged
  <2>1. PICK kinds : Concluded(kinds)
    BY <1>4 DEF ConcludeUntriaged, ConcludeTriaged
  <2>2. world \in Worlds /\ offline \in BOOLEAN /\ answer' \in ReportsOf[world][offline]
    BY <2>1 DEF CommandTypeOK, Concluded, offline
  <2>3. PICK r \in verify_with_agent(world, offline) : answer' = AnswerOf(r)
    BY <2>2 DEF ReportsOf
  <2>4. r \in Reply
    BY DEF verify_with_agent
  <2>5. answer' \in Answer
    BY <2>3, <2>4 DEF Reply, Answer, AnswerOf
  <2>. QED  BY <2>1, <2>5 DEF Concluded, Proceed, CommandTypeOK, TriageTypeOK, Step
<1>5. CASE AgentRaises
  BY <1>5 DEF AgentRaises, LeaveVerify, Uncaught, CommandTypeOK, TriageTypeOK, Step
<1>. QED  BY <1>1, <1>2, <1>3, <1>4, <1>5

LEMMA CommandTypes ==
    ASSUME CommandTypeOK, IInv, CommandStep
    PROVE  CommandTypeOK'
BY OtherTypes, AgentTypes DEF CommandStep

-----------------------------------------------------------------------------
(* The answers. *)

\* The requests of the first n lines.
Requested(n) == {i \in Awaited : i <= n}

\* Whom the answers are to, and that they are in order.
Tos == {outbox[n].to : n \in DOMAIN outbox}
Ordered == \A m, n \in DOMAIN outbox : m < n => outbox[m].to < outbox[n].to

OutboxInv ==
    /\ session \in Seq(Message) /\ line \in 0 .. Len(session)
    /\ outbox \in Seq(Response) /\ Ordered
    /\ server # "shell" => session \in Sessions
    /\ server \in {"listening", "closed"} => Tos = Requested(line)
    /\ server = "calling" => line > 0 /\ line \in Awaited /\ Tos = Requested(line - 1)

\* An answer to a line that no answer yet is to.
LEMMA AnswerAppended ==
    ASSUME NEW box \in Seq(Response), NEW r \in Response,
           \A m, n \in DOMAIN box : m < n => box[m].to < box[n].to,
           \A n \in DOMAIN box : box[n].to < r.to
    PROVE  LET new == Append(box, r) IN
           /\ new \in Seq(Response)
           /\ \A m, n \in DOMAIN new : m < n => new[m].to < new[n].to
           /\ {new[n].to : n \in DOMAIN new} = {box[n].to : n \in DOMAIN box} \cup {r.to}
<1> DEFINE new == Append(box, r)
<1>1. new \in Seq(Response) /\ Len(new) = Len(box) + 1 /\ Len(box) \in Nat
  OBVIOUS
<1>2. DOMAIN new = 1 .. Len(box) + 1 /\ DOMAIN box = 1 .. Len(box)
  BY <1>1
<1>3. new[Len(box) + 1] = r /\ \A n \in DOMAIN box : new[n] = box[n]
  OBVIOUS
<1>. HIDE DEF new
<1>4. ASSUME NEW m \in DOMAIN new, NEW n \in DOMAIN new, m < n
      PROVE  new[m].to < new[n].to
  <2>1. m \in DOMAIN box
    BY <1>1, <1>2, <1>4
  <2>2. CASE n = Len(box) + 1
    BY <1>3, <2>1, <2>2
  <2>3. CASE n # Len(box) + 1
    BY <1>1, <1>2, <1>3, <1>4, <2>1, <2>3
  <2>. QED  BY <2>2, <2>3
<1>5. {new[n].to : n \in DOMAIN new} = {box[n].to : n \in DOMAIN box} \cup {r.to}
  <2>1. DOMAIN new = DOMAIN box \cup {Len(box) + 1}
    BY <1>1, <1>2
  <2>. QED  BY <1>3, <2>1
<1>. QED  BY <1>1, <1>4, <1>5 DEF new

\* What a line read adds to the requests.
LEMMA OneMoreRequested ==
    ASSUME NEW n \in Nat, n < Len(session), session \in Seq(Message)
    PROVE  /\ n + 1 \in Awaited => Requested(n + 1) = Requested(n) \cup {n + 1}
           /\ n + 1 \notin Awaited => Requested(n + 1) = Requested(n)
BY DEF Requested, Awaited

\* One more answer, to the line just read or worked on.
LEMMA WriteStep ==
    ASSUME outbox \in Seq(Response), Ordered, line' \in Nat, \A i \in Tos : i < line',
           NEW error \in BOOLEAN, NEW isError \in BOOLEAN, NEW code \in 0 .. 3 \cup {None},
           NEW meaning \in Meaning \cup {None}, NEW report \in Payload \cup {None},
           Write(error, isError, code, meaning, report)
    PROVE  outbox' \in Seq(Response) /\ Ordered' /\ Tos' = Tos \cup {line'}
<1> DEFINE r == [to |-> line', error |-> error, isError |-> isError,
                 code |-> code, meaning |-> meaning, report |-> report]
<1>1. r \in Response /\ r.to = line'
  BY DEF Response
<1>2. outbox' = Append(outbox, r)
  BY DEF Write
<1>3. \A n \in DOMAIN outbox : outbox[n].to < r.to
  BY <1>1 DEF Tos
<1>. HIDE DEF r
<1>. QED  BY <1>1, <1>2, <1>3, AnswerAppended DEF Ordered, Tos

\* Every variable has its type, and the answers are as they should be.
FullInv == TypeOK /\ ServerInv /\ OutboxInv

\* A line read.
LEMMA ReadForm ==
    ASSUME OutboxInv, NEW kinds, Read(kinds)
    PROVE  /\ server = "listening" /\ session' = session /\ session \in Seq(Message)
           /\ session \in Sessions
           /\ line \in Nat /\ line < Len(session) /\ Len(session) \in Nat
           /\ line' = line + 1 /\ line' \in 1 .. Len(session) /\ line' \in DOMAIN session
           /\ session[line'].kind \in kinds
           /\ \A i \in Tos : i < line'
           /\ Tos = Requested(line)
BY DEF OutboxInv, Read, Requested, Awaited

\* A line that gets its answer at once.
LEMMA AnswerAtOnce ==
    ASSUME OutboxInv, NEW kinds, Read(kinds), server' = server,
           \E error, isError \in BOOLEAN : Write(error, isError, None, None, None),
           "blank" \notin kinds, "notification" \notin kinds
    PROVE  OutboxInv'
<1>1. outbox \in Seq(Response) /\ Ordered
  BY DEF OutboxInv
<1>2. outbox' \in Seq(Response) /\ Ordered' /\ Tos' = Tos \cup {line'}
  <2>1. PICK error, isError \in BOOLEAN : Write(error, isError, None, None, None)
    OBVIOUS
  <2>2. line' \in Nat /\ \A i \in Tos : i < line'
    BY ReadForm
  <2>. QED  BY <1>1, <2>1, <2>2, WriteStep
<1>3. line' \in Awaited
  BY ReadForm DEF Awaited
<1>4. Tos' = Requested(line')
  BY <1>2, <1>3, ReadForm, OneMoreRequested
<1>5. Requested(line)' = Requested(line')
  BY ReadForm DEF Requested, Awaited
<1>. QED  BY <1>2, <1>4, <1>5, ReadForm DEF OutboxInv

LEMMA IgnoreStep == OutboxInv /\ Ignore => OutboxInv'
<1> SUFFICES ASSUME OutboxInv, Ignore PROVE OutboxInv'
  OBVIOUS
<1>1. Read(Unanswered) /\ outbox' = outbox /\ server' = server
  BY DEF Ignore
<1>2. line' \notin Awaited
  BY <1>1, ReadForm DEF Awaited, Unanswered
<1>3. Tos' = Requested(line')
  <2>1. Tos' = Tos
    BY <1>1 DEF Tos
  <2>. QED  BY <1>1, <1>2, <2>1, ReadForm, OneMoreRequested
<1>4. Requested(line)' = Requested(line')
  BY <1>1, ReadForm DEF Requested, Awaited
<1>5. Ordered'
  BY <1>1 DEF OutboxInv, Ordered
<1>. QED  BY <1>1, <1>3, <1>4, <1>5, ReadForm DEF OutboxInv

LEMMA DieStep == OutboxInv /\ Die => OutboxInv'
BY ReadForm DEF Die, OutboxInv, Ordered

LEMMA CallToolStep == OutboxInv /\ call_tool => OutboxInv'
<1> SUFFICES ASSUME OutboxInv, call_tool PROVE OutboxInv'
  OBVIOUS
<1>1. Read({"call"}) /\ outbox' = outbox /\ server' = "calling"
  BY DEF call_tool
<1>2. line' \in Awaited' /\ line' - 1 = line
  BY <1>1, ReadForm DEF Awaited
<1>3. Tos' = Requested(line - 1)'
  <2>1. Tos' = Tos
    BY <1>1 DEF Tos
  <2>2. Awaited' = Awaited
    BY <1>1, ReadForm DEF Awaited
  <2>3. Requested(line - 1)' = Requested(line)
    BY <1>2, <2>2 DEF Requested
  <2>. QED  BY <1>1, <2>1, <2>3, ReadForm
<1>4. Ordered'
  BY <1>1 DEF OutboxInv, Ordered
<1>. QED  BY <1>1, <1>2, <1>3, <1>4, ReadForm DEF OutboxInv

\* The command in work is answered.
LEMMA AnswerCallStep ==
    ASSUME OutboxInv, TypeOK, AnswerExit \/ AnswerException
    PROVE  OutboxInv'
<1>1. /\ server = "calling" /\ server' = "listening" /\ session' = session /\ line' = line
  BY DEF AnswerExit, AnswerException, Answered
<1>2. /\ outbox \in Seq(Response) /\ Ordered /\ line \in Nat /\ line > 0 /\ line \in Awaited
      /\ Tos = Requested(line - 1) /\ session \in Seq(Message) /\ line <= Len(session)
      /\ session \in Sessions
  BY <1>1 DEF OutboxInv
<1>3. \A i \in Tos : i < line'
  BY <1>1, <1>2 DEF Requested, Awaited
<1>4. outbox' \in Seq(Response) /\ Ordered' /\ Tos' = Tos \cup {line'}
  <2>1. CASE AnswerException
    BY <1>1, <1>2, <1>3, <2>1, WriteStep DEF AnswerException
  <2>2. CASE AnswerExit
    <3>1. exit \in 0 .. 3 /\ printed \in Payload \cup {None}
      BY <2>2 DEF AnswerExit, Uncaught, TypeOK, CommandTypeOK
    <3>2. EXIT_MEANING[exit] \in Meaning
      BY <3>1, CodesHaveMeanings
    <3>3. PICK b \in BOOLEAN : b = IsError(exit)
      BY DEF IsError
    <3>4. Write(FALSE, b, exit, EXIT_MEANING[exit], printed)
      BY <2>2, <3>3, Zenon DEF AnswerExit
    <3>. QED  BY <1>1, <1>2, <1>3, <3>1, <3>2, <3>4, WriteStep
  <2>. QED  BY <2>1, <2>2
<1>5. Requested(line - 1) \cup {line} = Requested(line)
  BY <1>2 DEF Requested, Awaited
<1>6. Requested(line)' = Requested(line)
  BY <1>1 DEF Requested, Awaited
<1>. QED  BY <1>1, <1>2, <1>4, <1>5, <1>6 DEF OutboxInv

LEMMA OutboxSpared ==
    ASSUME OutboxInv, UNCHANGED <<session, line, outbox>>,
           server' = server \/ (server = "listening" /\ server' = "closed")
    PROVE  OutboxInv'
BY DEF OutboxInv, Ordered, Tos, Requested, Awaited

LEMMA OutboxPreserved ==
    ASSUME OutboxInv, TypeOK, [Next]_allVars
    PROVE  OutboxInv'
<1>1. CASE RefuseMessage
  <2>1. \E error, isError \in BOOLEAN : Write(error, isError, None, None, None)
    BY <1>1, Zenon DEF RefuseMessage
  <2>. QED  BY <1>1, <2>1, AnswerAtOnce DEF RefuseMessage, Refused
<1>2. CASE Respond
  <2>1. \E error, isError \in BOOLEAN : Write(error, isError, None, None, None)
    BY <1>2, Zenon DEF Respond
  <2>. QED  BY <1>2, <2>1, AnswerAtOnce DEF Respond, Unanswered
<1>3. CASE RefuseCall
  <2>1. \E error, isError \in BOOLEAN : Write(error, isError, None, None, None)
    BY <1>3, Zenon DEF RefuseCall
  <2>. QED  BY <1>3, <2>1, AnswerAtOnce DEF RefuseCall
<1>4. CASE Close \/ RunFromShell \/ Work \/ UNCHANGED allVars
  <2>1. UNCHANGED <<session, line, outbox>>
        /\ (server' = server \/ (server = "listening" /\ server' = "closed"))
    BY <1>4 DEF Close, RunFromShell, Work, allVars, serverVars
  <2>. QED  BY <2>1, OutboxSpared
<1>. QED
  BY <1>1, <1>2, <1>3, <1>4, IgnoreStep, DieStep, CallToolStep, AnswerCallStep DEF Next

LEMMA TypesPreserved ==
    ASSUME FullInv, [Next]_allVars, OutboxInv'
    PROVE  TypeOK'
<1>1. CommandTypeOK /\ IInv /\ server \in {"shell", "listening", "calling", "closed", "died"}
  BY DEF FullInv, TypeOK, ServerInv
<1>2. session' \in Sessions \cup {<<>>} /\ line' \in 0 .. Len(session') /\ outbox' \in Seq(Response)
  <2>1. session' = session
    BY DEF Next, Ignore, RefuseMessage, Respond, RefuseCall, Die, call_tool, Read, RunFromShell,
           Work, AnswerExit, AnswerException, Answered, Close, allVars, serverVars
  <2>. QED  BY <2>1 DEF FullInv, TypeOK, OutboxInv
<1> DEFINE Rest == /\ CommandTypeOK'
                   /\ server' \in {"shell", "listening", "calling", "closed", "died"}
                   /\ server' # "shell" => (server' = "calling" <=> step' # "idle")
<1>. SUFFICES Rest
  BY <1>2 DEF TypeOK
<1>3. CASE Ignore \/ RefuseMessage \/ Respond \/ RefuseCall \/ Die \/ Close \/ UNCHANGED allVars
  <2>1. UNCHANGED vars /\ (server' = server \/ (server = "listening" /\ server' \in {"died", "closed"}))
    BY <1>3 DEF Ignore, RefuseMessage, Respond, RefuseCall, Die, Close, Read, allVars, serverVars
  <2>2. CommandTypeOK'
    BY <1>1, <2>1, TriageTypesSpared DEF vars, commandVars, CommandTypeOK
  <2>. QED  BY <2>1, <2>2 DEF FullInv, TypeOK, vars, commandVars
<1>4. CASE call_tool
  <2>1. PICK a : a = argv_for(session[line'].arguments) /\ Call(a)
    BY <1>4, Zenon DEF call_tool
  <2>2. session[line'].arguments \in Arguments
    <3>1. /\ session \in Sessions /\ line' \in DOMAIN session /\ session[line'].kind = "call"
          /\ session[line'] \in Message
      BY <1>4, ReadForm DEF call_tool, FullInv
    <3>2. session[line'].arguments # None
      BY <3>1, SessionsAssumption
    <3>. QED  BY <3>1, <3>2 DEF Message
  <2>3. a \in Args
    BY <2>1, <2>2 DEF argv_for, Arguments, Args
  <2>4. CommandTypeOK' /\ step' = "parse" /\ server' = "calling"
    BY <1>1, <1>4, <2>1, <2>3, CallTypes DEF Call, call_tool
  <2>. QED  BY <2>4
<1>5. CASE RunFromShell
  <2>1. PICK a \in CommandLines : Call(a)
    BY <1>5 DEF RunFromShell
  <2>2. CommandTypeOK' /\ server' = "shell"
    BY <1>1, <1>5, <2>1, CallTypes, CommandLinesAssumption DEF RunFromShell, serverVars
  <2>. QED  BY <2>2
<1>6. CASE Work
  <2>1. CommandTypeOK' /\ server' = server /\ server \in {"calling", "shell"}
    BY <1>1, <1>6, CommandTypes DEF Work, serverVars
  <2>2. server = "calling" => step' # "idle"
    BY <1>6 DEF Work, CommandStep, Parse, CheckSource, BuildRefused, BuildRaises, DatabaseRefused,
       PrintHarness, BuildHarness, VerifyWholeFile, Connect, BeginLastTriage, TriageRaisesAtOnce,
       TriageGoesOn, ConcludeUntriaged, ConcludeTriaged, Concluded, CheckerMissing, AgentRaises,
       CheckCallers, WriteRepro, Emit, WriteJson, Leave, Proceed, Return, LeaveVerify, commandVars
  <2>. QED  BY <2>1, <2>2
<1>7. CASE AnswerExit \/ AnswerException
  <2>1. Answered
    BY <1>7 DEF AnswerExit, AnswerException
  <2>2. TriageTypeOK'
    BY <1>1, <2>1, TriageTypesSpared DEF Answered, CommandTypeOK
  <2>. QED  BY <1>1, <2>1, <2>2 DEF Answered, CommandTypeOK, Step
<1>. QED  BY <1>3, <1>4, <1>5, <1>6, <1>7 DEF Next

LEMMA FullInvariantInitially == Init => FullInv
<1> SUFFICES ASSUME Init PROVE FullInv
  OBVIOUS
<1>1. ServerInv
  BY InvariantInitially DEF Init, Idle, ServerInv
<1>2. session \in Sessions \cup {<<>>} /\ session \in Seq(Message) /\ line = 0 /\ outbox = <<>>
  <2>1. Sessions \subseteq Seq(Message) /\ <<>> \in Seq(Message)
    BY SessionsAssumption
  <2>. QED  BY <2>1 DEF Init
<1>3. Tos = {} /\ Requested(0) = {}
  BY <1>2 DEF Tos, Requested, Awaited
<1>4. OutboxInv
  BY <1>2, <1>3 DEF Init, OutboxInv, Ordered
<1>5. CommandTypeOK
  BY EnvironmentsAssumption DEF Init, Idle, TriageInit, CommandTypeOK, TriageTypeOK, Step
<1>6. TypeOK
  BY <1>2, <1>5 DEF Init, Idle, TypeOK
<1>. QED  BY <1>1, <1>4, <1>6 DEF FullInv

LEMMA FullInvariantPreserved == FullInv /\ [Next]_allVars => FullInv'
BY InvariantPreserved, OutboxPreserved, TypesPreserved DEF FullInv

\* The same together with the types and with what serve has read and answered so far.
THEOREM FullInvariant == Spec => []FullInv
BY FullInvariantInitially, FullInvariantPreserved, PTL DEF Spec

-----------------------------------------------------------------------------

\* Exit code 0 of `verify` is only for a proof that was probed and that no caller
\* breaks, whatever the loop and the triage went through (_exit_code), or for the
\* help, with no report (argparse).
THEOREM PassesAreProofs == Spec => []ExitZeroIsProof
<1>1. ServerInv => ExitZeroIsProof
  BY DEF ServerInv, IInv, AnswerInv, ExitZeroIsProof
<1>. QED  BY <1>1, Invariant, PTL

\* However a command ends, only who asked for it is left a scratch directory, and no
\* report names a harness that is gone (main's finally clause).
THEOREM ScratchIsRemoved == Spec => []NothingLeftBehind
<1>1. ServerInv => NothingLeftBehind
  BY DEF ServerInv, IInv, ScratchInv, NothingLeftBehind
<1>. QED  BY <1>1, Invariant, PTL

\* Source code is only sent to a model that was named for it, and never under --no-llm
\* (make_llm, argv_for).
THEOREM OnlyAskedIsSent == Spec => []NothingUnaskedIsSent
<1>1. ServerInv => NothingUnaskedIsSent
  BY DEF ServerInv, IInv, TriageInv, ClientInv, NothingUnaskedIsSent
<1>. QED  BY <1>1, Invariant, PTL

\* A triage concludes what the loop reckons with, whatever the endpoint answers and the
\* model says, and one that fails surfaces the bug (triage_counterexample).
THEOREM TriagesAreConservative == Spec => []TriageIsConservative
<1>1. ServerInv => TriageIsConservative
  BY DEF ServerInv, IInv, TriageInv
<1>. QED  BY <1>1, Invariant, PTL

\* The types hold for every session, command line, environment and endpoint.
THEOREM ServerTypesCorrect == Spec => []TypeOK
<1>1. FullInv => TypeOK
  BY DEF FullInv
<1>. QED  BY <1>1, FullInvariant, PTL

\* Every request read has its one answer, in the order of the requests, but the one
\* in work (serve, call_tool).
THEOREM AnswersAreInOrder == Spec => []AnsweredInOrder
<1>1. FullInv => AnsweredInOrder
  <2> SUFFICES ASSUME FullInv, server \in {"listening", "calling", "closed"}
               PROVE  /\ Ordered
                      /\ Tos = {i \in Awaited : i <= line /\ (i = line => server # "calling")}
    BY DEF AnsweredInOrder, Ordered, Tos
  <2>1. Ordered /\ line \in Nat
    BY DEF FullInv, OutboxInv
  <2>2. CASE server = "calling"
    <3>1. Tos = Requested(line - 1)
      BY <2>2 DEF FullInv, OutboxInv
    <3>2. Awaited \subseteq Nat
      BY DEF FullInv, OutboxInv, Awaited
    <3>3. \A i \in Nat : i <= line - 1 <=> i <= line /\ i # line
      BY <2>1
    <3>4. Tos = {i \in Awaited : i <= line /\ i # line}
      BY <3>1, <3>2, <3>3 DEF Requested
    <3>. QED  BY <2>1, <2>2, <3>4
  <2>3. CASE server # "calling"
    BY <2>1, <2>3 DEF FullInv, OutboxInv, Requested
  <2>. QED  BY <2>2, <2>3
<1>. QED  BY <1>1, FullInvariant, PTL

=============================================================================
