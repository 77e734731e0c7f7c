--------------------------- MODULE VerifyCommand ---------------------------
(***************************************************************************)
(* One run of `veripp verify` or `veripp harness`: main and _verify of     *)
(* src/veripp/cli.py, from the command line to the exit code.              *)
(*                                                                         *)
(* The command builds the harness in a scratch directory, makes the LLM    *)
(* client it was asked for, lets verify_with_agent conclude (as            *)
(* AgentAnswer promises, with the last of its triages taken step by step   *)
(* by TriageCall), looks for callers that break what was assumed, writes   *)
(* what was asked for and removes the scratch directory.  Every step may   *)
(* end it: with a usage error, or with an exception, which Python turns    *)
(* into an exit code of 1.                                                 *)
(***************************************************************************)
EXTENDS TriageCall

CONSTANTS
    Worlds,        \* the functions verified
    Environments,  \* what is set in the environment, and whether a client works
    CommandLines   \* the command lines it is started with

ASSUME CommandWorldsAssumption == Worlds \subseteq World

VARIABLES
    args,      \* the command line
    world,     \* the truth about the function
    env,       \* the environment variables about LLMs
    step,      \* the next thing main or _verify does
    llm,       \* the client made: NullLLM, or one that asks
    scratch,   \* the scratch directory and the harness in it
    answer,    \* the AgentReport
    broken,    \* precondition_violations
    printed,   \* what stdout has: the payload of a report, or a harness
    exit       \* the exit code, None before there is one

commandVars == <<args, world, env, step, llm, scratch, answer, broken, printed, exit>>
vars == <<triageVars, commandVars>>

\* parses: whether argparse accepts it, or --help or --help-all is among it;
\* no_llm, model: --no-llm and --model; harnessed: --function, or --class or
\* --sequence, or neither; assume: --assume, for a function.
Args == [command : {"verify", "harness"}, parses : {"yes", "no", "help"},
         source : {"file", "missing", "directory", "empty"},
         harnessed : {"function", "sequence", "no"}, assume : BOOLEAN,
         no_llm : BOOLEAN, model : BOOLEAN, keep_harness : BOOLEAN,
         repro : BOOLEAN, json_out : BOOLEAN]

\* key: a provider's API key is set; model: $VERIPP_LLM_MODEL or a base URL is;
\* usable: the provider is known, installed and has what it needs.
Environment == [key : BOOLEAN, model : BOOLEAN, usable : BOOLEAN]

ASSUME EnvironmentsAssumption == Environments \subseteq Environment
ASSUME CommandLinesAssumption == CommandLines \subseteq Args

\* What of an AgentReport the command goes by.
Answer == [outcome : Outcome, verified : BOOLEAN, accepted : Rounds,
           kind : Kind \cup {None}]
AnswerOf(a) == [outcome |-> a.outcome, verified |-> a.verified,
                accepted |-> a.accepted, kind |-> a.kind]

\* By function, and by whether no LLM takes part.
ReportsOf == [w \in Worlds |-> [offline \in BOOLEAN |->
               {AnswerOf(a) : a \in verify_with_agent(w, offline)}]]

\* What stdout gets: of a report the outcome, whether verified, and whether a
\* harness is named; the text of a harness, and the help, have none.
Payload == [outcome : Outcome \cup {None}, verified : BOOLEAN, harness : BOOLEAN]
PlainText == [outcome |-> None, verified |-> FALSE, harness |-> FALSE]

ASSUME CommandNoneAssumption == None \notin Answer /\ None \notin Payload
                                /\ None \notin 0 .. 3

EXIT_VERIFIED == 0
EXIT_COUNTEREXAMPLE == 1
EXIT_USAGE == 2
EXIT_INCONCLUSIVE == 3

\* exit is None, too, once an exception has left main; a shell sees 1 then.
Uncaught == None

Step == {"idle", "parse", "source", "build", "connect", "agent", "triage",
         "callers", "repro", "emit", "json_out", "leave", "ended"}

CommandTypeOK ==
    /\ TriageTypeOK
    /\ args \in Args \cup {None}
    /\ world \in Worlds
    /\ env \in Environment
    /\ step \in Step
    /\ llm \in {"null", "client"}
    /\ scratch \in {"none", "made", "removed"}
    /\ answer \in Answer \cup {None}
    /\ broken \in BOOLEAN
    /\ printed \in Payload \cup {None}
    /\ exit \in 0 .. 3 \cup {None}

\* No command runs.
Idle ==
    /\ TriageInit
    /\ args = None /\ world \in Worlds /\ env \in Environments
    /\ step = "idle" /\ llm = "null" /\ scratch = "none"
    /\ answer = None /\ broken = FALSE /\ printed = None /\ exit = None

-----------------------------------------------------------------------------
(* main: what is decided before a harness is built. *)

\* The command is called, by a shell or by the MCP server.
Call(a) ==
    /\ args' = a /\ step' = "parse"
    /\ llm' = "null" /\ scratch' = "none" /\ answer' = None /\ broken' = FALSE
    /\ printed' = None /\ exit' = None
    /\ UNCHANGED <<triageVars, world, env>>

\* To the next step.
Proceed(s) == step' = s /\ UNCHANGED <<args, world, env, exit>>

\* Out of main, or out of _verify to its finally clause.
Return(code) == step' = "ended" /\ exit' = code /\ UNCHANGED <<args, world, env>>
LeaveVerify(code) == step' = "leave" /\ exit' = code /\ UNCHANGED <<args, world, env>>

\* argparse exits by SystemExit, with code 0 once it has printed the help.
Parse ==
    /\ step = "parse"
    /\ \/ args.parses = "yes" /\ Proceed("source") /\ UNCHANGED printed
       \/ args.parses = "no" /\ Return(EXIT_USAGE) /\ UNCHANGED printed
       \/ args.parses = "help" /\ Return(EXIT_VERIFIED) /\ printed' = PlainText
    /\ UNCHANGED <<triageVars, llm, scratch, answer, broken>>

CheckSource ==
    /\ step = "source"
    /\ IF args.source = "file" THEN Proceed("build") ELSE Return(EXIT_USAGE)
    /\ UNCHANGED <<triageVars, llm, scratch, answer, broken, printed>>

-----------------------------------------------------------------------------
(* The harness. *)

\* _build_harness raises HarnessError or SignatureError, whereupon names that do
\* exist are suggested.
BuildRefused ==
    /\ step = "build" /\ args.harnessed # "no"
    /\ LeaveVerify(EXIT_USAGE)
    /\ UNCHANGED <<triageVars, llm, scratch, answer, broken, printed>>

\* Whatever else it raises: a source that cannot be read, or one nested too deep.
BuildRaises ==
    /\ step = "build" /\ args.harnessed # "no"
    /\ LeaveVerify(Uncaught)
    /\ UNCHANGED <<triageVars, llm, scratch, answer, broken, printed>>

\* _compile_entry exits when the database named is not there or does not know the
\* source, for the harness as for the checker's configuration.
DatabaseRefused ==
    /\ \/ step = "build" /\ args.harnessed # "no"
       \/ step = "connect"
    /\ LeaveVerify(EXIT_USAGE)
    /\ UNCHANGED <<triageVars, llm, scratch, answer, broken, printed>>

PrintHarness ==
    /\ step = "build" /\ args.command = "harness"
    /\ printed' = PlainText
    /\ Return(EXIT_VERIFIED)
    /\ UNCHANGED <<triageVars, llm, scratch, answer, broken>>

\* The directory is made, then the harness written to it, which may fail.
BuildHarness ==
    /\ step = "build" /\ args.command = "verify" /\ args.harnessed # "no"
    /\ scratch' = "made"
    /\ \/ Proceed("connect")
       \/ LeaveVerify(Uncaught)
    /\ UNCHANGED <<triageVars, llm, answer, broken, printed>>

VerifyWholeFile ==
    /\ step = "build" /\ args.command = "verify" /\ args.harnessed = "no"
    /\ Proceed("connect")
    /\ UNCHANGED <<triageVars, llm, scratch, answer, broken, printed>>

-----------------------------------------------------------------------------
(* The client. *)

\* make_llm: a key in the environment is no request.
AskedOrProvided == args.model \/ env.model \/ env.key  \* mutant: detect_provider
Asked == args.model \/ env.model

\* Without a request, or when the provider is not usable, NullLLM and a note.
Connect ==
    /\ step = "connect"
    /\ llm' = IF ~args.no_llm /\ Asked /\ env.usable THEN "client" ELSE "null"
    /\ Proceed("agent")
    /\ UNCHANGED <<triageVars, scratch, answer, broken, printed>>

-----------------------------------------------------------------------------
(* verify_with_agent. *)

offline == llm = "null"

\* The last triage of the loop: of an artifact, or of a target with parameters.
BeginLastTriage ==
    /\ step = "agent"
    /\ \E artifact \in BOOLEAN, parameters \in {p \in BOOLEAN : p => args.harnessed = "function"} :
          BeginTriage(artifact, parameters, ~offline)
    /\ Proceed("triage")
    /\ UNCHANGED <<llm, scratch, answer, broken, printed>>

TriageRaisesAtOnce ==
    /\ step = "agent" /\ BuildContextRaises
    /\ Proceed("triage")
    /\ UNCHANGED <<llm, scratch, answer, broken, printed>>

TriageGoesOn == step = "triage" /\ TriageStep /\ UNCHANGED commandVars

\* The report carries the diagnosis of that triage, or none.
Concluded(kinds) ==
    /\ answer' \in {a \in ReportsOf[world][offline] : a.kind \in kinds}
    /\ question' = "none" /\ kind' = None /\ diagnosis' = None
    /\ subject' = [artifact |-> FALSE, parameters |-> FALSE]
    /\ Proceed("callers")
    /\ UNCHANGED <<endpoint, posts, llm, scratch, broken, printed>>

ConcludeUntriaged == step = "agent" /\ Concluded({None})
ConcludeTriaged == /\ step = "triage" /\ question = "done"
                   /\ Concluded({None, diagnosis.kind})

\* CheckerNotFound is said plainly; whatever else is raised is not caught.
CheckerMissing ==
    /\ step = "agent"
    /\ LeaveVerify(EXIT_USAGE)
    /\ UNCHANGED <<triageVars, llm, scratch, answer, broken, printed>>

AgentRaises ==
    /\ step = "triage" /\ question = "raised"
    /\ question' = "none" /\ kind' = None
    /\ LeaveVerify(Uncaught)
    /\ UNCHANGED <<endpoint, posts, subject, diagnosis, llm, scratch, answer,
                   broken, printed>>

-----------------------------------------------------------------------------
(* What becomes of the report. *)

\* What the report is conditional on: --assume comes first.
Preconditions == answer.accepted > 0 \/ (args.assume /\ args.harnessed # "no")

\* _callers_breaking: asked of a function and something accepted or assumed.
LooksForCallers == Preconditions /\ args.harnessed = "function"

\* _c_literal raises at an octal argument, 010, which Python's int() refuses.
CheckCallers ==
    /\ step = "callers"
    /\ \/ Proceed("repro") /\ broken' \in {b \in BOOLEAN : b => LooksForCallers}
       \/ LooksForCallers /\ LeaveVerify(Uncaught) /\ UNCHANGED broken
    /\ UNCHANGED <<triageVars, llm, scratch, answer, printed>>

\* _write_repro: only a harness's counterexample is written, before anything is said.
WriteRepro ==
    /\ step = "repro"
    /\ \/ Proceed("emit")
       \/ /\ args.repro /\ answer.outcome = "counterexample" /\ args.harnessed # "no"
          /\ LeaveVerify(Uncaught)
    /\ UNCHANGED <<triageVars, llm, scratch, answer, broken, printed>>

\* A harness about to be removed is not named.
NamesHarness == scratch = "made" /\ args.keep_harness

Emit ==
    /\ step = "emit"
    /\ printed' = [outcome |-> answer.outcome, verified |-> answer.verified,
                   harness |-> NamesHarness]
    /\ Proceed("json_out")
    /\ UNCHANGED <<triageVars, llm, scratch, answer, broken>>

\* _exit_code.
exit_code_unprobed ==  \* mutant: the outcome alone
    CASE answer.outcome = "verified" -> EXIT_VERIFIED
      [] answer.outcome = "counterexample" -> EXIT_COUNTEREXAMPLE
      [] OTHER -> EXIT_INCONCLUSIVE
exit_code ==
    CASE answer.outcome = "verified" /\ answer.verified /\ ~broken -> EXIT_VERIFIED
      [] answer.outcome = "counterexample" -> EXIT_COUNTEREXAMPLE
      [] OTHER -> EXIT_INCONCLUSIVE

WriteJson ==
    /\ step = "json_out"
    /\ \/ LeaveVerify(exit_code)
       \/ args.json_out /\ LeaveVerify(Uncaught)
    /\ UNCHANGED <<triageVars, llm, scratch, answer, broken, printed>>

\* main's finally clause, whatever happened.
RemovesAfterReport == scratch = "made" /\ ~args.keep_harness /\ printed # None  \* mutant
Removes == scratch = "made" /\ ~args.keep_harness

Leave ==
    /\ step = "leave"
    /\ scratch' = IF Removes THEN "removed" ELSE scratch
    /\ step' = "ended"
    /\ UNCHANGED <<triageVars, args, world, env, llm, answer, broken, printed, exit>>

CommandStep ==
    \/ Parse \/ CheckSource
    \/ BuildRefused \/ BuildRaises \/ DatabaseRefused \/ PrintHarness \/ BuildHarness
    \/ VerifyWholeFile \/ Connect
    \/ BeginLastTriage \/ TriageRaisesAtOnce \/ TriageGoesOn
    \/ ConcludeUntriaged \/ ConcludeTriaged \/ CheckerMissing \/ AgentRaises
    \/ CheckCallers \/ WriteRepro \/ Emit \/ WriteJson \/ Leave

=============================================================================
