----------------------------- MODULE McpServer -----------------------------
(***************************************************************************)
(* `veripp mcp` (src/veripp/mcp.py): a server that reads one JSON-RPC      *)
(* message a line, runs main for every tool call within its own process,   *)
(* and writes one answer a line, until its input closes.                   *)
(*                                                                         *)
(* The tools modelled are `verify` and `harness`; what their commands do   *)
(* is VerifyCommand.  A session is the lines a client sends, external.     *)
(***************************************************************************)
EXTENDS VerifyCommand

CONSTANTS
    Sessions,    \* the sequences of lines clients send
    MaxLines     \* the length of the longest

VARIABLES
    session,     \* the lines of this session
    line,        \* how many have been read
    server,      \* "listening", "calling" a tool, "closed" or "died"
    outbox       \* the answers written

serverVars == <<session, line, server, outbox>>
allVars == <<vars, serverVars>>

\* What a line may be: a blank one, no JSON, JSON but no object, a message
\* without id, one of the methods, a call of no tool, of an unknown one or
\* without a source, and what handle and argv_for take for granted broken.
Kinds == {"blank", "not_json", "not_object", "notification", "initialize", "ping",
          "tools_list", "other_method", "no_name", "unknown_tool", "no_source",
          "ill_typed", "call"}

\* The arguments of a call: extra_args may hold --model or --help as well.
Arguments == [command : {"verify", "harness"}, parses : {"yes", "no", "help"},
              source : {"file", "missing", "directory", "empty"},
              harnessed : {"function", "sequence", "no"}, assume : BOOLEAN,
              model : BOOLEAN, extra_model : BOOLEAN, keep_harness : BOOLEAN,
              repro : BOOLEAN, json_out : BOOLEAN]

Message == [kind : Kinds, arguments : Arguments \cup {None}]

ASSUME SessionsAssumption ==
    /\ Sessions \subseteq Seq(Message)
    /\ \A s \in Sessions : Len(s) <= MaxLines
    /\ \A s \in Sessions : \A i \in DOMAIN s :
          s[i].kind = "call" <=> s[i].arguments # None

\* to: the line answered; error: a JSON-RPC error; isError: a result that is one;
\* code and meaning: of the command's exit; report: what it printed.
Meaning == {"verified", "counterexample", "nothing_checked", "inconclusive"}
Response == [to : Nat, error : BOOLEAN, isError : BOOLEAN, code : 0 .. 3 \cup {None},
             meaning : Meaning \cup {None}, report : Payload \cup {None}]

TypeOK ==
    /\ CommandTypeOK
    /\ session \in Sessions \cup {<<>>}
    /\ line \in 0 .. Len(session)
    /\ server \in {"shell", "listening", "calling", "closed", "died"}
    /\ outbox \in Seq(Response)
    /\ server # "shell" => (server = "calling" <=> step # "idle")

\* A client's session, or a command from a shell.
Init ==
    /\ Idle
    /\ \/ server = "listening" /\ session \in Sessions
       \/ server = "shell" /\ session = <<>>
    /\ line = 0 /\ outbox = <<>>

-----------------------------------------------------------------------------

Write(error, isError, code, meaning, report) ==
    outbox' = Append(outbox, [to |-> line', error |-> error, isError |-> isError,
                              code |-> code, meaning |-> meaning, report |-> report])

Read(kinds) ==
    /\ server = "listening" /\ line < Len(session)
    /\ session[line + 1].kind \in kinds
    /\ line' = line + 1
    /\ UNCHANGED session

\* A blank line, and a notification, whatever it notifies of, get no answer.
AllButBlank == {"blank"}  \* mutant: notifications are answered like methods
Unanswered == {"blank", "notification"}

Ignore ==
    /\ Read(Unanswered)
    /\ UNCHANGED <<vars, server, outbox>>

\* -32700, -32600, -32601 and -32602.
KnownMethods == {"not_json", "not_object", "no_name"}  \* mutant: others fall through
Refused == {"not_json", "not_object", "no_name", "other_method"}

RefuseMessage ==
    /\ Read(Refused)
    /\ Write(TRUE, FALSE, None, None, None)
    /\ UNCHANGED <<vars, server>>

Respond ==
    /\ Read({"initialize", "ping", "tools_list"} \cup ({"notification"} \ Unanswered))
    /\ Write(FALSE, FALSE, None, None, None)
    /\ UNCHANGED <<vars, server>>

\* The errors call_tool makes results of.
RefuseCall ==
    /\ Read({"unknown_tool", "no_source"})
    /\ Write(FALSE, TRUE, None, None, None)
    /\ UNCHANGED <<vars, server>>

\* Neither serve nor call_tool catches what params or arguments of another type
\* make handle and argv_for raise.
Die ==
    /\ Read({"ill_typed"})
    /\ server' = "died"
    /\ UNCHANGED <<vars, outbox>>

\* argv_for: without a model, --no-llm comes before what extra_args adds.
argv_for(a) ==
    [command |-> a.command, parses |-> a.parses, source |-> a.source,
     harnessed |-> a.harnessed, assume |-> a.assume, no_llm |-> ~a.model,
     model |-> a.model \/ a.extra_model, keep_harness |-> a.keep_harness,
     repro |-> a.repro, json_out |-> a.json_out]

call_tool ==
    /\ Read({"call"})
    /\ Call(argv_for(session[line'].arguments))
    /\ server' = "calling"
    /\ UNCHANGED outbox

RunFromShell ==
    /\ server = "shell" /\ step = "idle"
    /\ \E a \in CommandLines : Call(a)
    /\ UNCHANGED serverVars

Work ==
    /\ server \in {"calling", "shell"}
    /\ CommandStep
    /\ UNCHANGED serverVars

EXIT_MEANING ==
    [code \in 0 .. 3 |-> CASE code = EXIT_VERIFIED -> "verified"
                           [] code = EXIT_COUNTEREXAMPLE -> "counterexample"
                           [] code = EXIT_USAGE -> "nothing_checked"
                           [] code = EXIT_INCONCLUSIVE -> "inconclusive"]

\* A counterexample or an inconclusive result is an answer, not an error.
IsError(code) == code = EXIT_USAGE

\* The server is ready for the next line.
Answered ==
    /\ server = "calling" /\ step = "ended"
    /\ server' = "listening" /\ step' = "idle"
    /\ args' = None /\ llm' = "null" /\ scratch' = "none" /\ answer' = None
    /\ broken' = FALSE /\ printed' = None /\ exit' = None
    /\ UNCHANGED <<triageVars, world, env, session, line>>

AnswerExit ==
    /\ Answered /\ exit # Uncaught
    /\ Write(FALSE, IsError(exit), exit, EXIT_MEANING[exit], printed)

\* A tool error is a result; what the command had printed is lost.
AnswerException ==
    /\ Answered /\ exit = Uncaught
    /\ Write(FALSE, TRUE, None, None, None)

Close ==
    /\ server = "listening" /\ line = Len(session)
    /\ server' = "closed"
    /\ UNCHANGED <<vars, session, line, outbox>>

Next == \/ Ignore \/ RefuseMessage \/ Respond \/ RefuseCall \/ Die
        \/ call_tool \/ RunFromShell \/ Work \/ AnswerExit \/ AnswerException \/ Close

Fairness == WF_allVars(Next)
Spec == Init /\ [][Next]_allVars /\ Fairness

-----------------------------------------------------------------------------
(* Properties. *)

\* Exit code 0 of `verify` is only for a genuine proof: one that holds of the
\* function under the preconditions it lists, was probed, and that no literal
\* caller breaks; or for the help that was asked for, and then no report is printed.
ExitZeroIsProof ==
    step = "ended" /\ args.command = "verify" /\ exit = EXIT_VERIFIED =>
        IF args.parses = "help" THEN printed = PlainText
        ELSE answer.verified /\ ProofHolds(world, answer) /\ ~broken

\* However a command ends, a scratch directory is left only to who asked for the
\* harness, and a harness that a report names is there to be read.
NothingLeftBehind ==
    step = "ended" =>
        /\ scratch = "made" => args.keep_harness
        /\ printed # None /\ printed.harness => scratch = "made"

\* Source code is sent to a model only when a model was named, on the command line
\* or in veripp's own variables, and --no-llm was not given.
NothingUnaskedIsSent ==
    question \in Question => (args.model \/ env.model) /\ ~args.no_llm

\* However its questions go, a triage concludes what the loop reckons with, and one
\* that failed at any of them surfaces a bug, under no precondition.
TriageIsConservative ==
    diagnosis # None =>
        /\ [kind |-> diagnosis.kind,
            proposed_precondition |-> diagnosis.proposed_precondition]
              \in Conclusions(subject.artifact, offline, subject.parameters)
        /\ diagnosis.llm_error =>
              diagnosis.kind = "real_bug" /\ ~diagnosis.proposed_precondition

ToldOf(i) == \E n \in DOMAIN outbox : outbox[n].to = i
Awaited == {i \in DOMAIN session : session[i].kind \notin {"blank", "notification"}}

\* Every request read, but the one in work, has exactly one answer, in the order of
\* the requests, and nothing else has.
AnsweredInOrder ==
    server \in {"listening", "calling", "closed"} =>
        /\ \A m, n \in DOMAIN outbox : m < n => outbox[m].to < outbox[n].to
        /\ {outbox[n].to : n \in DOMAIN outbox}
              = {i \in Awaited : i <= line /\ (i = line => server # "calling")}

\* Every request up to the first message that is not well formed is answered,
\* whatever its command does and the endpoint answers.
EveryRequestAnswered ==
    \A i \in 1 .. MaxLines :
        i \in Awaited /\ (\A j \in 1 .. i : session[j].kind # "ill_typed") ~> ToldOf(i)

=============================================================================
