---------------------------- MODULE MCMcpServer ----------------------------
(* McpServer for TLC. *)
EXTENDS McpServer

\* What fails and whether the end can be reached, without and with a precondition.
Truth(without, with, ends) ==
    [fails |-> [n \in Rounds |-> IF n = 0 THEN without ELSE with],
     ends |-> [n \in Rounds |-> ends], generated |-> TRUE, target |-> TRUE]

\* A safe function, a failing one that a precondition saves, and one never reached.
ThreeFunctions == {Truth({}, {}, TRUE), Truth({"bug"}, {}, TRUE), Truth({}, {}, FALSE)}

FourEnvironments ==
    {[key |-> FALSE, model |-> FALSE, usable |-> FALSE],
     [key |-> TRUE, model |-> FALSE, usable |-> TRUE],
     [key |-> TRUE, model |-> TRUE, usable |-> TRUE],
     [key |-> FALSE, model |-> TRUE, usable |-> FALSE]}

\* An endpoint that answers, one that refuses every cap, and one that does anything.
ThreeEndpoints == {{"content"}, {"content", "cap_status"}, HttpOutcome}

\* Deliberation and a conclusion, fenced or not.
FewSayings ==
    [fenced : BOOLEAN,
     lines : {<<>>, <<"real_bug", "missing_assumption">>,
              <<"missing_assumption", "real_bug">>, <<"harness_issue">>,
              <<"expression", "prose">>, <<"worded_expression">>,
              <<"expression", "NONE">>}]

Plain == [command |-> "verify", parses |-> "yes", source |-> "file",
          harnessed |-> "function", assume |-> FALSE, model |-> FALSE,
          extra_model |-> FALSE, keep_harness |-> FALSE, repro |-> FALSE,
          json_out |-> FALSE]

Requests ==
    {[Plain EXCEPT !.keep_harness = k, !.repro = ~k, !.json_out = ~k, !.model = k] : k \in BOOLEAN}
    \cup {[Plain EXCEPT !.extra_model = TRUE, !.harnessed = "sequence", !.assume = TRUE],
          [Plain EXCEPT !.parses = "no"], [Plain EXCEPT !.parses = "help"],
          [Plain EXCEPT !.source = "empty"],
          [Plain EXCEPT !.harnessed = "no", !.model = TRUE],
          [Plain EXCEPT !.command = "harness"]}

Shell(a, no_llm) ==
    [command |-> a.command, parses |-> a.parses, source |-> a.source,
     harnessed |-> a.harnessed, assume |-> a.assume, no_llm |-> no_llm,
     model |-> a.model, keep_harness |-> a.keep_harness, repro |-> a.repro,
     json_out |-> a.json_out]

FewCommandLines == {Shell(a, b) : a \in Requests, b \in BOOLEAN}

\* A message without arguments, and a call.
Bare(k) == [kind |-> k, arguments |-> None]
ToolCall(a) == [kind |-> "call", arguments |-> a]

Messages == {Bare(k) : k \in Kinds \ {"call"}}
            \cup {ToolCall(a) : a \in Requests}

\* Two lines, at most one of them a call of a command that may do anything.
FewSessions ==
    {<<m, n>> : m \in {Bare("initialize"), Bare("notification"), Bare("not_json")}, n \in Messages}
    \cup {<<m, n>> : m \in Messages, n \in {Bare("ping"), Bare("other_method")}}

=============================================================================
