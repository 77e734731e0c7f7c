---------------------------- MODULE MCAgentLoop ----------------------------
(* AgentLoop for TLC: the configurations the loop is really started with. *)
EXTENDS AgentLoop

Plain == [unwind |-> 0, k_induction |-> FALSE, incremental_bmc |-> FALSE,
          multi_property |-> FALSE]

\* `verify` starts plain; the retry of a scan also starts incremental.
OnlyPlain == {Plain}
PlainAndRetry == {Plain, [Plain EXCEPT !.incremental_bmc = TRUE]}

=============================================================================
