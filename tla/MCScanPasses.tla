---------------------------- MODULE MCScanPasses ----------------------------
(* ScanPasses for TLC. *)
EXTENDS ScanPasses, TLC

CONSTANTS f, g

TwoFunctions == {f, g}

\* What fails without and with the one precondition, and whether the end can be
\* reached without and with it.
Truth(without, with, ends, still_ends) ==
    [fails |-> [n \in Rounds |-> IF n = 0 THEN without ELSE with],
     ends |-> [n \in Rounds |-> IF n = 0 THEN ends ELSE still_ends],
     generated |-> TRUE, target |-> TRUE]

\* A safe function, one that can never run, one with a failure no precondition
\* excludes or a vacuous one does or a sensible one does, one the harness breaks,
\* and one with a failure behind what the harness breaks.
SevenFunctions ==
    {Truth({}, {}, TRUE, TRUE), Truth({}, {}, FALSE, FALSE),
     Truth({"bug"}, {"bug"}, TRUE, TRUE), Truth({"bug"}, {}, TRUE, FALSE),
     Truth({"bug"}, {}, TRUE, TRUE), Truth({"artifact"}, {}, TRUE, TRUE),
     Truth({"artifact", "bug"}, {"bug"}, TRUE, TRUE)}

Plain == [unwind |-> 0, k_induction |-> FALSE, incremental_bmc |-> FALSE,
          multi_property |-> FALSE]

AnyRequest == SUBSET Pass

NothingAccepted == {{}}
SomethingAccepted == {{}, TwoFunctions \X {"bug"}}

Symmetry == Permutations(TwoFunctions)

=============================================================================
