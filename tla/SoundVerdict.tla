---------------------------- MODULE SoundVerdict ----------------------------
(***************************************************************************)
(* What a veripp report promises about the function it was asked about,    *)
(* with no word on how the answer is found ("the LLM never decides         *)
(* correctness", src/veripp/agent.py).                                     *)
(*                                                                         *)
(* The question may be narrowed by preconditions while it is open.  An     *)
(* answer "proved" is about the question as narrowed, and says that no     *)
(* execution of the code under test fails and that there is one; "refuted" *)
(* is about the question as first asked; "no_claim" is always allowed.     *)
(***************************************************************************)
EXTENDS Checker

VARIABLES
    world,          \* the truth about the code, fixed
    preconditions,  \* how many preconditions narrow the question
    answer          \* "open" until the report is out

vars == <<world, preconditions, answer>>

Init ==
    /\ world \in World
    /\ preconditions = 0
    /\ answer = "open"

Narrow ==
    /\ answer = "open" /\ preconditions < MaxRounds
    /\ preconditions' = preconditions + 1
    /\ UNCHANGED <<world, answer>>

Answer(a) ==
    /\ answer = "open"
    /\ answer' = a
    /\ UNCHANGED <<world, preconditions>>

Prove ==
    /\ "bug" \notin world.fails[preconditions] /\ world.ends[preconditions]
    /\ Answer("proved")

Refute == "bug" \in world.fails[0] /\ Answer("refuted")

MakeNoClaim == Answer("no_claim")

Next == Narrow \/ Prove \/ Refute \/ MakeNoClaim

Spec == Init /\ [][Next]_vars

=============================================================================
