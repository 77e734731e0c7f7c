--------------------------- MODULE MCVerdictCache ---------------------------
(* VerdictCache for TLC: two processes, two versions of the inputs. *)
EXTENDS VerdictCache, TLC

CONSTANTS p1, p2, before, after, i1, i2, i3, i4

Writers == {p1, p2}
Versions == {before, after}

\* Each version leaves something for one of the passes to work on.
FoundInEach == [v \in Versions |-> IF v = before THEN {"counterexample"} ELSE {"inconclusive"}]
NoneOrAll == {{}, Pass}
NoneOrRetry == {{}, {"retry"}}

Files == {i1, i2, i3, i4}

Interchangeable == Permutations(Writers) \cup Permutations(Files)

=============================================================================
