----------------------------- MODULE MCTreeScan -----------------------------
(* TreeScan for TLC: two sources that share a header, one kind of finding, a    *)
(* process that scans or accepts and one that accepts.                          *)
EXTENDS TreeScan

CONSTANTS a, b, h, leak, ci, dev

TwoSources == {a, b}
OneHeader == {h}
BothInclude == [f \in TwoSources |-> {h}]
OneIssue == {leak}
ScannerAndAcceptor == {ci, dev}

\* At the beginning one source has a finding; the other is yet to be written.
OneFinding == [f \in {a, b, h} |-> IF f = a THEN {leak} ELSE IF f = b THEN None ELSE {}]

ToScan(what, since, given) ==
    [command |-> "scan", what |-> what, changed |-> since, baseline |-> given]
ToAccept(what) ==
    [command |-> "accept", what |-> what, changed |-> FALSE, baseline |-> TRUE]

\* With the baseline but for one, which is what a first scan is like; both accept.
InTurn ==
    [p \in ScannerAndAcceptor |->
        IF p = ci THEN {ToScan("tree", FALSE, TRUE), ToScan("tree", TRUE, TRUE),
                        ToScan(b, TRUE, TRUE), ToScan(a, FALSE, FALSE),
                        ToAccept(b)}
        ELSE {ToAccept("tree"), ToAccept(a), ToAccept(b)}]

=============================================================================
