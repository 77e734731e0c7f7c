------------------------------ MODULE TreeScan ------------------------------
(***************************************************************************)
(* `veripp scan` over a tree, with or without --changed and --baseline,    *)
(* and `veripp accept` (_scan, _scan_tree, _accept of src/veripp/cli.py;   *)
(* src/veripp/baseline.py), beside a developer who edits and commits.      *)
(*                                                                         *)
(* A scan lists the sources, scans one after the other, survives those     *)
(* that raise, and reads the baseline afterwards, once for the SARIF       *)
(* report, once for the exit code and once for the summary.  An acceptance *)
(* scans likewise and rewrites the baseline in place.                      *)
(*                                                                         *)
(* What a scan makes of one source is its findings, each a failure in the  *)
(* source or in a header, the same each time for the same source and       *)
(* headers, from the cache or not: how they come about is the matter of    *)
(* ScanPasses, and of VerdictCache.  That it is the same is an assumption: *)
(* a timeout or a wider retry may let two scans of one source differ.      *)
(***************************************************************************)
EXTENDS Naturals

CONSTANTS
    None,
    Torn,        \* a baseline that does not parse
    Procs,
    Sources,     \* files a scan considers, by their suffix
    Headers,     \* files it does not
    Includes,    \* source |-> the headers it reaches
    Issues,      \* (function, property): what a finding is, within its file
    Requests,    \* process |-> the scans and acceptances it may be started for
    First,       \* the tree at the beginning, committed
    MaxEdits,    \* bound on the edits
    SkippedAbove \* is a directory above the repository dotted or in SKIP_DIRS?

Files == Sources \cup Headers

\* scan or accept; of the whole tree or of one file; changed: only what changed since
\* HEAD; baseline: is one given?
Request == [command : {"scan", "accept"}, what : {"tree"} \cup Sources,
            changed : BOOLEAN, baseline : BOOLEAN]

ASSUME FilesAssumption ==
    /\ Sources \cap Headers = {} /\ Includes \in [Sources -> SUBSET Headers]
    /\ None \notin Files /\ "tree" \notin Sources
ASSUME RequestsAssumption ==
    /\ Requests \in [Procs -> SUBSET Request]
    /\ \A p \in Procs, r \in Request :
          r \in Requests[p] /\ r.command = "accept" => ~r.changed

VARIABLES
    work, head,      \* the working tree, and what of it is committed
    edits,
    baseline,        \* the baseline file
    decided,         \* findings somebody has ever accepted (not in the code)
    fresh,           \* sources the baseline records as they are (not in the code)
    pc, asks, todo,  \* of each process; todo: sources it has still to scan
    found,           \* source |-> its findings, or None: not scanned, or skipped
    suppressed,      \* the findings its SARIF report suppresses
    steady,          \* nothing changed since it listed the sources (not in the code)
    exit             \* its exit code

trees == <<work, head, edits>>
outcome == <<suppressed, exit>>
vars == <<trees, baseline, decided, fresh, pc, asks, todo, found, steady, outcome>>

-----------------------------------------------------------------------------
(* The types. *)

\* What a file adds to the findings, or None where there is no such file.
Content == (SUBSET Issues) \cup {None}
Finding == Files \X Issues  \* where it fails, and what
Key == Sources \X Issues
Step == {"idle", "scan", "sarif", "verdict", "note", "truncate", "write", "done"}

ASSUME ValuesAssumption ==
    /\ None # Torn /\ None \notin {0, 1, 2}
    /\ \A keys \in SUBSET Key : keys # None /\ keys # Torn
    /\ \A issues \in SUBSET Issues : issues # None
    /\ \A findings \in SUBSET Finding : findings # None
    /\ \A r \in Request : r # None
ASSUME BoundsAssumption ==
    MaxEdits \in Nat /\ First \in [Files -> Content] /\ SkippedAbove \in BOOLEAN

TypeOK ==
    /\ work \in [Files -> Content] /\ head \in [Files -> Content]
    /\ edits \in 0 .. MaxEdits
    /\ baseline \in {None, Torn} \/ baseline \in SUBSET Key
    /\ decided \subseteq Key /\ fresh \subseteq Sources
    /\ pc \in [Procs -> Step]
    /\ asks \in [Procs -> Request \cup {None}]
    /\ todo \in [Procs -> SUBSET Sources]
    /\ found \in [Procs -> [Sources -> (SUBSET Finding) \cup {None}]]
    /\ suppressed \in [Procs -> SUBSET (Sources \X Finding)]
    /\ steady \in [Procs -> BOOLEAN]
    /\ exit \in [Procs -> {None, 0, 1, 2}]

Nothing == [f \in Sources |-> None]

Init ==
    /\ work = First /\ head = First /\ edits = 0
    /\ baseline = None /\ decided = {} /\ fresh = {}
    /\ pc = [p \in Procs |-> "idle"]
    /\ asks = [p \in Procs |-> None]
    /\ todo = [p \in Procs |-> {}]
    /\ found = [p \in Procs |-> Nothing]
    /\ suppressed = [p \in Procs |-> {}]
    /\ steady = [p \in Procs |-> FALSE]
    /\ exit = [p \in Procs |-> None]

Goto(p, step) == pc' = [pc EXCEPT ![p] = step]
Exits(p, code) == exit' = [exit EXCEPT ![p] = code] /\ Goto(p, "done")

-----------------------------------------------------------------------------
(* Which sources. *)

HeadersToo == {f \in Files : work[f] # None}  \* mutant
discover_sources == {f \in Sources : work[f] # None}

\* What git says differs from HEAD, deletions left out and untracked files included;
\* a path is passed over when any part of it, from the root directory down, is
\* dotted or among SKIP_DIRS.
Tracked == {f \in discover_sources : work[f] # head[f] /\ head[f] # None}  \* mutant
changed_sources == {f \in discover_sources : work[f] # head[f] /\ ~SkippedAbove}

Named(r) == IF r.what = "tree" THEN discover_sources ELSE {r.what}
sources_of(r) == IF r.changed THEN Named(r) \cap changed_sources ELSE Named(r)

\* A directory is for scans only: main() refuses one with any other command.
Refused(r) == r.command = "accept" /\ r.what = "tree"

\* Nothing to scan is an error, and a pass where nothing changed.
Start(p) ==
    /\ pc[p] \in {"idle", "done"}
    /\ \E r \in Requests[p] :
          /\ r.what \in Sources => work[r.what] # None
          /\ asks' = [asks EXCEPT ![p] = r]
          /\ IF Refused(r) \/ sources_of(r) = {}
             THEN /\ Exits(p, IF r.changed THEN 0 ELSE 2)
                  /\ todo' = [todo EXCEPT ![p] = {}]
             ELSE /\ Goto(p, "scan") /\ exit' = [exit EXCEPT ![p] = None]
                  /\ todo' = [todo EXCEPT ![p] = sources_of(r)]
    /\ found' = [found EXCEPT ![p] = Nothing]
    /\ suppressed' = [suppressed EXCEPT ![p] = {}]
    /\ steady' = [steady EXCEPT ![p] = TRUE]
    /\ UNCHANGED <<trees, baseline, decided, fresh>>

-----------------------------------------------------------------------------
(* One source after the other. *)

\* What a scan of the source finds now, an acceptance's as well as any other's.
Occurring(f) ==
    IF work[f] = None THEN {}
    ELSE UNION {{g} \X work[g] : g \in {x \in {f} \cup Includes[f] : work[x] # None}}

ScanSource(p) ==
    /\ pc[p] = "scan"
    /\ \E f \in todo[p] :
          /\ work[f] # None
          /\ found' = [found EXCEPT ![p][f] = Occurring(f)]
          /\ todo' = [todo EXCEPT ![p] = @ \ {f}]
    /\ UNCHANGED <<trees, baseline, decided, fresh, pc, asks, steady, outcome>>

\* Any exception, the file being gone by now among them, costs this file only; a
\* scan of a single file ends there.
SkipSource(p) ==
    /\ pc[p] = "scan"
    /\ \E f \in todo[p] : todo' = [todo EXCEPT ![p] = @ \ {f}]
    /\ IF asks[p].what \in Sources /\ asks[p].command = "scan"
       THEN Exits(p, 1) ELSE UNCHANGED <<pc, exit>>
    /\ UNCHANGED <<trees, baseline, decided, fresh, asks, found, steady, suppressed>>

Scanned(p) ==
    /\ pc[p] = "scan" /\ todo[p] = {}
    /\ Goto(p, IF asks[p].command = "accept" THEN "truncate" ELSE "sarif")
    /\ UNCHANGED <<trees, baseline, decided, fresh, asks, todo, found, steady, outcome>>

-----------------------------------------------------------------------------
(* The baseline, read. *)

\* What makes two findings the same: the file as well as what is found in it.
WithoutFile(f, issue) == <<CHOOSE g \in Sources : TRUE, issue>>  \* mutant
key_for(f, issue) == <<f, issue>>

ScannedBy(p) == {f \in Sources : found[p][f] # None}
findings_from(p) ==
    UNION {{key_for(f, finding[2]) : finding \in found[p][f]} : f \in ScannedBy(p)}

\* Loading it fails unless there is one and it parses.
loads == baseline # None /\ baseline # Torn

Discounts(p) == asks[p].baseline

\* The report looks a finding up by the file it fails in.
suppressible(p) ==
    UNION {{f} \X {finding \in found[p][f] : finding \in baseline} : f \in ScannedBy(p)}

\* Without a baseline nothing is suppressed.
WriteSarif(p) ==
    /\ pc[p] = "sarif"
    /\ IF Discounts(p) /\ ~loads THEN Exits(p, 2) /\ UNCHANGED suppressed
       ELSE /\ Goto(p, "verdict")
            /\ suppressed' =
                  [suppressed EXCEPT ![p] = IF Discounts(p) THEN suppressible(p) ELSE {}]
            /\ UNCHANGED exit
    /\ UNCHANGED <<trees, baseline, decided, fresh, asks, todo, found, steady>>

new(p) == IF Discounts(p) THEN findings_from(p) \ baseline ELSE findings_from(p)

ApplyBaseline(p) ==
    /\ pc[p] = "verdict"
    /\ IF Discounts(p) /\ ~loads THEN Exits(p, 2)
       ELSE Goto(p, "note") /\ exit' = [exit EXCEPT ![p] = IF new(p) = {} THEN 0 ELSE 1]
    /\ UNCHANGED <<trees, baseline, decided, fresh, asks, todo, found, steady, suppressed>>

\* The summary reads it once more, and may fail to after all.
BaselineNote(p) ==
    /\ pc[p] = "note"
    /\ IF Discounts(p) /\ ~loads THEN Exits(p, 2) ELSE Goto(p, "done") /\ UNCHANGED exit
    /\ UNCHANGED <<trees, baseline, decided, fresh, asks, todo, found, steady, suppressed>>

-----------------------------------------------------------------------------
(* The baseline, written. *)

\* save() writes in place: opening the file empties it.
Truncate(p) ==
    /\ pc[p] = "truncate"
    /\ baseline' = Torn /\ fresh' = {}
    /\ Goto(p, "write")
    /\ UNCHANGED <<trees, decided, asks, todo, found, steady, outcome>>

\* accept records all it found, whatever was accepted before.
OnlyNew(p) == IF decided = {} THEN findings_from(p) ELSE findings_from(p) \ decided  \* mutant
entries(p) == findings_from(p)

\* What was accepted is one thing in one source, wherever the source has it from
\* (not in the code: it is what key_for is for).
Identities(f, findings) == {f} \X {finding[2] : finding \in findings}
Reported(p) == UNION {Identities(f, found[p][f]) : f \in ScannedBy(p)}

\* Two at a time may leave one's text or parts of both: of one that is still writing,
\* or of one that has written, and more, since this one emptied the file.
Write(p) ==
    /\ pc[p] = "write"
    /\ LET others == {q \in Procs \ {p} : pc[q] = "write"} IN
       baseline' \in {entries(p)} \cup {t \in {Torn} : others # {} \/ baseline # Torn}
    /\ decided' = decided \cup Reported(p)
    /\ fresh' = {f \in Sources : baseline' # Torn /\ found[p][f] = Occurring(f)}
    /\ Exits(p, 0)
    /\ found' = [found EXCEPT ![p] = Nothing]
    /\ UNCHANGED <<trees, asks, todo, steady, suppressed>>

-----------------------------------------------------------------------------
(* Everybody else. *)

\* A process is interrupted.
Crash(p) ==
    /\ pc[p] \notin {"idle", "done"}
    /\ Exits(p, None)
    /\ todo' = [todo EXCEPT ![p] = {}]
    /\ found' = [found EXCEPT ![p] = Nothing]
    /\ suppressed' = [suppressed EXCEPT ![p] = {}]
    /\ UNCHANGED <<trees, baseline, decided, fresh, asks, steady>>

Edit ==
    /\ edits < MaxEdits /\ edits' = edits + 1
    /\ \E f \in Files, c \in Content : c # work[f] /\ work' = [work EXCEPT ![f] = c]
    /\ fresh' = {}
    /\ steady' = [p \in Procs |-> FALSE]
    /\ UNCHANGED <<head, baseline, decided, pc, asks, todo, found, outcome>>

\* All of the working tree is committed.
Commit ==
    /\ head # work /\ head' = work
    /\ steady' = [p \in Procs |-> FALSE]
    /\ UNCHANGED <<work, edits, baseline, decided, fresh, pc, asks, todo, found, outcome>>

Next ==
    \/ \E p \in Procs :
          \/ Start(p) \/ ScanSource(p) \/ SkipSource(p) \/ Scanned(p)
          \/ WriteSarif(p) \/ ApplyBaseline(p) \/ BaselineNote(p)
          \/ Truncate(p) \/ Write(p) \/ Crash(p)
    \/ Edit \/ Commit

Spec == Init /\ [][Next]_vars

-----------------------------------------------------------------------------
(* Properties. *)

\* A finding fails the scan, and is shown in the SARIF report, unless somebody has
\* accepted that very finding: not by an acceptance that was interrupted, nor by
\* one of another file ("a baseline read wrongly suppresses real findings, which is
\* the one failure mode that must never be quiet", baseline.py, Baseline.load).
OnlyDecidedIsDiscounted ==
    \A p \in Procs :
        /\ exit[p] = 0 /\ asks[p].command = "scan" => Reported(p) \subseteq decided
        /\ \A s \in suppressed[p] : Identities(s[1], {s[2]}) \subseteq decided

\* Once sources have been accepted as they are, scans of them do not fail ("Record what is
\* already there, then fail only on what appears after", baseline.py, module docstring).
CleanAfterAccept ==
    [][\A p \in Procs :
          pc[p] = "verdict" /\ Discounts(p) /\ steady[p] /\ ScannedBy(p) \subseteq fresh =>
              exit'[p] # 1]_vars

\* A scan of what changed since HEAD that passes has looked at every source that
\* differs, or says that it skipped it: nothing unaccepted is about to be committed
\* in one it has not named ("missing a changed file means a check that silently passed
\* on unverified code", tests/test_scan_changed.py).
ChangedIsScanned ==
    \A p \in Procs :
        pc[p] = "done" /\ exit[p] = 0 /\ steady[p] /\ asks[p].changed =>
            \A f \in Named(asks[p]) :
                work[f] \notin {head[f], None} =>
                    \/ found[p][f] = None /\ f \in sources_of(asks[p])
                    \/ Identities(f, Occurring(f)) \subseteq decided

=============================================================================
