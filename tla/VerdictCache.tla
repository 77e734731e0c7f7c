---------------------------- MODULE VerdictCache ----------------------------
(***************************************************************************)
(* The verdict cache of `veripp scan` (src/veripp/cache.py, _scan and      *)
(* _scan_tree of src/veripp/cli.py), shared by several veripp processes.   *)
(*                                                                         *)
(* A scan computes a key from its inputs, asks the cache for that key and, *)
(* on a miss, scans and stores what it found: it writes the entry to a     *)
(* temporary file named for the key and moves it into place.  The steps of *)
(* different processes interleave, processes die, and the inputs change.   *)
(*                                                                         *)
(* The file system is modelled as far as the cache depends on it: a path   *)
(* names an inode, opening for writing truncates it, an open inode outlives*)
(* its name, and a move replaces what the target path names.               *)
(***************************************************************************)
EXTENDS Naturals

CONSTANTS
    None,
    Empty, Torn,     \* a file without content; one with parts of two bodies
    Procs,           \* veripp processes sharing one cache directory
    Inputs,          \* what a key digests: sources, headers, settings, tools
    Found,           \* what the mechanical pass of a scan of the inputs finds
    Requests,        \* the passes a scan may be asked to make after that one
    Inodes,          \* files the cache directory can hold at once
    EditsDuringScan  \* may the inputs change between key and verdict?

ASSUME NoneIsNothing == None \notin Inodes /\ None \notin Inputs

\* What a pass has work on: the triage pass on counterexamples, the retry pass on
\* functions the bound or the time did not suffice for.
Finding == {"counterexample", "inconclusive"}
Pass == {"triage", "retry"}

ASSUME FoundAssumption == Found \in [Inputs -> SUBSET Finding]
ASSUME RequestsAssumption == Requests \subseteq SUBSET Pass
ASSUME EditsAssumption == EditsDuringScan \in BOOLEAN

VARIABLES
    tree,       \* the inputs as they are now
    temporary,  \* key |-> the inode its .tmp path names
    entry,      \* key |-> the inode its .json path names
    inode,      \* what the inodes hold
    pc, asks, key, report,  \* of each process; asks: for which passes
    fd          \* the inode a process has open for writing

files == <<temporary, entry, inode>>
vars == <<tree, files, pc, asks, key, report, fd>>

-----------------------------------------------------------------------------
(* The types. *)

\* A scan's report, as _cache_payload stores it.  about: the inputs the checker
\* was run on; left: what is among its results; triaged: the triage pass ran,
\* whether or not the LLM answered; retried: something was retried.
Payload == [about : Inputs, left : SUBSET Finding,
            triaged : BOOLEAN, retried : BOOLEAN]

\* What an inode holds: nothing yet, one whole payload, or parts of two.
Contents == Payload \cup {Empty, Torn}

ASSUME UnreadableAssumption == None \notin Payload /\ Empty \notin Payload
                               /\ Torn \notin Payload /\ Empty # Torn

Step == {"idle", "get", "scan", "open", "write", "replace", "served"}

TypeOK ==
    /\ tree \in Inputs
    /\ temporary \in [Inputs -> Inodes \cup {None}]
    /\ entry \in [Inputs -> Inodes \cup {None}]
    /\ inode \in [Inodes -> Contents]
    /\ pc \in [Procs -> Step]
    /\ asks \in [Procs -> SUBSET Pass]
    /\ key \in [Procs -> Inputs \cup {None}]
    /\ report \in [Procs -> Payload \cup {None}]
    /\ fd \in [Procs -> Inodes \cup {None}]

Init ==
    /\ tree \in Inputs
    /\ temporary = [k \in Inputs |-> None]
    /\ entry = [k \in Inputs |-> None]
    /\ inode = [i \in Inodes |-> Empty]
    /\ pc = [p \in Procs |-> "idle"]
    /\ asks = [p \in Procs |-> {}]
    /\ key = [p \in Procs |-> None]
    /\ report = [p \in Procs |-> None]
    /\ fd = [p \in Procs |-> None]

Goto(p, step) == pc' = [pc EXCEPT ![p] = step]

-----------------------------------------------------------------------------
(* Asking the cache. *)

\* The body of the key; everything that feeds a verification goes into it.
key_for == tree

\* A scan starts, with or without an LLM to triage with and a budget for retries.
ComputeKey(p) ==
    /\ pc[p] \in {"idle", "served"}
    /\ Goto(p, "get")
    /\ \E request \in Requests : asks' = [asks EXCEPT ![p] = request]
    /\ key' = [key EXCEPT ![p] = key_for]
    /\ report' = [report EXCEPT ![p] = None]
    /\ UNCHANGED <<tree, files, fd>>

\* What get() makes of an entry: a miss unless the file exists and parses.
\* Neither a beginning of a JSON object nor an object followed by the end of
\* another parses.
LookupUnparsed(k) == IF entry[k] # None THEN inode[entry[k]] ELSE None  \* mutant
lookup(k) ==
    IF entry[k] # None /\ inode[entry[k]] \in Payload THEN inode[entry[k]] ELSE None

\* An entry without a pass does not answer a run that asks for it, where it holds
\* something for that pass to work on.
cache_serves(payload, request) ==
    /\ "triage" \in request /\ "counterexample" \in payload.left => payload.triaged
    /\ "retry" \in request /\ "inconclusive" \in payload.left => payload.retried

Answered(p) ==
    lookup(key[p]) # None /\ cache_serves(lookup(key[p]), asks[p])

Hit(p) ==
    /\ pc[p] = "get" /\ Answered(p)
    /\ report' = [report EXCEPT ![p] = lookup(key[p])]
    /\ Goto(p, "served")
    /\ UNCHANGED <<tree, files, asks, key, fd>>

Miss(p) ==
    /\ pc[p] = "get" /\ ~Answered(p)
    /\ Goto(p, "scan")
    /\ UNCHANGED <<tree, files, asks, key, report, fd>>

\* What a retry may have made of the inconclusive results: settled all of them or
\* not, as proved or as counterexamples.
Settled(found) == {left \in SUBSET Finding : found \ {"inconclusive"} \subseteq left}

\* scan(): the checker reads the inputs as they are now.  The retry pass counts
\* what its budget affords a retry of, perhaps nothing; the triage pass runs over
\* what fails, and the report says triaged whether or not the LLM answered.
Scan(p) ==
    /\ pc[p] = "scan"
    /\ \E retried \in {b \in BOOLEAN : b => "retry" \in asks[p] /\ "inconclusive" \in Found[tree]} :
       \E left \in IF retried THEN Settled(Found[tree]) ELSE {Found[tree]} :
          report' = [report EXCEPT ![p] =
                        [about |-> tree, left |-> left, triaged |-> "triage" \in asks[p],
                         retried |-> retried]]
    /\ Goto(p, "open")
    /\ UNCHANGED <<tree, files, asks, key, fd>>

-----------------------------------------------------------------------------
(* put(). *)

\* The path the entry of key k is written to first.
SharedTemporary(k) == CHOOSE shared \in Inputs : TRUE  \* mutant: one for all keys
path_for_temporary(k) == k

Named(i) == \E k \in Inputs : temporary[k] = i \/ entry[k] = i
Opened(i) == \E p \in Procs : fd[p] = i

\* Opening the temporary file creates it, or truncates another writer's.
OpenTemporary(p) ==
    LET path == path_for_temporary(key[p]) IN
    /\ pc[p] = "open"
    /\ \E i \in Inodes :
          /\ IF temporary[path] = None THEN ~Named(i) /\ ~Opened(i)
             ELSE i = temporary[path]
          /\ temporary' = [temporary EXCEPT ![path] = i]
          /\ inode' = [inode EXCEPT ![i] = Empty]
          /\ fd' = [fd EXCEPT ![p] = i]
    /\ Goto(p, "write")
    /\ UNCHANGED <<tree, entry, asks, key, report>>

\* Each writer starts at the file's beginning.  What it leaves is its own body,
\* unless another has the file open or has written into it.
WriteTemporary(p) ==
    LET alone == inode[fd[p]] = Empty /\ \A q \in Procs \ {p} : fd[q] # fd[p] IN
    /\ pc[p] = "write"
    /\ inode' \in {[inode EXCEPT ![fd[p]] = c] :
                      c \in {report[p]} \cup {x \in {Torn} : ~alone}}
    /\ fd' = [fd EXCEPT ![p] = None]
    /\ Goto(p, "replace")
    /\ UNCHANGED <<tree, temporary, entry, asks, key, report>>

\* The scan is over; whatever it found has been reported.
Finish(p) ==
    /\ Goto(p, "idle")
    /\ asks' = [asks EXCEPT ![p] = {}]
    /\ key' = [key EXCEPT ![p] = None]
    /\ report' = [report EXCEPT ![p] = None]
    /\ fd' = [fd EXCEPT ![p] = None]

\* Moves whatever the temporary path names by now, or fails when another writer
\* has moved it already, which put() swallows.
Replace(p) ==
    LET path == path_for_temporary(key[p]) IN
    /\ pc[p] = "replace"
    /\ IF temporary[path] = None THEN UNCHANGED <<temporary, entry>>
       ELSE /\ entry' = [entry EXCEPT ![key[p]] = temporary[path]]
            /\ temporary' = [temporary EXCEPT ![path] = None]
    /\ Finish(p)
    /\ UNCHANGED <<tree, inode>>

\* An OSError ends put() wherever it was, and does not cost the scan its result;
\* nor does a process that dies here leave anything else behind.
PutFails(p) ==
    /\ pc[p] \in {"open", "write", "replace"}
    /\ Finish(p)
    /\ UNCHANGED <<tree, files>>

-----------------------------------------------------------------------------
(* The environment. *)

\* A process dies before it has anything to store, or its scan raises; another
\* may start in its place.
Crash(p) ==
    /\ pc[p] \in {"get", "scan"}
    /\ Finish(p)
    /\ UNCHANGED <<tree, files>>

\* The inputs change: an edit, a checkout, another checker installed.
Edit ==
    /\ EditsDuringScan \/ \A p \in Procs : pc[p] \notin {"get", "scan"}
    /\ tree' \in Inputs \ {tree}
    /\ UNCHANGED <<files, pc, asks, key, report, fd>>

Next ==
    \/ \E p \in Procs :
          \/ ComputeKey(p) \/ Hit(p) \/ Miss(p) \/ Scan(p)
          \/ OpenTemporary(p) \/ WriteTemporary(p) \/ Replace(p) \/ PutFails(p)
          \/ Crash(p)
    \/ Edit

Spec == Init /\ [][Next]_vars

-----------------------------------------------------------------------------
(* Properties. *)

\* A verdict served from the cache was obtained on the very inputs it is served
\* for, whoever else was writing entries or died writing them ("serving a stale
\* "verified" is a false assurance, which is the one failure a verification tool
\* must never produce", cache.py, module docstring).
ServedVerdictIsCurrent ==
    \A p \in Procs : pc[p] = "served" => report[p].about = key[p]

=============================================================================
