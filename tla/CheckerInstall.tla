--------------------------- MODULE CheckerInstall ---------------------------
(***************************************************************************)
(* The checker on this machine: `veripp install-checker`                   *)
(* (src/veripp/checker.py), which checker a run reaches for (find_esbmc),  *)
(* and the soundness probes every checker must pass, whose results are     *)
(* remembered beside it (check_soundness, src/veripp/esbmc.py).            *)
(*                                                                         *)
(* An installation downloads a release, compares it with the digest pinned *)
(* for it, unpacks it, probes it where it is unpacked, and only then puts  *)
(* it in place of the installed checker, file by file.  It may die at any  *)
(* step.  A verification runs the checker it finds and, when that proves   *)
(* something, asks whether the checker it finds misses planted bugs; a     *)
(* scan does not ask.                                                      *)
(* Everybody shares the directories and the file of remembered results.    *)
(*                                                                         *)
(* Removals are taken to succeed (the code ignores their errors), and the  *)
(* INSTALLED record is left out: nothing reads it.                         *)
(***************************************************************************)
EXTENDS Naturals

CONSTANTS
    None,
    Torn,               \* a memo, or an archive, that is no longer readable
    Builds,             \* releases of ESBMC, by their bytes
    Sound,              \* those that reject every planted bug
    Files,              \* the names a release may hold
    Esbmc,              \* the one of the checker
    Contains,           \* build |-> the files it consists of
    Pins,               \* the digests the versions of veripp or None
    Installers,         \* processes that run `veripp install-checker`
    Verifiers,          \* processes that run `veripp verify`, `scan` or `doctor`
    Names,              \* what $VERIPP_ESBMC may name for a verifier, or None
    Fallback            \* the checker on PATH or in the wheel, or None

ASSUME BuildsAssumption ==
    /\ Sound \subseteq Builds /\ None \notin Builds /\ Torn \notin Builds
    /\ Contains \in [Builds -> SUBSET Files] /\ Esbmc \in Files
    /\ None # Torn
ASSUME PlacesAssumption ==
    /\ Pins \subseteq Builds \cup {None}
    /\ Names \subseteq Builds \cup {None}
    /\ Fallback \in Builds \cup {None}
ASSUME ProcessesAssumption == Installers \cap Verifiers = {}

Procs == Installers \cup Verifiers

VARIABLES
    archive,   \* download/esbmc.zip
    unpacked,  \* download/unpacked: file |-> the build it comes from
    bin,       \* bin/, the installed checker, likewise
    memo,      \* soundness.json: build |-> what its probes found
    pc,        \* of each process
    named,     \* what its $VERIPP_ESBMC names
    place, key, answer, view,  \* its check_soundness(): which binary, the key of
                               \* its bytes, what was found, the memo as read
    used,      \* the build whose proof it is about to present
    replaced   \* history, not in the code: was the installed checker changed after
               \* its run and before check_soundness() looked for it again?

disk == <<archive, unpacked, bin>>
check == <<place, key, answer, view>>
proof == <<used, replaced>>
vars == <<disk, memo, pc, named, check, proof>>

-----------------------------------------------------------------------------
(* The types. *)

\* All the probes found their planted bug, or one missed it.
Answer == {"finds", "misses"}

Directory == [Files -> Builds \cup {None}]
Memo == [Builds -> Answer \cup {None}]
NoFiles == [f \in Files |-> None]
NothingKnown == [b \in Builds |-> None]

ASSUME MemoAssumption == Torn \notin Memo /\ None \notin Memo /\ None \notin Answer

Place == {"unpacked", "named", "managed", "fallback"}

Step == {"idle", "unpack", "extract", "run", "find", "key", "probe",
         "recall", "publish", "judge", "remove", "move", "report", "scanned"}

TypeOK ==
    /\ archive \in Builds \cup {None, Torn}
    /\ unpacked \in Directory /\ bin \in Directory
    /\ memo \in Memo \cup {Torn}
    /\ pc \in [Procs -> Step]
    /\ named \in [Procs -> Builds \cup {None}]
    /\ place \in [Procs -> Place \cup {None}]
    /\ key \in [Procs -> Builds \cup {None}]
    /\ answer \in [Procs -> Answer \cup {None}]
    /\ view \in [Procs -> Memo \cup {None}]
    /\ used \in [Procs -> Builds \cup {None}]
    /\ replaced \in [Procs -> BOOLEAN]

Init ==
    /\ archive = None /\ unpacked = NoFiles /\ bin = NoFiles
    /\ memo = NothingKnown
    /\ pc = [p \in Procs |-> "idle"]
    /\ named = [p \in Procs |-> None]
    /\ place = [p \in Procs |-> None]
    /\ key = [p \in Procs |-> None]
    /\ answer = [p \in Procs |-> None]
    /\ view = [p \in Procs |-> None]
    /\ used = [p \in Procs |-> None]
    /\ replaced = [p \in Procs |-> FALSE]

Goto(p, step) == pc' = [pc EXCEPT ![p] = step]

\* The process returns, raises or dies; what it held in memory is gone.
Stop(p) ==
    /\ Goto(p, "idle")
    /\ named' = [named EXCEPT ![p] = None]
    /\ place' = [place EXCEPT ![p] = None]
    /\ key' = [key EXCEPT ![p] = None]
    /\ answer' = [answer EXCEPT ![p] = None]
    /\ view' = [view EXCEPT ![p] = None]
    /\ used' = [used EXCEPT ![p] = None]
    /\ replaced' = [replaced EXCEPT ![p] = FALSE]

-----------------------------------------------------------------------------
(* install(), up to the probes. *)

\* What a download that does not match its pin takes with it: the staging area.
DiscardEverything == archive' = None /\ unpacked' = NoFiles /\ bin' = NoFiles  \* mutant
discard_download == archive' = None /\ unpacked' = NoFiles /\ UNCHANGED bin

\* Any bytes may arrive, a whole release or not; a pin lets one build through.
Download(p) ==
    /\ p \in Installers /\ pc[p] = "idle"
    /\ \E got \in Builds \cup {Torn}, pin \in Pins :
          IF pin # None /\ got # pin
          THEN discard_download /\ Stop(p)
          ELSE /\ archive' = got /\ Goto(p, "unpack")
               /\ UNCHANGED <<unpacked, bin, named, check, proof>>
    /\ UNCHANGED memo

\* The connection breaks: whatever had arrived stays.
DownloadFails(p) ==
    /\ p \in Installers /\ pc[p] = "idle"
    /\ archive' = Torn /\ Stop(p)
    /\ UNCHANGED <<unpacked, bin, memo>>

\* Nothing of an earlier attempt is left among what is about to be extracted.
UnclearedUnpacked == unpacked  \* mutant
cleared_unpacked == NoFiles

Unpack(p) ==
    /\ pc[p] = "unpack"
    /\ unpacked' = cleared_unpacked
    /\ IF archive \in Builds THEN Goto(p, "extract") /\ UNCHANGED <<named, check, proof>>
       ELSE Stop(p)
    /\ UNCHANGED <<archive, bin, memo>>

\* One file after the other; then the probes, of the checker among them.
Extract(p) ==
    /\ pc[p] = "extract"
    /\ IF archive \notin Builds THEN Stop(p) /\ UNCHANGED unpacked
       ELSE \/ \E f \in Contains[archive] :
                  /\ unpacked[f] # archive
                  /\ unpacked' = [unpacked EXCEPT ![f] = archive]
                  /\ UNCHANGED <<pc, named, check, proof>>
            \/ /\ \A f \in Contains[archive] : unpacked[f] = archive
               /\ unpacked[Esbmc] # None
               /\ place' = [place EXCEPT ![p] = "unpacked"]
               /\ Goto(p, "key")
               /\ UNCHANGED <<unpacked, named, key, answer, view, proof>>
            \/ /\ \A f \in Contains[archive] : unpacked[f] = archive
               /\ unpacked[Esbmc] = None
               /\ Stop(p)
               /\ UNCHANGED unpacked
    /\ UNCHANGED <<archive, bin, memo>>

-----------------------------------------------------------------------------
(* check_soundness(). *)

\* Which checker a verifier reaches for: the most deliberate choice first.
find_esbmc(p) ==
    IF named[p] # None THEN "named"
    ELSE IF bin[Esbmc] # None THEN "managed"
    ELSE "fallback"

\* What is there now, if anything.
BinaryAt(p, where) ==
    IF where = "unpacked" THEN unpacked[Esbmc]
    ELSE IF where = "managed" THEN bin[Esbmc]
    ELSE IF where = "named" THEN named[p]
    ELSE Fallback

\* A checker that lacks a file of its release does not start.
Complete(dir) == \A f \in Contains[dir[Esbmc]] : dir[f] = dir[Esbmc]
Starts(p, where) ==
    /\ BinaryAt(p, where) # None
    /\ where = "unpacked" => Complete(unpacked)
    /\ where = "managed" => Complete(bin)

\* The bytes of the checker; None stands for a key nobody will use again.
VersionKey(binary) == CHOOSE b \in Builds : TRUE  \* mutant: the version it reports
probe_key(binary) == binary

known(k) == IF memo = Torn \/ k = None THEN None ELSE memo[k]

\* A verifier asks the memo first; installers and doctor do not.
AskMemo(p) ==
    LET k == probe_key(BinaryAt(p, place[p])) IN
    /\ pc[p] = "key"
    /\ key' = [key EXCEPT ![p] = k]
    /\ IF used[p] # None /\ known(k) # None
       THEN answer' = [answer EXCEPT ![p] = known(k)] /\ Goto(p, "report")
       ELSE UNCHANGED answer /\ Goto(p, "probe")
    /\ UNCHANGED <<disk, memo, named, place, view, proof>>

\* Only a checker that starts and finds them all passes; one that could may still
\* run out of time.
ProbesOf(p, where) ==
    {"misses"} \cup {a \in {"finds"} : Starts(p, where) /\ BinaryAt(p, where) \in Sound}

RunProbes(p) ==
    /\ pc[p] = "probe"
    /\ \E a \in ProbesOf(p, place[p]) : answer' = [answer EXCEPT ![p] = a]
    /\ Goto(p, "recall")
    /\ UNCHANGED <<disk, memo, named, place, key, view, proof>>

\* An unreadable memo is as good as none.
RememberedTorn == memo  \* mutant
remembered == IF memo = Torn THEN NothingKnown ELSE memo

\* The memo is read, to be written back with one more entry.
Recall(p) ==
    /\ pc[p] = "recall"
    /\ view' = [view EXCEPT ![p] = remembered]
    /\ Goto(p, "publish")
    /\ UNCHANGED <<disk, memo, named, place, key, answer, proof>>

Amended(p) ==
    IF key[p] = None THEN view[p] ELSE [view[p] EXCEPT ![key[p]] = answer[p]]

\* All writers share one temporary file: moving it into place stores what this one
\* wrote, or what another has written meanwhile, or parts of both, or fails.
Published(p) ==
    LET others == {q \in Procs \ {p} : pc[q] = "publish"} IN
    {memo, Amended(p)} \cup {Amended(q) : q \in others}
        \cup {t \in {Torn} : others # {}}

Publish(p) ==
    /\ pc[p] = "publish"
    /\ memo' \in Published(p)
    /\ place' = [place EXCEPT ![p] = None]
    /\ key' = [key EXCEPT ![p] = None]
    /\ view' = [view EXCEPT ![p] = None]
    /\ Goto(p, IF p \in Installers THEN "judge" ELSE "report")
    /\ UNCHANGED <<disk, named, answer, proof>>

-----------------------------------------------------------------------------
(* install(), from the probes on. *)

NotUnknown(a) == a # None  \* mutant: that the probes ran is enough
passed(a) == a = "finds"

\* The probes decide whether the release becomes the checker, or is deleted.
Judge(p) ==
    /\ pc[p] = "judge"
    /\ \/ /\ passed(answer[p])
          /\ Goto(p, "remove")
          /\ UNCHANGED <<unpacked, named, check, proof>>
       \/ ~passed(answer[p]) /\ unpacked' = NoFiles /\ Stop(p)
    /\ UNCHANGED <<archive, bin, memo>>

\* The checker could not even be probed: deleted as well.
CheckRaises(p) ==
    /\ p \in Installers /\ pc[p] \in {"key", "probe"}
    /\ unpacked' = NoFiles /\ Stop(p)
    /\ UNCHANGED <<archive, bin, memo>>

\* The whole directory makes way, not the checker alone.
CheckerAlone == {Esbmc}  \* mutant
removed == Files

Remove(p) ==
    /\ pc[p] = "remove"
    /\ \/ \E f \in removed :
             /\ bin[f] # None
             /\ bin' = [bin EXCEPT ![f] = None]
             /\ replaced' = [q \in Procs |-> replaced[q] \/ pc[q] = "find"]
             /\ UNCHANGED pc
       \/ /\ \A f \in removed : bin[f] = None
          /\ Goto(p, "move") /\ UNCHANGED <<bin, replaced>>
    /\ UNCHANGED <<archive, unpacked, memo, named, check, used>>

\* Whatever is unpacked by now is moved, in any order; then staging is removed.
Move(p) ==
    /\ pc[p] = "move"
    /\ \/ \E f \in Files :
             /\ unpacked[f] # None
             /\ bin' = [bin EXCEPT ![f] = unpacked[f]]
             /\ unpacked' = [unpacked EXCEPT ![f] = None]
             /\ replaced' = [q \in Procs |-> replaced[q] \/ pc[q] = "find"]
             /\ UNCHANGED <<archive, pc, named, check, used>>
       \/ /\ unpacked = NoFiles
          /\ archive' = None /\ UNCHANGED <<unpacked, bin>>
          /\ Stop(p)
    /\ UNCHANGED memo

-----------------------------------------------------------------------------
(* Verifications, scans and `veripp doctor`. *)

\* A verifier starts, with or without $VERIPP_ESBMC in its environment.
StartVerifier(p) ==
    /\ p \in Verifiers /\ pc[p] = "idle"
    /\ Goto(p, "run")
    /\ \E b \in Names : named' = [named EXCEPT ![p] = b]
    /\ UNCHANGED <<disk, memo, check, proof>>

\* The checker proves something, unless there is none that starts.
Verify(p) ==
    /\ pc[p] = "run" /\ Starts(p, find_esbmc(p))
    /\ used' = [used EXCEPT ![p] = BinaryAt(p, find_esbmc(p))]
    /\ Goto(p, "find")
    /\ UNCHANGED <<disk, memo, named, check, replaced>>

\* `veripp scan` lists what the checker proves, and asks nothing about the checker.
ScanProves(p) ==
    /\ pc[p] = "run" /\ Starts(p, find_esbmc(p))
    /\ used' = [used EXCEPT ![p] = BinaryAt(p, find_esbmc(p))]
    /\ Goto(p, "scanned")
    /\ UNCHANGED <<disk, memo, named, check, replaced>>

\* check_soundness() looks for the checker again, for it is not told which one ran.
\* Finding none is an error the verification ignores.
InstalledOne(p) == "managed"  \* mutant
checked_place(p) == find_esbmc(p)

FindAgain(p) ==
    /\ pc[p] = "find"
    /\ place' = [place EXCEPT ![p] = checked_place(p)]
    /\ Goto(p, IF BinaryAt(p, checked_place(p)) = None THEN "report" ELSE "key")
    /\ UNCHANGED <<disk, memo, named, key, answer, view, proof>>

\* doctor proves nothing: it probes what it finds, whatever the memo says.
Doctor(p) ==
    /\ pc[p] = "run" /\ BinaryAt(p, find_esbmc(p)) # None
    /\ place' = [place EXCEPT ![p] = find_esbmc(p)]
    /\ Goto(p, "key")
    /\ UNCHANGED <<disk, memo, named, key, answer, view, proof>>

\* The report is out: with the names of the probes missed, if any were.
Present(p) ==
    /\ pc[p] \in {"report", "scanned"}
    /\ Stop(p)
    /\ UNCHANGED <<disk, memo>>

Warned(p) == answer[p] = "misses"

Crash(p) ==
    /\ pc[p] # "idle"
    /\ Stop(p)
    /\ UNCHANGED <<disk, memo>>

Next ==
    \E p \in Procs :
        \/ Download(p) \/ DownloadFails(p) \/ Unpack(p) \/ Extract(p)
        \/ AskMemo(p) \/ RunProbes(p) \/ Recall(p) \/ Publish(p)
        \/ Judge(p) \/ CheckRaises(p) \/ Remove(p) \/ Move(p)
        \/ StartVerifier(p) \/ Verify(p) \/ ScanProves(p) \/ FindAgain(p) \/ Doctor(p)
        \/ Present(p) \/ Crash(p)

Spec == Init /\ [][Next]_vars

-----------------------------------------------------------------------------
(* Properties. *)

\* Whatever the installed checker consists of has passed the probes ("Nothing is
\* accepted until it has passed the same soundness probes `veripp doctor` runs",
\* checker.py, module docstring), wherever an installation died.
NothingUnprobed == \A f \in Files : bin[f] # None => bin[f] \in Sound

\* The installed checker is one release or a part of one, never a mixture of two,
\* whatever earlier attempts have left behind ("Moving the whole release keeps the
\* binary next to the libraries it may need", checker.py, install).
OneRelease == \A f, g \in Files : bin[f] # None /\ bin[g] # None => bin[f] = bin[g]

\* What is remembered of a checker is true of its bytes, whoever wrote the memo at
\* the same time or died writing it ("results are reused for a checker whose bytes
\* were probed before", esbmc.py, check_soundness).
MemoIsTrue == \A b \in Builds : memo # Torn /\ memo[b] = "finds" => b \in Sound

\* What `veripp verify` proves with a checker that misses planted bugs is presented
\* with that said (cli.py, _verify: "Remembered per checker"), whatever is installed
\* in the meantime and whoever writes the memo, with one exception: the installed
\* checker changed after the run and before check_soundness() looked for it again,
\* so that the one asked about need not be the one that ran.
NoSilentUnsoundness ==
    \A p \in Verifiers :
        pc[p] = "report" /\ used[p] # None /\ ~Warned(p) => used[p] \in Sound \/ replaced[p]

\* An installed checker is given up only for one that has passed: no failing
\* download and no failing probe costs the user the checker there was.
FailureKeepsChecker ==
    [][\A f \in Files : bin[f] # None /\ bin'[f] # bin[f] =>
          \E p \in Installers :
             pc[p] \in {"remove", "move"} /\ \E g \in Files : unpacked[g] \in Sound]_vars

=============================================================================
