------------------------ MODULE CheckerInstallProofs ------------------------
(***************************************************************************)
(* Proofs about CheckerInstall.                                            *)
(*                                                                         *)
(* The probes run on files other steps may change: that what passed them   *)
(* is what gets installed, and what is remembered is remembered of the     *)
(* bytes probed, holds because the files an installation probes stay what  *)
(* they were until it has moved them, and because whatever takes the place *)
(* of the installed checker is sound, whenever a verification looks.  The  *)
(* invariant says so for each step a process may be at.                    *)
(***************************************************************************)
EXTENDS CheckerInstall, TLAPS

\* One installation at a time, beside any number of verifications.
Alone == \A p, q \in Installers : p = q

Checking == {"key", "probe", "recall", "publish", "judge"}
Answered == {"recall", "publish", "judge", "report"}

\* Everything in a directory comes from one build.
From(dir, b) == \A f \in Files : dir[f] \in {None, b}

\* An installation: what it unpacks is one archive, whose checker is the one probed.
InstallerInv(p) ==
    /\ pc[p] \in {"idle", "unpack", "extract", "remove", "move"} \cup Checking
    /\ pc[p] \in Checking \ {"judge"} => place[p] = "unpacked"
    /\ pc[p] \in {"remove"} \cup Checking => unpacked[Esbmc] = archive
    /\ pc[p] \in {"extract", "remove", "move"} \cup Checking =>
          archive \in Builds /\ From(unpacked, archive)
    /\ pc[p] \in Answered /\ answer[p] = "finds" => archive \in Sound
    /\ pc[p] \in {"remove", "move"} => archive \in Sound
    /\ pc[p] = "move" => From(bin, archive)
    /\ used[p] = None

\* The checker of a proof is sound, or is where it was found and stays there, or has
\* made way before it was looked for again.
Accounted(p, where) ==
    used[p] \in Sound \/ replaced[p] \/ (where # "managed" /\ used[p] = BinaryAt(p, where))

\* A verification: the checker asked about is the one that was run.
VerifierInv(p) ==
    /\ pc[p] \in {"idle", "run", "find", "report", "scanned"} \cup (Checking \ {"judge"})
    /\ pc[p] \in Checking => place[p] \in {"named", "managed", "fallback"}
    /\ pc[p] \in {"idle", "run"} => used[p] = None
    /\ pc[p] = "find" =>
          used[p] # None /\ (used[p] = BinaryAt(p, find_esbmc(p)) \/ replaced[p])
    /\ pc[p] \in {"key", "probe"} /\ used[p] # None => Accounted(p, place[p])
    /\ pc[p] \in Answered /\ used[p] # None =>
          answer[p] = "misses" \/ used[p] \in Sound \/ replaced[p]

\* A check: the key is of the bytes the probes are run on, or both are of checkers
\* that were installed.
CheckInv(p) ==
    /\ pc[p] = "probe" =>
          \/ key[p] = BinaryAt(p, place[p])
          \/ place[p] = "managed" /\ key[p] \in Sound \cup {None}
    /\ pc[p] \in {"recall", "publish"} =>
          answer[p] \in Answer /\ (answer[p] = "finds" => key[p] \in Sound \cup {None})
    /\ pc[p] = "publish" => view[p] \in Memo
    /\ \A b \in Builds : view[p] \in Memo /\ view[p][b] = "finds" => b \in Sound

IInv ==
    /\ TypeOK
    /\ \A p \in Installers : InstallerInv(p)
    /\ \A p \in Verifiers : VerifierInv(p)
    /\ \A p \in Procs : CheckInv(p)
    /\ NothingUnprobed /\ OneRelease /\ MemoIsTrue

-----------------------------------------------------------------------------
(* The types. *)

LEMMA ConstantsDiffer ==
    /\ None \notin Builds /\ Torn \notin Builds /\ Sound \subseteq Builds
    /\ Torn \notin Memo /\ None \notin Memo /\ None \notin Answer /\ None # Torn
    /\ Esbmc \in Files
    /\ Installers \subseteq Procs /\ Verifiers \subseteq Procs
    /\ Procs = Installers \cup Verifiers /\ Installers \cap Verifiers = {}
    /\ NoFiles \in Directory /\ NothingKnown \in Memo
    BY BuildsAssumption, ProcessesAssumption, MemoAssumption
       DEF Procs, NoFiles, Directory, NothingKnown, Memo

LEMMA InitTypes == Init => TypeOK
    BY ConstantsDiffer DEF Init, TypeOK, Step

LEMMA StopTypes ==
    ASSUME TypeOK, NEW p \in Procs, Stop(p)
    PROVE  /\ pc' \in [Procs -> Step]
           /\ named' \in [Procs -> Builds \cup {None}]
           /\ place' \in [Procs -> Place \cup {None}] /\ key' \in [Procs -> Builds \cup {None}]
           /\ answer' \in [Procs -> Answer \cup {None}] /\ view' \in [Procs -> Memo \cup {None}]
           /\ used' \in [Procs -> Builds \cup {None}] /\ replaced' \in [Procs -> BOOLEAN]
    BY DEF TypeOK, Stop, Goto, Step

LEMMA BinaryTypes ==
    ASSUME TypeOK, NEW p \in Procs
    PROVE  /\ \A where : BinaryAt(p, where) \in Builds \cup {None}
           /\ find_esbmc(p) \in {"named", "managed", "fallback"}
    BY ConstantsDiffer, PlacesAssumption DEF TypeOK, BinaryAt, find_esbmc, Directory

LEMMA AmendedTypes ==
    ASSUME TypeOK, NEW p \in Procs, view[p] \in Memo, answer[p] \in Answer
    PROVE  Amended(p) \in Memo
    BY DEF TypeOK, Amended, Memo

LEMMA TypesPreserved ==
    ASSUME IInv, [Next]_vars
    PROVE  TypeOK'
    <1> USE DEF IInv, proof
    <1>1. CASE UNCHANGED vars
        BY <1>1 DEF vars, disk, check, proof, TypeOK
    <1>2. ASSUME NEW p \in Procs, Present(p) \/ Crash(p)
           PROVE  TypeOK'
        BY <1>2, StopTypes DEF Present, Crash, TypeOK, disk
    <1>3. ASSUME NEW p \in Procs, Download(p)
          PROVE  TypeOK'
        BY <1>3, StopTypes, ConstantsDiffer
           DEF Download, discard_download, TypeOK, Goto, Step, check
    <1>4. ASSUME NEW p \in Procs, DownloadFails(p)
          PROVE  TypeOK'
        BY <1>4, StopTypes DEF DownloadFails, TypeOK
    <1>5. ASSUME NEW p \in Procs, Unpack(p)
          PROVE  TypeOK'
        BY <1>5, StopTypes, ConstantsDiffer
           DEF Unpack, cleared_unpacked, TypeOK, Goto, Step, check
    <1>6. ASSUME NEW p \in Procs, Extract(p)
          PROVE  TypeOK'
        <2>1. CASE Stop(p) /\ UNCHANGED unpacked
            BY <1>6, <2>1, StopTypes DEF Extract, TypeOK
        <2>2. CASE archive \in Builds /\ \E f \in Contains[archive] :
                      /\ unpacked' = [unpacked EXCEPT ![f] = archive]
                      /\ UNCHANGED <<pc, named, check, proof>>
            <3>1. Contains[archive] \subseteq Files
                BY <2>2, BuildsAssumption
            <3> QED BY <1>6, <2>2, <3>1 DEF Extract, TypeOK, Directory, check
        <2>3. CASE /\ place' = [place EXCEPT ![p] = "unpacked"]
                   /\ Goto(p, "key")
                   /\ UNCHANGED <<unpacked, named, key, answer, view, proof>>
            BY <1>6, <2>3 DEF Extract, TypeOK, Goto, Step, Place
        <2> QED BY <1>6, <2>1, <2>2, <2>3 DEF Extract
    <1>7. ASSUME NEW p \in Procs, AskMemo(p)
          PROVE  TypeOK'
        <2>1. probe_key(BinaryAt(p, place[p])) \in Builds \cup {None}
            BY BinaryTypes DEF probe_key
        <2>2. \A k \in Builds \cup {None} : known(k) \in Answer \cup {None}
            BY DEF known, TypeOK, Memo
        <2> QED BY <1>7, <2>1, <2>2 DEF AskMemo, TypeOK, Goto, Step, disk
    <1>8. ASSUME NEW p \in Procs, RunProbes(p)
          PROVE  TypeOK'
        BY <1>8 DEF RunProbes, ProbesOf, TypeOK, Goto, Step, Answer, disk
    <1>9. ASSUME NEW p \in Procs, Recall(p)
          PROVE  TypeOK'
        BY <1>9, ConstantsDiffer DEF Recall, remembered, TypeOK, Goto, Step, disk
    <1>10. ASSUME NEW p \in Procs, Publish(p)
           PROVE  TypeOK'
        <2>1. \A q \in Procs : pc[q] = "publish" => Amended(q) \in Memo
            BY AmendedTypes DEF CheckInv
        <2>2. memo' \in Memo \cup {Torn}
            BY <1>10, <2>1 DEF Publish, Published, TypeOK
        <2> QED BY <1>10, <2>2 DEF Publish, TypeOK, Goto, Step, disk
    <1>11. ASSUME NEW p \in Procs, Judge(p)
           PROVE  TypeOK'
        BY <1>11, StopTypes, ConstantsDiffer DEF Judge, TypeOK, Goto, Step, check
    <1>12. ASSUME NEW p \in Procs, CheckRaises(p)
           PROVE  TypeOK'
        BY <1>12, StopTypes, ConstantsDiffer DEF CheckRaises, TypeOK
    <1>13. ASSUME NEW p \in Procs, Remove(p)
           PROVE  TypeOK'
        BY <1>13 DEF Remove, removed, TypeOK, Goto, Step, Directory, check
    <1>14. ASSUME NEW p \in Procs, Move(p)
           PROVE  TypeOK'
        <2>1. CASE unpacked = NoFiles /\ archive' = None /\ UNCHANGED <<unpacked, bin>> /\ Stop(p)
            BY <1>14, <2>1, StopTypes DEF Move, TypeOK
        <2>2. CASE \E f \in Files :
                     /\ bin' = [bin EXCEPT ![f] = unpacked[f]]
                     /\ unpacked' = [unpacked EXCEPT ![f] = None]
                     /\ replaced' = [q \in Procs |-> replaced[q] \/ pc[q] = "find"]
                     /\ UNCHANGED <<archive, pc, named, check, used>>
            BY <1>14, <2>2 DEF Move, TypeOK, Directory, check
        <2> QED BY <1>14, <2>1, <2>2 DEF Move
    <1>15. ASSUME NEW p \in Procs, StartVerifier(p)
           PROVE  TypeOK'
        BY <1>15, PlacesAssumption DEF StartVerifier, TypeOK, Goto, Step, disk, check
    <1>16. ASSUME NEW p \in Procs, Verify(p) \/ ScanProves(p)
           PROVE  TypeOK'
        BY <1>16, BinaryTypes DEF Verify, ScanProves, TypeOK, Goto, Step, disk, check
    <1>17. ASSUME NEW p \in Procs, FindAgain(p)
           PROVE  TypeOK'
        BY <1>17, BinaryTypes DEF FindAgain, checked_place, TypeOK, Goto, Step, Place, disk
    <1>18. ASSUME NEW p \in Procs, Doctor(p)
           PROVE  TypeOK'
        BY <1>18, BinaryTypes DEF Doctor, TypeOK, Goto, Step, Place, disk
    <1> QED
        BY <1>1, <1>2, <1>3, <1>4, <1>5, <1>6, <1>7, <1>8, <1>9, <1>10, <1>11, <1>12, <1>13,
           <1>14, <1>15, <1>16, <1>17, <1>18 DEF Next

-----------------------------------------------------------------------------
(* What a step leaves alone. *)

\* The process q keeps all it holds.
Keeps(q) ==
    /\ pc'[q] = pc[q] /\ named'[q] = named[q] /\ place'[q] = place[q]
    /\ key'[q] = key[q] /\ answer'[q] = answer[q] /\ view'[q] = view[q] /\ used'[q] = used[q]

Action(p) ==
    \/ Download(p) \/ DownloadFails(p) \/ Unpack(p) \/ Extract(p)
    \/ AskMemo(p) \/ RunProbes(p) \/ Recall(p) \/ Publish(p)
    \/ Judge(p) \/ CheckRaises(p) \/ Remove(p) \/ Move(p)
    \/ StartVerifier(p) \/ Verify(p) \/ ScanProves(p) \/ FindAgain(p) \/ Doctor(p)
    \/ Present(p) \/ Crash(p)

LEMMA StopKeeps ==
    ASSUME TypeOK, NEW p \in Procs, NEW q \in Procs, p # q, Stop(p)
    PROVE  Keeps(q)
    BY DEF TypeOK, Stop, Goto, Keeps

LEMMA OthersKeep ==
    ASSUME TypeOK, NEW p \in Procs, NEW q \in Procs, p # q, Action(p)
    PROVE  Keeps(q)
    <1> USE DEF Keeps, Goto, check, proof
    <1>1. CASE Stop(p)
        BY <1>1, StopKeeps
    <1>2. CASE UNCHANGED <<pc, named, check, proof>>
        BY <1>2
    <1>3. CASE Download(p) \/ DownloadFails(p) \/ Unpack(p)
        BY <1>1, <1>3 DEF TypeOK, Download, DownloadFails, Unpack
    <1>4. CASE Extract(p)
        BY <1>1, <1>2, <1>4 DEF TypeOK, Extract
    <1>5. CASE AskMemo(p) \/ RunProbes(p) \/ Recall(p) \/ Publish(p)
        BY <1>5 DEF TypeOK, AskMemo, RunProbes, Recall, Publish
    <1>6. CASE Judge(p) \/ CheckRaises(p) \/ Remove(p) \/ Move(p)
        BY <1>1, <1>6 DEF TypeOK, Judge, CheckRaises, Remove, Move
    <1>7. CASE StartVerifier(p) \/ Verify(p) \/ ScanProves(p) \/ FindAgain(p) \/ Doctor(p)
        BY <1>7 DEF TypeOK, StartVerifier, Verify, ScanProves, FindAgain, Doctor
    <1> QED BY <1>1, <1>3, <1>4, <1>5, <1>6, <1>7 DEF Action, Present, Crash

\* A process that holds nothing satisfies what is asked of it.
LEMMA StoppedIsFine ==
    ASSUME TypeOK, NEW p \in Procs, Stop(p)
    PROVE  /\ p \in Installers => InstallerInv(p)'
           /\ p \in Verifiers => VerifierInv(p)'
           /\ CheckInv(p)'
           /\ pc'[p] = "idle"
    BY ConstantsDiffer
       DEF TypeOK, Stop, Goto, InstallerInv, VerifierInv, CheckInv, Checking, Answered

\* A step of another process that changes the installed checker is on record if the
\* process had run it and not looked for it again.
LEMMA ChangesAreRecorded ==
    ASSUME TypeOK, NEW p \in Procs, NEW q \in Procs, p # q, Action(p)
    PROVE  /\ replaced[q] => replaced'[q]
           /\ p \in Installers /\ bin' # bin /\ pc[q] = "find" => replaced'[q]
    <1> USE DEF proof
    <1>1. CASE Stop(p) /\ bin' = bin
        BY <1>1 DEF TypeOK, Stop
    <1>2. CASE UNCHANGED <<bin, replaced>>
        BY <1>2
    <1>3. CASE Download(p) \/ DownloadFails(p) \/ Unpack(p)
        BY <1>1, <1>2, <1>3 DEF Download, discard_download, DownloadFails, Unpack
    <1>4. CASE Extract(p)
        BY <1>1, <1>2, <1>4 DEF Extract
    <1>5. CASE AskMemo(p) \/ RunProbes(p) \/ Recall(p) \/ Publish(p)
        BY <1>2, <1>5 DEF AskMemo, RunProbes, Recall, Publish, disk
    <1>6. CASE Judge(p) \/ CheckRaises(p)
        BY <1>1, <1>2, <1>6 DEF Judge, CheckRaises
    <1>7. CASE Remove(p) \/ Move(p)
        BY <1>1, <1>2, <1>7 DEF Remove, Move
    <1>8. CASE StartVerifier(p) \/ Verify(p) \/ ScanProves(p) \/ FindAgain(p) \/ Doctor(p)
        BY <1>2, <1>8 DEF StartVerifier, Verify, ScanProves, FindAgain, Doctor, disk
    <1>9. CASE Present(p) \/ Crash(p)
        BY <1>1, <1>9 DEF Present, Crash, disk
    <1> QED BY <1>3, <1>4, <1>5, <1>6, <1>7, <1>8, <1>9 DEF Action

\* A verification relies on no file but those of the installed checker: they are
\* sound before they are changed, and that they are changed is on record.
LEMMA OtherVerifiers ==
    ASSUME IInv, NEW q \in Verifiers, Keeps(q), replaced[q] => replaced'[q],
           bin' # bin /\ pc[q] = "find" => replaced'[q]
    PROVE  VerifierInv(q)' /\ CheckInv(q)'
    <1> USE ConstantsDiffer
    <1>1. VerifierInv(q) /\ CheckInv(q)
        BY DEF IInv
    <1>2. \A where \in {"named", "fallback"} : BinaryAt(q, where)' = BinaryAt(q, where)
        BY DEF Keeps, BinaryAt
    <1>3. BinaryAt(q, "managed") \in Sound \cup {None}
        BY DEF IInv, NothingUnprobed, BinaryAt
    <1>4. pc'[q] = "find" =>
             used'[q] # None /\ (used'[q] = BinaryAt(q, find_esbmc(q))' \/ replaced'[q])
        <2>1. bin' = bin => BinaryAt(q, find_esbmc(q))' = BinaryAt(q, find_esbmc(q))
            BY DEF Keeps, find_esbmc, BinaryAt
        <2> QED BY <1>1, <2>1 DEF Keeps, VerifierInv
    <1>5. pc'[q] \in {"key", "probe"} /\ used'[q] # None => Accounted(q, place[q])'
        BY <1>1, <1>2 DEF Keeps, VerifierInv, Accounted, Checking
    <1>6. VerifierInv(q)'
        BY <1>1, <1>4, <1>5 DEF Keeps, VerifierInv, Accounted, Checking, Answered
    <1>7. pc'[q] = "probe" =>
             \/ key'[q] = BinaryAt(q, place[q])'
             \/ place'[q] = "managed" /\ key'[q] \in Sound \cup {None}
        BY <1>1, <1>2, <1>3 DEF Keeps, VerifierInv, CheckInv, Checking
    <1>8. CheckInv(q)'
        BY <1>1, <1>7 DEF Keeps, CheckInv
    <1> QED BY <1>6, <1>8

LEMMA OtherInstallers ==
    ASSUME IInv, NEW q \in Installers, Keeps(q), UNCHANGED disk
    PROVE  InstallerInv(q)' /\ CheckInv(q)'
    <1>1. InstallerInv(q) /\ CheckInv(q)
        BY ConstantsDiffer DEF IInv
    <1>2. InstallerInv(q)'
        BY <1>1 DEF Keeps, disk, InstallerInv, From, Checking, Answered
    <1>3. pc[q] = "probe" => BinaryAt(q, place[q])' = BinaryAt(q, place[q])
        BY DEF Keeps, disk, BinaryAt
    <1>4. CheckInv(q)'
        BY <1>1, <1>3 DEF Keeps, CheckInv
    <1> QED BY <1>2, <1>4

-----------------------------------------------------------------------------
(* The invariant. *)

\* What a step of p owes: its own part of the invariant, the files' and the memo's, and
\* to touch what others rely on only where it may.
Owes(p) ==
    /\ p \in Installers => InstallerInv(p)'
    /\ p \in Verifiers => VerifierInv(p)' /\ UNCHANGED disk
    /\ CheckInv(p)'
    /\ NothingUnprobed' /\ OneRelease' /\ MemoIsTrue'
    /\ bin' = bin \/ (p \in Installers /\ pc[p] \in {"remove", "move"})

LEMMA OwedIsEnough ==
    ASSUME IInv, Alone, TypeOK', NEW p \in Procs, Action(p), Owes(p)
    PROVE  IInv'
    <1> USE ConstantsDiffer
    <1>1. \A q \in Procs \ {p} : Keeps(q)
        BY OthersKeep DEF IInv
    <1>2. \A q \in Verifiers \ {p} : /\ replaced[q] => replaced'[q]
                                     /\ bin' # bin /\ pc[q] = "find" => replaced'[q]
        BY ChangesAreRecorded DEF Owes, IInv
    <1>3. \A q \in Verifiers : VerifierInv(q)' /\ CheckInv(q)'
        BY <1>1, <1>2, OtherVerifiers DEF Owes
    <1>4. \A q \in Installers : InstallerInv(q)' /\ CheckInv(q)'
        <2>1. \A q \in Installers \ {p} : p \in Verifiers
            BY DEF Alone
        <2> QED BY <1>1, <2>1, OtherInstallers DEF Owes
    <1> QED BY <1>3, <1>4 DEF IInv, Owes

\* The kind of process shows in the step it is at.
LEMMA Kinds ==
    ASSUME IInv, NEW p \in Procs
    PROVE  /\ pc[p] \in {"download", "unpack", "extract", "judge", "remove", "move"} =>
                 p \in Installers /\ p \notin Verifiers /\ InstallerInv(p)
           /\ pc[p] \in {"run", "find", "report"} =>
                 p \in Verifiers /\ p \notin Installers /\ VerifierInv(p)
           /\ p \in Installers => p \notin Verifiers /\ InstallerInv(p)
           /\ p \in Verifiers => p \notin Installers /\ VerifierInv(p)
           /\ CheckInv(p)
           /\ TypeOK /\ NothingUnprobed /\ OneRelease /\ MemoIsTrue
    BY ConstantsDiffer DEF IInv, InstallerInv, VerifierInv, Checking

LEMMA StoppedOwes ==
    ASSUME IInv, NEW p \in Procs, Stop(p), bin' = bin, memo' = memo,
           p \in Verifiers => UNCHANGED disk
    PROVE  Owes(p)
    BY Kinds, StoppedIsFine DEF Owes, NothingUnprobed, OneRelease, MemoIsTrue

LEMMA DownloadOwes ==
    ASSUME IInv, NEW p \in Procs, Download(p) \/ DownloadFails(p)
    PROVE  Owes(p)
    <1> USE ConstantsDiffer, Kinds DEF Download, DownloadFails, proof
    <1>1. p \in Installers /\ p \notin Verifiers /\ bin' = bin /\ memo' = memo
        BY DEF discard_download
    <1>2. CASE Stop(p)
        BY <1>1, <1>2, StoppedOwes
    <1>3. CASE Goto(p, "unpack") /\ UNCHANGED <<unpacked, bin, named, check, proof>>
        <2>1. pc'[p] = "unpack"
            BY <1>3 DEF Goto, TypeOK
        <2>2. InstallerInv(p)'
            BY <1>1, <1>3, <2>1 DEF InstallerInv, Checking, Answered
        <2>3. CheckInv(p)'
            BY <1>3, <2>1 DEF CheckInv, check
        <2> QED
            BY <1>1, <2>1, <2>2, <2>3 DEF Owes, NothingUnprobed, OneRelease, MemoIsTrue
    <1> QED BY <1>2, <1>3

LEMMA UnpackOwes ==
    ASSUME IInv, NEW p \in Procs, Unpack(p)
    PROVE  Owes(p)
    <1> USE ConstantsDiffer, Kinds DEF Unpack, proof
    <1>1. p \in Installers /\ p \notin Verifiers /\ bin' = bin /\ memo' = memo
        OBVIOUS
    <1>2. CASE Stop(p)
        BY <1>1, <1>2, StoppedOwes
    <1>3. CASE archive \in Builds /\ Goto(p, "extract") /\ UNCHANGED <<named, check, proof>>
        <2>1. pc'[p] = "extract"
            BY <1>3 DEF Goto, TypeOK
        <2>2. From(unpacked, archive)'
            BY DEF cleared_unpacked, NoFiles, From
        <2>3. InstallerInv(p)'
            BY <1>1, <1>3, <2>1, <2>2 DEF InstallerInv, Checking, Answered
        <2>4. CheckInv(p)'
            BY <1>3, <2>1 DEF CheckInv, check
        <2> QED
            BY <1>1, <2>1, <2>3, <2>4 DEF Owes, NothingUnprobed, OneRelease, MemoIsTrue
    <1> QED BY <1>2, <1>3

LEMMA ExtractOwes ==
    ASSUME IInv, NEW p \in Procs, Extract(p)
    PROVE  Owes(p)
    <1> USE ConstantsDiffer, Kinds DEF Extract, proof
    <1>1. /\ p \in Installers /\ p \notin Verifiers
          /\ bin' = bin /\ memo' = memo /\ archive' = archive
        OBVIOUS
    <1>2. CASE Stop(p)
        BY <1>1, <1>2, StoppedOwes
    <1>3. ASSUME NEW f \in Contains[archive], unpacked' = [unpacked EXCEPT ![f] = archive],
                 UNCHANGED <<pc, named, check, proof>>
          PROVE  Owes(p)
        <2>1. From(unpacked', archive')
            BY <1>1, <1>3 DEF InstallerInv, From, TypeOK, Directory
        <2>2. InstallerInv(p)'
            BY <1>1, <1>3, <2>1 DEF InstallerInv, From, Checking, Answered
        <2>3. CheckInv(p)'
            BY <1>3 DEF CheckInv, check
        <2> QED
            BY <1>1, <1>3, <2>2, <2>3 DEF Owes, NothingUnprobed, OneRelease, MemoIsTrue
    <1>4. CASE /\ unpacked[Esbmc] # None
               /\ place' = [place EXCEPT ![p] = "unpacked"]
               /\ Goto(p, "key")
               /\ UNCHANGED <<unpacked, named, key, answer, view, proof>>
        <2>1. pc'[p] = "key" /\ place'[p] = "unpacked"
            BY <1>4 DEF Goto, TypeOK
        <2>2. InstallerInv(p)'
            BY <1>1, <1>4, <2>1 DEF InstallerInv, From, Checking, Answered
        <2>3. CheckInv(p)'
            BY <1>4, <2>1 DEF CheckInv
        <2> QED
            BY <1>1, <2>1, <2>2, <2>3 DEF Owes, NothingUnprobed, OneRelease, MemoIsTrue
    <1> QED BY <1>2, <1>3, <1>4

\* Steps of a check leave the files alone.
LEMMA DiskStays ==
    ASSUME IInv, UNCHANGED disk
    PROVE  NothingUnprobed' /\ OneRelease'
    BY DEF IInv, disk, NothingUnprobed, OneRelease

LEMMA AskMemoOwes ==
    ASSUME IInv, NEW p \in Procs, AskMemo(p)
    PROVE  Owes(p)
    <1> USE ConstantsDiffer, Kinds DEF AskMemo, proof
    <1> DEFINE k == BinaryAt(p, place[p])
    <1>1. /\ UNCHANGED <<disk, memo, named, place, view, proof>>
          /\ key'[p] = k /\ k \in Builds \cup {None}
        BY BinaryTypes DEF TypeOK, probe_key
    <1>2. BinaryAt(p, place[p])' = k
        BY <1>1 DEF BinaryAt, disk
    <1>3. CASE used[p] # None /\ known(k) # None
        <2>1. pc'[p] = "report" /\ answer'[p] = known(k)
            BY <1>3 DEF probe_key, Goto, TypeOK
        <2>2. p \in Verifiers /\ p \notin Installers
            BY <1>3 DEF InstallerInv, Procs
        <2>3. used[p] \in Sound \/ replaced[p] \/ used[p] = k
            BY <1>3, <2>2 DEF VerifierInv, Accounted
        <2>4. known(k) \in Answer /\ (known(k) = "finds" => k \in Sound)
            BY <1>1, <1>3 DEF known, MemoIsTrue, TypeOK, Memo
        <2>5. VerifierInv(p)'
            BY <1>1, <2>1, <2>2, <2>3, <2>4 DEF VerifierInv, Checking, Answer
        <2>6. CheckInv(p)'
            BY <1>1, <2>1 DEF CheckInv
        <2> QED BY <1>1, <2>1, <2>2, <2>5, <2>6, DiskStays DEF Owes, MemoIsTrue, disk
    <1>4. CASE ~(used[p] # None /\ known(k) # None)
        <2>1. pc'[p] = "probe"
            BY <1>4 DEF probe_key, Goto, TypeOK
        <2>2. p \in Installers => InstallerInv(p)'
            BY <1>1, <2>1 DEF InstallerInv, disk, From, Checking, Answered
        <2>3. p \in Verifiers => VerifierInv(p)'
            BY <1>1, <1>2, <2>1 DEF VerifierInv, Accounted, Checking, Answered
        <2>4. CheckInv(p)'
            BY <1>1, <1>2, <2>1 DEF CheckInv
        <2> QED BY <1>1, <2>1, <2>2, <2>3, <2>4, DiskStays DEF Owes, MemoIsTrue, disk
    <1> QED BY <1>3, <1>4

LEMMA RunProbesOwes ==
    ASSUME IInv, NEW p \in Procs, RunProbes(p)
    PROVE  Owes(p)
    <1> USE ConstantsDiffer, Kinds DEF RunProbes, proof
    <1>1. PICK a \in ProbesOf(p, place[p]) : answer' = [answer EXCEPT ![p] = a]
        OBVIOUS
    <1>2. /\ UNCHANGED <<disk, memo, named, place, key, view, proof>>
          /\ pc'[p] = "recall" /\ answer'[p] = a
        BY <1>1 DEF Goto, TypeOK
    <1>3. a \in Answer /\ (a = "finds" => BinaryAt(p, place[p]) \in Sound)
        BY DEF ProbesOf, Answer
    <1>4. \/ key[p] = BinaryAt(p, place[p])
          \/ place[p] = "managed" /\ key[p] \in Sound \cup {None}
        BY DEF CheckInv
    <1>5. p \in Installers => InstallerInv(p)'
        <2>1. p \in Installers => BinaryAt(p, place[p]) = archive
            BY DEF InstallerInv, Checking, BinaryAt
        <2> QED BY <1>2, <1>3, <2>1 DEF InstallerInv, disk, From, Checking, Answered
    <1>6. p \in Verifiers => VerifierInv(p)'
        BY <1>2, <1>3 DEF VerifierInv, Accounted, Checking, Answered, Answer
    <1>7. CheckInv(p)'
        BY <1>2, <1>3, <1>4 DEF CheckInv
    <1> QED BY <1>2, <1>5, <1>6, <1>7, DiskStays DEF Owes, MemoIsTrue, disk

LEMMA RecallOwes ==
    ASSUME IInv, NEW p \in Procs, Recall(p)
    PROVE  Owes(p)
    <1> USE ConstantsDiffer, Kinds DEF Recall, proof
    <1>1. /\ UNCHANGED <<disk, memo, named, place, key, answer, proof>>
          /\ pc'[p] = "publish" /\ view'[p] = remembered
        BY DEF Goto, TypeOK
    <1>2. remembered \in Memo /\ \A b \in Builds : remembered[b] = "finds" => b \in Sound
        BY DEF remembered, MemoIsTrue, TypeOK, NothingKnown, Answer
    <1>3. p \in Installers => InstallerInv(p)'
        BY <1>1 DEF InstallerInv, disk, From, Checking, Answered
    <1>4. p \in Verifiers => VerifierInv(p)'
        BY <1>1 DEF VerifierInv, Accounted, Checking, Answered
    <1>5. CheckInv(p)'
        BY <1>1, <1>2 DEF CheckInv
    <1> QED BY <1>1, <1>3, <1>4, <1>5, DiskStays DEF Owes, MemoIsTrue, disk

\* Whoever's view is stored, it is true.
LEMMA AmendedIsTrue ==
    ASSUME IInv, NEW q \in Procs, pc[q] = "publish"
    PROVE  Amended(q) \in Memo /\ \A b \in Builds : Amended(q)[b] = "finds" => b \in Sound
    <1>1. CheckInv(q) /\ TypeOK
        BY Kinds
    <1>2. view[q] \in Memo /\ answer[q] \in Answer
        BY <1>1 DEF CheckInv
    <1>3. \A b \in Builds : Amended(q)[b] = "finds" => b \in Sound
        BY <1>1, <1>2 DEF CheckInv, Amended, Memo
    <1> QED BY <1>1, <1>2, <1>3, AmendedTypes

LEMMA PublishOwes ==
    ASSUME IInv, NEW p \in Procs, Publish(p)
    PROVE  Owes(p)
    <1> USE ConstantsDiffer, Kinds DEF Publish, proof
    <1>1. /\ UNCHANGED <<disk, named, answer, proof>>
          /\ pc'[p] = IF p \in Installers THEN "judge" ELSE "report"
          /\ view'[p] = None
        BY DEF Goto, TypeOK
    <1>2. MemoIsTrue'
        <2>1. \/ memo' = memo \/ memo' = Torn
              \/ \E q \in Procs : pc[q] = "publish" /\ memo' = Amended(q)
            BY DEF Published
        <2> QED BY <2>1, AmendedIsTrue DEF MemoIsTrue
    <1>3. p \in Installers => InstallerInv(p)'
        BY <1>1 DEF InstallerInv, disk, From, Checking, Answered
    <1>4. p \in Verifiers => VerifierInv(p)'
        BY <1>1 DEF VerifierInv, Accounted, Checking, Answered
    <1>5. CheckInv(p)'
        BY <1>1 DEF CheckInv
    <1> QED BY <1>1, <1>2, <1>3, <1>4, <1>5, DiskStays DEF Owes, disk

LEMMA JudgeOwes ==
    ASSUME IInv, Alone, NEW p \in Procs, Judge(p) \/ CheckRaises(p)
    PROVE  Owes(p)
    <1> USE ConstantsDiffer, Kinds DEF Judge, CheckRaises, Alone, proof
    <1>1. p \in Installers /\ p \notin Verifiers /\ bin' = bin /\ memo' = memo
        OBVIOUS
    <1>2. CASE Stop(p)
        BY <1>1, <1>2, StoppedOwes
    <1>3. CASE /\ pc[p] = "judge" /\ passed(answer[p])
               /\ Goto(p, "remove")
               /\ UNCHANGED <<archive, unpacked, named, check, proof>>
        <2>1. pc'[p] = "remove"
            BY <1>3 DEF Goto, TypeOK
        <2>2. InstallerInv(p)'
            BY <1>1, <1>3, <2>1 DEF InstallerInv, From, Checking, Answered, passed
        <2>3. CheckInv(p)'
            BY <1>3, <2>1 DEF CheckInv, check
        <2> QED
            BY <1>1, <1>3, <2>1, <2>2, <2>3
               DEF Owes, NothingUnprobed, OneRelease, MemoIsTrue
    <1> QED BY <1>2, <1>3

LEMMA RemoveOwes ==
    ASSUME IInv, NEW p \in Procs, Remove(p)
    PROVE  Owes(p)
    <1> USE ConstantsDiffer, Kinds DEF Remove, removed, proof
    <1>1. /\ p \in Installers /\ p \notin Verifiers /\ memo' = memo
          /\ UNCHANGED <<archive, unpacked, memo, named, check, used>>
        OBVIOUS
    <1>2. CASE \E f \in Files : bin' = [bin EXCEPT ![f] = None] /\ UNCHANGED pc
        <2>1. \A g \in Files : bin'[g] \in {None, bin[g]}
            BY <1>2 DEF TypeOK, Directory
        <2>2. NothingUnprobed' /\ OneRelease'
            BY <2>1 DEF NothingUnprobed, OneRelease
        <2>3. InstallerInv(p)'
            BY <1>1, <1>2 DEF InstallerInv, From, Checking, Answered
        <2>4. CheckInv(p)'
            BY <1>1, <1>2 DEF CheckInv, check
        <2> QED BY <1>1, <1>2, <2>2, <2>3, <2>4 DEF Owes, MemoIsTrue
    <1>3. CASE (\A f \in Files : bin[f] = None) /\ Goto(p, "move") /\ UNCHANGED bin
        <2>1. pc'[p] = "move"
            BY <1>3 DEF Goto, TypeOK
        <2>2. InstallerInv(p)'
            BY <1>1, <1>3, <2>1 DEF InstallerInv, From, Checking, Answered
        <2>3. CheckInv(p)'
            BY <1>1, <2>1 DEF CheckInv, check
        <2> QED
            BY <1>1, <1>3, <2>1, <2>2, <2>3 DEF Owes, NothingUnprobed, OneRelease, MemoIsTrue
    <1> QED BY <1>2, <1>3

LEMMA MoveOwes ==
    ASSUME IInv, NEW p \in Procs, Move(p)
    PROVE  Owes(p)
    <1> USE ConstantsDiffer, Kinds DEF Move, proof
    <1>1. p \in Installers /\ p \notin Verifiers /\ memo' = memo
        OBVIOUS
    <1>2. CASE Stop(p) /\ UNCHANGED bin
        BY <1>1, <1>2, StoppedOwes
    <1>3. ASSUME NEW f \in Files,
                 bin' = [bin EXCEPT ![f] = unpacked[f]],
                 unpacked' = [unpacked EXCEPT ![f] = None],
                 UNCHANGED <<archive, pc, named, check, used>>
          PROVE  Owes(p)
        <2>1. archive \in Sound /\ From(unpacked, archive) /\ From(bin, archive)
            BY <1>1 DEF InstallerInv
        <2>2. From(bin', archive) /\ From(unpacked', archive)
            BY <1>3, <2>1 DEF From, TypeOK, Directory
        <2>3. NothingUnprobed' /\ OneRelease'
            BY <2>1, <2>2 DEF NothingUnprobed, OneRelease, From
        <2>4. InstallerInv(p)'
            BY <1>1, <1>3, <2>1, <2>2 DEF InstallerInv, From, Checking, Answered
        <2>5. CheckInv(p)'
            BY <1>3 DEF CheckInv, check
        <2> QED BY <1>1, <1>3, <2>3, <2>4, <2>5 DEF Owes, MemoIsTrue
    <1> QED BY <1>2, <1>3

LEMMA VerifierOwes ==
    ASSUME IInv, Alone, NEW p \in Procs,
           StartVerifier(p) \/ Verify(p) \/ ScanProves(p) \/ FindAgain(p) \/ Doctor(p)
    PROVE  Owes(p)
    <1> USE ConstantsDiffer, Kinds, BinaryTypes DEF proof
    <1>1. /\ p \in Verifiers /\ p \notin Installers /\ UNCHANGED disk
          /\ memo' = memo /\ view' = view
        BY DEF StartVerifier, Verify, ScanProves, FindAgain, Doctor, check
    <1>2. /\ NothingUnprobed' /\ OneRelease' /\ MemoIsTrue' /\ bin' = bin
          /\ named' = named => find_esbmc(p)' = find_esbmc(p)
          /\ named' = named => \A where : BinaryAt(p, where)' = BinaryAt(p, where)
        BY <1>1, DiskStays DEF MemoIsTrue, disk, find_esbmc, BinaryAt
    <1>3. CASE StartVerifier(p)
        <2>1. pc'[p] = "run" /\ pc[p] = "idle" /\ used' = used
            BY <1>3 DEF StartVerifier, Goto, TypeOK
        <2>2. VerifierInv(p)' /\ CheckInv(p)'
            BY <1>1, <2>1 DEF VerifierInv, CheckInv, Checking, Answered
        <2> QED BY <1>1, <1>2, <2>1, <2>2 DEF Owes
    <1>4. CASE Verify(p)
        <2>1. /\ pc'[p] = "find" /\ pc[p] = "run" /\ named' = named
              /\ used'[p] = BinaryAt(p, find_esbmc(p)) /\ used'[p] # None
            BY <1>4 DEF Verify, Goto, TypeOK, Starts
        <2>2. VerifierInv(p)' /\ CheckInv(p)'
            BY <1>1, <1>2, <2>1 DEF VerifierInv, CheckInv, Checking, Answered
        <2> QED BY <1>1, <1>2, <2>1, <2>2 DEF Owes
    <1>5. CASE FindAgain(p)
        <2>1. /\ pc[p] = "find" /\ named' = named /\ used' = used
              /\ replaced' = replaced /\ place'[p] = find_esbmc(p)
              /\ used[p] # None /\ (used[p] = BinaryAt(p, find_esbmc(p)) \/ replaced[p])
              /\ pc'[p] = IF BinaryAt(p, find_esbmc(p)) = None THEN "report" ELSE "key"
            BY <1>1, <1>5 DEF FindAgain, checked_place, TypeOK, VerifierInv, Goto
        <2>2. BinaryAt(p, "managed") \in Sound \cup {None}
            BY DEF NothingUnprobed, BinaryAt
        <2>3. VerifierInv(p)' /\ CheckInv(p)'
            BY <1>1, <1>2, <2>1, <2>2
               DEF VerifierInv, Accounted, CheckInv, Checking, Answered, find_esbmc
        <2> QED BY <1>1, <1>2, <2>1, <2>2, <2>3 DEF Owes
    <1>6. CASE Doctor(p)
        <2>1. /\ pc[p] = "run" /\ pc'[p] = "key" /\ named' = named /\ used' = used
              /\ place'[p] = find_esbmc(p)
            BY <1>6 DEF Doctor, Goto, TypeOK
        <2>2. used[p] = None
            BY <1>1, <2>1 DEF VerifierInv
        <2>3. VerifierInv(p)' /\ CheckInv(p)'
            BY <1>1, <1>2, <2>1, <2>2 DEF VerifierInv, CheckInv, Checking, Answered
        <2> QED BY <1>1, <1>2, <2>1, <2>3 DEF Owes
    <1>7. CASE ScanProves(p)
        <2>1. pc'[p] = "scanned" /\ pc[p] = "run" /\ named' = named
            BY <1>7 DEF ScanProves, Goto, TypeOK
        <2>2. VerifierInv(p)' /\ CheckInv(p)'
            BY <1>1, <1>2, <2>1 DEF VerifierInv, CheckInv, Checking, Answered
        <2> QED BY <1>1, <1>2, <2>1, <2>2 DEF Owes
    <1> QED BY <1>3, <1>4, <1>5, <1>6, <1>7

LEMMA StopsOwe ==
    ASSUME IInv, NEW p \in Procs, Present(p) \/ Crash(p)
    PROVE  Owes(p)
    BY StoppedOwes DEF Present, Crash, disk

-----------------------------------------------------------------------------
(* The theorems. *)

LEMMA InitHolds == Init => IInv
    BY InitTypes, ConstantsDiffer
       DEF Init, IInv, InstallerInv, VerifierInv, CheckInv, Checking, Answered, NoFiles,
           NothingKnown, Answer, NothingUnprobed, OneRelease, MemoIsTrue

LEMMA ActionOwes ==
    ASSUME IInv, Alone, NEW p \in Procs, Action(p)
    PROVE  Owes(p)
    BY DownloadOwes, UnpackOwes, ExtractOwes, AskMemoOwes, RunProbesOwes,
       RecallOwes, PublishOwes, JudgeOwes, RemoveOwes, MoveOwes, VerifierOwes, StopsOwe
       DEF Action

LEMMA StepHolds ==
    ASSUME IInv, Alone, [Next]_vars
    PROVE  IInv'
    <1>1. TypeOK'
        BY TypesPreserved
    <1>2. CASE UNCHANGED vars
        BY <1>1, <1>2
           DEF vars, disk, check, proof, Accounted, IInv, InstallerInv, VerifierInv, CheckInv, From,
               BinaryAt, find_esbmc, NothingUnprobed, OneRelease, MemoIsTrue
    <1>3. ASSUME NEW p \in Procs, Action(p)
          PROVE  IInv'
        <2>1. Owes(p)
            BY <1>3, ActionOwes
        <2> QED BY <1>1, <1>3, <2>1, OwedIsEnough
    <1> QED BY <1>2, <1>3 DEF Next, Action

LEMMA InvariantHolds == ASSUME Alone PROVE Spec => []IInv
    <1>1. Init => IInv
        BY InitHolds
    <1>2. IInv /\ [Next]_vars => IInv'
        BY StepHolds
    <1> QED BY <1>1, <1>2, PTL DEF Spec

\* The state always has its types, one installation at a time.
THEOREM InstallTypesCorrect ==
    ASSUME Alone PROVE Spec => []TypeOK
    BY InvariantHolds, PTL DEF IInv

\* Nothing becomes the installed checker, or a file of it, without the probes having
\* passed on that release: for any releases, any layouts, any pins and deaths at any
\* step, as long as installations come one at a time, whatever verifications run meanwhile.
THEOREM OnlyProbedIsInstalled ==
    ASSUME Alone PROVE Spec => []NothingUnprobed
    BY InvariantHolds, PTL DEF IInv

\* The files of two releases are never mixed in the installed checker.
THEOREM InstalledIsOneRelease ==
    ASSUME Alone PROVE Spec => []OneRelease
    BY InvariantHolds, PTL DEF IInv

\* A remembered pass is true of the bytes it is remembered for, however many
\* verifications write the memo at the same time.
THEOREM RememberedPassesAreTrue ==
    ASSUME Alone PROVE Spec => []MemoIsTrue
    BY InvariantHolds, PTL DEF IInv

\* A verification presents a proof by a checker that misses planted bugs unsaid only
\* if the installed checker was changed after its run and before it was looked for
\* again: with any number of verifications beside the one installation.
THEOREM UnsoundnessIsSaid ==
    ASSUME Alone PROVE Spec => []NoSilentUnsoundness
    <1>1. IInv => NoSilentUnsoundness
        BY DEF IInv, VerifierInv, NoSilentUnsoundness, Warned, Answered, Answer
    <1> QED BY <1>1, InvariantHolds, PTL

\* A failing download, check or probe leaves the installed checker as it was.
THEOREM FailuresKeepTheChecker ==
    ASSUME Alone PROVE Spec => FailureKeepsChecker
    <1> DEFINE Given == \A f \in Files : bin[f] # None /\ bin'[f] # bin[f] =>
                    \E p \in Installers :
                       pc[p] \in {"remove", "move"} /\ \E g \in Files : unpacked[g] \in Sound
    <1>1. IInv /\ [Next]_vars => [Given]_vars
        <2> SUFFICES ASSUME IInv, NEW p \in Procs, Action(p),
                            NEW f \in Files, bin[f] # None, bin'[f] # bin[f]
                     PROVE  \E q \in Installers :
                               pc[q] \in {"remove", "move"} /\ \E g \in Files : unpacked[g] \in Sound
            BY DEF Next, Action
        <2>1. p \in Installers /\ pc[p] \in {"remove", "move"}
            BY ActionOwes DEF Owes
        <2>2. archive \in Sound
            BY <2>1, Kinds DEF InstallerInv
        <2>3. CASE pc[p] = "remove"
            BY <2>1, <2>2, <2>3, Kinds, ConstantsDiffer DEF InstallerInv
        <2>4. CASE pc[p] = "move"
            <3>1. Move(p) \/ Crash(p)
                BY <2>4 DEF Action, Download, DownloadFails, Unpack, Extract,
                   AskMemo, RunProbes, Recall, Publish, Judge, CheckRaises, Remove,
                   StartVerifier, Verify, ScanProves, FindAgain, Doctor, Present
            <3>2. PICK g \in Files : unpacked[g] # None
                BY <3>1 DEF Move, Crash, disk
            <3>3. unpacked[g] = archive
                BY <2>1, <2>4, <3>2, Kinds DEF InstallerInv, From
            <3> QED BY <2>1, <2>2, <3>3
        <2> QED BY <2>1, <2>3, <2>4
    <1> QED BY <1>1, InvariantHolds, PTL DEF Spec, FailureKeepsChecker

=============================================================================
