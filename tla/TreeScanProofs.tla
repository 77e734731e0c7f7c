--------------------------- MODULE TreeScanProofs ---------------------------
(***************************************************************************)
(* Proofs about TreeScan.                                                  *)
(*                                                                         *)
(* A scan passes when the baseline covers what it found, and the baseline  *)
(* holds what some acceptance found.  Both may be long ago, so the         *)
(* invariant ties each process's findings to the sources as long as these  *)
(* have not moved, and the baseline to what has been accepted.             *)
(***************************************************************************)
EXTENDS TreeScan, TLAPS

Active == {"scan", "sarif", "verdict", "truncate", "write"}

\* What is known of a process: it does what it was started for, it has no exit code
\* before its verdict, what it found is in the source itself or in a header, and what
\* the source holds if nothing has changed, and what it lets pass was accepted.
ProcInv(p) ==
    /\ pc[p] # "idle" => asks[p] \in Requests[p]
    /\ pc[p] \in Active => exit[p] = None
    /\ pc[p] \in {"truncate", "write"} => asks[p].command = "accept"
    /\ \A f \in ScannedBy(p) : \A x \in found[p][f] : x[1] = f \/ x[1] \in Headers
    /\ steady[p] => \A f \in Sources : found[p][f] \in {None, Occurring(f)}
    /\ exit[p] = 0 /\ asks[p].command = "scan" => Reported(p) \subseteq decided
    /\ \A s \in suppressed[p] : Identities(s[1], {s[2]}) \subseteq decided

\* What is known of the baseline: all of it was accepted, and it covers the sources
\* it is said to.
BaselineInv ==
    /\ loads => baseline \subseteq decided
    /\ \A f \in fresh : loads /\ Identities(f, Occurring(f)) \subseteq baseline

IInv == TypeOK /\ BaselineInv /\ \A p \in Procs : ProcInv(p)

-----------------------------------------------------------------------------
(* What the operators return. *)

\* A source's findings are in it or in its headers.
LEMMA OccurringTypes ==
    ASSUME TypeOK, NEW f \in Sources
    PROVE  /\ Occurring(f) \in SUBSET Finding /\ Occurring(f) # None
           /\ \A x \in Occurring(f) : x[1] = f \/ x[1] \in Headers
    <1>1. ASSUME NEW g \in {f} \cup Includes[f]
          PROVE  g \in Files /\ (g = f \/ g \in Headers)
        BY FilesAssumption DEF Files
    <1>2. ASSUME NEW g \in Files, work[g] # None
          PROVE  work[g] \in SUBSET Issues
        BY <1>2 DEF TypeOK, Content
    <1>3. ASSUME NEW x \in Occurring(f)
          PROVE  x \in Finding /\ (x[1] = f \/ x[1] \in Headers)
        <2>1. PICK g \in {f} \cup Includes[f] : work[g] # None /\ x \in {g} \X work[g]
            BY <1>3 DEF Occurring
        <2>2. g \in Files /\ (g = f \/ g \in Headers) /\ work[g] \in SUBSET Issues
            BY <1>1, <1>2, <2>1
        <2>3. x[1] = g /\ x \in {g} \X Issues
            BY <2>1, <2>2
        <2> QED BY <2>2, <2>3 DEF Finding
    <1>4. Occurring(f) \in SUBSET Finding
        BY <1>3
    <1> QED BY <1>3, <1>4, ValuesAssumption

\* The keys of what a process found are what it reports.
LEMMA KeysAreIdentities ==
    ASSUME TypeOK, NEW p \in Procs
    PROVE  /\ findings_from(p) = Reported(p) /\ findings_from(p) \in SUBSET Key
           /\ \A f \in ScannedBy(p) : found[p][f] \in SUBSET Finding
           /\ ScannedBy(p) \subseteq Sources
    <1>1. ASSUME NEW f \in ScannedBy(p)
          PROVE  f \in Sources /\ found[p][f] \in SUBSET Finding
        <2>1. f \in Sources /\ found[p][f] # None
            BY DEF ScannedBy
        <2>2. found[p] \in [Sources -> (SUBSET Finding) \cup {None}]
            BY DEF TypeOK
        <2> QED BY <2>1, <2>2
    <1>2. ASSUME NEW f \in ScannedBy(p)
          PROVE  {key_for(f, finding[2]) : finding \in found[p][f]} = Identities(f, found[p][f])
        BY DEF key_for, Identities
    <1>3. findings_from(p) = Reported(p)
        <2>1. ASSUME NEW x \in findings_from(p)
              PROVE  x \in Reported(p)
            BY <1>2 DEF findings_from, Reported
        <2>2. ASSUME NEW x \in Reported(p)
              PROVE  x \in findings_from(p)
            BY <1>2 DEF findings_from, Reported
        <2> QED BY <2>1, <2>2
    <1>4. ASSUME NEW f \in ScannedBy(p)
          PROVE  Identities(f, found[p][f]) \subseteq Key
        BY <1>1 DEF Identities, Key, Finding
    <1>5. Reported(p) \in SUBSET Key
        BY <1>4 DEF Reported
    <1> QED BY <1>1, <1>3, <1>5

\* What the report suppresses fails in the source itself: a header is no source, so
\* no entry of the baseline is about one.
LEMMA SuppressedWasAccepted ==
    ASSUME TypeOK, BaselineInv, NEW p \in Procs, ProcInv(p), loads
    PROVE  /\ suppressible(p) \in SUBSET (Sources \X Finding)
           /\ \A s \in suppressible(p) : Identities(s[1], {s[2]}) \subseteq decided
    <1>1. baseline \in SUBSET Key /\ baseline \subseteq decided
        BY DEF BaselineInv, loads, TypeOK
    <1>2. ASSUME NEW s \in suppressible(p)
          PROVE  s \in Sources \X Finding /\ Identities(s[1], {s[2]}) \subseteq decided
        <2>1. PICK f \in ScannedBy(p) : s[1] = f /\ s[2] \in found[p][f] /\ s[2] \in baseline
                                        /\ s = <<s[1], s[2]>>
            BY <1>2 DEF suppressible
        <2>2. f \in Sources /\ s[2] \in Finding /\ s[2] \in Key
            BY <1>1, <2>1, KeysAreIdentities
        <2>3. s[2][1] = f
            BY <2>1, <2>2, FilesAssumption DEF ProcInv, Key
        <2>4. s[2] = <<f, s[2][2]>>
            BY <2>2, <2>3 DEF Key
        <2>5. Identities(s[1], {s[2]}) = {s[2]}
            BY <2>1, <2>4 DEF Identities
        <2> QED BY <1>1, <2>1, <2>2, <2>5
    <1> QED BY <1>2

-----------------------------------------------------------------------------
(* What does not move. *)

\* A step leaves q's own state alone, but for q no longer being sure of the sources.
Spares(q) ==
    /\ pc'[q] = pc[q] /\ asks'[q] = asks[q] /\ exit'[q] = exit[q]
    /\ found'[q] = found[q] /\ suppressed'[q] = suppressed[q]
    /\ steady'[q] => steady[q] /\ work' = work

\* Acceptances by others never take back what a process relies on.
LEMMA SparedKeepInvariant ==
    ASSUME NEW q \in Procs, ProcInv(q), Spares(q), decided \subseteq decided'
    PROVE  ProcInv(q)'
    <1>1. /\ ScannedBy(q)' = ScannedBy(q) /\ Reported(q)' = Reported(q)
          /\ pc'[q] = pc[q] /\ asks'[q] = asks[q] /\ exit'[q] = exit[q]
          /\ found'[q] = found[q] /\ suppressed'[q] = suppressed[q]
        BY DEF Spares, ScannedBy, Reported
    <1>2. steady'[q] => \A f \in Sources : found'[q][f] \in {None, Occurring(f)'}
        <2> SUFFICES ASSUME steady'[q], NEW f \in Sources
                     PROVE  found'[q][f] \in {None, Occurring(f)'}
            OBVIOUS
        <2>1. steady[q] /\ work' = work
            BY DEF Spares
        <2>2. Occurring(f)' = Occurring(f)
            BY <2>1 DEF Occurring
        <2> QED BY <1>1, <2>1, <2>2 DEF ProcInv
    <1>3. \A s \in suppressed'[q] : Identities(s[1], {s[2]}) \subseteq decided'
        BY <1>1 DEF ProcInv
    <1>4. exit'[q] = 0 /\ asks'[q].command = "scan" => Reported(q)' \subseteq decided'
        BY <1>1 DEF ProcInv
    <1>5. /\ pc'[q] # "idle" => asks'[q] \in Requests[q]
          /\ pc'[q] \in Active => exit'[q] = None
          /\ pc'[q] \in {"truncate", "write"} => asks'[q].command = "accept"
          /\ \A f \in ScannedBy(q)' : \A x \in found'[q][f] : x[1] = f \/ x[1] \in Headers
        BY <1>1 DEF ProcInv
    <1> QED BY <1>2, <1>3, <1>4, <1>5 DEF ProcInv, Identities

LEMMA BaselineKeepsInvariant ==
    ASSUME BaselineInv, UNCHANGED <<work, baseline, fresh>>, decided \subseteq decided'
    PROVE  BaselineInv'
    <1>1. \A f : Occurring(f)' = Occurring(f)
        BY DEF Occurring
    <1> QED BY <1>1 DEF BaselineInv, loads, Identities

\* Having found nothing, a process lets nothing pass.
LEMMA NothingFound ==
    ASSUME NEW p \in Procs, found'[p] = Nothing
    PROVE  /\ ScannedBy(p)' = {} /\ Reported(p)' = {}
           /\ \A f \in Sources : found'[p][f] = None
    <1>1. \A f \in Sources : found'[p][f] = None
        BY DEF Nothing
    <1> QED BY <1>1 DEF ScannedBy, Reported

\* A step of one process that leaves the tree and the baseline alone.
LEMMA StepOfOne ==
    ASSUME IInv, NEW p \in Procs, TypeOK', ProcInv(p)',
           UNCHANGED <<work, baseline, fresh, decided>>,
           \A q \in Procs \ {p} : Spares(q)
    PROVE  IInv'
    <1>1. BaselineInv'
        BY BaselineKeepsInvariant DEF IInv
    <1>2. ASSUME NEW q \in Procs
          PROVE  ProcInv(q)'
        <2>1. CASE q = p
            BY <2>1
        <2>2. CASE q # p
            BY <2>2, SparedKeepInvariant DEF IInv
        <2> QED BY <2>1, <2>2
    <1> QED BY <1>1, <1>2 DEF IInv

-----------------------------------------------------------------------------
(* The steps. *)

LEMMA InitInvariant == Init => IInv
    <1> SUFFICES ASSUME Init PROVE IInv
        OBVIOUS
    <1>1. TypeOK
        BY BoundsAssumption DEF Init, TypeOK, Step, Nothing
    <1>2. BaselineInv
        BY DEF Init, BaselineInv, loads
    <1>3. ASSUME NEW p \in Procs
          PROVE  ProcInv(p)
        <2>1. pc[p] = "idle" /\ exit[p] = None /\ steady[p] = FALSE /\ suppressed[p] = {}
            BY <1>3 DEF Init
        <2>2. found[p] = Nothing /\ exit[p] = None
            BY <1>3 DEF Init
        <2>3. ScannedBy(p) = {} /\ Reported(p) = {}
            BY <2>2 DEF ScannedBy, Reported, Nothing
        <2> QED BY <2>1, <2>3 DEF ProcInv, Active
    <1> QED BY <1>1, <1>2, <1>3 DEF IInv

LEMMA StartInvariant ==
    ASSUME IInv, NEW p \in Procs, Start(p)
    PROVE  IInv'
    <1>1. PICK r \in Requests[p] :
              /\ r.what \in Sources => work[r.what] # None
              /\ asks' = [asks EXCEPT ![p] = r]
              /\ IF Refused(r) \/ sources_of(r) = {}
                 THEN /\ Exits(p, IF r.changed THEN 0 ELSE 2)
                      /\ todo' = [todo EXCEPT ![p] = {}]
                 ELSE /\ Goto(p, "scan") /\ exit' = [exit EXCEPT ![p] = None]
                      /\ todo' = [todo EXCEPT ![p] = sources_of(r)]
        BY DEF Start
    <1>2. r \in Request
        BY RequestsAssumption
    <1>3. TypeOK
        BY DEF IInv
    <1>4. sources_of(r) \subseteq Sources
        BY <1>2 DEF sources_of, Named, discover_sources, Request
    <1>5. PICK code \in {None, 0, 2}, step \in {"scan", "done"}, list \in SUBSET Sources :
              /\ exit' = [exit EXCEPT ![p] = code] /\ pc' = [pc EXCEPT ![p] = step]
              /\ todo' = [todo EXCEPT ![p] = list]
              /\ step = "scan" => code = None
        BY <1>1, <1>4 DEF Exits, Goto
    <1>6. /\ found' = [found EXCEPT ![p] = Nothing]
          /\ suppressed' = [suppressed EXCEPT ![p] = {}]
          /\ steady' = [steady EXCEPT ![p] = TRUE]
          /\ UNCHANGED <<trees, baseline, decided, fresh>>
        BY DEF Start
    <1>7. TypeOK'
        <2>1. Nothing \in [Sources -> (SUBSET Finding) \cup {None}]
            BY DEF Nothing
        <2>2. UNCHANGED <<work, head, edits, baseline, decided, fresh>>
            BY <1>6 DEF trees
        <2>3. /\ pc' \in [Procs -> Step] /\ exit' \in [Procs -> {None, 0, 1, 2}]
              /\ todo' \in [Procs -> SUBSET Sources]
            BY <1>3, <1>5 DEF TypeOK, Step
        <2>4. asks' \in [Procs -> Request \cup {None}]
            BY <1>1, <1>2, <1>3 DEF TypeOK
        <2>5. /\ found' \in [Procs -> [Sources -> (SUBSET Finding) \cup {None}]]
              /\ steady' \in [Procs -> BOOLEAN]
              /\ suppressed' \in [Procs -> SUBSET (Sources \X Finding)]
            BY <1>3, <1>6, <2>1 DEF TypeOK
        <2> QED BY <1>3, <2>2, <2>3, <2>4, <2>5 DEF TypeOK
    <1>8. ProcInv(p)'
        <2>1. /\ found'[p] = Nothing /\ suppressed'[p] = {} /\ asks'[p] = r
              /\ exit'[p] = code /\ pc'[p] = step
            BY <1>1, <1>3, <1>5, <1>6 DEF TypeOK
        <2>2. ScannedBy(p)' = {} /\ Reported(p)' = {} /\ \A f \in Sources : found'[p][f] = None
            BY <2>1, NothingFound
        <2> QED BY <1>5, <2>1, <2>2 DEF ProcInv, Active
    <1>9. \A q \in Procs \ {p} : Spares(q)
        BY <1>1, <1>3, <1>5, <1>6 DEF TypeOK, Spares, trees
    <1> QED BY <1>6, <1>7, <1>8, <1>9, StepOfOne DEF trees

LEMMA ScanSourceInvariant ==
    ASSUME IInv, NEW p \in Procs, ScanSource(p)
    PROVE  IInv'
    <1>1. PICK f \in todo[p] :
              /\ work[f] # None
              /\ found' = [found EXCEPT ![p][f] = Occurring(f)]
              /\ todo' = [todo EXCEPT ![p] = @ \ {f}]
        BY DEF ScanSource
    <1>2. /\ pc[p] = "scan"
          /\ UNCHANGED <<work, head, edits, baseline, decided, fresh, pc, asks, steady,
                         suppressed, exit>>
        BY DEF ScanSource, trees, outcome
    <1>3. TypeOK /\ ProcInv(p)
        BY DEF IInv
    <1>4. f \in Sources /\ todo[p] \in SUBSET Sources
          /\ found[p] \in [Sources -> (SUBSET Finding) \cup {None}]
        BY <1>1, <1>3 DEF TypeOK
    <1>5. Occurring(f) \in SUBSET Finding
          /\ \A x \in Occurring(f) : x[1] = f \/ x[1] \in Headers
        BY <1>3, <1>4, OccurringTypes
    <1>6. found' = [found EXCEPT ![p] = [found[p] EXCEPT ![f] = Occurring(f)]]
        BY <1>1, Zenon
    <1>7. found'[p] = [found[p] EXCEPT ![f] = Occurring(f)]
          /\ \A q \in Procs \ {p} : found'[q] = found[q]
        BY <1>3, <1>6 DEF TypeOK
    <1>8. TypeOK'
        <2>1. found' \in [Procs -> [Sources -> (SUBSET Finding) \cup {None}]]
            <3>1. [found[p] EXCEPT ![f] = Occurring(f)]
                      \in [Sources -> (SUBSET Finding) \cup {None}]
                BY <1>4, <1>5
            <3>2. found \in [Procs -> [Sources -> (SUBSET Finding) \cup {None}]]
                BY <1>3 DEF TypeOK
            <3> HIDE DEF Finding
            <3> QED BY <1>6, <3>1, <3>2
        <2>2. todo' \in [Procs -> SUBSET Sources]
            BY <1>1, <1>3 DEF TypeOK
        <2> QED BY <1>2, <1>3, <2>1, <2>2 DEF TypeOK
    <1>9. ProcInv(p)'
        <2>1. \A g \in Sources : found'[p][g] = IF g = f THEN Occurring(f) ELSE found[p][g]
            BY <1>4, <1>7
        <2>2. \A g \in Sources : Occurring(g)' = Occurring(g)
            BY <1>2 DEF Occurring
        <2>3. \A g \in ScannedBy(p)' : \A x \in found'[p][g] : x[1] = g \/ x[1] \in Headers
            BY <1>3, <1>5, <2>1 DEF ProcInv, ScannedBy
        <2>4. steady'[p] => \A g \in Sources : found'[p][g] \in {None, Occurring(g)'}
            BY <1>2, <1>3, <2>1, <2>2 DEF ProcInv
        <2>5. exit'[p] = None
            BY <1>2, <1>3 DEF ProcInv, Active
        <2>6. \A s \in suppressed'[p] : Identities(s[1], {s[2]}) \subseteq decided'
            BY <1>2, <1>3 DEF ProcInv
        <2> QED BY <1>2, <1>3, <2>3, <2>4, <2>5, <2>6, ValuesAssumption
                DEF ProcInv, Identities, Active
    <1>10. \A q \in Procs \ {p} : Spares(q)
        BY <1>2, <1>7 DEF Spares
    <1> QED BY <1>2, <1>8, <1>9, <1>10, StepOfOne

\* A step of one process that only takes it elsewhere, with or without an exit code.
LEMMA MoveOfOne ==
    ASSUME IInv, NEW p \in Procs, NEW step \in Step \ {"idle"}, NEW code \in {None, 0, 1, 2},
           pc[p] # "idle", pc' = [pc EXCEPT ![p] = step], exit' = [exit EXCEPT ![p] = code],
           todo' \in [Procs -> SUBSET Sources],
           UNCHANGED <<work, head, edits, baseline, decided, fresh, asks, found, steady,
                       suppressed>>,
           step \in Active => code = None,
           step \in {"truncate", "write"} => asks[p].command = "accept",
           code = 0 /\ asks[p].command = "scan" => Reported(p) \subseteq decided
    PROVE  IInv'
    <1>1. TypeOK /\ ProcInv(p)
        BY DEF IInv
    <1>2. TypeOK'
        BY <1>1 DEF TypeOK
    <1>3. pc'[p] = step /\ exit'[p] = code
        BY <1>1 DEF TypeOK
    <1>4. /\ \A f \in Sources : Occurring(f)' = Occurring(f)
          /\ Reported(p)' = Reported(p) /\ ScannedBy(p)' = ScannedBy(p)
        BY DEF Occurring, Reported, ScannedBy
    <1>5. ProcInv(p)'
        BY <1>1, <1>3, <1>4 DEF ProcInv, Identities
    <1>6. \A q \in Procs \ {p} : Spares(q)
        BY <1>1 DEF Spares, TypeOK
    <1> QED BY <1>2, <1>5, <1>6, StepOfOne

LEMMA SkipSourceInvariant ==
    ASSUME IInv, NEW p \in Procs, SkipSource(p)
    PROVE  IInv'
    <1>1. TypeOK /\ ProcInv(p) /\ pc[p] = "scan" /\ exit[p] = None
        BY DEF IInv, SkipSource, ProcInv, Active
    <1>2. todo' \in [Procs -> SUBSET Sources]
        BY <1>1 DEF SkipSource, TypeOK
    <1>3. UNCHANGED <<work, head, edits, baseline, decided, fresh, asks, found, steady,
                      suppressed>>
        BY DEF SkipSource, trees
    <1>4. PICK step \in {"scan", "done"}, code \in {None, 1} :
              /\ pc' = [pc EXCEPT ![p] = step] /\ exit' = [exit EXCEPT ![p] = code]
              /\ step = "scan" => code = None
        <2>1. CASE asks[p].what \in Sources /\ asks[p].command = "scan"
            BY <2>1 DEF SkipSource, Exits, Goto
        <2>2. CASE ~(asks[p].what \in Sources /\ asks[p].command = "scan")
            <3>1. UNCHANGED <<pc, exit>>
                BY <2>2 DEF SkipSource
            <3>2. pc' = [pc EXCEPT ![p] = "scan"] /\ exit' = [exit EXCEPT ![p] = None]
                BY <1>1, <3>1 DEF TypeOK
            <3> QED BY <3>2
        <2> QED BY <2>1, <2>2
    <1>5. /\ step \in Step \ {"idle"} /\ code \in {None, 0, 1, 2} /\ code # 0
          /\ step \in Active => code = None
          /\ step \notin {"truncate", "write"}
        BY <1>4, ValuesAssumption DEF Step, Active
    <1> QED BY <1>1, <1>2, <1>3, <1>4, <1>5, MoveOfOne

LEMMA ScannedInvariant ==
    ASSUME IInv, NEW p \in Procs, Scanned(p)
    PROVE  IInv'
    <1>1. TypeOK /\ ProcInv(p) /\ pc[p] = "scan" /\ exit[p] = None
        BY DEF IInv, Scanned, ProcInv, Active
    <1>2. UNCHANGED <<work, head, edits, baseline, decided, fresh, asks, todo, found, steady,
                      suppressed, exit>>
        BY DEF Scanned, trees, outcome
    <1>3. todo' \in [Procs -> SUBSET Sources] /\ exit' = [exit EXCEPT ![p] = None]
        BY <1>1, <1>2 DEF TypeOK
    <1>4. PICK step \in {"sarif", "truncate"} :
              /\ pc' = [pc EXCEPT ![p] = step]
              /\ step = "truncate" => asks[p].command = "accept"
        BY DEF Scanned, Goto
    <1> QED BY <1>1, <1>2, <1>3, <1>4, MoveOfOne, ValuesAssumption DEF Step, Active

LEMMA WriteSarifInvariant ==
    ASSUME IInv, NEW p \in Procs, WriteSarif(p)
    PROVE  IInv'
    <1>1. TypeOK /\ ProcInv(p) /\ BaselineInv /\ pc[p] = "sarif" /\ exit[p] = None
        BY DEF IInv, WriteSarif, ProcInv, Active
    <1>2. UNCHANGED <<work, head, edits, baseline, decided, fresh, asks, todo, found, steady>>
        BY DEF WriteSarif, trees
    <1>3. CASE Discounts(p) /\ ~loads
        <2>1. PICK code \in {2} :
                  /\ pc' = [pc EXCEPT ![p] = "done"] /\ exit' = [exit EXCEPT ![p] = code]
                  /\ suppressed' = suppressed
            BY <1>3 DEF WriteSarif, Exits, Goto
        <2>2. todo' \in [Procs -> SUBSET Sources]
            BY <1>1, <1>2 DEF TypeOK
        <2>3. "done" \in Step \ {"idle"} /\ "done" \notin Active \cup {"truncate", "write"}
            BY DEF Step, Active
        <2>4. code \in {None, 0, 1, 2} /\ code # 0 /\ pc[p] # "idle"
            BY <1>1, <2>1
        <2> QED BY <1>1, <1>2, <2>1, <2>2, <2>3, <2>4, MoveOfOne
    <1>4. CASE ~(Discounts(p) /\ ~loads)
        <2> DEFINE shown == IF Discounts(p) THEN suppressible(p) ELSE {}
        <2>1. /\ pc' = [pc EXCEPT ![p] = "verdict"] /\ exit' = exit
              /\ suppressed' = [suppressed EXCEPT ![p] = shown]
            BY <1>4 DEF WriteSarif, Goto
        <2>2. /\ shown \in SUBSET (Sources \X Finding)
              /\ \A s \in shown : Identities(s[1], {s[2]}) \subseteq decided
            <3>1. CASE Discounts(p)
                BY <1>1, <1>4, <3>1, SuppressedWasAccepted
            <3>2. CASE ~Discounts(p)
                BY <3>2
            <3> QED BY <3>1, <3>2
        <2> HIDE DEF shown
        <2>3. TypeOK'
            BY <1>1, <1>2, <2>1, <2>2 DEF TypeOK, Step
        <2>4. pc'[p] = "verdict" /\ exit'[p] = None /\ suppressed'[p] = shown
            BY <1>1, <2>1 DEF TypeOK
        <2>5. /\ \A f \in Sources : Occurring(f)' = Occurring(f)
              /\ Reported(p)' = Reported(p) /\ ScannedBy(p)' = ScannedBy(p)
            BY <1>2 DEF Occurring, Reported, ScannedBy
        <2>6. ProcInv(p)'
            BY <1>1, <1>2, <2>2, <2>4, <2>5, ValuesAssumption DEF ProcInv, Identities
        <2>7. \A q \in Procs \ {p} : Spares(q)
            BY <1>1, <1>2, <2>1 DEF Spares, TypeOK
        <2> QED BY <1>2, <2>3, <2>6, <2>7, StepOfOne
    <1> QED BY <1>3, <1>4

\* Nothing new means that the baseline, and so somebody, had accepted all of it.
LEMMA ApplyBaselineInvariant ==
    ASSUME IInv, NEW p \in Procs, ApplyBaseline(p)
    PROVE  IInv'
    <1>1. TypeOK /\ ProcInv(p) /\ BaselineInv /\ pc[p] = "verdict"
        BY DEF IInv, ApplyBaseline
    <1>2. UNCHANGED <<work, head, edits, baseline, decided, fresh, asks, todo, found, steady,
                      suppressed>>
        BY DEF ApplyBaseline, trees
    <1>3. todo' \in [Procs -> SUBSET Sources]
        BY <1>1, <1>2 DEF TypeOK
    <1>4. CASE Discounts(p) /\ ~loads
        <2>1. PICK code \in {2} :
                  pc' = [pc EXCEPT ![p] = "done"] /\ exit' = [exit EXCEPT ![p] = code]
            BY <1>4 DEF ApplyBaseline, Exits, Goto
        <2>2. "done" \in Step \ {"idle"} /\ "done" \notin Active \cup {"truncate", "write"}
            BY DEF Step, Active
        <2>3. code \in {None, 0, 1, 2} /\ code # 0 /\ pc[p] # "idle"
            BY <1>1, <2>1
        <2> QED BY <1>1, <1>2, <1>3, <2>1, <2>2, <2>3, MoveOfOne
    <1>5. CASE ~(Discounts(p) /\ ~loads)
        <2>1. PICK code \in {0, 1} :
                  /\ exit' = [exit EXCEPT ![p] = code]
                  /\ code = 0 => new(p) = {}
            BY <1>5 DEF ApplyBaseline
        <2>2. pc' = [pc EXCEPT ![p] = "note"]
            BY <1>5 DEF ApplyBaseline, Goto
        <2>3. new(p) = {} => Reported(p) \subseteq decided
            BY <1>1, <1>5, KeysAreIdentities DEF new, BaselineInv
        <2>4. "note" \in Step \ {"idle"} /\ "note" \notin Active
            BY DEF Step, Active
        <2> QED BY <1>1, <1>2, <1>3, <2>1, <2>2, <2>3, <2>4, MoveOfOne
    <1> QED BY <1>4, <1>5

LEMMA BaselineNoteInvariant ==
    ASSUME IInv, NEW p \in Procs, BaselineNote(p)
    PROVE  IInv'
    <1>1. TypeOK /\ ProcInv(p) /\ pc[p] = "note"
        BY DEF IInv, BaselineNote
    <1>2. UNCHANGED <<work, head, edits, baseline, decided, fresh, asks, todo, found, steady,
                      suppressed>>
        BY DEF BaselineNote, trees
    <1>3. todo' \in [Procs -> SUBSET Sources]
        BY <1>1, <1>2 DEF TypeOK
    <1>4. pc' = [pc EXCEPT ![p] = "done"]
        BY DEF BaselineNote, Exits, Goto
    <1>5. PICK code \in {2, exit[p]} : exit' = [exit EXCEPT ![p] = code]
        <2>1. CASE exit' = exit
            BY <1>1, <2>1 DEF TypeOK
        <2>2. CASE exit' = [exit EXCEPT ![p] = 2]
            BY <2>2
        <2> QED BY <2>1, <2>2 DEF BaselineNote, Exits
    <1>6. code \in {None, 0, 1, 2}
        BY <1>1 DEF TypeOK
    <1>7. code = 0 /\ asks[p].command = "scan" => Reported(p) \subseteq decided
        BY <1>1, <1>5 DEF ProcInv
    <1>8. "done" \in Step \ {"idle"} /\ "done" \notin Active
        BY DEF Step, Active
    <1> QED BY <1>1, <1>2, <1>3, <1>4, <1>5, <1>6, <1>7, <1>8, MoveOfOne

\* A step of one process that changes the baseline, or who accepted what.
LEMMA StepOnBaseline ==
    ASSUME IInv, NEW p \in Procs, TypeOK', ProcInv(p)', BaselineInv', decided \subseteq decided',
           \A q \in Procs \ {p} : Spares(q)
    PROVE  IInv'
    <1>1. ASSUME NEW q \in Procs
          PROVE  ProcInv(q)'
        <2>1. CASE q = p
            BY <2>1
        <2>2. CASE q # p
            BY <2>2, SparedKeepInvariant DEF IInv
        <2> QED BY <2>1, <2>2
    <1> QED BY <1>1 DEF IInv

LEMMA TruncateInvariant ==
    ASSUME IInv, NEW p \in Procs, Truncate(p)
    PROVE  IInv'
    <1>1. TypeOK /\ ProcInv(p) /\ pc[p] = "truncate" /\ exit[p] = None
          /\ asks[p].command = "accept"
        BY DEF IInv, Truncate, ProcInv, Active
    <1>2. /\ UNCHANGED <<work, head, edits, decided, asks, todo, found, steady, suppressed, exit>>
          /\ baseline' = Torn /\ fresh' = {} /\ pc' = [pc EXCEPT ![p] = "write"]
        BY DEF Truncate, trees, outcome, Goto
    <1>3. TypeOK' /\ pc'[p] = "write"
        BY <1>1, <1>2 DEF TypeOK, Step
    <1>4. BaselineInv'
        BY <1>2 DEF BaselineInv, loads
    <1>5. /\ \A f \in Sources : Occurring(f)' = Occurring(f)
          /\ Reported(p)' = Reported(p) /\ ScannedBy(p)' = ScannedBy(p)
        BY <1>2 DEF Occurring, Reported, ScannedBy
    <1>6. ProcInv(p)'
        BY <1>1, <1>2, <1>3, <1>5, ValuesAssumption DEF ProcInv, Identities
    <1>7. \A q \in Procs \ {p} : Spares(q)
        BY <1>1, <1>2 DEF Spares, TypeOK
    <1> QED BY <1>2, <1>3, <1>4, <1>6, <1>7, StepOnBaseline

\* What is written has been accepted with it, and covers what was found in sources
\* that are still as they were.
LEMMA WriteInvariant ==
    ASSUME IInv, NEW p \in Procs, Write(p)
    PROVE  IInv'
    <1>1. TypeOK /\ ProcInv(p) /\ pc[p] = "write" /\ exit[p] = None
          /\ asks[p].command = "accept"
        BY DEF IInv, Write, ProcInv, Active
    <1>2. /\ UNCHANGED <<work, head, edits, asks, todo, steady, suppressed>>
          /\ pc' = [pc EXCEPT ![p] = "done"] /\ exit' = [exit EXCEPT ![p] = 0]
          /\ found' = [found EXCEPT ![p] = Nothing]
          /\ decided' = decided \cup Reported(p)
          /\ fresh' = {f \in Sources : baseline' # Torn /\ found[p][f] = Occurring(f)}
        BY DEF Write, trees, Exits, Goto
    <1>3. baseline' = Reported(p) \/ baseline' = Torn
        BY <1>1, KeysAreIdentities DEF Write, entries
    <1>4. Reported(p) \in SUBSET Key
        BY <1>1, KeysAreIdentities
    <1>5. TypeOK'
        <2>1. found' \in [Procs -> [Sources -> (SUBSET Finding) \cup {None}]]
            <3>1. Nothing \in [Sources -> (SUBSET Finding) \cup {None}]
                BY DEF Nothing
            <3> QED BY <1>1, <1>2, <3>1 DEF TypeOK
        <2>2. baseline' \in {None, Torn} \/ baseline' \in SUBSET Key
            BY <1>3, <1>4
        <2>3. decided' \subseteq Key /\ fresh' \subseteq Sources
            BY <1>1, <1>2, <1>4 DEF TypeOK
        <2>4. pc' \in [Procs -> Step] /\ exit' \in [Procs -> {None, 0, 1, 2}]
            BY <1>1, <1>2 DEF TypeOK, Step
        <2> QED BY <1>1, <1>2, <2>1, <2>2, <2>3, <2>4 DEF TypeOK
    <1>6. BaselineInv'
        <2>1. loads' => baseline' \subseteq decided'
            BY <1>2, <1>3 DEF loads
        <2>2. ASSUME NEW f \in fresh'
              PROVE  loads' /\ Identities(f, Occurring(f)) \subseteq baseline'
            <3>1. baseline' = Reported(p) /\ f \in Sources /\ found[p][f] = Occurring(f)
                BY <1>2, <1>3
            <3>2. f \in ScannedBy(p)
                BY <1>1, <3>1, OccurringTypes DEF ScannedBy
            <3>3. loads'
                BY <1>4, <3>1, ValuesAssumption DEF loads
            <3> QED BY <3>1, <3>2, <3>3 DEF Reported
        <2>3. \A f : Occurring(f)' = Occurring(f)
            BY <1>2 DEF Occurring
        <2> QED BY <2>1, <2>2, <2>3 DEF BaselineInv, Identities
    <1>7. ProcInv(p)'
        <2>1. found'[p] = Nothing /\ pc'[p] = "done" /\ asks'[p] = asks[p]
              /\ suppressed'[p] = suppressed[p]
            BY <1>1, <1>2 DEF TypeOK
        <2>2. ScannedBy(p)' = {} /\ Reported(p)' = {} /\ \A f \in Sources : found'[p][f] = None
            BY <2>1, NothingFound
        <2>3. decided \subseteq decided'
            BY <1>2
        <2> QED BY <1>1, <2>1, <2>2, <2>3 DEF ProcInv, Active, Identities
    <1>8. \A q \in Procs \ {p} : Spares(q)
        BY <1>1, <1>2 DEF Spares, TypeOK
    <1>9. decided \subseteq decided'
        BY <1>2
    <1> QED BY <1>5, <1>6, <1>7, <1>8, <1>9, StepOnBaseline

LEMMA CrashInvariant ==
    ASSUME IInv, NEW p \in Procs, Crash(p)
    PROVE  IInv'
    <1>1. TypeOK /\ ProcInv(p) /\ pc[p] # "idle"
        BY DEF IInv, Crash
    <1>2. /\ UNCHANGED <<work, head, edits, baseline, decided, fresh, asks, steady>>
          /\ pc' = [pc EXCEPT ![p] = "done"] /\ exit' = [exit EXCEPT ![p] = None]
          /\ found' = [found EXCEPT ![p] = Nothing]
          /\ todo' = [todo EXCEPT ![p] = {}] /\ suppressed' = [suppressed EXCEPT ![p] = {}]
        BY DEF Crash, trees, Exits, Goto
    <1>3. TypeOK'
        <2>1. Nothing \in [Sources -> (SUBSET Finding) \cup {None}]
            BY DEF Nothing
        <2>2. found' \in [Procs -> [Sources -> (SUBSET Finding) \cup {None}]]
            BY <1>1, <1>2, <2>1 DEF TypeOK
        <2>3. /\ pc' \in [Procs -> Step] /\ exit' \in [Procs -> {None, 0, 1, 2}]
              /\ todo' \in [Procs -> SUBSET Sources]
              /\ suppressed' \in [Procs -> SUBSET (Sources \X Finding)]
            BY <1>1, <1>2 DEF TypeOK, Step
        <2> QED BY <1>1, <1>2, <2>2, <2>3 DEF TypeOK
    <1>4. /\ found'[p] = Nothing /\ pc'[p] = "done" /\ asks'[p] = asks[p]
          /\ suppressed'[p] = {} /\ exit'[p] = None
        BY <1>1, <1>2 DEF TypeOK
    <1>5. ScannedBy(p)' = {} /\ Reported(p)' = {} /\ \A f \in Sources : found'[p][f] = None
        BY <1>4, NothingFound
    <1>6. ProcInv(p)'
        BY <1>1, <1>4, <1>5 DEF ProcInv, Active
    <1>7. \A q \in Procs \ {p} : Spares(q)
        BY <1>1, <1>2 DEF Spares, TypeOK
    <1> QED BY <1>2, <1>3, <1>6, <1>7, StepOfOne

\* An edit leaves nobody sure of the sources, and no source accepted as it is.
LEMMA EditInvariant ==
    ASSUME IInv, Edit
    PROVE  IInv'
    <1>1. /\ edits < MaxEdits /\ edits' = edits + 1
          /\ fresh' = {} /\ steady' = [p \in Procs |-> FALSE]
          /\ UNCHANGED <<head, baseline, decided, pc, asks, todo, found, suppressed, exit>>
        BY DEF Edit, outcome
    <1>2. PICK f \in Files, c \in Content : work' = [work EXCEPT ![f] = c]
        BY DEF Edit
    <1>3. TypeOK /\ BaselineInv
        BY DEF IInv
    <1>4. TypeOK'
        <2>1. edits' \in 0 .. MaxEdits
            BY <1>1, <1>3, BoundsAssumption DEF TypeOK
        <2>2. work' \in [Files -> Content]
            BY <1>2, <1>3 DEF TypeOK
        <2>3. steady' \in [Procs -> BOOLEAN]
            BY <1>1
        <2> QED BY <1>1, <1>3, <2>1, <2>2, <2>3 DEF TypeOK
    <1>5. BaselineInv'
        BY <1>1, <1>3 DEF BaselineInv, loads
    <1>6. ASSUME NEW p \in Procs
          PROVE  ProcInv(p)'
        BY <1>1, SparedKeepInvariant DEF IInv, Spares
    <1> QED BY <1>4, <1>5, <1>6 DEF IInv

LEMMA CommitInvariant ==
    ASSUME IInv, Commit
    PROVE  IInv'
    <1>1. /\ head' = work /\ steady' = [p \in Procs |-> FALSE]
          /\ UNCHANGED <<work, edits, baseline, decided, fresh, pc, asks, todo, found,
                         suppressed, exit>>
        BY DEF Commit, outcome
    <1>2. TypeOK /\ BaselineInv
        BY DEF IInv
    <1>3. TypeOK'
        BY <1>1, <1>2 DEF TypeOK
    <1>4. BaselineInv'
        BY <1>1, <1>2, BaselineKeepsInvariant
    <1>5. ASSUME NEW p \in Procs
          PROVE  ProcInv(p)'
        BY <1>1, SparedKeepInvariant DEF IInv, Spares
    <1> QED BY <1>3, <1>4, <1>5 DEF IInv

LEMMA StutterInvariant ==
    ASSUME IInv, UNCHANGED vars
    PROVE  IInv'
    <1>1. UNCHANGED <<work, head, edits, baseline, decided, fresh, pc, asks, todo, found,
                      suppressed, steady, exit>>
        BY DEF vars, trees, outcome
    <1>2. TypeOK'
        BY <1>1 DEF IInv, TypeOK
    <1>3. BaselineInv'
        BY <1>1, BaselineKeepsInvariant DEF IInv
    <1>4. ASSUME NEW p \in Procs
          PROVE  ProcInv(p)'
        BY <1>1, SparedKeepInvariant DEF IInv, Spares
    <1> QED BY <1>2, <1>3, <1>4 DEF IInv

LEMMA NextInvariant ==
    ASSUME IInv, [Next]_vars
    PROVE  IInv'
    <1>1. ASSUME NEW p \in Procs,
                 \/ Start(p) \/ ScanSource(p) \/ SkipSource(p) \/ Scanned(p)
                 \/ WriteSarif(p) \/ ApplyBaseline(p) \/ BaselineNote(p)
                 \/ Truncate(p) \/ Write(p) \/ Crash(p)
          PROVE  IInv'
        BY <1>1, StartInvariant, ScanSourceInvariant, SkipSourceInvariant, ScannedInvariant,
           WriteSarifInvariant, ApplyBaselineInvariant, BaselineNoteInvariant,
           TruncateInvariant, WriteInvariant, CrashInvariant
    <1> QED BY <1>1, EditInvariant, CommitInvariant, StutterInvariant DEF Next

-----------------------------------------------------------------------------
(* What holds of every scan and every acceptance. *)

LEMMA Invariance == Spec => []IInv
    <1>1. IInv /\ [Next]_vars => IInv'
        BY NextInvariant
    <1> QED BY InitInvariant, <1>1, PTL DEF Spec

\* The types hold, for any number of processes and files, and any beginning.
THEOREM TreeTypesCorrect == Spec => []TypeOK
    <1>1. IInv => TypeOK
        BY DEF IInv
    <1> QED BY <1>1, Invariance, PTL

\* A finding fails the scan unless somebody has accepted it, and is suppressed in the
\* report only then, whatever edits, acceptances and interruptions come between.
THEOREM OnlyAcceptedPasses == Spec => []OnlyDecidedIsDiscounted
    <1>1. IInv => OnlyDecidedIsDiscounted
        BY DEF IInv, ProcInv, OnlyDecidedIsDiscounted
    <1> QED BY <1>1, Invariance, PTL

\* Unless a directory above the repository is dotted or named like one to skip, a scan
\* of what changed since HEAD that passes has looked at every source that differs.
THEOREM ChangesAreScanned ==
    ASSUME ~SkippedAbove
    PROVE  Spec => []ChangedIsScanned
    <1>1. ASSUME IInv
          PROVE  ChangedIsScanned
        <2> SUFFICES ASSUME NEW p \in Procs, pc[p] = "done", exit[p] = 0, steady[p],
                            asks[p].changed, NEW f \in Named(asks[p]),
                            work[f] \notin {head[f], None}
                     PROVE  \/ found[p][f] = None /\ f \in sources_of(asks[p])
                            \/ Identities(f, Occurring(f)) \subseteq decided
            BY DEF ChangedIsScanned
        <2>1. TypeOK /\ ProcInv(p) /\ asks[p] \in Requests[p]
            BY <1>1 DEF IInv, ProcInv
        <2>2. asks[p] \in Request
            BY <2>1, RequestsAssumption
        <2>3. asks[p].command = "scan"
            BY <2>1, <2>2, RequestsAssumption DEF Request
        <2>4. f \in Sources
            BY <2>2 DEF Named, discover_sources, Request
        <2>5. f \in sources_of(asks[p])
            BY <2>4 DEF sources_of, changed_sources, discover_sources
        <2>6. CASE found[p][f] = None
            BY <2>5, <2>6
        <2>7. CASE found[p][f] # None
            <3>1. found[p][f] = Occurring(f) /\ f \in ScannedBy(p)
                BY <2>1, <2>4, <2>7 DEF ProcInv, ScannedBy
            <3>2. Identities(f, Occurring(f)) \subseteq Reported(p)
                BY <3>1 DEF Reported
            <3> QED BY <2>1, <2>3, <3>2 DEF ProcInv
        <2> QED BY <2>6, <2>7
    <1>2. IInv => ChangedIsScanned
        BY <1>1
    <1> QED BY <1>2, Invariance, PTL

\* Once sources have been accepted as they are, a scan of them with the baseline does
\* not fail on them.
THEOREM AcceptedDoesNotFail == Spec => CleanAfterAccept
    <1> DEFINE Clean == \A p \in Procs :
                  pc[p] = "verdict" /\ Discounts(p) /\ steady[p] /\ ScannedBy(p) \subseteq fresh =>
                      exit'[p] # 1
    <1>1. ASSUME IInv, Next
          PROVE  Clean
        <2> SUFFICES ASSUME NEW p \in Procs, pc[p] = "verdict", Discounts(p), steady[p],
                            ScannedBy(p) \subseteq fresh
                     PROVE  exit'[p] # 1
            OBVIOUS
        <2>1. TypeOK /\ ProcInv(p) /\ BaselineInv /\ exit[p] = None
            BY <1>1 DEF IInv, ProcInv, Active
        <2>2. Reported(p) \subseteq baseline
            BY <2>1 DEF Reported, ProcInv, BaselineInv, ScannedBy
        <2>3. CASE ApplyBaseline(p)
            <3>1. new(p) = {}
                BY <2>1, <2>2, KeysAreIdentities DEF new
            <3>2. exit' = [exit EXCEPT ![p] = 2] \/ exit' = [exit EXCEPT ![p] = 0]
                BY <2>3, <3>1 DEF ApplyBaseline, Exits
            <3> QED BY <2>1, <3>2 DEF TypeOK
        <2>4. CASE Crash(p)
            BY <2>1, <2>4, ValuesAssumption DEF Crash, Exits, TypeOK
        <2>5. CASE exit'[p] = exit[p]
            BY <2>1, <2>5, ValuesAssumption
        <2>6. ASSUME NEW q \in Procs,
                     \/ Start(q) \/ ScanSource(q) \/ SkipSource(q) \/ Scanned(q)
                     \/ WriteSarif(q) \/ ApplyBaseline(q) \/ BaselineNote(q)
                     \/ Truncate(q) \/ Write(q) \/ Crash(q),
                     ~ApplyBaseline(p), ~Crash(p)
              PROVE  exit'[p] = exit[p]
            <3>1. CASE q = p
                BY <2>6, <3>1
                   DEF Start, ScanSource, SkipSource, Scanned, WriteSarif, BaselineNote,
                       Truncate, Write
            <3>2. CASE q # p
                <4>1. exit' = exit \/ \E code : exit' = [exit EXCEPT ![q] = code]
                    BY <2>6 DEF Start, ScanSource, SkipSource, Scanned, WriteSarif,
                                ApplyBaseline, BaselineNote, Truncate, Write, Crash, Exits,
                                outcome
                <4> QED BY <2>1, <3>2, <4>1 DEF TypeOK
            <3> QED BY <3>1, <3>2
        <2>7. CASE Edit \/ Commit
            BY <2>7, <2>5 DEF Edit, Commit, outcome
        <2> QED BY <1>1, <2>3, <2>4, <2>5, <2>6, <2>7 DEF Next
    <1>2. IInv /\ [Next]_vars => [Clean]_vars
        BY <1>1
    <1> QED BY <1>2, Invariance, PTL DEF Spec, CleanAfterAccept

=============================================================================
