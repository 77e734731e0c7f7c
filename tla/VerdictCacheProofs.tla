------------------------- MODULE VerdictCacheProofs -------------------------
(***************************************************************************)
(* A cached verdict is about the inputs it is served for, for any number   *)
(* of processes, versions of the inputs and files, as long as the inputs   *)
(* stay as they are between a scan's key and its verdict.                  *)
(*                                                                         *)
(* The argument is one of ownership: an inode is only ever reached through *)
(* one key, whether by name or by an open file, and what a scan of that    *)
(* key writes is about that key.                                           *)
(***************************************************************************)
EXTENDS VerdictCache, TLAPS

\* Inode i can be read or written under key k.
Reached(i, k) ==
    \/ temporary[k] = i
    \/ entry[k] = i
    \/ \E p \in Procs : fd[p] = i /\ key[p] = k

OneKeyEach == \A i \in Inodes : \A k, l \in Inputs : Reached(i, k) /\ Reached(i, l) => k = l

EntriesAreOfTheirKey ==
    \A i \in Inodes : \A k \in Inputs :
        Reached(i, k) /\ inode[i] \in Payload => inode[i].about = k

\* What a process knows at each step.
ProcessesKnow ==
    \A p \in Procs :
        /\ pc[p] # "idle" => key[p] \in Inputs
        /\ pc[p] \in {"get", "scan"} => key[p] = tree
        /\ pc[p] \in {"open", "write", "replace", "served"} =>
              report[p] \in Payload /\ report[p].about = key[p]
        /\ IF pc[p] = "write" THEN fd[p] \in Inodes ELSE fd[p] = None

IInv == TypeOK /\ OneKeyEach /\ EntriesAreOfTheirKey /\ ProcessesKnow

-----------------------------------------------------------------------------

LEMMA InvariantInitially == Init => IInv
<1>. SUFFICES ASSUME Init PROVE IInv
  OBVIOUS
<1>1. TypeOK
  BY UnreadableAssumption DEF Init, TypeOK, Contents, Step
<1>2. \A i \in Inodes : \A k \in Inputs : ~Reached(i, k)
  BY NoneIsNothing DEF Init, Reached
<1>3. ProcessesKnow
  BY DEF Init, ProcessesKnow
<1>. QED
  BY <1>1, <1>2, <1>3 DEF IInv, OneKeyEach, EntriesAreOfTheirKey

\* A step after which everything is reached as before, and holds what it held,
\* keeps ownership.
LEMMA OwnershipKept ==
    ASSUME IInv, UNCHANGED inode,
           \A i \in Inodes : \A k \in Inputs : Reached(i, k)' => Reached(i, k)
    PROVE  OneKeyEach' /\ EntriesAreOfTheirKey'
BY DEF IInv, OneKeyEach, EntriesAreOfTheirKey

LEMMA HitStep == ASSUME IInv, NEW p \in Procs, Hit(p) PROVE IInv'
<1>1. PICK cached \in Payload :
        /\ cached = lookup(key[p]) /\ pc[p] = "get"
        /\ report' = [report EXCEPT ![p] = cached]
        /\ pc' = [pc EXCEPT ![p] = "served"]
        /\ UNCHANGED <<tree, temporary, entry, inode, asks, key, fd>>
  BY DEF Hit, Answered, lookup, Goto, files
<1>2. key[p] \in Inputs
  BY <1>1 DEF IInv, ProcessesKnow
<1>3. cached.about = key[p]
  <2>1. entry[key[p]] \in Inodes /\ inode[entry[key[p]]] = cached
    BY <1>1, <1>2, UnreadableAssumption DEF lookup, IInv, TypeOK
  <2>2. Reached(entry[key[p]], key[p])
    BY DEF Reached
  <2>. QED
    BY <1>2, <2>1, <2>2 DEF IInv, EntriesAreOfTheirKey
<1>4. TypeOK'
  BY <1>1 DEF IInv, TypeOK, Step
<1>5. OneKeyEach' /\ EntriesAreOfTheirKey'
  BY <1>1, OwnershipKept DEF Reached
<1>6. ProcessesKnow'
  BY <1>1, <1>2, <1>3 DEF IInv, TypeOK, ProcessesKnow
<1>. QED
  BY <1>4, <1>5, <1>6 DEF IInv

\* What ends a process's scan: it lets go of whatever it had open.
LEMMA FinishStep ==
    ASSUME IInv, NEW p \in Procs, Finish(p), UNCHANGED <<tree, inode>>,
           temporary' \in [Inputs -> Inodes \cup {None}],
           entry' \in [Inputs -> Inodes \cup {None}],
           \A k \in Inputs : /\ temporary'[k] \in {temporary[k], None}
                             /\ entry'[k] \in {entry[k], temporary[k]}
    PROVE  IInv'
<1>1. /\ pc' = [pc EXCEPT ![p] = "idle"] /\ key' = [key EXCEPT ![p] = None]
      /\ fd' = [fd EXCEPT ![p] = None] /\ asks' = [asks EXCEPT ![p] = {}]
      /\ report' = [report EXCEPT ![p] = None]
  BY DEF Finish, Goto
<1>2. TypeOK'
  BY <1>1 DEF IInv, TypeOK, Step
<1>3. \A i \in Inodes : \A k \in Inputs : Reached(i, k)' => Reached(i, k)
  BY <1>1, NoneIsNothing DEF IInv, TypeOK, Reached
<1>4. ProcessesKnow'
  BY <1>1 DEF IInv, TypeOK, ProcessesKnow
<1>. QED
  BY <1>2, <1>3, <1>4, OwnershipKept DEF IInv

LEMMA ComputeKeyStep == ASSUME IInv, NEW p \in Procs, ComputeKey(p) PROVE IInv'
<1>1. PICK request \in SUBSET Pass : asks' = [asks EXCEPT ![p] = request]
  BY RequestsAssumption DEF ComputeKey
<1>2. /\ pc[p] \in {"idle", "served"} /\ pc' = [pc EXCEPT ![p] = "get"]
      /\ key' = [key EXCEPT ![p] = tree] /\ report' = [report EXCEPT ![p] = None]
      /\ UNCHANGED <<tree, temporary, entry, inode, fd>>
  BY DEF ComputeKey, Goto, key_for, files
<1>3. TypeOK'
  BY <1>1, <1>2 DEF IInv, TypeOK, Step
<1>4. fd[p] = None
  BY <1>2 DEF IInv, ProcessesKnow
<1>5. OneKeyEach' /\ EntriesAreOfTheirKey'
  <2>1. \A i \in Inodes : \A k \in Inputs : Reached(i, k)' => Reached(i, k)
    BY <1>2, <1>4, NoneIsNothing DEF IInv, TypeOK, Reached
  <2>. QED
    BY <1>2, <2>1, OwnershipKept
<1>6. ProcessesKnow'
  BY <1>2 DEF IInv, TypeOK, ProcessesKnow
<1>. QED
  BY <1>3, <1>5, <1>6 DEF IInv

LEMMA MissStep == ASSUME IInv, NEW p \in Procs, Miss(p) PROVE IInv'
<1>1. /\ pc[p] = "get" /\ pc' = [pc EXCEPT ![p] = "scan"]
      /\ UNCHANGED <<tree, temporary, entry, inode, asks, key, report, fd>>
  BY DEF Miss, Goto, files
<1>2. TypeOK'
  BY <1>1 DEF IInv, TypeOK, Step
<1>3. OneKeyEach' /\ EntriesAreOfTheirKey'
  BY <1>1, OwnershipKept DEF Reached
<1>4. ProcessesKnow'
  BY <1>1 DEF IInv, TypeOK, ProcessesKnow
<1>. QED
  BY <1>2, <1>3, <1>4 DEF IInv

\* The inputs have not moved since the key: the report is about the key.
LEMMA ScanStep == ASSUME IInv, NEW p \in Procs, Scan(p) PROVE IInv'
<1>1. PICK found \in Payload : report' = [report EXCEPT ![p] = found] /\ found.about = tree
  <2>1. tree \in Inputs /\ Found[tree] \in SUBSET Finding
    BY FoundAssumption DEF IInv, TypeOK
  <2>2. PICK left \in SUBSET Finding, retried \in BOOLEAN :
          report' = [report EXCEPT ![p] =
                       [about |-> tree, left |-> left, triaged |-> "triage" \in asks[p],
                        retried |-> retried]]
    BY <2>1 DEF Scan, Settled
  <2>. DEFINE found == [about |-> tree, left |-> left, triaged |-> "triage" \in asks[p],
                        retried |-> retried]
  <2>3. found \in Payload
    BY <2>1 DEF Payload
  <2>4. found.about = tree
    OBVIOUS
  <2>. HIDE DEF found
  <2>5. report' = [report EXCEPT ![p] = found]
    BY <2>2 DEF found
  <2>. QED
    BY <2>3, <2>4, <2>5
<1>2. /\ pc[p] = "scan" /\ pc' = [pc EXCEPT ![p] = "open"]
      /\ UNCHANGED <<tree, temporary, entry, inode, asks, key, fd>>
  BY DEF Scan, Goto, files
<1>3. found.about = key[p]
  BY <1>1, <1>2 DEF IInv, ProcessesKnow
<1>4. TypeOK'
  BY <1>1, <1>2, <1>3 DEF IInv, TypeOK, Step
<1>5. OneKeyEach' /\ EntriesAreOfTheirKey'
  BY <1>2, OwnershipKept DEF Reached
<1>6. ProcessesKnow'
  BY <1>1, <1>2, <1>3 DEF IInv, TypeOK, ProcessesKnow
<1>. QED
  BY <1>4, <1>5, <1>6 DEF IInv

\* An inode is created for this key alone, or is this key's already.
LEMMA OpenTemporaryStep == ASSUME IInv, NEW p \in Procs, OpenTemporary(p) PROVE IInv'
<1>1. PICK i \in Inodes :
        /\ IF temporary[key[p]] = None THEN ~Named(i) /\ ~Opened(i) ELSE i = temporary[key[p]]
        /\ temporary' = [temporary EXCEPT ![key[p]] = i]
        /\ inode' = [inode EXCEPT ![i] = Empty]
        /\ fd' = [fd EXCEPT ![p] = i]
  BY DEF OpenTemporary, path_for_temporary
<1>2. /\ pc[p] = "open" /\ pc' = [pc EXCEPT ![p] = "write"]
      /\ UNCHANGED <<tree, entry, asks, key, report>>
  BY DEF OpenTemporary, Goto
<1>3. key[p] \in Inputs
  BY <1>2 DEF IInv, ProcessesKnow
<1>4. TypeOK'
  BY <1>1, <1>2, <1>3 DEF IInv, TypeOK, Step, Contents
<1>5. \A j \in Inodes : \A k \in Inputs : Reached(j, k)' => Reached(j, k) \/ (j = i /\ k = key[p])
  BY <1>1, <1>2, <1>3 DEF IInv, TypeOK, Reached
<1>6. \A k \in Inputs : Reached(i, k) => k = key[p]
  <2>1. CASE temporary[key[p]] = None
    BY <1>1, <2>1 DEF Reached, Named, Opened
  <2>2. CASE temporary[key[p]] # None
    <3>1. Reached(i, key[p])
      BY <1>1, <2>2 DEF Reached
    <3>. QED
      BY <1>3, <3>1 DEF IInv, OneKeyEach
  <2>. QED
    BY <2>1, <2>2
<1>7. OneKeyEach'
  BY <1>3, <1>5, <1>6 DEF IInv, OneKeyEach
<1>8. EntriesAreOfTheirKey'
  BY <1>1, <1>5, UnreadableAssumption DEF IInv, TypeOK, EntriesAreOfTheirKey
<1>9. ProcessesKnow'
  BY <1>1, <1>2 DEF IInv, TypeOK, ProcessesKnow
<1>. QED
  BY <1>4, <1>7, <1>8, <1>9 DEF IInv

LEMMA WriteTemporaryStep == ASSUME IInv, NEW p \in Procs, WriteTemporary(p) PROVE IInv'
<1>1. PICK c \in {report[p], Torn} : inode' = [inode EXCEPT ![fd[p]] = c]
  BY DEF WriteTemporary
<1>2. /\ pc[p] = "write" /\ pc' = [pc EXCEPT ![p] = "replace"]
      /\ fd' = [fd EXCEPT ![p] = None]
      /\ UNCHANGED <<tree, temporary, entry, asks, key, report>>
  BY DEF WriteTemporary, Goto
<1>3. /\ key[p] \in Inputs /\ fd[p] \in Inodes
      /\ report[p] \in Payload /\ report[p].about = key[p]
  BY <1>2 DEF IInv, ProcessesKnow
<1>4. TypeOK'
  BY <1>1, <1>2, <1>3 DEF IInv, TypeOK, Step, Contents
<1>5. \A j \in Inodes : \A k \in Inputs : Reached(j, k)' => Reached(j, k)
  BY <1>2, NoneIsNothing DEF IInv, TypeOK, Reached
<1>6. \A k \in Inputs : Reached(fd[p], k) => k = key[p]
  <2>1. Reached(fd[p], key[p])
    BY DEF Reached
  <2>. QED
    BY <1>3, <2>1 DEF IInv, OneKeyEach
<1>7. OneKeyEach'
  BY <1>5 DEF IInv, OneKeyEach
<1>8. EntriesAreOfTheirKey'
  BY <1>1, <1>3, <1>5, <1>6, UnreadableAssumption DEF IInv, TypeOK, EntriesAreOfTheirKey
<1>9. ProcessesKnow'
  BY <1>2 DEF IInv, TypeOK, ProcessesKnow
<1>. QED
  BY <1>4, <1>7, <1>8, <1>9 DEF IInv

LEMMA ReplaceStep == ASSUME IInv, NEW p \in Procs, Replace(p) PROVE IInv'
<1>1. key[p] \in Inputs
  BY DEF Replace, IInv, ProcessesKnow
<1>2. Finish(p) /\ UNCHANGED <<tree, inode>>
  BY DEF Replace
<1>3. \/ UNCHANGED <<temporary, entry>>
      \/ /\ entry' = [entry EXCEPT ![key[p]] = temporary[key[p]]]
         /\ temporary' = [temporary EXCEPT ![key[p]] = None]
  BY DEF Replace, path_for_temporary
<1>4. /\ temporary' \in [Inputs -> Inodes \cup {None}]
      /\ entry' \in [Inputs -> Inodes \cup {None}]
      /\ \A k \in Inputs : /\ temporary'[k] \in {temporary[k], None}
                           /\ entry'[k] \in {entry[k], temporary[k]}
  BY <1>1, <1>3 DEF IInv, TypeOK
<1>. QED
  BY <1>2, <1>4, FinishStep

\* The inputs move only while no process is between its key and its verdict.
LEMMA EditStep == ASSUME IInv, ~EditsDuringScan, Edit PROVE IInv'
<1>1. /\ \A p \in Procs : pc[p] \notin {"get", "scan"}
      /\ tree' \in Inputs
      /\ UNCHANGED <<temporary, entry, inode, pc, asks, key, report, fd>>
  BY DEF Edit, files
<1>2. TypeOK'
  BY <1>1 DEF IInv, TypeOK
<1>3. OneKeyEach' /\ EntriesAreOfTheirKey'
  BY <1>1, OwnershipKept DEF Reached
<1>4. ProcessesKnow'
  BY <1>1 DEF IInv, ProcessesKnow
<1>. QED
  BY <1>2, <1>3, <1>4 DEF IInv

LEMMA InvariantPreserved == ASSUME ~EditsDuringScan PROVE IInv /\ [Next]_vars => IInv'
<1>. SUFFICES ASSUME IInv, [Next]_vars PROVE IInv'
  OBVIOUS
<1>1. ASSUME NEW p \in Procs, PutFails(p) \/ Crash(p) PROVE IInv'
  <2>1. Finish(p) /\ UNCHANGED <<tree, inode, temporary, entry>>
    BY <1>1 DEF PutFails, Crash, files
  <2>. QED
    BY <2>1, FinishStep DEF IInv, TypeOK
<1>2. CASE UNCHANGED vars
  BY <1>2 DEF vars, files, IInv, TypeOK, OneKeyEach, EntriesAreOfTheirKey, ProcessesKnow, Reached
<1>. QED
  BY <1>1, <1>2, ComputeKeyStep, HitStep, MissStep, ScanStep, OpenTemporaryStep,
     WriteTemporaryStep, ReplaceStep, EditStep DEF Next

\* The types hold under the same assumption: an entry is of its key's type because
\* it is of its key.
THEOREM CacheTypesCorrect == ASSUME ~EditsDuringScan PROVE Spec => []TypeOK
<1>1. IInv => TypeOK
  BY DEF IInv
<1>. QED
  BY <1>1, InvariantInitially, InvariantPreserved, PTL DEF Spec

\* Whatever is served from the cache was obtained on the inputs it is served for,
\* if these do not change between a scan's key and its verdict.
THEOREM ServedVerdictsAreCurrent ==
    ASSUME ~EditsDuringScan PROVE Spec => []ServedVerdictIsCurrent
<1>1. IInv => ServedVerdictIsCurrent
  BY DEF IInv, ProcessesKnow, ServedVerdictIsCurrent
<1>. QED
  BY <1>1, InvariantInitially, InvariantPreserved, PTL DEF Spec

=============================================================================
