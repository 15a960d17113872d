--------------------------- MODULE RunDirectoryProofs ---------------------------
(***************************************************************************)
(* Proofs about RunDirectory, for any runs, any retention and any clock.   *)
(***************************************************************************)
EXTENDS RunDirectory, FiniteSetTheorems, WellFoundedInduction, TLAPS

USE RunDirectoryAssumption

LEMMA TimeFacts == Time \subseteq Nat /\ 0 \in Time
BY DEF Time

LEMMA LabelFacts ==
  /\ CreateLabel = {"mkdir", "mark", "manifest", "discard"}
  /\ Label = {"mkdir", "mark", "manifest", "discard", "read", "backup", "publish", "restore",
              "unmark", "list", "scan.marker", "scan.manifest", "check", "quarantine", "verify",
              "rollback", "remove", "active", "done", "failed", "completeFailed", "crashed"}
BY DEF CreateLabel, CompleteLabel, PruneLabel, Label

\* Initially the completed runs have a directory and the others have not begun.
LEMMA InitIInv == Init => IInv
<1> SUFFICES ASSUME Init PROVE IInv
  OBVIOUS
<1>1. TypeOK
  <2>1. completed \in [Run -> Time] /\ \A r \in Run : completed[r] \in Nat
    BY TimeFacts DEF Init
  <2>2. place \in [Run -> Place] /\ manifest \in [Run -> Manifest] /\ pc \in [Run -> Label]
    BY LabelFacts DEF Init, Place, Manifest
  <2>3. started \in [Run -> Time] /\ \A r \in Run : completed[r] >= started[r]
    BY <2>1, TimeFacts DEF Init
  <2> QED
    BY <2>1, <2>2, <2>3 DEF Init, TypeOK
<1>2. Phase
  BY DEF Init, Phase, CreateLabel
<1>3. Looked /\ Exclusive
  BY DEF Init, Looked, Exclusive
<1> QED
  BY <1>1, <1>2, <1>3 DEF IInv

\* The steps that change no directory, no marker and no manifest keep the
\* invariant when the run that takes them ends where nothing is claimed.
LEMMA QuietIInv ==
  ASSUME IInv, NEW r \in Run, NEW l \in Label, pc' = [pc EXCEPT ![r] = l],
         l \notin CreateLabel \cup {"active", "backup", "publish", "restore",
                    "quarantine", "verify", "rollback", "remove"},
         UNCHANGED <<place, manifest, started, completed>>,
         l = "unmark" => manifest[r] = "completed",
         marker' \subseteq marker, marker \ {r} \subseteq marker',
         manifest[r] = "completed" \/ marker' = marker,
         NEW e \in Run, entry' = [entry EXCEPT ![r] = e],
         todo' \in [Run -> SUBSET Run], candidate' \in [Run -> SUBSET Run],
         doomed' \in [Run -> SUBSET Run], faults' \in Nat
  PROVE  IInv'
<1>1. TypeOK'
  BY DEF IInv, TypeOK
<1>2. Phase'
  BY LabelFacts DEF IInv, TypeOK, Phase
<1>3. Looked'
  BY DEF IInv, TypeOK, Looked
<1>4. Exclusive'
  BY DEF IInv, TypeOK, Exclusive
<1> QED
  BY <1>1, <1>2, <1>3, <1>4 DEF IInv

LEMMA MakeDirectoryIInv == ASSUME IInv, NEW r \in Run, MakeDirectory(r) PROVE IInv'
<1> USE LabelFacts DEF MakeDirectory, Goto, disk, scan
<1>1. TypeOK'
  BY TimeFacts DEF IInv, TypeOK, Place, Manifest
<1>2. Phase'
  BY DEF IInv, TypeOK, Phase
<1>3. Looked'
  BY DEF IInv, TypeOK, Phase, Looked, Exclusive
<1>4. Exclusive'
  BY DEF IInv, TypeOK, Phase, Looked, Exclusive
<1> QED
  BY <1>1, <1>2, <1>3, <1>4 DEF IInv

LEMMA WriteMarkerIInv == ASSUME IInv, NEW r \in Run, WriteMarker(r) PROVE IInv'
<1> USE LabelFacts DEF WriteMarker, Goto, disk, scan
<1>1. TypeOK'
  BY TimeFacts DEF IInv, TypeOK, Place, Manifest
<1>2. Phase'
  BY DEF IInv, TypeOK, Phase
<1>3. Looked'
  BY DEF IInv, TypeOK, Phase, Looked, Exclusive
<1>4. Exclusive'
  BY DEF IInv, TypeOK, Phase, Looked, Exclusive
<1> QED
  BY <1>1, <1>2, <1>3, <1>4 DEF IInv

LEMMA WriteManifestIInv == ASSUME IInv, NEW r \in Run, WriteManifest(r) PROVE IInv'
<1> USE LabelFacts DEF WriteManifest, Goto, disk, scan
<1>1. TypeOK'
  BY TimeFacts DEF IInv, TypeOK, Place, Manifest
<1>2. Phase'
  BY DEF IInv, TypeOK, Phase
<1>3. Looked'
  BY DEF IInv, TypeOK, Phase, Looked, Exclusive
<1>4. Exclusive'
  BY DEF IInv, TypeOK, Phase, Looked, Exclusive
<1> QED
  BY <1>1, <1>2, <1>3, <1>4 DEF IInv

LEMMA DiscardIInv == ASSUME IInv, NEW r \in Run, Discard(r) PROVE IInv'
<1> USE LabelFacts DEF Discard, Goto, disk, scan
<1>1. TypeOK'
  BY TimeFacts DEF IInv, TypeOK, Place, Manifest
<1>2. Phase'
  BY DEF IInv, TypeOK, Phase
<1>3. Looked'
  BY DEF IInv, TypeOK, Phase, Looked, Exclusive
<1>4. Exclusive'
  BY DEF IInv, TypeOK, Phase, Looked, Exclusive
<1> QED
  BY <1>1, <1>2, <1>3, <1>4 DEF IInv

LEMMA BackupManifestIInv == ASSUME IInv, NEW r \in Run, BackupManifest(r) PROVE IInv'
<1> USE LabelFacts DEF BackupManifest, Goto, disk, scan
<1>1. TypeOK'
  BY TimeFacts DEF IInv, TypeOK, Place, Manifest
<1>2. Phase'
  BY DEF IInv, TypeOK, Phase
<1>3. Looked'
  BY DEF IInv, TypeOK, Phase, Looked, Exclusive
<1>4. Exclusive'
  BY DEF IInv, TypeOK, Phase, Looked, Exclusive
<1> QED
  BY <1>1, <1>2, <1>3, <1>4 DEF IInv

LEMMA PublishManifestIInv == ASSUME IInv, NEW r \in Run, PublishManifest(r) PROVE IInv'
<1> USE LabelFacts DEF PublishManifest, Goto, scan
<1>1. PICK t \in Time :
        completed' = [completed EXCEPT ![r] = IF t > started[r] THEN t ELSE started[r]]
  OBVIOUS
<1> DEFINE c == IF t > started[r] THEN t ELSE started[r]
<1>2. c \in Time /\ c >= started[r] /\ completed' = [completed EXCEPT ![r] = c]
  <2>1. started[r] \in Time
    BY DEF IInv, TypeOK
  <2>2. started[r] \in Nat /\ t \in Nat
    BY <2>1, TimeFacts
  <2>3. c \in {t, started[r]} /\ c >= started[r]
    BY <2>2
  <2> QED
    BY <1>1, <2>1, <2>3
<1> HIDE DEF c
<1>3. TypeOK'
  BY <1>1, <1>2 DEF IInv, TypeOK, Manifest
<1>4. Phase'
  BY DEF IInv, TypeOK, Phase
<1>5. Looked'
  BY DEF IInv, TypeOK, Phase, Looked
<1>6. Exclusive'
  BY DEF IInv, TypeOK, Exclusive
<1> QED
  BY <1>3, <1>4, <1>5, <1>6 DEF IInv

LEMMA RestoreManifestIInv == ASSUME IInv, NEW r \in Run, RestoreManifest(r) PROVE IInv'
<1> USE LabelFacts DEF RestoreManifest, Goto, disk, scan
<1>1. TypeOK'
  BY TimeFacts DEF IInv, TypeOK, Place, Manifest
<1>2. Phase'
  BY DEF IInv, TypeOK, Phase
<1>3. Looked'
  BY DEF IInv, TypeOK, Phase, Looked, Exclusive
<1>4. Exclusive'
  BY DEF IInv, TypeOK, Phase, Looked, Exclusive
<1> QED
  BY <1>1, <1>2, <1>3, <1>4 DEF IInv

\* A deletion that ends knows nothing any more.
LEMMA LeaveIInv ==
  ASSUME IInv, NEW r \in Run, NEW s, Leave(r, s),
         UNCHANGED <<disk, todo, candidate>>, faults' \in Nat
  PROVE  IInv'
<1>1. doomed' \in [Run -> SUBSET Run]
  BY DEF IInv, TypeOK, Leave
<1>2. todo' \in [Run -> SUBSET Run] /\ candidate' \in [Run -> SUBSET Run] /\ marker \subseteq Run
  BY DEF IInv, TypeOK
<1> QED
  BY <1>1, <1>2, QuietIInv, LabelFacts DEF Leave, Goto, disk

LEMMA CheckTargetIInv == ASSUME IInv, NEW r \in Run, CheckTarget(r) PROVE IInv'
<1> USE LabelFacts
<1>0. PICK s \in NextDoomed(r) :
         \/ /\ place[s] = "runs" /\ s \notin marker /\ manifest[s] = "completed"
            /\ entry' = [entry EXCEPT ![r] = s]
            /\ Goto(r, "quarantine")
            /\ UNCHANGED doomed
         \/ Leave(r, s)
  BY DEF CheckTarget
<1>1. CASE /\ manifest[s] = "completed"
           /\ entry' = [entry EXCEPT ![r] = s]
           /\ pc' = [pc EXCEPT ![r] = "quarantine"]
           /\ UNCHANGED <<place, marker, manifest, started, completed, todo, candidate, doomed, faults>>
  <2>0. s \in Run
    BY DEF NextDoomed, IInv, TypeOK
  <2>1. TypeOK'
    BY <1>1, <2>0 DEF IInv, TypeOK, Place
  <2>2. Phase'
    BY <1>1, <2>0 DEF IInv, TypeOK, Phase, Looked
  <2>3. Looked'
    BY <1>1, <2>0 DEF IInv, TypeOK, Phase, Looked, Exclusive
  <2>4. Exclusive'
    BY <1>1, <2>0 DEF IInv, TypeOK, Looked, Exclusive
  <2> QED
    BY <2>1, <2>2, <2>3, <2>4 DEF IInv
<1>2. CASE Leave(r, s)
  BY <1>2, LeaveIInv DEF CheckTarget, IInv, TypeOK
<1> QED
  BY <1>0, <1>1, <1>2 DEF CheckTarget, Goto, disk

LEMMA QuarantineIInv == ASSUME IInv, NEW r \in Run, Quarantine(r) PROVE IInv'
<1> USE LabelFacts
<1>1. CASE /\ pc[r] = "quarantine" /\ place[entry[r]] = "runs"
           /\ place' = [place EXCEPT ![entry[r]] = "quarantine"]
           /\ pc' = [pc EXCEPT ![r] = "verify"]
           /\ UNCHANGED <<marker, manifest, started, completed, entry, todo, candidate, doomed, faults>>
  <2>1. TypeOK'
    BY <1>1 DEF IInv, TypeOK, Place
  <2>2. Phase'
    BY <1>1 DEF IInv, TypeOK, Phase, Looked
  <2>3. Looked'
    BY <1>1 DEF IInv, TypeOK, Phase, Looked, Exclusive
  <2>4. Exclusive'
    BY <1>1 DEF IInv, TypeOK, Looked, Exclusive
  <2> QED
    BY <2>1, <2>2, <2>3, <2>4 DEF IInv
<1>2. CASE Leave(r, entry[r]) /\ UNCHANGED place
  BY <1>2, LeaveIInv DEF Quarantine, IInv, TypeOK, disk
<1> QED
  BY <1>1, <1>2 DEF Quarantine, Goto

LEMMA VerifyQuarantinedIInv == ASSUME IInv, NEW r \in Run, VerifyQuarantined(r) PROVE IInv'
<1> USE LabelFacts DEF VerifyQuarantined, Goto, disk, scan
<1>1. TypeOK'
  BY TimeFacts DEF IInv, TypeOK, Place, Manifest
<1>2. Phase'
  BY DEF IInv, TypeOK, Phase
<1>3. Looked'
  BY DEF IInv, TypeOK, Phase, Looked, Exclusive
<1>4. Exclusive'
  BY DEF IInv, TypeOK, Phase, Looked, Exclusive
<1> QED
  BY <1>1, <1>2, <1>3, <1>4 DEF IInv

LEMMA RollbackQuarantineIInv == ASSUME IInv, NEW r \in Run, RollbackQuarantine(r) PROVE IInv'
<1> USE LabelFacts DEF RollbackQuarantine, Leave, Goto
<1>1. TypeOK'
  BY TimeFacts DEF IInv, TypeOK, Place, Manifest
<1>2. Phase'
  BY DEF IInv, TypeOK, Phase, Looked
<1>3. Looked'
  BY DEF IInv, TypeOK, Phase, Looked, Exclusive
<1>4. Exclusive'
  BY DEF IInv, TypeOK, Phase, Looked, Exclusive
<1> QED
  BY <1>1, <1>2, <1>3, <1>4 DEF IInv

LEMMA RemoveQuarantinedIInv == ASSUME IInv, NEW r \in Run, RemoveQuarantined(r) PROVE IInv'
<1> USE LabelFacts DEF RemoveQuarantined, Leave, Goto
<1>1. TypeOK'
  BY TimeFacts DEF IInv, TypeOK, Place, Manifest
<1>2. Phase'
  BY DEF IInv, TypeOK, Phase, Looked
<1>3. Looked'
  BY DEF IInv, TypeOK, Phase, Looked, Exclusive
<1>4. Exclusive'
  BY DEF IInv, TypeOK, Phase, Looked, Exclusive
<1> QED
  BY <1>1, <1>2, <1>3, <1>4 DEF IInv

LEMMA ProtectIInv == ASSUME IInv, NEW r \in Run, Protect(r) PROVE IInv'
<1> USE LabelFacts DEF Protect, Goto, disk, scan
<1>1. TypeOK'
  BY TimeFacts DEF IInv, TypeOK, Place, Manifest
<1>2. Phase'
  BY DEF IInv, TypeOK, Phase
<1>3. Looked'
  BY DEF IInv, TypeOK, Phase, Looked, Exclusive
<1>4. Exclusive'
  BY DEF IInv, TypeOK, Phase, Looked, Exclusive
<1> QED
  BY <1>1, <1>2, <1>3, <1>4 DEF IInv

LEMMA CompleteIInv == ASSUME IInv, NEW r \in Run, Complete(r) PROVE IInv'
<1> USE LabelFacts DEF Complete, Goto, disk, scan
<1>1. TypeOK'
  BY TimeFacts DEF IInv, TypeOK, Place, Manifest
<1>2. Phase'
  BY DEF IInv, TypeOK, Phase
<1>3. Looked'
  BY DEF IInv, TypeOK, Phase, Looked, Exclusive
<1>4. Exclusive'
  BY DEF IInv, TypeOK, Phase, Looked, Exclusive
<1> QED
  BY <1>1, <1>2, <1>3, <1>4 DEF IInv

LEMMA ReadManifestIInv == ASSUME IInv, NEW r \in Run, ReadManifest(r) PROVE IInv'
<1>0. PICK l \in {"completeFailed", "backup", "unmark"} :
        /\ pc' = [pc EXCEPT ![r] = l]
        /\ l = "backup" => manifest[r] = "active" /\ place[r] = "runs"
        /\ l = "unmark" => manifest[r] = "completed"
  BY DEF ReadManifest, Goto, IInv, TypeOK, Manifest
<1>1. pc[r] = "read" /\ UNCHANGED <<place, marker, manifest, started, completed, entry, todo,
                                    candidate, doomed, faults>>
  BY DEF ReadManifest, disk, scan
<1>2. TypeOK'
  BY <1>0, <1>1, LabelFacts DEF IInv, TypeOK
<1>3. Phase'
  BY <1>0, <1>1, LabelFacts DEF IInv, TypeOK, Phase
<1>4. pc'[r] = l /\ \A s \in Run : s # r => pc'[s] = pc[s]
  BY <1>0 DEF IInv, TypeOK
<1>5. Looked'
  BY <1>0, <1>1, <1>4 DEF IInv, Looked
<1>6. Exclusive'
  BY <1>0, <1>1, <1>4 DEF IInv, Exclusive
<1> QED
  BY <1>2, <1>3, <1>5, <1>6 DEF IInv

LEMMA UnmarkIInv == ASSUME IInv, NEW r \in Run, Unmark(r) PROVE IInv'
<1> USE LabelFacts DEF Unmark, Goto, disk, scan
<1>1. TypeOK'
  BY TimeFacts DEF IInv, TypeOK, Place, Manifest
<1>2. Phase'
  BY DEF IInv, TypeOK, Phase
<1>3. Looked'
  BY DEF IInv, TypeOK, Phase, Looked, Exclusive
<1>4. Exclusive'
  BY DEF IInv, TypeOK, Phase, Looked, Exclusive
<1> QED
  BY <1>1, <1>2, <1>3, <1>4 DEF IInv

LEMMA ListIInv == ASSUME IInv, NEW r \in Run, List(r) PROVE IInv'
<1> USE LabelFacts DEF List, Goto, disk, scan
<1>1. TypeOK'
  BY TimeFacts DEF IInv, TypeOK, Place, Manifest
<1>2. Phase'
  BY DEF IInv, TypeOK, Phase
<1>3. Looked'
  BY DEF IInv, TypeOK, Phase, Looked, Exclusive
<1>4. Exclusive'
  BY DEF IInv, TypeOK, Phase, Looked, Exclusive
<1> QED
  BY <1>1, <1>2, <1>3, <1>4 DEF IInv

LEMMA ScanMarkerIInv == ASSUME IInv, NEW r \in Run, ScanMarker(r) PROVE IInv'
<1>1. PICK s \in todo[r], l \in {"scan.manifest", "scan.marker"} :
        /\ entry' = [entry EXCEPT ![r] = s]
        /\ todo' = [todo EXCEPT ![r] = @ \ {s}]
        /\ pc' = [pc EXCEPT ![r] = l]
  BY DEF ScanMarker, Goto
<1>2. /\ s \in Run /\ todo' \in [Run -> SUBSET Run] /\ UNCHANGED <<disk, candidate, doomed, faults>>
      /\ candidate \in [Run -> SUBSET Run] /\ doomed \in [Run -> SUBSET Run] /\ faults \in Nat
  BY <1>1 DEF ScanMarker, IInv, TypeOK
<1> QED
  BY <1>1, <1>2, QuietIInv, LabelFacts DEF disk

LEMMA ScanManifestIInv == ASSUME IInv, NEW r \in Run, ScanManifest(r) PROVE IInv'
<1> USE LabelFacts DEF ScanManifest, Goto, disk, scan
<1>1. TypeOK'
  BY TimeFacts DEF IInv, TypeOK, Place, Manifest
<1>2. Phase'
  BY DEF IInv, TypeOK, Phase
<1>3. Looked'
  BY DEF IInv, TypeOK, Phase, Looked, Exclusive
<1>4. Exclusive'
  BY DEF IInv, TypeOK, Phase, Looked, Exclusive
<1> QED
  BY <1>1, <1>2, <1>3, <1>4 DEF IInv

LEMMA SelectIInv == ASSUME IInv, NEW r \in Run, Select(r) PROVE IInv'
<1> USE LabelFacts DEF Select, Goto, disk, scan
<1>1. TypeOK'
  BY TimeFacts DEF IInv, TypeOK, Place, Manifest
<1>2. Phase'
  BY DEF IInv, TypeOK, Phase
<1>3. Looked'
  BY DEF IInv, TypeOK, Phase, Looked, Exclusive
<1>4. Exclusive'
  BY DEF IInv, TypeOK, Phase, Looked, Exclusive
<1> QED
  BY <1>1, <1>2, <1>3, <1>4 DEF IInv

LEMMA DoneIInv == ASSUME IInv, NEW r \in Run, Done(r) PROVE IInv'
<1> USE LabelFacts DEF Done, Goto, disk, scan
<1>1. TypeOK'
  BY TimeFacts DEF IInv, TypeOK, Place, Manifest
<1>2. Phase'
  BY DEF IInv, TypeOK, Phase
<1>3. Looked'
  BY DEF IInv, TypeOK, Phase, Looked, Exclusive
<1>4. Exclusive'
  BY DEF IInv, TypeOK, Phase, Looked, Exclusive
<1> QED
  BY <1>1, <1>2, <1>3, <1>4 DEF IInv

LEMMA CrashIInv == ASSUME IInv, NEW r \in Run, Crash(r) PROVE IInv'
<1> USE LabelFacts DEF Crash, Goto, disk, scan
<1>1. TypeOK'
  BY TimeFacts DEF IInv, TypeOK, Place, Manifest
<1>2. Phase'
  BY DEF IInv, TypeOK, Phase
<1>3. Looked'
  BY DEF IInv, TypeOK, Phase, Looked, Exclusive
<1>4. Exclusive'
  BY DEF IInv, TypeOK, Phase, Looked, Exclusive
<1> QED
  BY <1>1, <1>2, <1>3, <1>4 DEF IInv

LEMMA FaultIInv == ASSUME IInv, NEW r \in Run, Fault(r) PROVE IInv'
<1> USE LabelFacts
<1>0. /\ UNCHANGED <<place, marker, manifest, started, completed>> /\ faults' \in Nat
      /\ marker \subseteq Run /\ todo \in [Run -> SUBSET Run] /\ candidate \in [Run -> SUBSET Run]
      /\ doomed \in [Run -> SUBSET Run] /\ pc \in [Run -> Label] /\ entry \in [Run -> Run]
  BY DEF Fault, disk, IInv, TypeOK
<1>1. CASE pc[r] \in {"mkdir", "discard"} /\ Goto(r, "failed") /\ UNCHANGED scan
  <2>1. pc' = [pc EXCEPT ![r] = "failed"] /\ entry' = [entry EXCEPT ![r] = entry[r]] /\ entry[r] \in Run
    BY <1>1 DEF IInv, TypeOK, Goto, scan
  <2> QED
    BY <1>1, <2>1, <1>0, QuietIInv, LabelFacts DEF scan, disk
<1>2. CASE pc[r] \in {"mark", "manifest"} /\ pc' = [pc EXCEPT ![r] = "discard"] /\ UNCHANGED <<entry, todo, candidate, doomed>>
  <2>1. TypeOK'
    BY <1>2, <1>0 DEF IInv, TypeOK
  <2>2. Phase'
    BY <1>2, <1>0 DEF IInv, TypeOK, Phase
  <2>3. Looked'
    BY <1>2, <1>0 DEF IInv, TypeOK, Looked
  <2>4. Exclusive'
    BY <1>2, <1>0 DEF IInv, TypeOK, Exclusive
  <2> QED
    BY <2>1, <2>2, <2>3, <2>4 DEF IInv
<1>3. CASE Goto(r, "completeFailed") /\ UNCHANGED scan
  <2>1. pc' = [pc EXCEPT ![r] = "completeFailed"] /\ entry' = [entry EXCEPT ![r] = entry[r]] /\ entry[r] \in Run
    BY <1>3 DEF IInv, TypeOK, Goto, scan
  <2> QED
    BY <1>3, <2>1, <1>0, QuietIInv, LabelFacts DEF scan, disk
<1>4. CASE pc[r] = "publish" /\ pc' = [pc EXCEPT ![r] = "restore"] /\ UNCHANGED <<entry, todo, candidate, doomed>>
  <2>1. TypeOK'
    BY <1>4, <1>0 DEF IInv, TypeOK
  <2>2. Phase'
    BY <1>4, <1>0 DEF IInv, TypeOK, Phase
  <2>3. Looked'
    BY <1>4, <1>0 DEF IInv, TypeOK, Looked
  <2>4. Exclusive'
    BY <1>4, <1>0 DEF IInv, TypeOK, Exclusive
  <2> QED
    BY <2>1, <2>2, <2>3, <2>4 DEF IInv
<1>5. CASE /\ pc[r] = "scan.marker" /\ UNCHANGED <<pc, entry, candidate, doomed>>
           /\ \E s \in todo[r] : todo' = [todo EXCEPT ![r] = @ \ {s}]
  <2>1. TypeOK'
    BY <1>5, <1>0 DEF IInv, TypeOK
  <2>2. Phase'
    BY <1>5, <1>0 DEF IInv, TypeOK, Phase
  <2>3. Looked'
    BY <1>5, <1>0 DEF IInv, TypeOK, Looked
  <2>4. Exclusive'
    BY <1>5, <1>0 DEF IInv, TypeOK, Exclusive
  <2> QED
    BY <2>1, <2>2, <2>3, <2>4 DEF IInv
<1>6. CASE Goto(r, "scan.marker") /\ UNCHANGED scan
  <2>1. pc' = [pc EXCEPT ![r] = "scan.marker"] /\ entry' = [entry EXCEPT ![r] = entry[r]] /\ entry[r] \in Run
    BY <1>6 DEF IInv, TypeOK, Goto, scan
  <2> QED
    BY <1>6, <2>1, <1>0, QuietIInv, LabelFacts DEF scan, disk
<1>7. CASE (\E s : Leave(r, s)) /\ UNCHANGED <<todo, candidate>>
  BY <1>7, <1>0, LeaveIInv DEF disk
<1>8. CASE pc[r] = "verify" /\ pc' = [pc EXCEPT ![r] = "rollback"] /\ UNCHANGED <<entry, todo, candidate, doomed>>
  <2>1. TypeOK'
    BY <1>8, <1>0 DEF IInv, TypeOK
  <2>2. Phase'
    BY <1>8, <1>0 DEF IInv, TypeOK, Phase
  <2>3. Looked'
    BY <1>8, <1>0 DEF IInv, TypeOK, Looked
  <2>4. Exclusive'
    BY <1>8, <1>0 DEF IInv, TypeOK, Exclusive
  <2> QED
    BY <2>1, <2>2, <2>3, <2>4 DEF IInv
<1> QED
  BY <1>1, <1>2, <1>3, <1>4, <1>5, <1>6, <1>7, <1>8 DEF Fault, Goto, scan

-----------------------------------------------------------------------------
(***************************************************************************)
(* The theorems.                                                           *)
(***************************************************************************)

\* Every step keeps the invariant.
LEMMA NextIInv == IInv /\ [Next]_vars => IInv'
<1> SUFFICES ASSUME IInv, [Next]_vars PROVE IInv'
  OBVIOUS
<1>1. CASE UNCHANGED vars
  <2>1. TypeOK'
    BY <1>1 DEF vars, IInv, TypeOK
  <2>2. Phase' /\ Looked' /\ Exclusive'
    BY <1>1 DEF vars, IInv, Phase, Looked, Exclusive
  <2> QED
    BY <2>1, <2>2 DEF IInv
<1>2. ASSUME NEW r \in Run, Step(r) PROVE IInv'
  BY <1>2, MakeDirectoryIInv, WriteMarkerIInv, WriteManifestIInv, DiscardIInv, ReadManifestIInv,
     BackupManifestIInv, PublishManifestIInv, RestoreManifestIInv, UnmarkIInv, ListIInv,
     ScanMarkerIInv, ScanManifestIInv, SelectIInv, DoneIInv, CheckTargetIInv, QuarantineIInv,
     VerifyQuarantinedIInv, RollbackQuarantineIInv, RemoveQuarantinedIInv DEF Step
<1> QED
  BY <1>1, <1>2, CompleteIInv, CrashIInv, ProtectIInv, FaultIInv DEF Next

\* Type correctness, with it that a completed manifest can be read again:
\* it does not end before it starts, whatever the clock showed.
THEOREM TypeCorrect == Spec => []TypeOK
<1>1. IInv => TypeOK
  BY DEF IInv
<1> QED
  BY <1>1, InitIInv, NextIInv, PTL DEF Spec

\* A run that is going on is marked, also between the two renames that
\* replace its manifest, so a crash there leaves a protected directory.
THEOREM CompletionIsCovered == Spec => []CompletionCovered
<1>1. IInv => CompletionCovered
  BY DEF IInv, Phase, CompletionCovered
<1> QED
  BY <1>1, InitIInv, NextIInv, PTL DEF Spec

\* However many runs prune at once, and whatever crashes or fails, no
\* directory is deleted that is marked or not completed.
THEOREM ActiveStays == Spec => ActiveNeverRemoved
<1>1. ASSUME IInv, [Next]_vars
      PROVE  [\A r \in Run :
                place[r] # "deleted" /\ place'[r] = "deleted" /\ pc[r] # "discard"
                  => r \notin marker /\ manifest[r] = "completed"]_vars
  <2> SUFFICES ASSUME Next, NEW s \in Run,
                      place[s] # "deleted", place'[s] = "deleted", pc[s] # "discard"
               PROVE  s \notin marker /\ manifest[s] = "completed"
    BY <1>1
  <2>1. PICK r \in Run : Step(r) \/ Complete(r) \/ Crash(r) \/ Protect(r) \/ Fault(r)
    BY DEF Next
  <2>2. CASE RemoveQuarantined(r)
    <3>1. s = entry[r] /\ pc[r] = "remove"
      BY <2>2, <1>1 DEF RemoveQuarantined, IInv, TypeOK
    <3> QED
      BY <3>1, <1>1 DEF IInv, Looked
  <2>3. CASE Discard(r)
    BY <2>3, <1>1 DEF Discard, IInv, TypeOK
  <2>4. CASE MakeDirectory(r) \/ Quarantine(r) \/ RollbackQuarantine(r)
    BY <2>4, <1>1 DEF MakeDirectory, Quarantine, RollbackQuarantine, IInv, TypeOK
  <2>5. CASE place' = place
    BY <2>5
  <2> QED
    BY <2>1, <2>2, <2>3, <2>4, <2>5
       DEF Step, WriteMarker, WriteManifest, ReadManifest, BackupManifest, PublishManifest,
           RestoreManifest, Unmark, List, ScanMarker, ScanManifest, Select, Done, CheckTarget,
           VerifyQuarantined, Complete, Crash, Protect, Fault, disk
<1> QED
  BY <1>1, InitIInv, NextIInv, PTL DEF Spec, ActiveNeverRemoved

-----------------------------------------------------------------------------
(***************************************************************************)
(* Retention keeps the newest.                                             *)
(***************************************************************************)

\* Being newer is transitive, and no run is newer than itself.
LEMMA NewerOrder ==
  ASSUME TypeOK, NEW r \in Run, NEW s \in Run, NEW t \in Run
  PROVE  ~Newer(r, r) /\ (Newer(r, s) /\ Newer(s, t) => Newer(r, t))
<1>1. /\ \A u \in Run : completed[u] \in Nat /\ started[u] \in Nat /\ u \in Nat
  BY TimeFacts DEF TypeOK
<1> QED
  BY <1>1 DEF Newer

LEMMA KeptFinite ==
  ASSUME NEW r
  PROVE  IsFiniteSet(Kept) /\ IsFiniteSet({s \in Kept : Newer(s, r)})
BY FS_Subset DEF Kept

\* A completed run stays completed, at the times its manifest says.
LEMMA Frozen ==
  ASSUME IInv, [Next]_vars, NEW s \in Run, manifest[s] = "completed"
  PROVE  manifest'[s] = "completed" /\ completed'[s] = completed[s] /\ started'[s] = started[s]
<1>1. CASE UNCHANGED vars
  BY <1>1 DEF vars
<1>2. ASSUME NEW r \in Run,
             WriteManifest(r) \/ BackupManifest(r) \/ PublishManifest(r) \/ RestoreManifest(r)
      PROVE  r # s /\ \A u \in Run : u # r => /\ manifest'[u] = manifest[u]
                                            /\ completed'[u] = completed[u]
                                            /\ started'[u] = started[u]
  BY <1>2, LabelFacts DEF WriteManifest, BackupManifest, PublishManifest, RestoreManifest,
     IInv, TypeOK, Phase
<1>3. CASE UNCHANGED <<manifest, completed, started>>
  BY <1>3
<1>4. ASSUME NEW r \in Run, Step(r)
      PROVE  \/ WriteManifest(r) \/ BackupManifest(r) \/ PublishManifest(r) \/ RestoreManifest(r)
             \/ UNCHANGED <<manifest, completed, started>>
  BY <1>4 DEF Step, MakeDirectory, WriteMarker, Discard, ReadManifest, Unmark, List, ScanMarker,
     ScanManifest, Select, Done, CheckTarget, Quarantine, VerifyQuarantined, RollbackQuarantine,
     RemoveQuarantined, disk
<1>5. ASSUME NEW r \in Run, Complete(r) \/ Crash(r) \/ Protect(r) \/ Fault(r)
      PROVE  UNCHANGED <<manifest, completed, started>>
  BY <1>5 DEF Complete, Crash, Protect, Fault, disk
<1> QED
  BY <1>1, <1>2, <1>3, <1>4, <1>5 DEF Next

\* Only a quarantine takes a run from the kept ones.
LEMMA Departure ==
  ASSUME IInv, [Next]_vars, NEW t \in Kept, t \notin Kept'
  PROVE  \E r \in Run : Quarantine(r) /\ t = entry[r]
<1>0. t \in Run /\ place[t] = "runs" /\ manifest[t] = "completed" /\ manifest'[t] = "completed"
  BY Frozen DEF Kept
<1>1. place'[t] # "runs"
  BY <1>0 DEF Kept
<1>2. PICK r \in Run : Step(r) \/ Complete(r) \/ Crash(r) \/ Protect(r) \/ Fault(r)
  BY <1>0, <1>1 DEF Next, vars
<1>3. CASE Quarantine(r)
  BY <1>0, <1>1, <1>3 DEF Quarantine, IInv, TypeOK
<1>4. CASE Discard(r) \/ MakeDirectory(r)
  BY <1>0, <1>1, <1>4, LabelFacts DEF Discard, MakeDirectory, IInv, TypeOK, Phase
<1>5. CASE RollbackQuarantine(r) \/ RemoveQuarantined(r)
  BY <1>0, <1>1, <1>5 DEF RollbackQuarantine, RemoveQuarantined, IInv, TypeOK, Looked
<1>6. CASE place' = place
  BY <1>0, <1>1, <1>6
<1> QED
  BY <1>2, <1>3, <1>4, <1>5, <1>6
     DEF Step, WriteMarker, WriteManifest, ReadManifest, BackupManifest, PublishManifest,
         RestoreManifest, Unmark, List, ScanMarker, ScanManifest, Select, Done, CheckTarget,
         VerifyQuarantined, Complete, Crash, Protect, Fault, disk

\* Whoever leaves was outranked, so those it outranked are outranked by the others.
LEMMA OutrankedStays ==
  ASSUME IInv, IInv', Ranked, [Next]_vars, NEW s \in Run, manifest[s] = "completed", Outranked(s)
  PROVE  Outranked(s)'
<1> DEFINE Ahead(r) == {u \in Kept : Newer(u, r)}
<1>0. /\ TypeOK
      /\ \A r \in Run : IsFiniteSet(Ahead(r)) /\ Cardinality(Ahead(r)) \in Nat
      /\ \A r \in Run : Cardinality(Ahead(r)') \in Nat /\ IsFiniteSet(Ahead(r)')
  <2>1. \A r \in Run : IsFiniteSet(Ahead(r)) /\ IsFiniteSet(Ahead(r)')
    BY FS_Subset DEF Kept
  <2> QED
    BY <2>1, FS_CardinalityType DEF IInv
<1>1. \A r, u \in Run : manifest[r] = "completed" /\ manifest[u] = "completed" =>
        (Newer(u, r)' <=> Newer(u, r))
  BY Frozen DEF Newer
<1>2. \A r \in Run : manifest[r] = "completed" /\ Outranked(r) /\ Ahead(r) \subseteq Kept' => Outranked(r)'
  <2> SUFFICES ASSUME NEW r \in Run, manifest[r] = "completed", Outranked(r), Ahead(r) \subseteq Kept'
               PROVE  Outranked(r)'
    OBVIOUS
  <2>1. Ahead(r) \in SUBSET (Ahead(r)')
    BY <1>1 DEF Kept
  <2>2. Cardinality(Ahead(r)) <= Cardinality(Ahead(r)')
    BY <2>1, <1>0, FS_Subset
  <2> QED
    BY <2>2, <1>0 DEF Outranked
<1>3. CASE Ahead(s) \subseteq Kept'
  BY <1>2, <1>3
<1>4. CASE ~(Ahead(s) \subseteq Kept')
  <2>1. PICK t \in Ahead(s) : t \notin Kept'
    BY <1>4
  <2>2. t \in Run /\ t \in Kept /\ manifest[t] = "completed" /\ Newer(t, s)
    BY <2>1 DEF Kept
  <2>3. PICK r \in Run : Quarantine(r) /\ t = entry[r]
    BY <2>1, <2>2, Departure
  <2>4. Outranked(t)
    BY <2>3 DEF Ranked, Quarantine
  <2>5. \A u \in Kept : u # t => u \in Kept'
    BY <2>3 DEF Quarantine, Kept, IInv, TypeOK
  <2>6. Outranked(t)'
    BY <2>2, <2>4, <2>5, <1>0, <1>2, NewerOrder
  <2>7. Newer(t, s)'
    BY <1>1, <2>2
  <2>8. \A u \in Run : completed'[u] \in Nat /\ started'[u] \in Nat /\ u \in Nat
    BY TimeFacts DEF IInv, TypeOK
  <2>9. \A u \in Run : Newer(u, t)' /\ Newer(t, s)' => Newer(u, s)'
    BY <2>2, <2>8 DEF Newer
  <2>10. Ahead(t)' \in SUBSET (Ahead(s)')
    BY <2>7, <2>9 DEF Kept
  <2>11. Cardinality(Ahead(t)') <= Cardinality(Ahead(s)')
    BY <2>10, <1>0, FS_Subset
  <2> QED
    BY <2>2, <2>6, <2>11, <1>0 DEF Outranked
<1> QED
  BY <1>3, <1>4

\* The runs selected are outranked: either all the newer candidates are still
\* kept, or one of them has left and was outranked itself.
LEMMA SelectedOutranked ==
  ASSUME IInv, RInv, NEW r \in Run, NEW s \in candidate[r],
         Cardinality({t \in candidate[r] : Newer(t, s)}) >= Retention
  PROVE  Outranked(s)
<1> DEFINE Ahead(u) == {v \in Kept : Newer(v, u)}
           found == {t \in candidate[r] : Newer(t, s)}
<1>0. s \in Run /\ candidate[r] \subseteq Run /\ TypeOK
  BY DEF IInv, TypeOK
<1>1. CASE found \subseteq Kept
  <2>1. found \in SUBSET Ahead(s)
    BY <1>1
  <2>2. IsFiniteSet(Ahead(s)) /\ IsFiniteSet(found)
    BY <2>1, KeptFinite, FS_Subset
  <2>3. Cardinality(found) <= Cardinality(Ahead(s))
    BY <2>1, <2>2, FS_Subset
  <2>4. Cardinality(found) \in Nat /\ Cardinality(Ahead(s)) \in Nat
    BY <2>2, FS_CardinalityType
  <2> QED
    BY <2>3, <2>4 DEF Outranked
<1>2. CASE ~(found \subseteq Kept)
  <2>1. PICK t \in found : t \notin Kept
    BY <1>2
  <2>2. t \in Run /\ Newer(t, s) /\ manifest[t] = "completed" /\ place[t] # "none"
    BY <2>1, <1>0 DEF RInv, Ranked
  <2>3. place[t] \in {"quarantine", "deleted"}
    BY <2>1, <2>2, <1>0 DEF TypeOK, Place, Kept
  <2>4. Outranked(t)
    BY <2>2, <2>3 DEF RInv, RetentionKeepsNewest
  <2>5. Ahead(t) \in SUBSET Ahead(s)
    BY <2>2, <1>0, NewerOrder DEF Kept
  <2>6. Cardinality(Ahead(t)) <= Cardinality(Ahead(s))
    BY <2>5, KeptFinite, FS_Subset
  <2>7. Cardinality(Ahead(t)) \in Nat /\ Cardinality(Ahead(s)) \in Nat
    BY KeptFinite, FS_CardinalityType
  <2> QED
    BY <2>4, <2>6, <2>7 DEF Outranked
<1> QED
  BY <1>1, <1>2

LEMMA InitRInv == Init => RInv
BY DEF Init, RInv, Ranked, RetentionKeepsNewest

\* What a step may add to the runs that are to go, and to the candidates.
LEMMA DoomedFrom ==
  ASSUME IInv, RInv, [Next]_vars, NEW r \in Run
  PROVE  /\ \A s \in doomed'[r] : s \in Run /\ manifest[s] = "completed" /\ Outranked(s)
         /\ \A s \in candidate'[r] : s \in Run /\ manifest[s] = "completed"
<1>0. /\ \A s \in doomed[r] : s \in Run /\ manifest[s] = "completed" /\ Outranked(s)
      /\ \A s \in candidate[r] : s \in Run /\ manifest[s] = "completed"
      /\ doomed \in [Run -> SUBSET Run] /\ candidate \in [Run -> SUBSET Run]
      /\ entry \in [Run -> Run]
  BY DEF RInv, Ranked, IInv, TypeOK
<1>1. CASE UNCHANGED vars
  BY <1>0, <1>1 DEF vars
<1>2. ASSUME NEW q \in Run, Step(q) \/ Complete(q) \/ Crash(q) \/ Protect(q) \/ Fault(q)
      PROVE  \/ doomed'[r] \subseteq doomed[r] /\ candidate'[r] \subseteq candidate[r]
             \/ q = r /\ (Select(r) \/ ScanManifest(r))
  <2>1. CASE q = r /\ (Select(r) \/ ScanManifest(r))
    BY <2>1
  <2>2. CASE Select(q) /\ q # r
    BY <2>2, <1>0 DEF Select
  <2>3. CASE ScanManifest(q) /\ q # r
    BY <2>3, <1>0 DEF ScanManifest
  <2>4. CASE List(q) \/ Crash(q)
    BY <2>4, <1>0 DEF List, Crash
  <2>5. CASE (\E s : Leave(q, s)) /\ UNCHANGED candidate
    BY <2>5, <1>0 DEF Leave
  <2>6. CASE UNCHANGED <<doomed, candidate>>
    BY <2>6
  <2>7. CASE Fault(q)
    BY <2>7, <2>5, <2>6 DEF Fault, scan
  <2>8. CASE CheckTarget(q) \/ Quarantine(q) \/ RollbackQuarantine(q) \/ RemoveQuarantined(q)
    BY <2>8, <2>5, <2>6 DEF CheckTarget, Quarantine, RollbackQuarantine, RemoveQuarantined
  <2>9. CASE Complete(q) \/ Protect(q)
    BY <2>9, <2>6 DEF Complete, Protect, scan
  <2> QED
    BY <1>2, <2>1, <2>2, <2>3, <2>4, <2>6, <2>7, <2>8, <2>9
       DEF Step, MakeDirectory, WriteMarker, WriteManifest, Discard, ReadManifest, BackupManifest,
           PublishManifest, RestoreManifest, Unmark, ScanMarker, Done, VerifyQuarantined, scan
<1>3. CASE Select(r)
  <2>1. /\ candidate'[r] = {}
        /\ doomed'[r] =
             {s \in candidate[r] : Cardinality({t \in candidate[r] : Newer(t, s)}) >= Retention}
    BY <1>0, <1>3 DEF Select
  <2> QED
    BY <1>0, <2>1, SelectedOutranked
<1>4. CASE ScanManifest(r)
  <2>1. /\ doomed' = doomed
        /\ \/ candidate'[r] = candidate[r]
           \/ candidate'[r] = candidate[r] \cup {entry[r]} /\ manifest[entry[r]] = "completed"
    BY <1>0, <1>4 DEF ScanManifest
  <2> QED
    BY <1>0, <2>1
<1> QED
  BY <1>0, <1>1, <1>2, <1>3, <1>4 DEF Next

\* Where a run's directory is while its own code is at it.
LEMMA PlaceKept ==
  ASSUME IInv, Ranked, [Next]_vars, NEW s \in Run
  PROVE  /\ pc'[s] \in {"mark", "manifest", "active", "backup", "publish", "restore"}
                => place'[s] = "runs"
         /\ manifest'[s] = "completed" => place'[s] # "none"
         /\ pc'[s] = "quarantine" => entry'[s] \in doomed'[s]
         /\ manifest[s] # "completed" /\ manifest'[s] = "completed" => place'[s] = "runs"
<1> USE LabelFacts
<1> DEFINE Claim ==
      /\ pc'[s] \in {"mark", "manifest", "active", "backup", "publish", "restore"}
           => place'[s] = "runs"
      /\ manifest'[s] = "completed" => place'[s] # "none"
      /\ pc'[s] = "quarantine" => entry'[s] \in doomed'[s]
      /\ manifest[s] # "completed" /\ manifest'[s] = "completed" => place'[s] = "runs"
<1>0. ASSUME UNCHANGED vars PROVE Claim
  BY <1>0 DEF vars, Ranked
<1>1. ASSUME NEW r \in Run, MakeDirectory(r) PROVE Claim
  BY <1>1 DEF MakeDirectory, Goto, disk, scan, IInv, TypeOK, Phase, Looked, Ranked
<1>2. ASSUME NEW r \in Run, WriteMarker(r) PROVE Claim
  BY <1>2 DEF WriteMarker, Goto, disk, scan, IInv, TypeOK, Phase, Looked, Ranked
<1>3. ASSUME NEW r \in Run, WriteManifest(r) PROVE Claim
  BY <1>3 DEF WriteManifest, Goto, disk, scan, IInv, TypeOK, Phase, Looked, Ranked
<1>4. ASSUME NEW r \in Run, Discard(r) PROVE Claim
  BY <1>4 DEF Discard, Goto, disk, scan, IInv, TypeOK, Phase, Looked, Ranked
<1>5. ASSUME NEW r \in Run, ReadManifest(r) PROVE Claim
  <2>1. place[r] # "runs" => pc'[r] = "completeFailed"
    BY <1>5 DEF ReadManifest, Goto, IInv, TypeOK
  <2>2. pc'[r] \in {"completeFailed", "backup", "unmark"}
    BY <1>5, <2>1 DEF ReadManifest, Goto, IInv, TypeOK, Manifest
  <2>3. \A q \in Run : q # r => pc'[q] = pc[q]
    BY <1>5 DEF ReadManifest, Goto
  <2> QED
    BY <1>5, <2>1, <2>2, <2>3 DEF ReadManifest, disk, scan, Ranked
<1>6. ASSUME NEW r \in Run, BackupManifest(r) PROVE Claim
  BY <1>6 DEF BackupManifest, Goto, disk, scan, IInv, TypeOK, Phase, Looked, Ranked
<1>7. ASSUME NEW r \in Run, PublishManifest(r) PROVE Claim
  BY <1>7 DEF PublishManifest, Goto, disk, scan, IInv, TypeOK, Phase, Looked, Ranked
<1>8. ASSUME NEW r \in Run, RestoreManifest(r) PROVE Claim
  BY <1>8 DEF RestoreManifest, Goto, disk, scan, IInv, TypeOK, Phase, Looked, Ranked
<1>9. ASSUME NEW r \in Run, Unmark(r) PROVE Claim
  BY <1>9 DEF Unmark, Goto, disk, scan, IInv, TypeOK, Phase, Looked, Ranked
<1>10. ASSUME NEW r \in Run, List(r) PROVE Claim
  BY <1>10 DEF List, Goto, disk, scan, IInv, TypeOK, Phase, Looked, Ranked
<1>11. ASSUME NEW r \in Run, ScanMarker(r) PROVE Claim
  BY <1>11 DEF ScanMarker, Goto, disk, scan, IInv, TypeOK, Phase, Looked, Ranked
<1>12. ASSUME NEW r \in Run, ScanManifest(r) PROVE Claim
  BY <1>12 DEF ScanManifest, Goto, disk, scan, IInv, TypeOK, Phase, Looked, Ranked
<1>13. ASSUME NEW r \in Run, Select(r) PROVE Claim
  BY <1>13 DEF Select, Goto, disk, scan, IInv, TypeOK, Phase, Looked, Ranked
<1>14. ASSUME NEW r \in Run, Done(r) PROVE Claim
  BY <1>14 DEF Done, Goto, disk, scan, IInv, TypeOK, Phase, Looked, Ranked
<1>15. ASSUME NEW r \in Run, CheckTarget(r) PROVE Claim
  <2>1. PICK t \in NextDoomed(r) :
           \/ /\ entry' = [entry EXCEPT ![r] = t] /\ Goto(r, "quarantine") /\ UNCHANGED doomed
           \/ Leave(r, t)
    BY <1>15 DEF CheckTarget
  <2>2. t \in doomed[r] /\ UNCHANGED disk
    BY <1>15 DEF CheckTarget, NextDoomed
  <2>3. s # r => pc'[s] = pc[s] /\ entry'[s] = entry[s] /\ doomed'[s] = doomed[s]
    BY <2>1 DEF Goto, Leave, IInv, TypeOK
  <2>4. s = r => pc'[s] = "check" \/ (pc'[s] = "quarantine" /\ entry'[s] = t /\ doomed' = doomed)
    BY <2>1 DEF Goto, Leave, IInv, TypeOK
  <2> QED
    BY <2>2, <2>3, <2>4 DEF disk, Ranked
<1>16. ASSUME NEW r \in Run, Quarantine(r) PROVE Claim
  BY <1>16 DEF Quarantine, Leave, Goto, disk, scan, IInv, TypeOK, Phase, Looked, Ranked
<1>17. ASSUME NEW r \in Run, VerifyQuarantined(r) PROVE Claim
  BY <1>17 DEF VerifyQuarantined, Goto, disk, scan, IInv, TypeOK, Phase, Looked, Ranked
<1>18. ASSUME NEW r \in Run, RollbackQuarantine(r) PROVE Claim
  BY <1>18 DEF RollbackQuarantine, Leave, Goto, disk, scan, IInv, TypeOK, Phase, Looked, Ranked
<1>19. ASSUME NEW r \in Run, RemoveQuarantined(r) PROVE Claim
  BY <1>19 DEF RemoveQuarantined, Leave, Goto, disk, scan, IInv, TypeOK, Phase, Looked, Ranked
<1>20. ASSUME NEW r \in Run, Complete(r) PROVE Claim
  BY <1>20 DEF Complete, Goto, disk, scan, IInv, TypeOK, Phase, Looked, Ranked
<1>21. ASSUME NEW r \in Run, Crash(r) PROVE Claim
  BY <1>21 DEF Crash, Goto, disk, scan, IInv, TypeOK, Phase, Looked, Ranked
<1>22. ASSUME NEW r \in Run, Protect(r) PROVE Claim
  BY <1>22 DEF Protect, Goto, disk, scan, IInv, TypeOK, Phase, Looked, Ranked
<1>23. ASSUME NEW r \in Run, Fault(r) PROVE Claim
  BY <1>23 DEF Fault, Leave, Goto, disk, scan, IInv, TypeOK, Phase, Looked, Ranked
<1> HIDE DEF Claim
<1>24. ASSUME NEW r \in Run, Step(r) PROVE Claim
  BY <1>24, <1>1, <1>2, <1>3, <1>4, <1>5, <1>6, <1>7, <1>8, <1>9, <1>10, <1>11, <1>12, <1>13, <1>14, <1>15, <1>16, <1>17, <1>18, <1>19 DEF Step
<1>25. Claim
  BY <1>0, <1>20, <1>21, <1>22, <1>23, <1>24 DEF Next
<1> QED
  BY <1>25 DEF Claim

\* Every step keeps what is known of those that are to go and of those that went.
LEMMA NextRInv == IInv /\ IInv' /\ RInv /\ [Next]_vars => RInv'
<1> SUFFICES ASSUME IInv, IInv', RInv, [Next]_vars PROVE RInv'
  OBVIOUS
<1>0. Ranked /\ RetentionKeepsNewest /\ TypeOK /\ TypeOK'
  BY DEF RInv, IInv
<1>1. \A s \in Run : manifest[s] = "completed" /\ Outranked(s)
                      => manifest'[s] = "completed" /\ Outranked(s)'
  BY <1>0, OutrankedStays, Frozen
<1>2. \A r \in Run : /\ \A s \in doomed'[r] : manifest'[s] = "completed" /\ Outranked(s)'
                     /\ \A s \in candidate'[r] : manifest'[s] = "completed"
  BY <1>1, DoomedFrom, Frozen
<1>3. Ranked'
  BY <1>0, <1>2, PlaceKept DEF Ranked
<1>4. ASSUME NEW s \in Run, manifest'[s] = "completed", place'[s] \in {"quarantine", "deleted"}
      PROVE  Outranked(s)'
  <2>1. manifest[s] = "completed"
    BY <1>0, <1>4, PlaceKept
  <2>2. CASE place[s] \in {"quarantine", "deleted"}
    BY <1>0, <1>1, <2>1, <2>2 DEF RetentionKeepsNewest
  <2>3. CASE place[s] = "runs"
    <3>1. s \in Kept /\ s \notin Kept'
      BY <1>4, <2>1, <2>3 DEF Kept
    <3>2. PICK r \in Run : Quarantine(r) /\ s = entry[r]
      BY <3>1, Departure
    <3>3. Outranked(s)
      BY <1>0, <3>2 DEF Ranked, Quarantine
    <3> QED
      BY <1>1, <2>1, <3>3
  <2>4. CASE place[s] = "none"
    BY <1>0, <2>1, <2>4 DEF Ranked
  <2> QED
    BY <1>0, <2>2, <2>3, <2>4 DEF TypeOK, Place
<1>5. RetentionKeepsNewest'
  BY <1>4 DEF RetentionKeepsNewest
<1> QED
  BY <1>3, <1>5 DEF RInv

\* However many runs prune at once, whatever crashes or fails: a completed run
\* leaves only while so many newer ones stay as retention keeps.
THEOREM NewestStay == Spec => []RetentionKeepsNewest
<1>1. RInv => RetentionKeepsNewest
  BY DEF RInv
<1> QED
  BY <1>1, InitIInv, NextIInv, InitRInv, NextRInv, PTL DEF Spec

-----------------------------------------------------------------------------
(***************************************************************************)
(* Retention leaves none of the others.                                    *)
(***************************************************************************)

\* A nonempty set of numbers has a smallest one.
LEMMA Smallest ==
  ASSUME NEW S \in SUBSET Nat, S # {}
  PROVE  \E m \in S : \A n \in S : m <= n
<1>1. PICK m \in S : \A n \in S : <<n, m>> \notin OpToRel(<, Nat)
  BY NatLessThanWellFounded, WFMin
<1>2. ASSUME NEW n \in S, n < m PROVE FALSE
  <2>1. <<n, m>> \in Nat \X Nat /\ <<n, m>>[1] < <<n, m>>[2]
    BY <1>2
  <2> QED
    BY <1>1, <2>1 DEF OpToRel
<1> QED
  BY <1>2

\* Of any set of runs no more than Retention have fewer than Retention newer
\* ones in it: the one of them with the most is newer than none of them.
LEMMA FewStay ==
  ASSUME TypeOK, NEW C \in SUBSET Run
  PROVE  Cardinality({s \in C : ~(Cardinality({t \in C : Newer(t, s)}) >= Retention)}) <= Retention
<1> DEFINE ahead(s) == {t \in C : Newer(t, s)}
           few == {s \in C : ~(Cardinality(ahead(s)) >= Retention)}
           room == {Retention - Cardinality(ahead(s)) : s \in few}
<1> SUFFICES Cardinality(few) <= Retention
  OBVIOUS
<1>0. IsFiniteSet(C) /\ IsFiniteSet(few)
  BY FS_Subset
<1>1. \A s \in C : IsFiniteSet(ahead(s)) /\ Cardinality(ahead(s)) \in Nat
  BY <1>0, FS_Subset, FS_CardinalityType
<1>2. CASE few = {}
  <2> HIDE DEF few
  <2>1. Cardinality(few) = 0
    BY <1>2, FS_EmptySet
  <2> QED
    BY <2>1
<1>3. CASE few # {}
  <2>1. room \in SUBSET Nat /\ room # {}
    <3>1. ASSUME NEW s \in few PROVE Retention - Cardinality(ahead(s)) \in Nat
      <4>1. s \in C /\ ~(Cardinality(ahead(s)) >= Retention)
        OBVIOUS
      <4> HIDE DEF few, ahead
      <4> QED
        BY <1>1, <4>1
    <3> HIDE DEF few, ahead
    <3> QED
      BY <1>3, <3>1
  <2>2. PICK s \in few : \A t \in few :
          Retention - Cardinality(ahead(s)) <= Retention - Cardinality(ahead(t))
    <3> HIDE DEF few
    <3>1. PICK m \in room : \A n \in room : m <= n
      BY <2>1, Smallest
    <3> QED
      BY <3>1
  <2>3. s \in C /\ Cardinality(ahead(s)) < Retention
    BY <1>1
  <2>4. ASSUME NEW t \in few, t # s PROVE t \in ahead(s)
    <3>1. t \in C /\ Cardinality(ahead(t)) <= Cardinality(ahead(s))
      BY <1>1, <2>2
    <3>2. CASE Newer(s, t)
      <4>1. \A u \in C : Newer(u, s) => Newer(u, t)
        BY <2>3, <3>1, <3>2, NewerOrder
      <4>2. s \notin ahead(s)
        BY <2>3, NewerOrder
      <4>3. ahead(s) \cup {s} \in SUBSET ahead(t)
        BY <2>3, <3>2, <4>1
      <4> HIDE DEF ahead
      <4>4. Cardinality(ahead(s) \cup {s}) = Cardinality(ahead(s)) + 1
        BY <1>1, <2>3, <4>2, FS_AddElement
      <4>5. Cardinality(ahead(s) \cup {s}) <= Cardinality(ahead(t))
        BY <1>1, <3>1, <4>3, FS_Subset
      <4> QED
        BY <1>1, <2>3, <3>1, <4>4, <4>5
    <3>3. CASE ~Newer(s, t)
      <4>1. /\ completed[s] \in Nat /\ started[s] \in Nat /\ s \in Nat
            /\ completed[t] \in Nat /\ started[t] \in Nat /\ t \in Nat
        BY <2>3, <3>1, TimeFacts DEF TypeOK
      <4>2. Newer(t, s)
        BY <2>4, <3>3, <4>1 DEF Newer
      <4> QED
        BY <3>1, <4>2
    <3> QED
      BY <3>2, <3>3
  <2>5. few \ {s} \in SUBSET ahead(s)
    BY <2>4
  <2> HIDE DEF few, ahead
  <2>6. Cardinality(few \ {s}) <= Cardinality(ahead(s))
    BY <1>1, <2>3, <2>5, FS_Subset
  <2>7. Cardinality(few \ {s}) = Cardinality(few) - 1 /\ Cardinality(few) \in Nat
    BY <1>0, FS_RemoveElement, FS_CardinalityType
  <2>8. Cardinality(few) <= Retention
    BY <1>1, <2>3, <2>6, <2>7
  <2> QED
    BY <2>8
<1> QED
  BY <1>2, <1>3

\* What a step of one run leaves of another's.
LEMMA OthersKeep ==
  ASSUME TypeOK, NEW q \in Run, NEW p \in Run, p # q,
         Step(q) \/ Complete(q) \/ Crash(q) \/ Protect(q) \/ Fault(q)
  PROVE  /\ pc'[p] = pc[p] /\ entry'[p] = entry[p] /\ todo'[p] = todo[p]
         /\ candidate'[p] = candidate[p] /\ doomed'[p] = doomed[p]
<1> USE DEF Goto, scan
<1>0. /\ pc \in [Run -> Label] /\ entry \in [Run -> Run] /\ todo \in [Run -> SUBSET Run]
      /\ candidate \in [Run -> SUBSET Run] /\ doomed \in [Run -> SUBSET Run]
  BY DEF TypeOK
<1>1. CASE MakeDirectory(q) \/ WriteMarker(q) \/ WriteManifest(q) \/ Discard(q)
  BY <1>0, <1>1 DEF MakeDirectory, WriteMarker, WriteManifest, Discard
<1>2. CASE ReadManifest(q)
  BY <1>0, <1>2 DEF ReadManifest
<1>3. CASE BackupManifest(q) \/ PublishManifest(q) \/ RestoreManifest(q) \/ Unmark(q)
  BY <1>0, <1>3 DEF BackupManifest, PublishManifest, RestoreManifest, Unmark
<1>4. CASE List(q) \/ ScanMarker(q) \/ ScanManifest(q)
  BY <1>0, <1>4 DEF List, ScanMarker, ScanManifest
<1>5. CASE Select(q) \/ Done(q) \/ VerifyQuarantined(q)
  BY <1>0, <1>5 DEF Select, Done, VerifyQuarantined
<1>6. CASE CheckTarget(q) \/ Quarantine(q)
  BY <1>0, <1>6 DEF CheckTarget, Quarantine, Leave
<1>7. CASE RollbackQuarantine(q) \/ RemoveQuarantined(q)
  BY <1>0, <1>7 DEF RollbackQuarantine, RemoveQuarantined, Leave
<1>8. CASE Complete(q) \/ Crash(q) \/ Protect(q)
  BY <1>0, <1>8 DEF Complete, Crash, Protect
<1>9. CASE Fault(q)
  BY <1>0, <1>9 DEF Fault, Leave
<1> QED
  BY <1>1, <1>2, <1>3, <1>4, <1>5, <1>6, <1>7, <1>8, <1>9 DEF Step

\* Only a run that completes makes itself loose; a run that is rolled back is
\* marked.
LEMMA LooseShrinks ==
  ASSUME IInv, NEW q \in Run, pc[q] = "rollback" => entry[q] \in marker,
         Step(q) \/ Complete(q) \/ Crash(q) \/ Protect(q) \/ Fault(q), ~Unmark(q)
  PROVE  Loose' \subseteq Loose
<1> USE DEF Loose, Kept
<1>0. TypeOK /\ Phase
  BY DEF IInv
<1>1. CASE MakeDirectory(q)
  <2>1. /\ place' = [place EXCEPT ![q] = "runs"] /\ UNCHANGED <<manifest, marker>>
        /\ manifest[q] = "none"
    BY <1>0, <1>1, LabelFacts DEF MakeDirectory, Phase
  <2> QED
    BY <1>0, <2>1 DEF TypeOK
<1>2. CASE PublishManifest(q)
  <2>1. /\ manifest' = [manifest EXCEPT ![q] = "completed"] /\ UNCHANGED <<place, marker>>
        /\ q \in marker
    BY <1>0, <1>2 DEF PublishManifest, Phase
  <2> QED
    BY <1>0, <2>1 DEF TypeOK
<1>3. CASE RollbackQuarantine(q)
  <2>1. /\ place' = [place EXCEPT ![entry[q]] = "runs"] /\ UNCHANGED <<manifest, marker>>
        /\ entry[q] \in marker
    BY <1>3 DEF RollbackQuarantine
  <2> QED
    BY <1>0, <2>1 DEF TypeOK
<1>4. CASE WriteManifest(q) \/ BackupManifest(q) \/ RestoreManifest(q)
  <2>1. /\ UNCHANGED <<place, marker>>
        /\ \E m \in {"active", "none"} : manifest' = [manifest EXCEPT ![q] = m]
    BY <1>4 DEF WriteManifest, BackupManifest, RestoreManifest
  <2> QED
    BY <1>0, <2>1 DEF TypeOK
<1>5. CASE Discard(q) \/ Quarantine(q) \/ RemoveQuarantined(q)
  <2>1. /\ UNCHANGED <<manifest, marker>>
        /\ place' = place \/ \E t \in Run, l \in {"deleted", "quarantine"} :
                                place' = [place EXCEPT ![t] = l]
    BY <1>0, <1>5 DEF Discard, Quarantine, RemoveQuarantined, TypeOK
  <2> QED
    BY <1>0, <2>1 DEF TypeOK
<1>6. CASE WriteMarker(q) \/ Protect(q)
  BY <1>6 DEF WriteMarker, Protect
<1>7. CASE UNCHANGED <<place, marker, manifest>>
  BY <1>7
<1> QED
  BY <1>1, <1>2, <1>3, <1>4, <1>5, <1>6, <1>7
     DEF Step, ReadManifest, List, ScanMarker, ScanManifest, Select, Done, CheckTarget,
         VerifyQuarantined, Complete, Crash, Fault, disk

\* What is finite, and what fewer loose runs mean.
LEMMA FewerLoose ==
  ASSUME Loose' \subseteq Loose, NEW D, NEW E, Loose' \ E \subseteq Loose \ D,
         Cardinality(Loose \ D) <= Retention
  PROVE  Cardinality(Loose' \ E) <= Retention
<1>1. IsFiniteSet(Loose \ D)
  BY FS_Subset DEF Loose, Kept
<1>2. Cardinality(Loose' \ E) <= Cardinality(Loose \ D) /\ IsFiniteSet(Loose' \ E)
  BY <1>1, FS_Subset
<1>3. Cardinality(Loose' \ E) \in Nat /\ Cardinality(Loose \ D) \in Nat
  BY <1>1, <1>2, FS_CardinalityType
<1> QED
  BY <1>2, <1>3

\* A run that did not move stays responsible while nothing becomes loose.
LEMMA StaysResponsible ==
  ASSUME NEW p \in Run, Loose' \subseteq Loose, Responsible(p),
         pc'[p] = pc[p], entry'[p] = entry[p], todo'[p] = todo[p],
         candidate'[p] = candidate[p], doomed'[p] = doomed[p]
  PROVE  Responsible(p)'
<1>1. /\ pc'[p] = pc[p] /\ entry'[p] = entry[p] /\ todo'[p] = todo[p]
      /\ candidate'[p] = candidate[p] /\ doomed'[p] = doomed[p]
  OBVIOUS
<1>2. CASE pc[p] \in Unlisted
  BY <1>1, <1>2 DEF Responsible
<1>3. CASE pc[p] \in {"scan.marker", "scan.manifest"}
  BY <1>1, <1>3 DEF Responsible, Unlisted
<1>4. CASE /\ pc[p] \in {"check", "quarantine", "verify", "rollback", "remove"}
           /\ Cardinality(Loose \ doomed[p]) <= Retention
  <2>1. Loose' \ doomed'[p] \subseteq Loose \ doomed[p]
    BY <1>1
  <2>2. Cardinality(Loose' \ doomed'[p]) <= Retention
    BY <1>4, <2>1, FewerLoose
  <2> QED
    BY <1>1, <1>4, <2>2 DEF Responsible
<1>5. CASE pc[p] = "done" /\ Cardinality(Loose) <= Retention
  <2>1. Loose \ {} = Loose /\ Loose' \ {} = Loose'
    OBVIOUS
  <2>2. Cardinality(Loose' \ {}) <= Retention
    BY <1>5, <2>1, FewerLoose
  <2> QED
    BY <1>1, <1>5, <2>1, <2>2 DEF Responsible
<1> QED
  BY <1>2, <1>3, <1>4, <1>5 DEF Responsible

\* The scan of a responsible run passes over no loose run, and its selection
\* leaves no more of them than retention keeps.
LEMMA ScanResponsible ==
  ASSUME TypeOK, NEW q \in Run, Loose' \subseteq Loose, Responsible(q),
         List(q) \/ ScanMarker(q) \/ ScanManifest(q) \/ Select(q)
  PROVE  Responsible(q)'
<1> USE DEF Goto
<1>0. /\ pc \in [Run -> Label] /\ entry \in [Run -> Run] /\ todo \in [Run -> SUBSET Run]
      /\ candidate \in [Run -> SUBSET Run] /\ doomed \in [Run -> SUBSET Run]
  BY DEF TypeOK
<1>1. CASE List(q)
  <2>1. pc'[q] = "scan.marker" /\ todo'[q] = {s \in Run : place[s] = "runs"}
    BY <1>0, <1>1 DEF List
  <2>2. Loose' \subseteq todo'[q]
    BY <2>1 DEF Loose, Kept
  <2> QED
    BY <2>1, <2>2 DEF Responsible
<1>2. CASE ScanMarker(q)
  <2>0. Loose \subseteq todo[q] \cup candidate[q]
    BY <1>2 DEF ScanMarker, Responsible, Unlisted
  <2>1. PICK s \in todo[q] :
          /\ entry' = [entry EXCEPT ![q] = s]
          /\ todo' = [todo EXCEPT ![q] = @ \ {s}]
          /\ pc' = [pc EXCEPT ![q] = IF place[s] = "runs" /\ s \notin marker
                                     THEN "scan.manifest" ELSE "scan.marker"]
    BY <1>2 DEF ScanMarker
  <2>2. candidate' = candidate /\ entry'[q] = s /\ todo'[q] = todo[q] \ {s}
    BY <1>0, <1>2, <2>1 DEF ScanMarker
  <2>3. CASE place[s] = "runs" /\ s \notin marker
    <3>1. pc'[q] = "scan.manifest"
      BY <1>0, <2>1, <2>3
    <3>2. Loose' \subseteq todo'[q] \cup candidate'[q] \cup {entry'[q]}
      BY <2>0, <2>2
    <3> QED
      BY <3>1, <3>2 DEF Responsible
  <2>4. CASE ~(place[s] = "runs" /\ s \notin marker)
    <3>1. pc'[q] = "scan.marker"
      BY <1>0, <2>1, <2>4
    <3>2. s \notin Loose
      BY <2>4 DEF Loose, Kept
    <3>3. Loose' \subseteq todo'[q] \cup candidate'[q]
      BY <2>0, <2>2, <3>2
    <3> QED
      BY <3>1, <3>3 DEF Responsible
  <2> QED
    BY <2>3, <2>4
<1>3. CASE ScanManifest(q)
  <2>0. Loose \subseteq todo[q] \cup candidate[q] \cup {entry[q]}
    BY <1>3 DEF ScanManifest, Responsible, Unlisted
  <2>1. /\ pc'[q] = "scan.marker" /\ todo' = todo /\ candidate[q] \subseteq candidate'[q]
        /\ place[entry[q]] = "runs" /\ manifest[entry[q]] = "completed" => entry[q] \in candidate'[q]
    BY <1>0, <1>3 DEF ScanManifest
  <2>2. Loose' \subseteq todo'[q] \cup candidate'[q]
    BY <2>0, <2>1 DEF Loose, Kept
  <2> QED
    BY <2>1, <2>2 DEF Responsible
<1>4. CASE Select(q)
  <2> DEFINE stay == {s \in candidate[q] :
                        ~(Cardinality({t \in candidate[q] : Newer(t, s)}) >= Retention)}
  <2>0. Loose \subseteq candidate[q] /\ candidate[q] \in SUBSET Run
    BY <1>0, <1>4 DEF Select, Responsible, Unlisted
  <2>1. /\ pc'[q] = "check"
        /\ doomed'[q] =
             {s \in candidate[q] : Cardinality({t \in candidate[q] : Newer(t, s)}) >= Retention}
    BY <1>0, <1>4 DEF Select
  <2>2. Cardinality(stay) <= Retention
    BY <2>0, FewStay
  <2>3. Loose' \ doomed'[q] \in SUBSET stay
    BY <2>0, <2>1
  <2> HIDE DEF stay
  <2>4. IsFiniteSet(stay)
    BY <2>0, FS_Subset DEF stay
  <2>5. Cardinality(Loose' \ doomed'[q]) <= Cardinality(stay) /\ IsFiniteSet(Loose' \ doomed'[q])
    BY <2>3, <2>4, FS_Subset
  <2>6. Cardinality(Loose' \ doomed'[q]) \in Nat /\ Cardinality(stay) \in Nat
    BY <2>4, <2>5, FS_CardinalityType
  <2>7. Cardinality(Loose' \ doomed'[q]) <= Retention
    BY <2>2, <2>5, <2>6
  <2> QED
    BY <2>1, <2>7 DEF Responsible
<1> QED
  BY <1>1, <1>2, <1>3, <1>4

\* Of the runs selected, a responsible run passes over none that is still loose.
LEMMA DeletionResponsible ==
  ASSUME IInv, NEW q \in Run, Loose' \subseteq Loose, Responsible(q),
         pc[q] = "rollback" => entry[q] \in marker,
         \/ CheckTarget(q) \/ Quarantine(q) \/ VerifyQuarantined(q)
         \/ RollbackQuarantine(q) \/ RemoveQuarantined(q)
  PROVE  Responsible(q)'
<1> USE DEF Goto
<1>0. /\ pc \in [Run -> Label] /\ entry \in [Run -> Run] /\ doomed \in [Run -> SUBSET Run]
      /\ place \in [Run -> Place]
  BY DEF IInv, TypeOK
<1>1. /\ pc[q] \in {"check", "quarantine", "verify", "rollback", "remove"}
      /\ Cardinality(Loose \ doomed[q]) <= Retention
  BY DEF CheckTarget, Quarantine, VerifyQuarantined, RollbackQuarantine, RemoveQuarantined,
         Responsible, Unlisted
<1>2. SUFFICES /\ pc'[q] \in {"check", "quarantine", "verify", "rollback", "remove"}
               /\ Loose' \ doomed'[q] \subseteq Loose \ doomed[q]
  <2>1. Cardinality(Loose' \ doomed'[q]) <= Retention
    BY <1>1, <1>2, FewerLoose
  <2> QED
    BY <1>2, <2>1 DEF Responsible
<1>3. ASSUME NEW s \in Run, Leave(q, s), s \notin Loose'
      PROVE  /\ pc'[q] \in {"check", "quarantine", "verify", "rollback", "remove"}
             /\ Loose' \ doomed'[q] \subseteq Loose \ doomed[q]
  BY <1>0, <1>3 DEF Leave
<1>4. CASE CheckTarget(q)
  <2>1. PICK s \in NextDoomed(q) :
           \/ Goto(q, "quarantine") /\ UNCHANGED doomed
           \/ ~(place[s] = "runs" /\ s \notin marker /\ manifest[s] = "completed") /\ Leave(q, s)
    BY <1>4 DEF CheckTarget
  <2>2. CASE Goto(q, "quarantine") /\ UNCHANGED doomed
    BY <1>0, <2>2
  <2>3. CASE ~(place[s] = "runs" /\ s \notin marker /\ manifest[s] = "completed") /\ Leave(q, s)
    <3>1. s \in Run /\ s \notin Loose
      BY <1>0, <2>3 DEF Loose, Kept, NextDoomed
    <3> QED
      BY <1>3, <2>3, <3>1
  <2> QED
    BY <2>1, <2>2, <2>3
<1>5. CASE Quarantine(q)
  <2>1. CASE Goto(q, "verify") /\ UNCHANGED doomed
    BY <1>0, <2>1
  <2>2. CASE place[entry[q]] # "runs" /\ Leave(q, entry[q])
    <3>1. entry[q] \in Run /\ entry[q] \notin Loose
      BY <1>0, <2>2 DEF Loose, Kept
    <3> QED
      BY <1>3, <2>2, <3>1
  <2> QED
    BY <1>5, <2>1, <2>2 DEF Quarantine
<1>6. CASE VerifyQuarantined(q)
  BY <1>0, <1>6 DEF VerifyQuarantined, scan
<1>7. CASE RollbackQuarantine(q)
  <2>1. entry[q] \in Run /\ entry[q] \notin Loose'
    BY <1>0, <1>7 DEF RollbackQuarantine, Loose
  <2> QED
    BY <1>3, <1>7, <2>1 DEF RollbackQuarantine
<1>8. CASE RemoveQuarantined(q)
  <2>1. entry[q] \in Run /\ entry[q] \notin Loose'
    BY <1>0, <1>8 DEF RemoveQuarantined, Loose, Kept
  <2> QED
    BY <1>3, <1>8, <2>1 DEF RemoveQuarantined
<1> QED
  BY <1>4, <1>5, <1>6, <1>7, <1>8

\* A step that leaves a run where it has yet to list what is there.
LEMMA BecomesUnlisted ==
  ASSUME TypeOK, NEW q \in Run,
         \/ MakeDirectory(q) \/ WriteMarker(q) \/ WriteManifest(q) \/ Discard(q)
         \/ ReadManifest(q) \/ BackupManifest(q) \/ PublishManifest(q) \/ RestoreManifest(q)
         \/ Unmark(q) \/ Complete(q)
  PROVE  Responsible(q)'
<1>1. CASE ReadManifest(q)
  <2>1. PICK l \in {"completeFailed", "backup", "unmark"} : pc' = [pc EXCEPT ![q] = l]
    <3>1. manifest[q] \in {"none", "active", "completed"}
      BY DEF TypeOK, Manifest
    <3> QED
      BY <1>1, <3>1 DEF ReadManifest, Goto
  <2>2. pc'[q] \in Unlisted
    BY <2>1 DEF TypeOK, Unlisted
  <2> QED
    BY <2>2 DEF Responsible
<1>2. CASE ~ReadManifest(q)
  <2>1. pc'[q] \in Unlisted
    BY <1>2 DEF MakeDirectory, WriteMarker, WriteManifest, Discard, BackupManifest,
       PublishManifest, RestoreManifest, Unmark, Complete, Goto, TypeOK, Unlisted
  <2> QED
    BY <2>1 DEF Responsible
<1> QED
  BY <1>1, <1>2

LEMMA DoneResponsible ==
  ASSUME TypeOK, NEW q \in Run, Loose' \subseteq Loose, Responsible(q), Done(q)
  PROVE  Responsible(q)'
<1>1. pc'[q] = "done" /\ doomed[q] = {} /\ Cardinality(Loose \ doomed[q]) <= Retention
  BY DEF Done, Goto, TypeOK, Responsible, Unlisted
<1>2. Cardinality(Loose' \ {}) <= Retention
  BY <1>1, FewerLoose
<1>3. Loose' \ {} = Loose'
  OBVIOUS
<1> QED
  BY <1>1, <1>2, <1>3 DEF Responsible

\* A run has moved into the quarantine what it puts back only when it found it
\* marked there; nobody takes that marker away.
LEMMA RollbackMarked ==
  ASSUME IInv, NEW q \in Run, Step(q) \/ Complete(q) \/ Crash(q) \/ Protect(q),
         NEW r \in Run, pc[r] = "rollback" => entry[r] \in marker, pc'[r] = "rollback"
  PROVE  entry'[r] \in marker'
<1> USE DEF Goto, scan, disk
<1>0. /\ pc \in [Run -> Label] /\ entry \in [Run -> Run]
      /\ pc[r] \in {"verify", "rollback"} =>
           place[entry[r]] = "quarantine" /\ manifest[entry[r]] = "completed"
  BY DEF IInv, TypeOK, Looked
<1>1. CASE VerifyQuarantined(q) /\ q = r
  BY <1>0, <1>1 DEF VerifyQuarantined
<1>2. CASE ~(VerifyQuarantined(q) /\ q = r)
  <2>1. CASE q = r
    <3>1. CASE ReadManifest(q)
      <4>1. manifest[q] \in {"none", "active", "completed"}
        BY DEF IInv, TypeOK, Manifest
      <4> QED
        BY <1>0, <2>1, <3>1, <4>1 DEF ReadManifest
    <3>2. CASE Protect(q)
      BY <2>1, <3>2 DEF Protect
    <3>3. CASE ~ReadManifest(q) /\ ~Protect(q)
      BY <1>0, <1>2, <2>1, <3>3
         DEF Step, MakeDirectory, WriteMarker, WriteManifest, Discard, BackupManifest,
             PublishManifest, RestoreManifest, Unmark, List, ScanMarker, ScanManifest, Select,
             Done, CheckTarget, Quarantine, RollbackQuarantine, RemoveQuarantined, Leave,
             Complete, Crash
    <3> QED
      BY <3>1, <3>2, <3>3
  <2>2. CASE q # r
    <3>1. pc[r] = "rollback" /\ entry'[r] = entry[r]
      BY <2>2, OthersKeep DEF IInv
    <3>2. entry[r] \in marker /\ place[entry[r]] = "quarantine"
      BY <1>0, <3>1
    <3>3. marker \subseteq marker' \/ Unmark(q)
      BY DEF Step, MakeDirectory, WriteMarker, WriteManifest, Discard, ReadManifest,
             BackupManifest, PublishManifest, RestoreManifest, List, ScanMarker, ScanManifest,
             Select, Done, CheckTarget, Quarantine, VerifyQuarantined, RollbackQuarantine,
             RemoveQuarantined, Complete, Crash, Protect
    <3>4. Unmark(q) => entry[r] \in marker'
      BY <3>2 DEF Unmark
    <3> QED
      BY <3>1, <3>2, <3>3, <3>4
  <2> QED
    BY <2>1, <2>2
<1> QED
  BY <1>1, <1>2

LEMMA InitBInv == Init => BInv
<1> SUFFICES ASSUME Init, Existing # Run PROVE BInv
  BY DEF BInv
<1>1. PICK r \in Run : r \notin Existing
  OBVIOUS
<1>2. pc[r] = "mkdir" /\ \A q \in Run : pc[q] # "rollback"
  BY <1>1 DEF Init
<1> QED
  BY <1>2 DEF BInv, Responsible, Unlisted

\* Every step leaves some run responsible, while all goes well.
LEMMA NextBInv == IInv /\ BInv /\ [Next]_vars => BInv'
<1> SUFFICES ASSUME IInv, BInv, [Next]_vars, Smooth', Existing # Run
             PROVE  /\ \A r \in Run : pc'[r] = "rollback" => entry'[r] \in marker'
                    /\ \E r \in Run : Responsible(r)'
  BY DEF BInv
<1>0. TypeOK
  BY DEF IInv
<1>1. CASE UNCHANGED vars
  BY <1>1 DEF vars, BInv, Smooth, Responsible, Loose, Kept
<1>2. CASE Next
  <2>1. PICK q \in Run : Step(q) \/ Complete(q) \/ Crash(q) \/ Protect(q) \/ Fault(q)
    BY <1>2 DEF Next
  <2>2. ~Fault(q) /\ faults = 0
    <3>1. faults' = 0 /\ faults \in Nat
      BY <1>0 DEF Smooth, TypeOK
    <3>2. Fault(q) => faults' = faults + 1
      BY DEF Fault
    <3>3. Fault(q) \/ faults' = faults
      BY <2>1 DEF Step, MakeDirectory, WriteMarker, WriteManifest, Discard, ReadManifest,
         BackupManifest, PublishManifest, RestoreManifest, Unmark, List, ScanMarker,
         ScanManifest, Select, Done, CheckTarget, Quarantine, VerifyQuarantined,
         RollbackQuarantine, RemoveQuarantined, Complete, Crash, Protect
    <3> QED
      BY <3>1, <3>2, <3>3
  <2>3. ~Crash(q)
    BY <1>0 DEF Crash, Goto, TypeOK, Smooth
  <2>4. \A p \in Run : pc[p] # "crashed"
    <3> SUFFICES ASSUME NEW p \in Run, pc[p] = "crashed" PROVE FALSE
      OBVIOUS
    <3>1. CASE p = q
      <4>1. pc'[q] = pc[q]
        BY <2>1, <2>2, <2>3, <3>1 DEF Step, MakeDirectory, WriteMarker, WriteManifest, Discard,
           ReadManifest, BackupManifest, PublishManifest, RestoreManifest, Unmark, List,
           ScanMarker, ScanManifest, Select, Done, CheckTarget, Quarantine, VerifyQuarantined,
           RollbackQuarantine, RemoveQuarantined, Complete, Protect
      <4> QED
        BY <3>1, <4>1 DEF Smooth
    <3>2. CASE p # q
      BY <1>0, <2>1, <3>2, OthersKeep DEF Smooth
    <3> QED
      BY <3>1, <3>2
  <2>5. /\ \A r \in Run : pc[r] = "rollback" => entry[r] \in marker
        /\ \E r \in Run : Responsible(r)
    BY <2>2, <2>4 DEF BInv, Smooth
  <2>6. \A r \in Run : pc'[r] = "rollback" => entry'[r] \in marker'
    BY <2>1, <2>2, <2>5, RollbackMarked
  <2>7. \E r \in Run : Responsible(r)'
    <3>1. CASE Unmark(q)
      BY <1>0, <3>1, BecomesUnlisted
    <3>2. CASE ~Unmark(q)
      <4>1. Loose' \subseteq Loose
        BY <2>1, <2>5, <3>2, LooseShrinks
      <4>2. PICK p \in Run : Responsible(p)
        BY <2>5
      <4>3. CASE p # q
        <5>1. /\ pc'[p] = pc[p] /\ entry'[p] = entry[p] /\ todo'[p] = todo[p]
              /\ candidate'[p] = candidate[p] /\ doomed'[p] = doomed[p]
          BY <1>0, <2>1, <4>3, OthersKeep
        <5> QED
          BY <4>1, <4>2, <5>1, StaysResponsible
      <4>4. CASE p = q /\ Protect(q)
        <5>1. /\ pc'[p] = pc[p] /\ entry'[p] = entry[p] /\ todo'[p] = todo[p]
              /\ candidate'[p] = candidate[p] /\ doomed'[p] = doomed[p]
          BY <4>4 DEF Protect, scan
        <5> QED
          BY <4>1, <4>2, <5>1, StaysResponsible
      <4>5. CASE p = q /\ ~Protect(q)
        <5>1. \/ MakeDirectory(q) \/ WriteMarker(q) \/ WriteManifest(q) \/ Discard(q)
              \/ ReadManifest(q) \/ BackupManifest(q) \/ PublishManifest(q) \/ RestoreManifest(q)
              \/ Unmark(q) \/ Complete(q)
              \/ List(q) \/ ScanMarker(q) \/ ScanManifest(q) \/ Select(q) \/ Done(q)
              \/ CheckTarget(q) \/ Quarantine(q) \/ VerifyQuarantined(q)
              \/ RollbackQuarantine(q) \/ RemoveQuarantined(q)
          BY <2>1, <2>2, <2>3, <4>5 DEF Step
        <5>2. Responsible(q)'
          BY <1>0, <2>5, <4>1, <4>2, <4>5, <5>1, BecomesUnlisted, DoneResponsible,
             ScanResponsible, DeletionResponsible
        <5> QED
          BY <5>2
      <4> QED
        BY <4>3, <4>4, <4>5
    <3> QED
      BY <3>1, <3>2
  <2> QED
    BY <2>6, <2>7
<1> QED
  BY <1>1, <1>2

\* When every run has pruned, none crashed and nothing failed, no more
\* unprotected completed runs are left than retention keeps, in whatever order
\* they pruned.
LEMMA BoundFromBInv == BInv => RetentionBound
<1> SUFFICES ASSUME BInv, Existing # Run, \A r \in Run : pc[r] = "done", faults = 0
             PROVE  Cardinality(Kept \ marker) <= Retention
  BY DEF RetentionBound
<1>1. PICK r \in Run : Responsible(r)
  BY DEF BInv, Smooth
<1> QED
  BY <1>1 DEF Responsible, Unlisted, Loose

\* Retention is exact, however many runs prune at once: none of the newest
\* completed runs leaves, and none of the others stays.
THEOREM RetentionExactHolds == Spec => []RetentionExact
<1>1. RInv /\ BInv => RetentionExact
  BY BoundFromBInv DEF RInv, RetentionExact
<1> QED
  BY <1>1, InitIInv, NextIInv, InitRInv, NextRInv, InitBInv, NextBInv, PTL DEF Spec
================================================================================
