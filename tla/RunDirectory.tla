------------------------------ MODULE RunDirectory ------------------------------
(***************************************************************************)
(* The directories `.ascout/runs/<run id>` of src/src/run.ts: how a run     *)
(* creates its directory, marks it completed, and prunes the completed     *)
(* runs beyond the retention count.                                        *)
(*                                                                         *)
(* A directory is protected by the file `.active` until its manifest says  *)
(* completed; the manifest is replaced by two renames and is absent in     *)
(* between.  Pruning moves a run into a quarantine directory, looks at it  *)
(* again there, and only then deletes it.                                  *)
(*                                                                         *)
(* One action is one awaited file-system operation of one run.  A run may  *)
(* crash between two of them, and several runs may be at it at once:       *)
(* createRunDirectory and pruning do not take the run lock themselves.     *)
(***************************************************************************)
EXTENDS Naturals, FiniteSets

CONSTANTS
  Run,        \* run ids, numbers in their ordinal order
  Existing,   \* runs completed before the behaviour starts
  Retention,  \* completedRetention (20 in the code)
  MaxTime,    \* bound: timestamps are 0..MaxTime
  MaxFaults   \* bound: file-system errors injected in one behaviour

ASSUME RunDirectoryAssumption ==
  /\ Run \subseteq Nat /\ IsFiniteSet(Run)
  /\ Existing \subseteq Run
  /\ Retention \in Nat
  /\ MaxTime \in Nat
  /\ MaxFaults \in Nat

VARIABLES
  place,      \* where a run's directory is
  marker,     \* the runs whose directory holds `.active`
  manifest,   \* what each manifest.json says
  started,    \* started_at of the manifest
  completed,  \* completed_at of the manifest
  pc,         \* where each run's code stands
  entry,      \* the directory entry a pruning run looks at or deletes
  todo,       \* directory entries a pruning run has still to look at
  candidate,  \* completed runs a pruning run found
  doomed,     \* candidates it has still to delete
  faults      \* file-system errors so far

vars == <<place, marker, manifest, started, completed, pc, entry, todo,
          candidate, doomed, faults>>
disk == <<place, marker, manifest, started, completed>>
scan == <<entry, todo, candidate, doomed>>

Time == 0..MaxTime

Place    == {"none", "runs", "quarantine", "deleted"}
Manifest == {"none", "active", "completed"}

CreateLabel   == {"mkdir", "mark", "manifest", "discard"}
CompleteLabel == {"read", "backup", "publish", "restore", "unmark"}
PruneLabel    == {"list", "scan.marker", "scan.manifest", "check", "quarantine", "verify",
                  "rollback", "remove"}
Label == CreateLabel \cup CompleteLabel \cup PruneLabel
           \cup {"active", "done", "failed", "completeFailed", "crashed"}

Goto(r, label) == pc' = [pc EXCEPT ![r] = label]

\* The retention order: newest completion first, then newest start, then the
\* smallest run id.
Newer(r, s) ==
  \/ completed[r] > completed[s]
  \/ completed[r] = completed[s] /\ started[r] > started[s]
  \/ completed[r] = completed[s] /\ started[r] = started[s] /\ r < s

Init ==
  /\ place = [r \in Run |-> IF r \in Existing THEN "runs" ELSE "none"]
  /\ marker = {}
  /\ manifest = [r \in Run |-> IF r \in Existing THEN "completed" ELSE "none"]
  /\ started = [r \in Run |-> 0]
  /\ completed \in {f \in [Run -> Time] : \A r \in Run \ Existing : f[r] = 0}
  /\ pc = [r \in Run |-> IF r \in Existing THEN "done" ELSE "mkdir"]
  /\ entry = [r \in Run |-> r]
  /\ todo = [r \in Run |-> {}]
  /\ candidate = [r \in Run |-> {}]
  /\ doomed = [r \in Run |-> {}]
  /\ faults = 0

-----------------------------------------------------------------------------
(***************************************************************************)
(* createRunDirectory                                                      *)
(***************************************************************************)

MakeDirectory(r) ==
  /\ pc[r] = "mkdir"
  /\ place' = [place EXCEPT ![r] = "runs"]
  /\ Goto(r, "mark")
  /\ UNCHANGED <<marker, manifest, started, completed, scan, faults>>

WriteMarker(r) ==
  /\ pc[r] = "mark"
  /\ marker' = marker \cup {r}
  /\ Goto(r, "manifest")
  /\ UNCHANGED <<place, manifest, started, completed, scan, faults>>

\* mkdir raw and the active manifest; the clock may show any time.
WriteManifest(r) ==
  /\ pc[r] = "manifest"
  /\ manifest' = [manifest EXCEPT ![r] = "active"]
  /\ \E t \in Time : started' = [started EXCEPT ![r] = t]
  /\ Goto(r, "active")
  /\ UNCHANGED <<place, marker, completed, scan, faults>>

\* A failed initialisation removes what it made.
Discard(r) ==
  /\ pc[r] = "discard"
  /\ place' = [place EXCEPT ![r] = "deleted"]
  /\ Goto(r, "failed")
  /\ UNCHANGED <<marker, manifest, started, completed, scan, faults>>

-----------------------------------------------------------------------------
(***************************************************************************)
(* RunDirectoryHandle.complete: markRunCompleted, replaceManifestPortably  *)
(***************************************************************************)

\* complete() may be called again after it failed, and after it succeeded;
\* calls that overlap share one operation.
Complete(r) ==
  /\ r \notin Existing
  /\ pc[r] \in {"active", "done", "completeFailed"}
  /\ Goto(r, "read")
  /\ UNCHANGED <<disk, scan, faults>>

ReadManifest(r) ==
  /\ pc[r] = "read"
  /\ Goto(r, IF place[r] # "runs" THEN "completeFailed"
             ELSE CASE manifest[r] = "none" -> "completeFailed"
                    [] manifest[r] = "active" -> "backup"
                    [] manifest[r] = "completed" -> "unmark")
  /\ UNCHANGED <<disk, scan, faults>>

\* Mutant of BackupManifest: the marker is removed before the manifest is
\* replaced.
BackupManifestUnmarked(r) ==
  /\ pc[r] = "backup"
  /\ manifest' = [manifest EXCEPT ![r] = "none"]
  /\ marker' = marker \ {r}
  /\ Goto(r, "publish")
  /\ UNCHANGED <<place, started, completed, scan, faults>>

\* The new manifest is written to a temporary file, then the old one is
\* renamed away.
BackupManifest(r) ==
  /\ pc[r] = "backup"
  /\ manifest' = [manifest EXCEPT ![r] = "none"]
  /\ Goto(r, "publish")
  /\ UNCHANGED <<place, marker, started, completed, scan, faults>>

\* The new manifest is renamed into place.  completed_at is never before
\* started_at, whatever the clock shows.
PublishManifest(r) ==
  /\ pc[r] = "publish"
  /\ manifest' = [manifest EXCEPT ![r] = "completed"]
  /\ \E t \in Time :
       completed' = [completed EXCEPT ![r] = IF t > started[r] THEN t ELSE started[r]]
  /\ Goto(r, "unmark")
  /\ UNCHANGED <<place, marker, started, scan, faults>>

\* The old manifest is put back after a failed publication.
RestoreManifest(r) ==
  /\ pc[r] = "restore"
  /\ manifest' = [manifest EXCEPT ![r] = "active"]
  /\ Goto(r, "completeFailed")
  /\ UNCHANGED <<place, marker, started, completed, scan, faults>>

Unmark(r) ==
  /\ pc[r] = "unmark"
  /\ marker' = IF place[r] = "runs" THEN marker \ {r} ELSE marker
  /\ Goto(r, "list")
  /\ UNCHANGED <<place, manifest, started, completed, scan, faults>>

-----------------------------------------------------------------------------
(***************************************************************************)
(* pruneCompletedRunsFromRoot                                              *)
(***************************************************************************)

List(r) ==
  /\ pc[r] = "list"
  /\ todo' = [todo EXCEPT ![r] = {s \in Run : place[s] = "runs"}]
  /\ candidate' = [candidate EXCEPT ![r] = {}]
  /\ Goto(r, "scan.marker")
  /\ UNCHANGED <<disk, entry, doomed, faults>>

\* Entries come in the order readdir gives them; one that is gone or carries
\* a marker is preserved.
ScanMarker(r) ==
  /\ pc[r] = "scan.marker"
  /\ \E s \in todo[r] :
       /\ entry' = [entry EXCEPT ![r] = s]
       /\ todo' = [todo EXCEPT ![r] = @ \ {s}]
       /\ Goto(r, IF place[s] = "runs" /\ s \notin marker
                  THEN "scan.manifest" ELSE "scan.marker")
  /\ UNCHANGED <<disk, candidate, doomed, faults>>

ScanManifest(r) ==
  /\ pc[r] = "scan.manifest"
  /\ candidate' = [candidate EXCEPT ![r] =
       IF place[entry[r]] = "runs" /\ manifest[entry[r]] = "completed"
         THEN @ \cup {entry[r]} ELSE @]
  /\ Goto(r, "scan.marker")
  /\ UNCHANGED <<disk, entry, todo, doomed, faults>>

\* Mutant of Select: the oldest runs are kept.
SelectNewest(r) ==
  /\ pc[r] = "scan.marker" /\ todo[r] = {}
  /\ doomed' = [doomed EXCEPT ![r] =
       {s \in candidate[r] : Cardinality({t \in candidate[r] : Newer(s, t)}) >= Retention}]
  /\ Goto(r, "check")
  /\ entry' = [entry EXCEPT ![r] = r]
  /\ candidate' = [candidate EXCEPT ![r] = {}]
  /\ UNCHANGED <<disk, todo, faults>>

\* The candidates beyond the newest completedRetention ones go.
Select(r) ==
  /\ pc[r] = "scan.marker" /\ todo[r] = {}
  /\ doomed' = [doomed EXCEPT ![r] =
       {s \in candidate[r] : Cardinality({t \in candidate[r] : Newer(t, s)}) >= Retention}]
  /\ Goto(r, "check")
  /\ entry' = [entry EXCEPT ![r] = r]
  /\ candidate' = [candidate EXCEPT ![r] = {}]
  /\ UNCHANGED <<disk, todo, faults>>

-----------------------------------------------------------------------------
(***************************************************************************)
(* deleteCompletedCandidateSafely                                          *)
(***************************************************************************)

\* The deletions are made from the newest doomed run to the oldest.
NextDoomed(r) == {s \in doomed[r] : \A t \in doomed[r] : t = s \/ Newer(s, t)}

Done(r) ==
  /\ pc[r] = "check" /\ doomed[r] = {}
  /\ Goto(r, "done")
  /\ UNCHANGED <<disk, scan, faults>>

\* The deletion of `s' is over: it is gone, protected, could not be moved, or deleted.
Leave(r, s) ==
  /\ doomed' = [doomed EXCEPT ![r] = @ \ {s}]
  /\ entry' = [entry EXCEPT ![r] = r]
  /\ Goto(r, "check")

CheckTarget(r) ==
  /\ pc[r] = "check"
  /\ \E s \in NextDoomed(r) :
       \/ /\ place[s] = "runs" /\ s \notin marker /\ manifest[s] = "completed"
          /\ entry' = [entry EXCEPT ![r] = s]
          /\ Goto(r, "quarantine")
          /\ UNCHANGED doomed
       \/ /\ ~(place[s] = "runs" /\ s \notin marker /\ manifest[s] = "completed")
          /\ Leave(r, s)
  /\ UNCHANGED <<disk, todo, candidate, faults>>

Quarantine(r) ==
  /\ pc[r] = "quarantine"
  /\ \/ /\ place[entry[r]] = "runs"
        /\ place' = [place EXCEPT ![entry[r]] = "quarantine"]
        /\ Goto(r, "verify")
        /\ UNCHANGED <<entry, doomed>>
     \/ /\ place[entry[r]] # "runs"
        /\ Leave(r, entry[r])
        /\ UNCHANGED place
  /\ UNCHANGED <<marker, manifest, started, completed, todo, candidate, faults>>

\* Mutant of VerifyQuarantined: what was moved is deleted unseen.
VerifyQuarantinedBlindly(r) ==
  /\ pc[r] = "verify"
  /\ Goto(r, "remove")
  /\ UNCHANGED <<disk, scan, faults>>

\* The run is looked at again where nobody else finds it.
VerifyQuarantined(r) ==
  /\ pc[r] = "verify"
  /\ Goto(r, IF entry[r] \notin marker /\ manifest[entry[r]] = "completed"
             THEN "remove" ELSE "rollback")
  /\ UNCHANGED <<disk, scan, faults>>

RollbackQuarantine(r) ==
  /\ pc[r] = "rollback"
  /\ place' = [place EXCEPT ![entry[r]] = "runs"]
  /\ Leave(r, entry[r])
  /\ UNCHANGED <<marker, manifest, started, completed, todo, candidate, faults>>

RemoveQuarantined(r) ==
  /\ pc[r] = "remove"
  /\ place' = [place EXCEPT ![entry[r]] = "deleted"]
  /\ Leave(r, entry[r])
  /\ UNCHANGED <<marker, manifest, started, completed, todo, candidate, faults>>

-----------------------------------------------------------------------------
\* The process of a run dies, and its local state with it.
Crash(r) ==
  /\ pc[r] \in CreateLabel \cup CompleteLabel \cup PruneLabel \cup {"active"}
  /\ Goto(r, "crashed")
  /\ todo' = [todo EXCEPT ![r] = {}]
  /\ candidate' = [candidate EXCEPT ![r] = {}]
  /\ doomed' = [doomed EXCEPT ![r] = {}]
  /\ entry' = [entry EXCEPT ![r] = r]
  /\ UNCHANGED <<disk, faults>>

\* Another tool puts a marker into the directory of a completed run, which
\* protects it from then on.
Protect(r) ==
  /\ place[r] = "runs" /\ manifest[r] = "completed"
  /\ marker' = marker \cup {r}
  /\ UNCHANGED <<place, manifest, started, completed, pc, scan, faults>>

\* An awaited operation fails.  Creation discards the directory, completion
\* reports the error, pruning preserves what it cannot read or move and
\* reports what it cannot restore or delete.
Fault(r) ==
  /\ faults < MaxFaults
  /\ faults' = faults + 1
  /\ \/ /\ pc[r] \in {"mkdir", "discard"}
        /\ Goto(r, "failed")
        /\ UNCHANGED scan
     \/ /\ pc[r] \in {"mark", "manifest"}
        /\ Goto(r, "discard")
        /\ UNCHANGED scan
     \/ /\ pc[r] \in {"read", "backup", "restore", "unmark", "list", "rollback", "remove"}
        /\ Goto(r, "completeFailed")
        /\ UNCHANGED scan
     \/ /\ pc[r] = "publish"
        /\ Goto(r, "restore")
        /\ UNCHANGED scan
     \/ /\ pc[r] = "scan.marker"
        /\ \E s \in todo[r] : todo' = [todo EXCEPT ![r] = @ \ {s}]
        /\ UNCHANGED <<pc, entry, candidate, doomed>>
     \/ /\ pc[r] = "scan.manifest"
        /\ Goto(r, "scan.marker")
        /\ UNCHANGED scan
     \/ /\ pc[r] = "check"
        /\ \E s \in NextDoomed(r) : Leave(r, s)
        /\ UNCHANGED <<todo, candidate>>
     \/ /\ pc[r] = "quarantine"
        /\ Leave(r, entry[r])
        /\ UNCHANGED <<todo, candidate>>
     \/ /\ pc[r] = "verify"
        /\ Goto(r, "rollback")
        /\ UNCHANGED scan
  /\ UNCHANGED disk

Step(r) ==
  \/ MakeDirectory(r) \/ WriteMarker(r) \/ WriteManifest(r) \/ Discard(r)
  \/ ReadManifest(r) \/ BackupManifest(r) \/ PublishManifest(r) \/ RestoreManifest(r)
  \/ Unmark(r) \/ List(r) \/ ScanMarker(r) \/ ScanManifest(r) \/ Select(r) \/ Done(r)
  \/ CheckTarget(r) \/ Quarantine(r) \/ VerifyQuarantined(r) \/ RollbackQuarantine(r)
  \/ RemoveQuarantined(r)

Next == \E r \in Run : Step(r) \/ Complete(r) \/ Crash(r) \/ Protect(r) \/ Fault(r)

Spec == Init /\ [][Next]_vars

-----------------------------------------------------------------------------
(***************************************************************************)
(* Properties.                                                             *)
(***************************************************************************)

\* Every variable keeps its type, and a completed manifest is one that
\* parseManifest accepts: completed_at is not before started_at.
TypeOK ==
  /\ place \in [Run -> Place]
  /\ marker \subseteq Run
  /\ manifest \in [Run -> Manifest]
  /\ started \in [Run -> Time]
  /\ completed \in [Run -> Time]
  /\ pc \in [Run -> Label]
  /\ entry \in [Run -> Run]
  /\ todo \in [Run -> SUBSET Run]
  /\ candidate \in [Run -> SUBSET Run]
  /\ doomed \in [Run -> SUBSET Run]
  /\ faults \in Nat
  /\ \A r \in Run : manifest[r] = "completed" => completed[r] >= started[r]

\* Pruning never deletes a directory that carries an active marker, or whose
\* manifest does not say completed: an active run is not removed to satisfy
\* retention (README.md).
ActiveNeverRemoved ==
  [][\A r \in Run :
       place[r] # "deleted" /\ place'[r] = "deleted" /\ pc[r] # "discard"
         => r \notin marker /\ manifest[r] = "completed"]_vars

\* The completed runs whose directory is where retention counts it.
Kept == {r \in Run : place[r] = "runs" /\ manifest[r] = "completed"}

\* Retention has no need of a run that so many newer ones are kept beside.
Outranked(r) == Cardinality({s \in Kept : Newer(s, r)}) >= Retention

\* However many runs prune at once, a completed run only leaves `runs' while
\* Retention newer completed runs stay.
RetentionKeepsNewest ==
  \A r \in Run : manifest[r] = "completed" /\ place[r] \in {"quarantine", "deleted"}
    => Outranked(r)

\* When every run has completed and pruned, none crashed and no operation
\* failed, at most Retention completed runs are left unprotected, also when
\* they pruned concurrently.  Without a run of its own, nobody pruned.
RetentionBound ==
  Existing # Run /\ (\A r \in Run : pc[r] = "done") /\ faults = 0
    => Cardinality(Kept \ marker) <= Retention

\* Retention is exact: pruning takes none of the newest runs and leaves none of the others.
RetentionExact == RetentionKeepsNewest /\ RetentionBound

\* From its first manifest to its completed one a run is marked, so a crash
\* between the two renames of the manifest leaves a protected directory.
CompletionCovered ==
  \A r \in Run : pc[r] \in {"active", "backup", "publish", "restore"} => r \in marker

-----------------------------------------------------------------------------
(***************************************************************************)
(* The inductive invariant of RunDirectoryProofs.                          *)
(***************************************************************************)

\* What the directory of a run holds, by where its own code stands.
Phase ==
  \A r \in Run :
    /\ pc[r] = "mkdir" => place[r] = "none"
    /\ pc[r] \in CreateLabel => manifest[r] = "none"
    /\ pc[r] \in {"manifest", "publish", "restore"} \/ manifest[r] = "active" => r \in marker
    /\ pc[r] \in {"active", "backup"} => manifest[r] = "active"
    /\ pc[r] \in {"publish", "restore"} => manifest[r] = "none"
    /\ pc[r] = "unmark" => manifest[r] = "completed"

\* What a pruning run knows of the run it deletes, at each await.
Looked ==
  \A r \in Run :
    /\ pc[r] \in {"quarantine", "verify", "rollback", "remove"} => manifest[entry[r]] = "completed"
    /\ pc[r] \in {"verify", "rollback", "remove"} => place[entry[r]] = "quarantine"
    /\ pc[r] = "remove" => entry[r] \notin marker

\* Nobody else deletes what a run has moved into the quarantine.
Exclusive ==
  \A r, s \in Run :
    r # s /\ {pc[r], pc[s]} \subseteq {"verify", "rollback", "remove"} => entry[r] # entry[s]

IInv == TypeOK /\ Phase /\ Looked /\ Exclusive

\* Who has been found and who is to go; the second is outranked from the moment
\* it is selected, whoever else leaves before it does.
Ranked ==
  \A r \in Run :
    /\ pc[r] \in {"mark", "manifest", "active", "backup", "publish", "restore"} => place[r] = "runs"
    /\ manifest[r] = "completed" => place[r] # "none"
    /\ pc[r] = "quarantine" => entry[r] \in doomed[r]
    /\ \A s \in candidate[r] : manifest[s] = "completed"
    /\ \A s \in doomed[r] : manifest[s] = "completed" /\ Outranked(s)

RInv == Ranked /\ RetentionKeepsNewest

\* The completed runs that nothing protects from pruning.
Loose == Kept \ marker

\* A run that has not listed the directories since it completed, or cannot.
Unlisted == {"mkdir", "mark", "manifest", "discard", "active", "read", "backup", "publish",
             "restore", "unmark", "list", "failed", "completeFailed"}

\* Run r will still see, has seen or has dealt with every loose run.
Responsible(r) ==
  \/ pc[r] \in Unlisted
  \/ pc[r] = "scan.marker" /\ Loose \subseteq todo[r] \cup candidate[r]
  \/ pc[r] = "scan.manifest" /\ Loose \subseteq todo[r] \cup candidate[r] \cup {entry[r]}
  \/ /\ pc[r] \in {"check", "quarantine", "verify", "rollback", "remove"}
     /\ Cardinality(Loose \ doomed[r]) <= Retention
  \/ pc[r] = "done" /\ Cardinality(Loose) <= Retention

\* Nothing failed and nobody crashed.
Smooth == faults = 0 /\ \A r \in Run : pc[r] # "crashed"

\* As long as all goes well some run is responsible: the last that completed
\* has yet to list what is there, and nothing becomes loose behind its back.
BInv ==
  Smooth /\ Existing # Run =>
    /\ \A r \in Run : pc[r] = "rollback" => entry[r] \in marker
    /\ \E r \in Run : Responsible(r)

================================================================================
