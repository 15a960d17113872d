---------------------------- MODULE DurableHarness ----------------------------
(***************************************************************************)
(* AscoutDurableHarness of src/src/assurance/workflow: a journal of call   *)
(* intents and outcomes in one file per run, which survives the processes  *)
(* that write it.                                                          *)
(*                                                                         *)
(* A mutation makes a lock directory, loads the snapshot, changes it,      *)
(* writes a temporary file, renames it over the snapshot and removes the   *)
(* lock.  One action is one of these steps of one client; a client is a    *)
(* handle of a process and may die between any two of them.  A lock left   *)
(* behind is never stolen: an operator removes it.                         *)
(*                                                                         *)
(* The digests of a call other than its identities are its identity here:  *)
(* a call that reuses a call identity with anything else changed is one    *)
(* with another attempt.                                                   *)
(***************************************************************************)
EXTENDS Naturals, FiniteSets

CONSTANTS
  Client,     \* handles, each of a process of its own
  NoClient,   \* no lock directory
  Binding,    \* repository, source, configuration and policy of a run
  NoBinding,  \* no snapshot
  Id,         \* call identities
  Attempt,    \* attempt identities
  Never,      \* call identities whose replay policy is "never"
  MaxCalls,   \* DURABLE_HARNESS_MAX_CALLS
  MaxFaults   \* bound: file-system errors in one behaviour

ASSUME DurableHarnessAssumption ==
  /\ NoClient \notin Client
  /\ NoBinding \notin Binding
  /\ Never \subseteq Id
  /\ MaxCalls \in Nat
  /\ MaxFaults \in Nat

VARIABLES
  lock,      \* who made the lock directory (the directory does not say)
  journal,   \* the snapshot file
  pc,        \* where each handle stands
  op,        \* the operation it is in
  expected,  \* the binding it was opened with
  view,      \* the snapshot it is about to write
  failing,   \* the operation will throw
  report,    \* what recover found
  begun,     \* calls some begin() was acknowledged for
  finished,  \* outcomes some complete() was acknowledged for
  faults     \* file-system errors so far

vars == <<lock, journal, pc, op, expected, view, failing, report, begun, finished, faults>>

Outcome == {"SUCCEEDED", "FAILED"}
State   == Outcome \cup {"IN_PROGRESS"}
Call    == [id : Id, attempt : Attempt]
Record  == [id : Id, attempt : Attempt, state : State]
Journal == [binding : Binding \cup {NoBinding}, calls : SUBSET Record]

Op ==
  [kind : {"none", "create", "recover"}]
    \cup [kind : {"begin"}, call : Call]
    \cup [kind : {"complete"}, call : Call, state : Outcome]

Disposition == {"RECORDED_SUCCESS", "RECORDED_FAILURE", "REVALIDATION_REQUIRED",
                "RECONCILIATION_REQUIRED"}

Label == {"closed", "idle", "lock", "load", "write", "rename", "cleanup", "unlock", "crashed"}

\* Between making the lock directory and removing it.
Critical == {"load", "write", "rename", "cleanup", "unlock"}

Goto(c, label) == pc' = [pc EXCEPT ![c] = label]
NoOp == [kind |-> "none"]
Empty == [binding |-> NoBinding, calls |-> {}]
CallOf(r) == [id |-> r.id, attempt |-> r.attempt]

Init ==
  /\ lock = NoClient
  /\ journal = Empty
  /\ pc = [c \in Client |-> "closed"]
  /\ op = [c \in Client |-> NoOp]
  /\ expected \in [Client -> Binding]
  /\ view = [c \in Client |-> Empty]
  /\ failing = [c \in Client |-> FALSE]
  /\ report = [c \in Client |-> {}]
  /\ begun = {}
  /\ finished = {}
  /\ faults = 0

-----------------------------------------------------------------------------
(***************************************************************************)
(* The snapshot.                                                           *)
(***************************************************************************)

\* parseDurableHarnessPayloadV1, which encode and decode apply: at most
\* MaxCalls calls, and no identity twice.
Encodable(calls) ==
  /\ Cardinality(calls) <= MaxCalls
  /\ \A r, s \in calls : r # s => r.id # s.id /\ r.attempt # s.attempt

\* Mutant of DispositionOf: a stale binding is told before an uncertain effect.
DispositionStaleFirst(r, current) ==
  IF ~current THEN "REVALIDATION_REQUIRED"
  ELSE IF r.state = "IN_PROGRESS"
    THEN IF r.id \in Never THEN "RECONCILIATION_REQUIRED" ELSE "REVALIDATION_REQUIRED"
  ELSE IF r.state = "SUCCEEDED" THEN "RECORDED_SUCCESS"
  ELSE "RECORDED_FAILURE"

\* durableHarnessRecoveryV1: the disposition of one recorded call.
DispositionOf(r, current) ==
  IF r.state = "IN_PROGRESS" /\ r.id \in Never THEN "RECONCILIATION_REQUIRED"
  ELSE IF ~current \/ r.state = "IN_PROGRESS" THEN "REVALIDATION_REQUIRED"
  ELSE IF r.state = "SUCCEEDED" THEN "RECORDED_SUCCESS"
  ELSE "RECORDED_FAILURE"

-----------------------------------------------------------------------------
(***************************************************************************)
(* Calls on a handle.                                                      *)
(***************************************************************************)

\* AscoutDurableHarness.open reads the snapshot without the lock.
Open(c) ==
  /\ pc[c] = "closed"
  /\ journal.binding # NoBinding
  /\ Goto(c, "idle")
  /\ UNCHANGED <<lock, journal, op, expected, view, failing, report, begun, finished, faults>>

Invoke(c) ==
  /\ \/ pc[c] = "closed" /\ op' = [op EXCEPT ![c] = [kind |-> "create"]]
     \/ pc[c] = "idle" /\ op' = [op EXCEPT ![c] = [kind |-> "recover"]]
     \/ /\ pc[c] = "idle"
        /\ \E call \in Call : op' = [op EXCEPT ![c] = [kind |-> "begin", call |-> call]]
     \/ /\ pc[c] = "idle"
        /\ \E call \in Call, state \in Outcome :
             op' = [op EXCEPT ![c] = [kind |-> "complete", call |-> call, state |-> state]]
  /\ Goto(c, "lock")
  /\ failing' = [failing EXCEPT ![c] = FALSE]
  /\ report' = [report EXCEPT ![c] = {}]
  /\ UNCHANGED <<lock, journal, expected, view, begun, finished, faults>>

\* The operation returns or throws; a create that threw leaves no handle.
Return(c, failed) ==
  /\ Goto(c, IF failed /\ op[c].kind = "create" THEN "closed" ELSE "idle")
  /\ op' = [op EXCEPT ![c] = NoOp]
  /\ begun' = IF ~failed /\ op[c].kind = "begin" THEN begun \cup {op[c].call} ELSE begun
  /\ finished' = IF ~failed /\ op[c].kind = "complete"
                   THEN finished \cup {[id |-> op[c].call.id, attempt |-> op[c].call.attempt,
                                        state |-> op[c].state]}
                   ELSE finished
  /\ view' = [view EXCEPT ![c] = Empty]
  /\ failing' = [failing EXCEPT ![c] = FALSE]

-----------------------------------------------------------------------------
(***************************************************************************)
(* exclusive                                                               *)
(***************************************************************************)

\* Mutant of Lock: a client waits for the lock directory to go away.
LockWaits(c) ==
  /\ pc[c] = "lock" /\ lock = NoClient
  /\ lock' = c
  /\ Goto(c, "load")
  /\ UNCHANGED <<journal, op, expected, view, failing, report, begun, finished, faults>>

\* mkdir, which throws if the directory exists.
Lock(c) ==
  /\ pc[c] = "lock"
  /\ IF lock = NoClient
       THEN /\ lock' = c
            /\ Goto(c, "load")
            /\ UNCHANGED <<op, view, failing, begun, finished>>
       ELSE /\ Return(c, TRUE)
            /\ UNCHANGED lock
  /\ UNCHANGED <<journal, expected, report, faults>>

\* Mutant of Unlock: an operation acknowledged while its save had failed.
UnlockForgetsError(c) ==
  /\ pc[c] = "unlock" /\ lock # NoClient
  /\ lock' = NoClient
  /\ Return(c, FALSE)
  /\ UNCHANGED <<journal, expected, report, faults>>

\* rmdir, which throws if the directory is gone.
Unlock(c) ==
  /\ pc[c] = "unlock"
  /\ lock' = NoClient
  /\ Return(c, failing[c] \/ lock = NoClient)
  /\ UNCHANGED <<journal, expected, report, faults>>

-----------------------------------------------------------------------------
(***************************************************************************)
(* What happens under the lock: load, change, save.                        *)
(***************************************************************************)

Throw(c) ==
  /\ failing' = [failing EXCEPT ![c] = TRUE]
  /\ Goto(c, "unlock")
  /\ UNCHANGED <<view, report>>

\* The snapshot needs no change.
Keep(c) ==
  /\ Goto(c, "unlock")
  /\ UNCHANGED <<view, failing, report>>

\* A snapshot that cannot be encoded is not written.
Save(c, binding, calls) ==
  IF Encodable(calls)
    THEN /\ view' = [view EXCEPT ![c] = [binding |-> binding, calls |-> calls]]
         /\ Goto(c, "write")
         /\ UNCHANGED <<failing, report>>
    ELSE Throw(c)

LoadCreate(c) ==
  /\ op[c].kind = "create"
  /\ IF journal.binding = NoBinding THEN Save(c, expected[c], {}) ELSE Throw(c)

\* begin: a new intent is appended, a known one acknowledged, a changed one
\* refused.
LoadBegin(c) ==
  /\ op[c].kind = "begin"
  /\ LET call   == op[c].call
         same   == {r \in journal.calls : r.id = call.id}
         record == [id |-> call.id, attempt |-> call.attempt, state |-> "IN_PROGRESS"]
     IN IF journal.binding # expected[c] THEN Throw(c)
        ELSE IF same # {}
          THEN IF \E r \in same : CallOf(r) = call THEN Keep(c) ELSE Throw(c)
        ELSE Save(c, journal.binding, journal.calls \cup {record})

\* Mutant of LoadComplete: an outcome replaces whatever is recorded.
LoadCompleteOverwrites(c) ==
  /\ op[c].kind = "complete"
  /\ LET match == {r \in journal.calls : CallOf(r) = op[c].call}
     IN IF journal.binding # expected[c] \/ match = {} THEN Throw(c)
        ELSE Save(c, journal.binding,
                  (journal.calls \ match) \cup {[r EXCEPT !.state = op[c].state] : r \in match})

\* complete: the matching unfinished attempt is settled.
LoadComplete(c) ==
  /\ op[c].kind = "complete"
  /\ LET match == {r \in journal.calls : CallOf(r) = op[c].call /\ r.state = "IN_PROGRESS"}
     IN IF journal.binding # expected[c] \/ match = {} THEN Throw(c)
        ELSE Save(c, journal.binding,
                  (journal.calls \ match) \cup {[r EXCEPT !.state = op[c].state] : r \in match})

LoadRecover(c) ==
  /\ op[c].kind = "recover"
  /\ report' = [report EXCEPT ![c] =
       {[id |-> r.id, disposition |-> DispositionOf(r, journal.binding = expected[c])] :
          r \in journal.calls}]
  /\ Goto(c, "unlock")
  /\ UNCHANGED <<view, failing>>

Load(c) ==
  /\ pc[c] = "load"
  /\ LoadCreate(c) \/ LoadBegin(c) \/ LoadComplete(c) \/ LoadRecover(c)
  /\ UNCHANGED <<lock, journal, op, expected, begun, finished, faults>>

\* The temporary file is written and flushed.
Write(c) ==
  /\ pc[c] = "write"
  /\ Goto(c, "rename")
  /\ UNCHANGED <<lock, journal, op, expected, view, failing, report, begun, finished, faults>>

Rename(c) ==
  /\ pc[c] = "rename"
  /\ journal' = view[c]
  /\ Goto(c, "cleanup")
  /\ UNCHANGED <<lock, op, expected, view, failing, report, begun, finished, faults>>

\* The temporary name is unlinked, missing or not.
Cleanup(c) ==
  /\ pc[c] = "cleanup"
  /\ Goto(c, "unlock")
  /\ UNCHANGED <<lock, journal, op, expected, view, failing, report, begun, finished, faults>>

-----------------------------------------------------------------------------
\* An awaited operation fails.  A failed write or rename still unlinks the
\* temporary file; a failed rmdir leaves the lock directory.
Fault(c) ==
  /\ faults < MaxFaults
  /\ faults' = faults + 1
  /\ \/ /\ pc[c] = "lock"
        /\ Return(c, TRUE)
        /\ UNCHANGED report
     \/ /\ pc[c] \in {"load", "cleanup"}
        /\ Throw(c)
        /\ UNCHANGED <<op, begun, finished>>
     \/ /\ pc[c] \in {"write", "rename"}
        /\ failing' = [failing EXCEPT ![c] = TRUE]
        /\ Goto(c, "cleanup")
        /\ UNCHANGED <<op, view, report, begun, finished>>
     \/ /\ pc[c] = "unlock"
        /\ Return(c, TRUE)
        /\ UNCHANGED report
  /\ UNCHANGED <<lock, journal, expected>>

\* The process dies.  Whatever it held on disk stays.
Crash(c) ==
  /\ pc[c] \notin {"closed", "crashed"}
  /\ Goto(c, "crashed")
  /\ op' = [op EXCEPT ![c] = NoOp]
  /\ view' = [view EXCEPT ![c] = Empty]
  /\ failing' = [failing EXCEPT ![c] = FALSE]
  /\ UNCHANGED <<lock, journal, expected, report, begun, finished, faults>>

\* The operator verifies that the writer stopped and removes its lock.
Repair ==
  /\ lock # NoClient /\ pc[lock] \notin Critical
  /\ lock' = NoClient
  /\ UNCHANGED <<journal, pc, op, expected, view, failing, report, begun, finished, faults>>

Step(c) == Lock(c) \/ Load(c) \/ Write(c) \/ Rename(c) \/ Cleanup(c) \/ Unlock(c)

Next ==
  \/ \E c \in Client : Open(c) \/ Invoke(c) \/ Step(c) \/ Fault(c) \/ Crash(c)
  \/ Repair

Spec == Init /\ [][Next]_vars

\* A started operation goes on while its process lives; nobody has to repair.
FairSpec == Spec /\ \A c \in Client : WF_vars(Step(c))

-----------------------------------------------------------------------------
(***************************************************************************)
(* Properties.                                                             *)
(***************************************************************************)

\* Every variable keeps its type.
TypeOK ==
  /\ lock \in Client \cup {NoClient}
  /\ journal \in Journal
  /\ pc \in [Client -> Label]
  /\ op \in [Client -> Op]
  /\ expected \in [Client -> Binding]
  /\ view \in [Client -> Journal]
  /\ failing \in [Client -> BOOLEAN]
  /\ report \in [Client -> SUBSET [id : Id, disposition : Disposition]]
  /\ begun \subseteq Call
  /\ finished \subseteq [id : Id, attempt : Attempt, state : Outcome]
  /\ faults \in Nat

\* A client between mkdir and rmdir is the one whose lock directory stands,
\* so no two are.
LockHeld == \A c \in Client : pc[c] \in Critical => lock = c

\* No snapshot exceeds its bound or carries an identity twice, so the next
\* process can open it.
Decodable ==
  /\ Cardinality(journal.calls) <= MaxCalls
  /\ \A r, s \in journal.calls : r # s => r.id # s.id /\ r.attempt # s.attempt

\* Every acknowledged begin() and complete() is in the snapshot, whatever
\* other clients wrote since, and whoever died: a caller that does its work
\* after begin() leaves a trace of it.
Acknowledged ==
  /\ \A call \in begun : \E r \in journal.calls : CallOf(r) = call
  /\ finished \subseteq journal.calls

\* What recover is about to return never hides an uncertain effect: an
\* acknowledged, unfinished never-call needs reconciliation, and a success or
\* failure is only reported if that very end is recorded under the same binding.
ReportHonest ==
  \A c \in Client : pc[c] = "unlock" /\ op[c].kind = "recover" /\ ~failing[c] =>
    /\ \A call \in begun :
         call.id \in Never /\ (\E r \in journal.calls : CallOf(r) = call /\ r.state = "IN_PROGRESS")
           => [id |-> call.id, disposition |-> "RECONCILIATION_REQUIRED"] \in report[c]
    /\ \A e \in report[c] : e.disposition \in {"RECORDED_SUCCESS", "RECORDED_FAILURE"} =>
         /\ journal.binding = expected[c]
         /\ \E r \in journal.calls :
              /\ r.id = e.id
              /\ r.state = IF e.disposition = "RECORDED_SUCCESS" THEN "SUCCEEDED" ELSE "FAILED"

\* An operation ends, also when the lock it needs was abandoned: a locked
\* journal throws, it is not waited for.
OperationsEnd == \A c \in Client : pc[c] = "lock" ~> pc[c] \in {"idle", "closed", "crashed"}

\* What operation o makes of the snapshot on disk.
Changes(o, calls) ==
  \/ o.kind = "create" /\ journal = Empty /\ calls = {}
  \/ /\ o.kind = "begin"
     /\ calls = journal.calls \cup
          {[id |-> o.call.id, attempt |-> o.call.attempt, state |-> "IN_PROGRESS"]}
  \/ /\ o.kind = "complete"
     /\ \E r \in journal.calls :
          /\ CallOf(r) = o.call /\ r.state = "IN_PROGRESS"
          /\ calls = (journal.calls \ {r}) \cup {[r EXCEPT !.state = o.state]}

\* What a client is about to save is the snapshot that is on disk now, with
\* its own change: its load cannot have become stale.
ViewFresh ==
  \A c \in Client : pc[c] \in {"write", "rename"} =>
    /\ view[c].binding \in Binding
    /\ journal.binding \in {NoBinding, view[c].binding}
    /\ Encodable(view[c].calls)
    /\ Changes(op[c], view[c].calls)

\* A client that saved without an error finds its own change on disk when it
\* returns; a begin() that found its call recorded finds it still.
SavedStays ==
  \A c \in Client : pc[c] \in {"cleanup", "unlock"} /\ ~failing[c] =>
    /\ op[c].kind = "begin" => \E r \in journal.calls : CallOf(r) = op[c].call
    /\ op[c].kind = "complete" =>
         [id |-> op[c].call.id, attempt |-> op[c].call.attempt, state |-> op[c].state]
           \in journal.calls

\* A journal that does not exist yet holds nothing.
MissingIsEmpty == journal.binding = NoBinding => journal = Empty

\* The inductive invariant: what a client under the lock is about to write is
\* the snapshot on disk with its own change, because nobody else can have
\* replaced it since it was loaded.
IInv ==
  /\ TypeOK /\ LockHeld /\ Decodable /\ MissingIsEmpty
  /\ ViewFresh /\ SavedStays /\ Acknowledged

\* What recover() found is what is on disk until it returns: it writes nothing,
\* and nobody else writes while it holds the lock.
ReportFresh ==
  \A c \in Client : op[c].kind = "recover" =>
    /\ pc[c] \notin {"write", "rename"}
    /\ pc[c] \in {"cleanup", "unlock"} /\ ~failing[c] =>
         report[c] = {[id |-> r.id, disposition |-> DispositionOf(r, journal.binding = expected[c])] :
                        r \in journal.calls}

Abstract == INSTANCE AbstractJournal WITH calls <- journal.calls

\* The snapshot file implements the abstract journal: nobody's record is
\* lost, and a terminal outcome is never overwritten.
ImplementsAbstract == Abstract!Spec
================================================================================
