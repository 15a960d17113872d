-------------------------------- MODULE RunLock --------------------------------
(***************************************************************************)
(* The repository lock of src/src/lock.ts: `.ascout/run.lock`, taken by    *)
(* acquireRunLock and given back by RunLockHandle.release.  Every change   *)
(* of the lock file is made under a second file, the mutation guard        *)
(* `.ascout/run.lock.recovery`.  Both files are published by link(2), so a *)
(* file appears with its whole content or not at all.                      *)
(*                                                                         *)
(* One action is one file-system operation of one acquireRunLock call, or  *)
(* one PID probe: those are the points at which the code awaits and other  *)
(* processes run.  A process may stop between any two of them.             *)
(***************************************************************************)
EXTENDS Naturals

CONSTANTS
  Call,         \* calls of acquireRunLock; each draws one fresh owner token
  Process,      \* operating-system processes
  Pid,          \* process ids, which the system reuses
  ProcOf,       \* the process that makes a call
  PidOf,        \* the pid a process runs under
  Missing,      \* the state of a file that does not exist
  Invalid,      \* a file whose content is no owner record
  MaxAttempts,  \* MAX_ACQUIRE_ATTEMPTS (4 in the code)
  MaxFaults     \* bound: file-system errors injected in one behaviour

ASSUME RunLockAssumption ==
  /\ ProcOf \in [Call -> Process]
  /\ PidOf \in [Process -> Pid]
  /\ Missing \notin Call
  /\ Invalid \notin Call
  /\ Missing # Invalid
  /\ MaxAttempts \in Nat \ {0}
  /\ MaxFaults \in Nat

VARIABLES
  proc,          \* unborn, running or dead
  mainLock,      \* content of run.lock
  guardFile,     \* content of run.lock.recovery
  pc,            \* where each call stands
  mode,          \* whether the guard is taken to acquire or to release
  seen,          \* the owner of run.lock a call last read
  result,        \* what a call will report once its guard is gone
  attempt,       \* iterations of the loop in acquireRunLock
  guardAttempt,  \* iterations of the loop in acquireMutationGuard
  faults         \* file-system errors so far

vars == <<proc, mainLock, guardFile, pc, mode, seen, result, attempt,
          guardAttempt, faults>>

FileState == Call \cup {Missing, Invalid}

ErrorCode == {"run_lock_held", "run_lock_unverifiable", "run_lock_recovery_busy",
              "run_lock_ownership_lost", "run_lock_io"}

Result == ErrorCode \cup {"none", "acquired", "retry", "released"}

GuardLabel    == {"guard.publish", "guard.read"}
RecoverLabel  == {"recover.read", "recover.check", "recover.unlink"}
MainLabel     == {"main.read", "main.check", "main.publish"} \cup RecoverLabel
ReleaseLabel  == {"own.read", "own.unlink"}
OperateLabel  == MainLabel \cup ReleaseLabel
UnguardLabel  == {"unguard.read", "unguard.unlink"}
RollbackLabel == {"rollback.read", "rollback.unlink"}
RetryLabel    == {"unguard2.read", "unguard2.unlink"}
BusyLabel     == GuardLabel \cup OperateLabel \cup UnguardLabel
                   \cup RollbackLabel \cup RetryLabel
RestLabel     == {"idle", "held", "failed", "released", "releaseFailed"}
Label         == BusyLabel \cup RestLabel

\* The labels at which a call awaits the file system, which may answer with
\* an error; the two *.check labels only probe a pid.
IoLabel == BusyLabel \ {"main.check", "recover.check"}

Running(c) == proc[ProcOf[c]] = "running"
Stopped(c) == proc[ProcOf[c]] = "dead"

\* Mutant of OwnerIsDefinitelyDead: any failed probe counts as a dead owner.
OwnerCouldBeDead(c) == proc[ProcOf[c]] \in {"running", "dead"}

\* process.kill(pid, 0) fails with ESRCH only when no process has that pid:
\* a pid that was given to another process still counts as alive.
OwnerIsDefinitelyDead(c) ==
  \A p \in Process : proc[p] = "running" => PidOf[p] # PidOf[ProcOf[c]]

Goto(c, label) == pc' = [pc EXCEPT ![c] = label]

Init ==
  /\ proc = [p \in Process |-> "unborn"]
  /\ mainLock \in {Missing, Invalid}
  /\ guardFile \in {Missing, Invalid}
  /\ pc = [c \in Call |-> "idle"]
  /\ mode = [c \in Call |-> "acquire"]
  /\ seen = [c \in Call |-> Missing]
  /\ result = [c \in Call |-> "none"]
  /\ attempt = [c \in Call |-> 0]
  /\ guardAttempt = [c \in Call |-> 0]
  /\ faults = 0

-----------------------------------------------------------------------------
(***************************************************************************)
(* How a call reports.  An error raised while the guard is held is kept in *)
(* `result' until cleanupGuardAfterOperationFailure removed the guard; an  *)
(* error of the removal itself replaces it.                                *)
(***************************************************************************)

\* The call throws err to its caller: acquireRunLock or release.
Fail(c, err) ==
  /\ Goto(c, IF mode[c] = "acquire" THEN "failed" ELSE "releaseFailed")
  /\ result' = [result EXCEPT ![c] = err]

\* Mutant of Conclude: an error leaves the guard behind.
ConcludeLeaks(c, res) ==
  /\ Goto(c, IF res \in ErrorCode THEN "failed" ELSE "unguard.read")
  /\ result' = [result EXCEPT ![c] = res]

\* The operation under the guard ends with res; the guard is removed next.
Conclude(c, res) ==
  /\ Goto(c, "unguard.read")
  /\ result' = [result EXCEPT ![c] = res]

\* removeMutationGuard throws err.  An acquisition that had not failed yet
\* undoes what it did and tries the removal once more.
UnguardFails(c, err) ==
  \/ /\ mode[c] = "acquire" /\ result[c] = "acquired"
     /\ Goto(c, "rollback.read")
     /\ UNCHANGED result
  \/ /\ mode[c] = "acquire" /\ result[c] = "retry"
     /\ Goto(c, "unguard2.read")
     /\ UNCHANGED result
  \/ /\ mode[c] = "release" \/ result[c] \notin {"acquired", "retry"}
     /\ Fail(c, err)

\* The guard is gone: report what the operation under it decided.
Report(c) ==
  \/ /\ result[c] = "acquired"
     /\ Goto(c, "held")
     /\ UNCHANGED <<result, attempt, guardAttempt>>
  \/ /\ result[c] = "released"
     /\ Goto(c, "released")
     /\ UNCHANGED <<result, attempt, guardAttempt>>
  \/ /\ result[c] = "retry" /\ attempt[c] + 1 < MaxAttempts
     /\ Goto(c, "guard.publish")
     /\ attempt' = [attempt EXCEPT ![c] = @ + 1]
     /\ guardAttempt' = [guardAttempt EXCEPT ![c] = 0]
     /\ UNCHANGED result
  \/ /\ result[c] = "retry" /\ attempt[c] + 1 >= MaxAttempts
     /\ Fail(c, "run_lock_held")
     /\ UNCHANGED <<attempt, guardAttempt>>
  \/ /\ result[c] \in ErrorCode
     /\ Fail(c, result[c])
     /\ UNCHANGED <<attempt, guardAttempt>>

-----------------------------------------------------------------------------
(***************************************************************************)
(* Processes.                                                              *)
(***************************************************************************)

StartProcess(p) ==
  /\ proc[p] = "unborn"
  /\ \A q \in Process : proc[q] = "running" => PidOf[q] # PidOf[p]
  /\ proc' = [proc EXCEPT ![p] = "running"]
  /\ UNCHANGED <<mainLock, guardFile, pc, mode, seen, result, attempt,
                 guardAttempt, faults>>

\* A process exits or is killed, at any point of its calls.
StopProcess(p) ==
  /\ proc[p] = "running"
  /\ proc' = [proc EXCEPT ![p] = "dead"]
  /\ UNCHANGED <<mainLock, guardFile, pc, mode, seen, result, attempt,
                 guardAttempt, faults>>

\* A file a stopped process or another tool left behind is not removed by
\* the code when it is the guard, or holds no owner: somebody deletes it.
Repair ==
  /\ \/ /\ mainLock \in Call => Stopped(mainLock)
        /\ mainLock # Missing
        /\ mainLock' = Missing
        /\ UNCHANGED guardFile
     \/ /\ guardFile \in Call => Stopped(guardFile)
        /\ guardFile # Missing
        /\ guardFile' = Missing
        /\ UNCHANGED mainLock
  /\ UNCHANGED <<proc, pc, mode, seen, result, attempt, guardAttempt, faults>>

-----------------------------------------------------------------------------
(***************************************************************************)
(* Entry points.                                                           *)
(***************************************************************************)

\* acquireRunLock
Acquire(c) ==
  /\ Running(c) /\ pc[c] = "idle"
  /\ Goto(c, "guard.publish")
  /\ UNCHANGED <<proc, mainLock, guardFile, mode, seen, result, attempt,
                 guardAttempt, faults>>

\* RunLockHandle.release.  Once released it returns at once, and concurrent
\* calls share the one in flight; after a failure it may be called again.
Release(c) ==
  /\ Running(c) /\ pc[c] \in {"held", "releaseFailed"}
  /\ Goto(c, "guard.publish")
  /\ mode' = [mode EXCEPT ![c] = "release"]
  /\ result' = [result EXCEPT ![c] = "none"]
  /\ guardAttempt' = [guardAttempt EXCEPT ![c] = 0]
  /\ UNCHANGED <<proc, mainLock, guardFile, seen, attempt, faults>>

-----------------------------------------------------------------------------
(***************************************************************************)
(* acquireMutationGuard                                                    *)
(***************************************************************************)

\* Mutant of GuardPublish: the guard is renamed into place, which replaces an
\* existing one, instead of linked, which fails.
GuardPublishReplaces(c) ==
  /\ Running(c) /\ pc[c] = "guard.publish"
  /\ guardFile' = c
  /\ Goto(c, IF mode[c] = "acquire" THEN "main.read" ELSE "own.read")
  /\ UNCHANGED <<proc, mainLock, mode, seen, result, attempt, guardAttempt,
                 faults>>

GuardPublish(c) ==
  /\ Running(c) /\ pc[c] = "guard.publish"
  /\ \/ /\ guardFile = Missing
        /\ guardFile' = c
        /\ Goto(c, IF mode[c] = "acquire" THEN "main.read" ELSE "own.read")
     \/ /\ guardFile # Missing
        /\ Goto(c, "guard.read")
        /\ UNCHANGED guardFile
  /\ UNCHANGED <<proc, mainLock, mode, seen, result, attempt, guardAttempt,
                 faults>>

\* Mutant of GuardRead: a guard that another call holds is polled for.
GuardReadPolls(c) ==
  /\ Running(c) /\ pc[c] = "guard.read"
  /\ Goto(c, "guard.publish")
  /\ UNCHANGED <<proc, mainLock, guardFile, mode, seen, result, attempt,
                 guardAttempt, faults>>

\* Whether the guard's owner is dead or alive only changes the message: the
\* guard is never taken over.
GuardRead(c) ==
  /\ Running(c) /\ pc[c] = "guard.read"
  /\ \/ /\ guardFile = Missing /\ guardAttempt[c] + 1 < MaxAttempts
        /\ Goto(c, "guard.publish")
        /\ guardAttempt' = [guardAttempt EXCEPT ![c] = @ + 1]
        /\ UNCHANGED result
     \/ /\ guardFile = Missing /\ guardAttempt[c] + 1 >= MaxAttempts
        /\ Fail(c, "run_lock_recovery_busy")
        /\ UNCHANGED guardAttempt
     \/ /\ guardFile = Invalid
        /\ Fail(c, "run_lock_unverifiable")
        /\ UNCHANGED guardAttempt
     \/ /\ guardFile \in Call
        /\ Fail(c, "run_lock_recovery_busy")
        /\ UNCHANGED guardAttempt
  /\ UNCHANGED <<proc, mainLock, guardFile, mode, seen, attempt, faults>>

-----------------------------------------------------------------------------
(***************************************************************************)
(* acquireMainLockUnderGuard and recoverDeadOwnerUnderGuard                *)
(***************************************************************************)

MainRead(c) ==
  /\ Running(c) /\ pc[c] = "main.read"
  /\ \/ /\ mainLock = Missing
        /\ Goto(c, "main.publish")
        /\ UNCHANGED <<seen, result>>
     \/ /\ mainLock = Invalid
        /\ Conclude(c, "run_lock_unverifiable")
        /\ UNCHANGED seen
     \/ /\ mainLock \in Call
        /\ seen' = [seen EXCEPT ![c] = mainLock]
        /\ Goto(c, "main.check")
        /\ UNCHANGED result
  /\ UNCHANGED <<proc, mainLock, guardFile, mode, attempt, guardAttempt, faults>>

\* The pid probe after a read.
MainCheck(c) ==
  /\ Running(c) /\ pc[c] = "main.check"
  /\ \/ /\ OwnerIsDefinitelyDead(seen[c])
        /\ Goto(c, "recover.read")
        /\ UNCHANGED result
     \/ /\ ~OwnerIsDefinitelyDead(seen[c])
        /\ Conclude(c, "run_lock_held")
  /\ UNCHANGED <<proc, mainLock, guardFile, mode, seen, attempt, guardAttempt,
                 faults>>

\* The lock is read again before it is removed: it may be another's by now.
RecoverRead(c) ==
  /\ Running(c) /\ pc[c] = "recover.read"
  /\ \/ /\ mainLock = seen[c]
        /\ Goto(c, "recover.check")
        /\ UNCHANGED result
     \/ /\ mainLock # seen[c]
        /\ Conclude(c, IF mainLock = Invalid THEN "run_lock_unverifiable" ELSE "retry")
  /\ UNCHANGED <<proc, mainLock, guardFile, mode, seen, attempt, guardAttempt,
                 faults>>

RecoverCheck(c) ==
  /\ Running(c) /\ pc[c] = "recover.check"
  /\ \/ /\ OwnerIsDefinitelyDead(seen[c])
        /\ Goto(c, "recover.unlink")
        /\ UNCHANGED result
     \/ /\ ~OwnerIsDefinitelyDead(seen[c])
        /\ Conclude(c, "run_lock_held")
  /\ UNCHANGED <<proc, mainLock, guardFile, mode, seen, attempt, guardAttempt,
                 faults>>

RecoverUnlink(c) ==
  /\ Running(c) /\ pc[c] = "recover.unlink"
  /\ \/ /\ mainLock # Missing
        /\ mainLock' = Missing
        /\ Goto(c, "main.publish")
        /\ UNCHANGED result
     \/ /\ mainLock = Missing
        /\ Conclude(c, "retry")
        /\ UNCHANGED mainLock
  /\ UNCHANGED <<proc, guardFile, mode, seen, attempt, guardAttempt, faults>>

MainPublish(c) ==
  /\ Running(c) /\ pc[c] = "main.publish"
  /\ mainLock' = IF mainLock = Missing THEN c ELSE mainLock
  /\ Conclude(c, IF mainLock = Missing THEN "acquired" ELSE "retry")
  /\ UNCHANGED <<proc, guardFile, mode, seen, attempt, guardAttempt, faults>>

-----------------------------------------------------------------------------
(***************************************************************************)
(* releaseOwnedLockUnderGuard                                              *)
(***************************************************************************)

OwnRead(c) ==
  /\ Running(c) /\ pc[c] = "own.read"
  /\ \/ /\ mainLock = c
        /\ Goto(c, "own.unlink")
        /\ UNCHANGED result
     \/ /\ mainLock # c
        /\ Conclude(c, "run_lock_ownership_lost")
  /\ UNCHANGED <<proc, mainLock, guardFile, mode, seen, attempt, guardAttempt,
                 faults>>

OwnUnlink(c) ==
  /\ Running(c) /\ pc[c] = "own.unlink"
  /\ mainLock' = Missing
  /\ Conclude(c, IF mainLock = Missing THEN "run_lock_io" ELSE "released")
  /\ UNCHANGED <<proc, guardFile, mode, seen, attempt, guardAttempt, faults>>

-----------------------------------------------------------------------------
(***************************************************************************)
(* removeMutationGuard and the rollback of acquireMainLockAttempt          *)
(***************************************************************************)

UnguardRead(c) ==
  /\ Running(c) /\ pc[c] = "unguard.read"
  /\ \/ /\ guardFile = Missing
        /\ Report(c)
     \/ /\ guardFile = c
        /\ Goto(c, "unguard.unlink")
        /\ UNCHANGED <<result, attempt, guardAttempt>>
     \/ /\ guardFile \notin {Missing, c}
        /\ UnguardFails(c, "run_lock_io")
        /\ UNCHANGED <<attempt, guardAttempt>>
  /\ UNCHANGED <<proc, mainLock, guardFile, mode, seen, faults>>

UnguardUnlink(c) ==
  /\ Running(c) /\ pc[c] = "unguard.unlink"
  /\ guardFile' = Missing
  /\ Report(c)
  /\ UNCHANGED <<proc, mainLock, mode, seen, faults>>

\* removeOwnedMainLockBestEffort
RollbackRead(c) ==
  /\ Running(c) /\ pc[c] = "rollback.read"
  /\ Goto(c, IF mainLock = c THEN "rollback.unlink" ELSE "unguard2.read")
  /\ UNCHANGED <<proc, mainLock, guardFile, mode, seen, result, attempt,
                 guardAttempt, faults>>

RollbackUnlink(c) ==
  /\ Running(c) /\ pc[c] = "rollback.unlink"
  /\ mainLock' = Missing
  /\ Goto(c, "unguard2.read")
  /\ UNCHANGED <<proc, guardFile, mode, seen, result, attempt, guardAttempt,
                 faults>>

\* The second removal of the guard, whose own failure is swallowed: the error
\* of the first one is thrown either way.
Unguard2Read(c) ==
  /\ Running(c) /\ pc[c] = "unguard2.read"
  /\ \/ /\ guardFile = c
        /\ Goto(c, "unguard2.unlink")
        /\ UNCHANGED result
     \/ /\ guardFile # c
        /\ Fail(c, "run_lock_io")
  /\ UNCHANGED <<proc, mainLock, guardFile, mode, seen, attempt, guardAttempt,
                 faults>>

\* Mutant of Unguard2Unlink: once the guard is gone the caller gets a handle.
Unguard2UnlinkHolds(c) ==
  /\ Running(c) /\ pc[c] = "unguard2.unlink"
  /\ guardFile' = Missing
  /\ Goto(c, "held")
  /\ UNCHANGED <<proc, mainLock, mode, seen, result, attempt, guardAttempt, faults>>

Unguard2Unlink(c) ==
  /\ Running(c) /\ pc[c] = "unguard2.unlink"
  /\ guardFile' = Missing
  /\ Fail(c, "run_lock_io")
  /\ UNCHANGED <<proc, mainLock, mode, seen, attempt, guardAttempt, faults>>

-----------------------------------------------------------------------------
\* Mutant of IoFault: a failed unlink of a dead owner's lock goes unnoticed.
IoFaultUnnoticed(c) ==
  /\ Running(c) /\ pc[c] = "recover.unlink" /\ faults < MaxFaults
  /\ faults' = faults + 1
  /\ Goto(c, "main.publish")
  /\ UNCHANGED <<proc, mainLock, guardFile, mode, seen, result, attempt, guardAttempt>>

\* The file system answers the operation a call awaits with an error other
\* than the ones the code expects (ENOENT, EEXIST).
IoFault(c) ==
  /\ Running(c) /\ pc[c] \in IoLabel /\ faults < MaxFaults
  /\ faults' = faults + 1
  /\ \/ /\ pc[c] \in GuardLabel
        /\ Fail(c, "run_lock_io")
     \/ /\ pc[c] \in OperateLabel
        /\ Conclude(c, "run_lock_io")
     \/ /\ pc[c] \in UnguardLabel
        /\ UnguardFails(c, "run_lock_io")
     \/ /\ pc[c] \in RollbackLabel
        /\ Goto(c, "unguard2.read")
        /\ UNCHANGED result
     \/ /\ pc[c] \in RetryLabel
        /\ Fail(c, "run_lock_io")
  /\ UNCHANGED <<proc, mainLock, guardFile, mode, seen, attempt, guardAttempt>>

\* One step of the code inside a call of acquireRunLock or release.
Step(c) ==
  \/ GuardPublish(c) \/ GuardRead(c)
  \/ MainRead(c) \/ MainCheck(c) \/ MainPublish(c)
  \/ RecoverRead(c) \/ RecoverCheck(c) \/ RecoverUnlink(c)
  \/ OwnRead(c) \/ OwnUnlink(c)
  \/ UnguardRead(c) \/ UnguardUnlink(c)
  \/ RollbackRead(c) \/ RollbackUnlink(c)
  \/ Unguard2Read(c) \/ Unguard2Unlink(c)

Next ==
  \/ \E p \in Process : StartProcess(p) \/ StopProcess(p)
  \/ \E c \in Call : Acquire(c) \/ Release(c) \/ Step(c) \/ IoFault(c)
  \/ Repair

Spec == Init /\ [][Next]_vars

\* A started call goes on as long as its process runs: the event loop resumes
\* it when the file system answers.
FairSpec == Spec /\ \A c \in Call : WF_vars(Step(c))

-----------------------------------------------------------------------------
(***************************************************************************)
(* Properties.                                                             *)
(***************************************************************************)

\* Every variable keeps its type.
TypeOK ==
  /\ proc \in [Process -> {"unborn", "running", "dead"}]
  /\ mainLock \in FileState
  /\ guardFile \in FileState
  /\ pc \in [Call -> Label]
  /\ mode \in [Call -> {"acquire", "release"}]
  /\ seen \in [Call -> FileState]
  /\ result \in [Call -> Result]
  /\ attempt \in [Call -> Nat]
  /\ guardAttempt \in [Call -> Nat]
  /\ faults \in Nat

\* The caller of c has a handle and has not asked for its release.
Holds(c) == Running(c) /\ pc[c] = "held"

\* c is between publishing the guard and removing it.
InGuard(c) ==
  Running(c) /\ pc[c] \in OperateLabel \cup UnguardLabel \cup RollbackLabel \cup RetryLabel

\* Two runs never work on one repository at a time (lock.ts, the reason for
\* the lock), whatever crashes, pid reuse and file-system errors happen.
MutualExclusion == \A c, d \in Call : Holds(c) /\ Holds(d) => c = d

\* Two calls are never both between publishing the mutation guard and
\* removing it, so reading run.lock and changing it is one atomic operation.
GuardExclusive == \A c, d \in Call : InGuard(c) /\ InGuard(d) => c = d

\* What a call read before it writes still holds when it writes: the lock it
\* publishes over is absent, and the one it unlinks is the dead owner it
\* probed (or already gone), or its own.
WritesMatchReads ==
  \A c \in Call : Running(c) =>
    /\ pc[c] = "main.publish" => mainLock = Missing
    /\ pc[c] = "recover.unlink" =>
         /\ mainLock \in {seen[c], Missing}
         /\ seen[c] \in Call /\ Stopped(seen[c])
    /\ pc[c] \in {"own.unlink", "rollback.unlink"} => mainLock = c

\* Calls are made, and records written, only by processes that have started.
OwnersStarted ==
  /\ \A c \in Call : proc[ProcOf[c]] = "unborn" => pc[c] = "idle"
  /\ mainLock \in Call => proc[ProcOf[mainLock]] # "unborn"
  /\ \A c \in Call : seen[c] \in Call => proc[ProcOf[seen[c]]] # "unborn"

\* A call inside the guarded section has its own record in the guard.
GuardHeld == \A c \in Call : InGuard(c) => guardFile = c

\* From publishing run.lock to giving it back, the record there is the call's.
Claimed(c) ==
  \/ pc[c] \in {"held", "own.unlink"} \cup RollbackLabel
  \/ pc[c] \in UnguardLabel /\ result[c] = "acquired"

LockClaimed == \A c \in Call : Running(c) /\ Claimed(c) => mainLock = c

\* What a call knows of run.lock while it decides what to do with it.
ReadsHold ==
  \A c \in Call : Running(c) =>
    /\ pc[c] = "main.publish" => mainLock = Missing
    /\ pc[c] \in {"main.check"} \cup RecoverLabel => seen[c] \in Call
    /\ pc[c] \in {"recover.check", "recover.unlink"} => mainLock \in {seen[c], Missing}
    /\ pc[c] = "recover.unlink" => Stopped(seen[c])

\* The inductive invariant: the properties of this module follow from it.
IInv == TypeOK /\ OwnersStarted /\ GuardHeld /\ LockClaimed /\ ReadsHold

\* A record in run.lock only disappears when the process that wrote it is
\* dead or when that very call takes it back: recovery never hits a live
\* owner, and release never removes a lock that became another's.
OnlyDeadOrOwnRecordRemoved ==
  [][\A c \in Call : mainLock = c /\ mainLock' # c
        => Stopped(c) \/ pc[c] \in {"own.unlink", "rollback.unlink"}]_vars

\* A file that holds no owner record, and a guard, are never taken over: no
\* step of a call changes an unverifiable run.lock, or a guard that is not
\* that call's own ("refusing unsafe takeover", lock.ts).
FailClosed ==
  [][\A c \in Call : Step(c) =>
        /\ mainLock = Invalid => mainLock' = Invalid
        /\ guardFile \notin {Missing, c} => guardFile' = guardFile]_vars

\* Each acquireRunLock or release settles unless its process stops: the retry
\* loops are bounded and nothing waits for another process.
CallsSettle ==
  \A c \in Call : pc[c] \in BusyLabel ~> (pc[c] \in RestLabel \/ Stopped(c))

\* Without file-system errors no running process leaves its guard behind,
\* whichever way its operation ended.
GuardNotLeaked ==
  \A c \in Call : guardFile = c ~> (guardFile # c \/ faults > 0 \/ Stopped(c))

Abstract ==
  INSTANCE AbstractRunLock
    WITH NoOwner <- Missing,
         owner <- IF mainLock \in Call THEN mainLock ELSE Missing,
         using <- {c \in Call : Holds(c)}

\* The run lock implements the abstract lock.
ImplementsAbstract == Abstract!AbsSpec
================================================================================
