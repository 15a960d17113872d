----------------------------- MODULE RunLockProofs -----------------------------
(***************************************************************************)
(* Proofs about RunLock, for every set of calls and processes, every       *)
(* assignment of pids, every retry bound and every number of file-system   *)
(* errors.                                                                 *)
(***************************************************************************)
EXTENDS RunLock, TLAPS

\* The initial states satisfy the inductive invariant.
LEMMA InitIInv == Init => IInv
  BY RunLockAssumption
  DEF Init, IInv, TypeOK, OwnersStarted, GuardHeld, LockClaimed, ReadsHold, Claimed,
      FileState, Label, RestLabel, Result, Running, InGuard,
      BusyLabel, GuardLabel, OperateLabel, MainLabel, RecoverLabel, ReleaseLabel,
      UnguardLabel, RollbackLabel, RetryLabel

\* Type correctness is kept by every step.
LEMMA NextTypeOK == TypeOK /\ [Next]_vars => TypeOK'
<1> SUFFICES ASSUME TypeOK, [Next]_vars
             PROVE  TypeOK'
  OBVIOUS
<1> USE RunLockAssumption
    DEF TypeOK, FileState, Goto, Label, BusyLabel, RestLabel, Result, ErrorCode,
        GuardLabel, OperateLabel, MainLabel, RecoverLabel, ReleaseLabel,
        UnguardLabel, RollbackLabel, RetryLabel
<1>1. ASSUME NEW p \in Process, StartProcess(p) \/ StopProcess(p)
      PROVE  TypeOK'
  BY <1>1 DEF StartProcess, StopProcess
<1>2. ASSUME NEW c \in Call, Acquire(c) \/ Release(c)
      PROVE  TypeOK'
  BY <1>2 DEF Acquire, Release
<1>3. ASSUME NEW c \in Call, Step(c)
      PROVE  TypeOK'
  <2>1. CASE GuardPublish(c)
    BY <2>1 DEF GuardPublish
  <2>2. CASE GuardRead(c)
    BY <2>2 DEF GuardRead, Fail
  <2>3. CASE MainRead(c)
    BY <2>3 DEF MainRead, Conclude
  <2>4. CASE MainCheck(c)
    BY <2>4 DEF MainCheck, Conclude
  <2>5. CASE MainPublish(c)
    BY <2>5 DEF MainPublish, Conclude
  <2>6. CASE RecoverRead(c)
    BY <2>6 DEF RecoverRead, Conclude
  <2>7. CASE RecoverCheck(c)
    BY <2>7 DEF RecoverCheck, Conclude
  <2>8. CASE RecoverUnlink(c)
    BY <2>8 DEF RecoverUnlink, Conclude
  <2>9. CASE OwnRead(c)
    BY <2>9 DEF OwnRead, Conclude
  <2>10. CASE OwnUnlink(c)
    BY <2>10 DEF OwnUnlink, Conclude
  <2>11. CASE UnguardRead(c)
    BY <2>11 DEF UnguardRead, UnguardFails, Report, Fail
  <2>12. CASE UnguardUnlink(c)
    BY <2>12 DEF UnguardUnlink, Report, Fail
  <2>13. CASE RollbackRead(c)
    BY <2>13 DEF RollbackRead
  <2>14. CASE RollbackUnlink(c)
    BY <2>14 DEF RollbackUnlink
  <2>15. CASE Unguard2Read(c)
    BY <2>15 DEF Unguard2Read, Fail
  <2>16. CASE Unguard2Unlink(c)
    BY <2>16 DEF Unguard2Unlink, Fail
  <2>17. QED
    BY <1>3, <2>1, <2>2, <2>3, <2>4, <2>5, <2>6, <2>7, <2>8, <2>9, <2>10, <2>11,
       <2>12, <2>13, <2>14, <2>15, <2>16 DEF Step
<1>4. ASSUME NEW c \in Call, IoFault(c)
      PROVE  TypeOK'
  BY <1>4 DEF IoFault, Fail, Conclude, UnguardFails
<1>5. CASE Repair
  BY <1>5 DEF Repair
<1>6. CASE UNCHANGED vars
  BY <1>6 DEF vars
<1>7. QED
  BY <1>1, <1>2, <1>3, <1>4, <1>5, <1>6 DEF Next

-----------------------------------------------------------------------------
\* The inductive invariant is kept by every step.  TypeOK' is NextTypeOK; the
\* other parts are proved action by action.
LEMMA NextIInv == IInv /\ [Next]_vars => IInv'
<1> SUFFICES ASSUME IInv, [Next]_vars
             PROVE  OwnersStarted' /\ GuardHeld' /\ LockClaimed' /\ ReadsHold'
  BY NextTypeOK DEF IInv
<1> USE RunLockAssumption
    DEF IInv, TypeOK, OwnersStarted, GuardHeld, LockClaimed, ReadsHold, Claimed,
        Goto, Running, Stopped, InGuard, FileState, OperateLabel, MainLabel,
        RecoverLabel, ReleaseLabel, UnguardLabel, RollbackLabel, RetryLabel
<1>1. ASSUME NEW p \in Process, StartProcess(p)
      PROVE  OwnersStarted' /\ GuardHeld' /\ LockClaimed' /\ ReadsHold'
  BY <1>1 DEF StartProcess
<1>2. ASSUME NEW p \in Process, StopProcess(p)
      PROVE  OwnersStarted' /\ GuardHeld' /\ LockClaimed' /\ ReadsHold'
  BY <1>2 DEF StopProcess
<1>3. ASSUME NEW c \in Call, Acquire(c) \/ Release(c)
      PROVE  OwnersStarted' /\ GuardHeld' /\ LockClaimed' /\ ReadsHold'
  BY <1>3 DEF Acquire, Release
<1>4. ASSUME NEW c \in Call, Step(c)
      PROVE  OwnersStarted' /\ GuardHeld' /\ LockClaimed' /\ ReadsHold'
  <2>1. CASE GuardPublish(c)
    BY <2>1 DEF GuardPublish
  <2>2. CASE GuardRead(c)
    BY <2>2 DEF GuardRead, Fail
  <2>3. CASE MainRead(c)
    BY <2>3 DEF MainRead, Conclude
  <2>4. CASE MainCheck(c)
    BY <2>4 DEF MainCheck, Conclude
  <2>5. CASE MainPublish(c)
    BY <2>5 DEF MainPublish, Conclude
  <2>6. CASE RecoverRead(c)
    BY <2>6 DEF RecoverRead, Conclude
  <2>7. CASE RecoverCheck(c)
    BY <2>7 DEF RecoverCheck, Conclude, OwnerIsDefinitelyDead
  <2>8. CASE RecoverUnlink(c)
    BY <2>8 DEF RecoverUnlink, Conclude
  <2>9. CASE OwnRead(c)
    BY <2>9 DEF OwnRead, Conclude
  <2>10. CASE OwnUnlink(c)
    BY <2>10 DEF OwnUnlink, Conclude
  <2>11. CASE UnguardRead(c)
    BY <2>11 DEF UnguardRead, UnguardFails, Report, Fail
  <2>12. CASE UnguardUnlink(c)
    BY <2>12 DEF UnguardUnlink, Report, Fail
  <2>13. CASE RollbackRead(c)
    BY <2>13 DEF RollbackRead
  <2>14. CASE RollbackUnlink(c)
    BY <2>14 DEF RollbackUnlink
  <2>15. CASE Unguard2Read(c)
    BY <2>15 DEF Unguard2Read, Fail
  <2>16. CASE Unguard2Unlink(c)
    BY <2>16 DEF Unguard2Unlink, Fail
  <2>17. QED
    BY <1>4, <2>1, <2>2, <2>3, <2>4, <2>5, <2>6, <2>7, <2>8, <2>9, <2>10, <2>11,
       <2>12, <2>13, <2>14, <2>15, <2>16 DEF Step
<1>5. ASSUME NEW c \in Call, IoFault(c)
      PROVE  OwnersStarted' /\ GuardHeld' /\ LockClaimed' /\ ReadsHold'
  BY <1>5 DEF IoFault, Fail, Conclude, UnguardFails, GuardLabel
<1>6. CASE Repair
  BY <1>6 DEF Repair
<1>7. CASE UNCHANGED vars
  BY <1>7 DEF vars
<1>8. QED
  BY <1>1, <1>2, <1>3, <1>4, <1>5, <1>6, <1>7 DEF Next

\* The inductive invariant holds throughout (IInv).
THEOREM Invariance == Spec => []IInv
  BY InitIInv, NextIInv, PTL DEF Spec

\* The types of the state never change (TypeOK, every variable of the model).
THEOREM TypeCorrect == Spec => []TypeOK
<1>1. IInv => TypeOK
  BY DEF IInv
<1> QED
  BY <1>1, Invariance, PTL

\* Two runs never hold the lock of one repository at a time
\* (MutualExclusion): a holder's own record is in run.lock.
THEOREM MutualExclusionHolds == Spec => []MutualExclusion
<1>1. IInv => MutualExclusion
  BY DEF IInv, LockClaimed, Claimed, MutualExclusion, Holds
<1>2. QED
  BY <1>1, Invariance, PTL

\* Reading and changing run.lock are one atomic operation (GuardExclusive).
THEOREM GuardExclusiveHolds == Spec => []GuardExclusive
<1>1. IInv => GuardExclusive
  BY DEF IInv, GuardHeld, GuardExclusive
<1>2. QED
  BY <1>1, Invariance, PTL

\* What a call read is still so when it writes (WritesMatchReads).
THEOREM WritesMatchReadsHolds == Spec => []WritesMatchReads
<1>1. IInv => WritesMatchReads
  BY DEF IInv, LockClaimed, Claimed, ReadsHold, WritesMatchReads, RecoverLabel,
         RollbackLabel
<1>2. QED
  BY <1>1, Invariance, PTL

-----------------------------------------------------------------------------
\* run.lock is written at four points of the code, and by a repair.
LEMMA MainLockWriters ==
  ASSUME [Next]_vars, mainLock' # mainLock
  PROVE  \/ Repair
         \/ \E d \in Call : \/ MainPublish(d) \/ RecoverUnlink(d)
                            \/ OwnUnlink(d) \/ RollbackUnlink(d)
<1>1. CASE \E d \in Call : Step(d)
  BY <1>1
  DEF Step, GuardPublish, GuardRead, MainRead, MainCheck, RecoverRead, RecoverCheck, OwnRead,
      UnguardRead, UnguardUnlink, RollbackRead, Unguard2Read, Unguard2Unlink
<1>2. CASE ~(\E d \in Call : Step(d))
  BY <1>2
  DEF Next, vars, StartProcess, StopProcess, Acquire, Release, IoFault
<1> QED
  BY <1>1, <1>2

\* Only the record of a stopped process, or a call's own, ever disappears
\* from run.lock (OnlyDeadOrOwnRecordRemoved).
THEOREM RecordsSafe == Spec => OnlyDeadOrOwnRecordRemoved
<1> DEFINE Sanctioned(c) == Stopped(c) \/ pc[c] \in {"own.unlink", "rollback.unlink"}
<1>1. ASSUME IInv, [Next]_vars, NEW c \in Call, mainLock = c, mainLock' # c
      PROVE  Sanctioned(c)
  <2> USE <1>1, RunLockAssumption
      DEF IInv, TypeOK, LockClaimed, ReadsHold, Claimed, Running, RollbackLabel
  <2> SUFFICES ASSUME ~Repair
               PROVE  Sanctioned(c)
    BY DEF Repair
  <2> PICK d \in Call : MainPublish(d) \/ RecoverUnlink(d) \/ OwnUnlink(d) \/ RollbackUnlink(d)
    BY MainLockWriters
  <2>free. CASE MainPublish(d)
    BY <2>free DEF MainPublish
  <2>dead. CASE RecoverUnlink(d)
    BY <2>dead DEF RecoverUnlink
  <2>own. CASE OwnUnlink(d) \/ RollbackUnlink(d)
    BY <2>own DEF OwnUnlink, RollbackUnlink
  <2> QED
    BY <2>free, <2>dead, <2>own
<1>2. IInv /\ [Next]_vars =>
        [\A c \in Call : mainLock = c /\ mainLock' # c => Sanctioned(c)]_vars
  BY <1>1
<1> QED
  BY <1>2, Invariance, PTL DEF Spec, OnlyDeadOrOwnRecordRemoved

\* No call changes an unverifiable run.lock or another's guard (FailClosed).
THEOREM FailsClosed == Spec => FailClosed
<1>1. ASSUME IInv, NEW c \in Call, Step(c)
      PROVE  /\ mainLock = Invalid => mainLock' = Invalid
             /\ guardFile \notin {Missing, c} => guardFile' = guardFile
  <2> USE <1>1, RunLockAssumption
      DEF IInv, TypeOK, GuardHeld, LockClaimed, ReadsHold, Claimed, Running, InGuard,
          OperateLabel, MainLabel, RecoverLabel, ReleaseLabel, UnguardLabel,
          RollbackLabel, RetryLabel
  <2>1. CASE MainPublish(c) \/ RecoverUnlink(c) \/ OwnUnlink(c) \/ RollbackUnlink(c)
    BY <2>1 DEF MainPublish, RecoverUnlink, OwnUnlink, RollbackUnlink
  <2>2. CASE GuardPublish(c) \/ UnguardUnlink(c) \/ Unguard2Unlink(c)
    BY <2>2 DEF GuardPublish, UnguardUnlink, Unguard2Unlink
  <2>3. QED
    BY <2>1, <2>2
    DEF Step, GuardRead, MainRead, MainCheck, RecoverRead, RecoverCheck, OwnRead,
        UnguardRead, RollbackRead, Unguard2Read
<1>2. IInv /\ [Next]_vars =>
        [\A c \in Call : Step(c) =>
           /\ mainLock = Invalid => mainLock' = Invalid
           /\ guardFile \notin {Missing, c} => guardFile' = guardFile]_vars
  BY <1>1
<1>3. QED
  BY <1>2, Invariance, PTL DEF Spec, FailClosed

-----------------------------------------------------------------------------
(***************************************************************************)
(* RunLock implements AbstractRunLock: the owner on record is the content  *)
(* of run.lock, and a call uses the repository while its caller holds the  *)
(* handle.                                                                 *)
(***************************************************************************)
Owner == IF mainLock \in Call THEN mainLock ELSE Missing
Using == {c \in Call : Holds(c)}

\* A step that leaves the record alone, and lets one call in or some out,
\* is a step of the abstract lock: whoever gets in is the owner on record.
LEMMA KeepOwner ==
  ASSUME IInv', Owner' = Owner,
         Using' \subseteq Using \/ \E c \in Call : Using' = Using \cup {c}
  PROVE  Abstract!AbsNext
<1>1. ASSUME NEW c \in Call, Using' = Using \cup {c}
      PROVE  Abstract!Enter(c)
  <2>1. Owner' = c
    BY <1>1 DEF Using, Holds, Owner, IInv, LockClaimed, Claimed
  <2>2. QED
    BY <1>1, <2>1 DEF Abstract!Enter, Owner, Using
<1>2. ASSUME Using' \subseteq Using
      PROVE  Abstract!Leave(Using \ Using')
  BY <1>2 DEF Abstract!Leave, Owner, Using
<1>3. Using \ Using' \in SUBSET Call
  BY DEF Using
<1>4. QED
  BY <1>1, <1>2, <1>3 DEF Abstract!AbsNext

\* The record of an owner that does not use the repository disappears.
LEMMA DropOwner ==
  ASSUME Owner # Missing, Owner' = Missing, Owner \notin Using, Using' = Using
  PROVE  Abstract!AbsNext
  BY DEF Abstract!AbsNext, Abstract!Forget, Owner, Using

\* Every step of the run lock is a step, or a stutter, of the abstract lock.
LEMMA StepSimulation ==
  IInv /\ IInv' /\ [Next]_vars => [Abstract!AbsNext]_<<Owner, Using>>
<1> SUFFICES ASSUME IInv, IInv', [Next]_vars
             PROVE  Abstract!AbsNext \/ UNCHANGED <<Owner, Using>>
  OBVIOUS
<1> USE RunLockAssumption
<1>1. ASSUME mainLock' = mainLock,
             Using' \subseteq Using \/ \E c \in Call : Using' = Using \cup {c}
      PROVE  Abstract!AbsNext
  BY <1>1, KeepOwner DEF Owner
<1>2. ASSUME NEW p \in Process, StartProcess(p) \/ StopProcess(p)
      PROVE  Abstract!AbsNext
  <2>1. Using' \subseteq Using
    BY <1>2 DEF StartProcess, StopProcess, Using, Holds, Running, IInv, OwnersStarted, TypeOK
  <2>2. QED
    BY <1>1, <1>2, <2>1 DEF StartProcess, StopProcess
<1>3. ASSUME NEW c \in Call, Acquire(c) \/ Release(c) \/ IoFault(c)
      PROVE  Abstract!AbsNext
  <2>1. Using' \subseteq Using
    BY <1>3 DEF Acquire, Release, IoFault, Fail, Conclude, UnguardFails, Goto,
                Using, Holds, Running, IInv, TypeOK
  <2>2. QED
    BY <1>1, <1>3, <2>1 DEF Acquire, Release, IoFault
<1>4. ASSUME NEW c \in Call, Step(c), mainLock' = mainLock
      PROVE  Abstract!AbsNext
  <2>1. pc' = [pc EXCEPT ![c] = pc'[c]] /\ proc' = proc
    BY <1>4 DEF Step, GuardPublish, GuardRead, MainRead, MainCheck, MainPublish, RecoverRead,
         RecoverCheck, RecoverUnlink, OwnRead, OwnUnlink, UnguardRead, UnguardUnlink,
         RollbackRead, RollbackUnlink, Unguard2Read, Unguard2Unlink, Report, UnguardFails,
         Fail, Conclude, Goto, IInv, TypeOK
  <2>2. Using' \subseteq Using \/ Using' = Using \cup {c}
    BY <2>1 DEF Using, Holds, Running, IInv, TypeOK
  <2>3. QED
    BY <1>1, <1>4, <2>2
<1>5. ASSUME NEW c \in Call, Step(c), mainLock' # mainLock
      PROVE  Abstract!AbsNext
  <2>1. Using' = Using
    BY <1>5 DEF Step, GuardPublish, GuardRead, MainRead, MainCheck, MainPublish, RecoverRead,
         RecoverCheck, RecoverUnlink, OwnRead, OwnUnlink, UnguardRead, UnguardUnlink,
         RollbackRead, RollbackUnlink, Unguard2Read, Unguard2Unlink, Conclude, Goto,
         Using, Holds, Running, IInv, TypeOK
  <2>2. CASE MainPublish(c)
    <3>1. mainLock = Missing /\ mainLock' = c
      BY <1>5, <2>2 DEF MainPublish
    <3>2. Abstract!Claim(c)
      BY <2>1, <3>1 DEF Abstract!Claim, Using
    <3>3. QED
      BY <3>2 DEF Abstract!AbsNext
  <2>3. CASE RecoverUnlink(c) \/ OwnUnlink(c) \/ RollbackUnlink(c)
    <3>1. mainLock \in Call /\ mainLock' = Missing
      BY <1>5, <2>3 DEF RecoverUnlink, OwnUnlink, RollbackUnlink, IInv, LockClaimed, Claimed,
           ReadsHold, RecoverLabel, RollbackLabel
    <3>2. mainLock \notin Using
      BY <2>3, <3>1 DEF RecoverUnlink, OwnUnlink, RollbackUnlink, IInv, LockClaimed, Claimed,
           ReadsHold, RecoverLabel, RollbackLabel, Using, Holds, Running, Stopped
    <3>3. QED
      BY <2>1, <3>1, <3>2, DropOwner DEF Owner
  <2>4. QED
    BY <1>5, <2>2, <2>3
    DEF Step, GuardPublish, GuardRead, MainRead, MainCheck, RecoverRead, RecoverCheck, OwnRead,
        UnguardRead, UnguardUnlink, RollbackRead, Unguard2Read, Unguard2Unlink
<1>6. CASE Repair
  <2>1. Using' = Using
    BY <1>6 DEF Repair, Using, Holds, Running
  <2>2. CASE Owner' = Owner
    BY <2>1, <2>2, KeepOwner
  <2>3. CASE Owner' # Owner
    <3>1. mainLock \in Call /\ Stopped(mainLock) /\ mainLock' = Missing
      BY <1>6, <2>3 DEF Repair, Owner, IInv, TypeOK, FileState
    <3>2. mainLock \notin Using
      BY <3>1 DEF Using, Holds, Running, Stopped
    <3>3. QED
      BY <2>1, <3>1, <3>2, DropOwner DEF Owner
  <2>4. QED
    BY <2>2, <2>3
<1>7. CASE UNCHANGED vars
  BY <1>7 DEF vars, Owner, Using, Holds, Running
<1>8. QED
  BY <1>2, <1>3, <1>4, <1>5, <1>6, <1>7 DEF Next

\* The run lock implements the abstract lock (ImplementsAbstract).
THEOREM Refinement == Spec => ImplementsAbstract
<1>1. Init => Abstract!AbsInit
  BY RunLockAssumption DEF Init, Abstract!AbsInit, Holds
<1>2. IInv /\ IInv' /\ [Next]_vars => [Abstract!AbsNext]_<<Owner, Using>>
  BY StepSimulation
<1>3. QED
  BY <1>1, <1>2, Invariance, PTL
  DEF Spec, ImplementsAbstract, Abstract!AbsSpec, Abstract!absVars, Owner, Using
================================================================================
