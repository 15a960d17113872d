---------------------------- MODULE ExecutionProofs ----------------------------
(***************************************************************************)
(* Proofs about the execution of other programs: ProcessControl, for any   *)
(* number of processes; ExecutionBroker, for any number of changes; the    *)
(* command that makes its answer of the broker's result (SecurityCommand); *)
(* and that the broker's assumption about runProcess holds of it.          *)
(***************************************************************************)
EXTENDS ProcessControl, SecurityCommand, TLAPS

(***************************************************************************)
(* ProcessControl.                                                         *)
(***************************************************************************)

USE ProcessControlAssumption

LEMMA FinishType ==
  ASSUME NEW o \in Outcome, NEW c \in BOOLEAN, Finish(o, c)
  PROVE  step' = "done" /\ answer' \in Result /\ answer' # [outcome |-> "none"]
<1>1. answer'.outcome = o /\ o # "none"
  BY DEF Finish, Outcome, StopReason
<1> QED
  BY <1>1 DEF Finish, Result

LEMMA TerminatedType ==
  ASSUME ProcessTypeOK, step # "done", NEW gone \in BOOLEAN, Terminated(gone), UNCHANGED cause
  PROVE  /\ cleaned' \in BOOLEAN /\ cause' \in Cause /\ step' \in Label /\ answer' \in Result
         /\ step' = "done" <=> answer' # [outcome |-> "none"]
<1>1. CASE cause = "closed"
  <2>1. (IF gone THEN "tree_escape" ELSE "error") \in Outcome
    BY DEF Outcome, StopReason
  <2> QED
    BY <1>1, <2>1, FinishType DEF Terminated, ProcessTypeOK, Label
<1>2. CASE cause # "closed"
  BY <1>2 DEF Terminated, ProcessTypeOK, Label
<1> QED
  BY <1>1, <1>2

LEMMA ProcessInitInv == ProcessInit => ProcessInv
BY DEF ProcessInit, ProcessInv, ProcessTypeOK, Course, AnswerHonest, StoppedMeansGone,
       ExitedMeansTreeExited,
       PipesReleased, ErrorsNotMasked, Returned, Request, Cause, Label, Result

LEMMA ForkInv == ASSUME ProcessInv, NEW p \in Proc, NEW q \in Proc, Fork(p, q) PROVE ProcessInv'
<1> USE DEF Fork, Finish, Terminated, StopResult, tree, seen, told, Posix, GroupGone, Died
<1>1. ProcessTypeOK'
  BY DEF ProcessInv, ProcessTypeOK, Course, Cause, Label, Result, Outcome, StopReason
<1>2. Course'
  BY DEF ProcessInv, ProcessTypeOK, Course, GroupEmpty
<1>3. AnswerHonest'
  BY DEF ProcessInv, ProcessTypeOK, Course, GroupEmpty, AnswerHonest, StoppedMeansGone,
         ExitedMeansTreeExited, PipesReleased, Returned, Cause, StopReason
<1>4. ErrorsNotMasked'
  BY DEF ProcessInv, ProcessTypeOK, Course, ErrorsNotMasked, Cause, StopReason
<1> QED
  BY <1>1, <1>2, <1>3, <1>4 DEF ProcessInv

LEMMA DetachInv == ASSUME ProcessInv, NEW p \in Proc, Detach(p) PROVE ProcessInv'
<1> USE DEF Detach, Finish, Terminated, StopResult, tree, seen, told, Posix, GroupGone, Died
<1>1. ProcessTypeOK'
  BY DEF ProcessInv, ProcessTypeOK, Course, Cause, Label, Result, Outcome, StopReason
<1>2. Course'
  BY DEF ProcessInv, ProcessTypeOK, Course, GroupEmpty
<1>3. AnswerHonest'
  BY DEF ProcessInv, ProcessTypeOK, Course, GroupEmpty, AnswerHonest, StoppedMeansGone,
         ExitedMeansTreeExited, PipesReleased, Returned, Cause, StopReason
<1>4. ErrorsNotMasked'
  BY DEF ProcessInv, ProcessTypeOK, Course, ErrorsNotMasked, Cause, StopReason
<1> QED
  BY <1>1, <1>2, <1>3, <1>4 DEF ProcessInv

LEMMA DropPipesInv == ASSUME ProcessInv, NEW p \in Proc, DropPipes(p) PROVE ProcessInv'
<1> USE DEF DropPipes, Finish, Terminated, StopResult, tree, seen, told, Posix, GroupGone, Died
<1>1. ProcessTypeOK'
  BY DEF ProcessInv, ProcessTypeOK, Course, Cause, Label, Result, Outcome, StopReason
<1>2. Course'
  BY DEF ProcessInv, ProcessTypeOK, Course, GroupEmpty
<1>3. AnswerHonest'
  BY DEF ProcessInv, ProcessTypeOK, Course, GroupEmpty, AnswerHonest, StoppedMeansGone,
         ExitedMeansTreeExited, PipesReleased, Returned, Cause, StopReason
<1>4. ErrorsNotMasked'
  BY DEF ProcessInv, ProcessTypeOK, Course, ErrorsNotMasked, Cause, StopReason
<1> QED
  BY <1>1, <1>2, <1>3, <1>4 DEF ProcessInv

LEMMA ExitInv == ASSUME ProcessInv, NEW p \in Proc, Exit(p) PROVE ProcessInv'
<1> USE DEF Exit, Finish, Terminated, StopResult, tree, seen, told, Posix, GroupGone, Died
<1>1. ProcessTypeOK'
  BY DEF ProcessInv, ProcessTypeOK, Course, Cause, Label, Result, Outcome, StopReason
<1>2. Course'
  BY DEF ProcessInv, ProcessTypeOK, Course, GroupEmpty
<1>3. AnswerHonest'
  BY DEF ProcessInv, ProcessTypeOK, Course, GroupEmpty, AnswerHonest, StoppedMeansGone,
         ExitedMeansTreeExited, PipesReleased, Returned, Cause, StopReason
<1>4. ErrorsNotMasked'
  BY DEF ProcessInv, ProcessTypeOK, Course, ErrorsNotMasked, Cause, StopReason
<1> QED
  BY <1>1, <1>2, <1>3, <1>4 DEF ProcessInv

LEMMA SignalAbortsInv == ASSUME ProcessInv, SignalAborts PROVE ProcessInv'
<1> USE DEF SignalAborts, Finish, Terminated, StopResult, tree, seen, told, Posix, GroupGone, Died
<1>1. ProcessTypeOK'
  BY DEF ProcessInv, ProcessTypeOK, Course, Cause, Label, Result, Outcome, StopReason
<1>2. Course'
  BY DEF ProcessInv, ProcessTypeOK, Course, GroupEmpty
<1>3. AnswerHonest'
  BY DEF ProcessInv, ProcessTypeOK, Course, GroupEmpty, AnswerHonest, StoppedMeansGone,
         ExitedMeansTreeExited, PipesReleased, Returned, Cause, StopReason
<1>4. ErrorsNotMasked'
  BY DEF ProcessInv, ProcessTypeOK, Course, ErrorsNotMasked, Cause, StopReason
<1> QED
  BY <1>1, <1>2, <1>3, <1>4 DEF ProcessInv

LEMMA CapExceededInv == ASSUME ProcessInv, CapExceeded PROVE ProcessInv'
<1> USE DEF CapExceeded, Finish, Terminated, StopResult, tree, seen, told, Posix, GroupGone, Died
<1>1. ProcessTypeOK'
  BY DEF ProcessInv, ProcessTypeOK, Course, Cause, Label, Result, Outcome, StopReason
<1>2. Course'
  BY DEF ProcessInv, ProcessTypeOK, Course, GroupEmpty
<1>3. AnswerHonest'
  BY DEF ProcessInv, ProcessTypeOK, Course, GroupEmpty, AnswerHonest, StoppedMeansGone,
         ExitedMeansTreeExited, PipesReleased, Returned, Cause, StopReason
<1>4. ErrorsNotMasked'
  BY DEF ProcessInv, ProcessTypeOK, Course, ErrorsNotMasked, Cause, StopReason
<1> QED
  BY <1>1, <1>2, <1>3, <1>4 DEF ProcessInv

LEMMA StreamErrorInv == ASSUME ProcessInv, StreamError PROVE ProcessInv'
<1> USE DEF StreamError, Finish, Terminated, StopResult, tree, seen, told, Posix, GroupGone, Died
<1>1. ProcessTypeOK'
  BY DEF ProcessInv, ProcessTypeOK, Course, Cause, Label, Result, Outcome, StopReason
<1>2. Course'
  BY DEF ProcessInv, ProcessTypeOK, Course, GroupEmpty
<1>3. AnswerHonest'
  BY DEF ProcessInv, ProcessTypeOK, Course, GroupEmpty, AnswerHonest, StoppedMeansGone,
         ExitedMeansTreeExited, PipesReleased, Returned, Cause, StopReason
<1>4. ErrorsNotMasked'
  BY DEF ProcessInv, ProcessTypeOK, Course, ErrorsNotMasked, Cause, StopReason
<1> QED
  BY <1>1, <1>2, <1>3, <1>4 DEF ProcessInv

LEMMA StartInv == ASSUME ProcessInv, Start PROVE ProcessInv'
<1>0. /\ step # "done"
      /\ Finish("cancelled", TRUE) \/ (step' = "launch" /\ UNCHANGED answer)
  BY DEF Start
<1>1. ProcessTypeOK'
  <2>1. /\ step' \in Label /\ answer' \in Result
        /\ step' = "done" <=> answer' # [outcome |-> "none"]
    <3>1. {"cancelled", "exited"} \subseteq Outcome
      BY DEF Outcome, StopReason
    <3>2. step \in Label /\ answer \in Result /\ (step = "done" <=> answer # [outcome |-> "none"])
      BY DEF ProcessInv, ProcessTypeOK
    <3> QED
      BY ONLY <1>0, <3>1, <3>2, FinishType DEF Label
  <2>2. /\ UNCHANGED <<request, tree, seen, cause, cleaned, released>>
    BY DEF Start
  <2> QED
    BY <2>1, <2>2 DEF ProcessInv, ProcessTypeOK, Cause, tree, seen
<1> USE DEF Start, Finish, Terminated, StopResult, tree, seen, told, Posix, GroupGone, Died
<1>2. Course'
  BY DEF ProcessInv, ProcessTypeOK, Course, GroupEmpty
<1>3. AnswerHonest'
  BY DEF ProcessInv, ProcessTypeOK, Course, GroupEmpty, AnswerHonest, StoppedMeansGone,
         ExitedMeansTreeExited, PipesReleased, Returned, Cause, StopReason
<1>4. ErrorsNotMasked'
  BY DEF ProcessInv, ProcessTypeOK, Course, ErrorsNotMasked, Cause, StopReason
<1> QED
  BY <1>1, <1>2, <1>3, <1>4 DEF ProcessInv

LEMMA SpawnFailsInv == ASSUME ProcessInv, SpawnFails PROVE ProcessInv'
<1> USE DEF SpawnFails, Finish, Terminated, StopResult, tree, seen, told, Posix, GroupGone, Died
<1>1. ProcessTypeOK'
  BY DEF ProcessInv, ProcessTypeOK, Course, Cause, Label, Result, Outcome, StopReason
<1>2. Course'
  BY DEF ProcessInv, ProcessTypeOK, Course, GroupEmpty
<1>3. AnswerHonest'
  BY DEF ProcessInv, ProcessTypeOK, Course, GroupEmpty, AnswerHonest, StoppedMeansGone,
         ExitedMeansTreeExited, PipesReleased, Returned, Cause, StopReason
<1>4. ErrorsNotMasked'
  BY DEF ProcessInv, ProcessTypeOK, Course, ErrorsNotMasked, Cause, StopReason
<1> QED
  BY <1>1, <1>2, <1>3, <1>4 DEF ProcessInv

LEMMA SpawnInv == ASSUME ProcessInv, Spawn PROVE ProcessInv'
<1> USE DEF Spawn, Finish, Terminated, StopResult, tree, seen, told, Posix, GroupGone, Died
<1>1. ProcessTypeOK'
  <2>1. /\ alive' \subseteq Proc \ unborn' /\ grouped' \subseteq Proc \ unborn'
        /\ holding' \subseteq Proc \ unborn' /\ unborn' \subseteq Proc
    BY DEF ProcessInv, ProcessTypeOK
  <2>2. step' \in Label /\ cause' \in Cause /\ step' # "done"
    <3>1. cause \in Cause /\ "cancelled" \in Cause
      BY DEF ProcessInv, ProcessTypeOK, Cause, StopReason
    <3> QED
      BY <3>1 DEF Label
  <2>3. killed = {}
    BY DEF ProcessInv, ProcessTypeOK, Course
  <2>4. UNCHANGED <<request, killed, seen, cleaned, released, answer>> /\ step # "done"
    OBVIOUS
  <2> QED
    BY <2>1, <2>2, <2>3, <2>4 DEF ProcessInv, ProcessTypeOK
<1>2. Course'
  BY DEF ProcessInv, ProcessTypeOK, Course, GroupEmpty
<1>3. AnswerHonest'
  BY DEF ProcessInv, ProcessTypeOK, Course, GroupEmpty, AnswerHonest, StoppedMeansGone,
         ExitedMeansTreeExited, PipesReleased, Returned, Cause, StopReason
<1>4. ErrorsNotMasked'
  BY DEF ProcessInv, ProcessTypeOK, Course, ErrorsNotMasked, Cause, StopReason
<1> QED
  BY <1>1, <1>2, <1>3, <1>4 DEF ProcessInv

LEMMA RootExitInv == ASSUME ProcessInv, RootExit PROVE ProcessInv'
<1> USE DEF RootExit, Finish, Terminated, StopResult, tree, seen, told, Posix, GroupGone, Died
<1>1. ProcessTypeOK'
  BY DEF ProcessInv, ProcessTypeOK, Course, Cause, Label, Result, Outcome, StopReason
<1>2. Course'
  BY DEF ProcessInv, ProcessTypeOK, Course, GroupEmpty
<1>3. AnswerHonest'
  BY DEF ProcessInv, ProcessTypeOK, Course, GroupEmpty, AnswerHonest, StoppedMeansGone,
         ExitedMeansTreeExited, PipesReleased, Returned, Cause, StopReason
<1>4. ErrorsNotMasked'
  BY DEF ProcessInv, ProcessTypeOK, Course, ErrorsNotMasked, Cause, StopReason
<1> QED
  BY <1>1, <1>2, <1>3, <1>4 DEF ProcessInv

LEMMA CloseInv == ASSUME ProcessInv, Close PROVE ProcessInv'
<1>0. /\ step = "done" => UNCHANGED <<step, answer>>
      /\ Finish("exited", TRUE) \/ ((step' = "groupWait" \/ UNCHANGED step) /\ UNCHANGED answer)
  BY DEF Close
<1>1. ProcessTypeOK'
  <2>1. /\ step' \in Label /\ answer' \in Result
        /\ step' = "done" <=> answer' # [outcome |-> "none"]
    <3>1. {"cancelled", "exited"} \subseteq Outcome
      BY DEF Outcome, StopReason
    <3>2. step \in Label /\ answer \in Result /\ (step = "done" <=> answer # [outcome |-> "none"])
      BY DEF ProcessInv, ProcessTypeOK
    <3> QED
      BY ONLY <1>0, <3>1, <3>2, FinishType DEF Label
  <2>2. /\ UNCHANGED <<request, tree, reaped, full, signalAborted, early, cleaned, released>>
        /\ closeSeen' = TRUE /\ cause' \in {cause, "closed"}
    BY DEF Close
  <2> QED
    BY <2>1, <2>2 DEF ProcessInv, ProcessTypeOK, Cause, tree, seen
<1> USE DEF Close, Finish, Terminated, StopResult, tree, seen, told, Posix, GroupGone, Died
<1>2. Course'
  BY DEF ProcessInv, ProcessTypeOK, Course, GroupEmpty
<1>3. AnswerHonest'
  BY DEF ProcessInv, ProcessTypeOK, Course, GroupEmpty, AnswerHonest, StoppedMeansGone,
         ExitedMeansTreeExited, PipesReleased, Returned, Cause, StopReason
<1>4. ErrorsNotMasked'
  BY DEF ProcessInv, ProcessTypeOK, Course, ErrorsNotMasked, Cause, StopReason
<1> QED
  BY <1>1, <1>2, <1>3, <1>4 DEF ProcessInv

LEMMA TimeoutInv == ASSUME ProcessInv, Timeout PROVE ProcessInv'
<1> USE DEF Timeout, Finish, Terminated, StopResult, tree, seen, told, Posix, GroupGone, Died
<1>1. ProcessTypeOK'
  BY DEF ProcessInv, ProcessTypeOK, Course, Cause, Label, Result, Outcome, StopReason
<1>2. Course'
  BY DEF ProcessInv, ProcessTypeOK, Course, GroupEmpty
<1>3. AnswerHonest'
  BY DEF ProcessInv, ProcessTypeOK, Course, GroupEmpty, AnswerHonest, StoppedMeansGone,
         ExitedMeansTreeExited, PipesReleased, Returned, Cause, StopReason
<1>4. ErrorsNotMasked'
  BY DEF ProcessInv, ProcessTypeOK, Course, ErrorsNotMasked, Cause, StopReason
<1> QED
  BY <1>1, <1>2, <1>3, <1>4 DEF ProcessInv

LEMMA DrainExpiresInv == ASSUME ProcessInv, DrainExpires PROVE ProcessInv'
<1> USE DEF DrainExpires, Finish, Terminated, StopResult, tree, seen, told, Posix, GroupGone, Died
<1>1. ProcessTypeOK'
  BY DEF ProcessInv, ProcessTypeOK, Course, Cause, Label, Result, Outcome, StopReason
<1>2. Course'
  BY DEF ProcessInv, ProcessTypeOK, Course, GroupEmpty
<1>3. AnswerHonest'
  BY DEF ProcessInv, ProcessTypeOK, Course, GroupEmpty, AnswerHonest, StoppedMeansGone,
         ExitedMeansTreeExited, PipesReleased, Returned, Cause, StopReason
<1>4. ErrorsNotMasked'
  BY DEF ProcessInv, ProcessTypeOK, Course, ErrorsNotMasked, Cause, StopReason
<1> QED
  BY <1>1, <1>2, <1>3, <1>4 DEF ProcessInv

LEMMA GroupWaitInv == ASSUME ProcessInv, GroupWait PROVE ProcessInv'
<1>0. /\ step # "done"
      /\ Finish("exited", TRUE) \/ (step' = "terminate" /\ UNCHANGED answer)
  BY DEF GroupWait
<1>1. ProcessTypeOK'
  <2>1. /\ step' \in Label /\ answer' \in Result
        /\ step' = "done" <=> answer' # [outcome |-> "none"]
    <3>1. {"cancelled", "exited"} \subseteq Outcome
      BY DEF Outcome, StopReason
    <3>2. step \in Label /\ answer \in Result /\ (step = "done" <=> answer # [outcome |-> "none"])
      BY DEF ProcessInv, ProcessTypeOK
    <3> QED
      BY ONLY <1>0, <3>1, <3>2, FinishType DEF Label
  <2>2. /\ UNCHANGED <<request, tree, seen, cause, cleaned, released>>
    BY DEF GroupWait
  <2> QED
    BY <2>1, <2>2 DEF ProcessInv, ProcessTypeOK, Cause, tree, seen
<1> USE DEF GroupWait, Finish, Terminated, StopResult, tree, seen, told, Posix, GroupGone, Died
<1>2. Course'
  BY DEF ProcessInv, ProcessTypeOK, Course, GroupEmpty
<1>3. AnswerHonest'
  BY DEF ProcessInv, ProcessTypeOK, Course, GroupEmpty, AnswerHonest, StoppedMeansGone,
         ExitedMeansTreeExited, PipesReleased, Returned, Cause, StopReason
<1>4. ErrorsNotMasked'
  BY DEF ProcessInv, ProcessTypeOK, Course, ErrorsNotMasked, Cause, StopReason
<1> QED
  BY <1>1, <1>2, <1>3, <1>4 DEF ProcessInv

LEMMA EnoentClosedInv == ASSUME ProcessInv, EnoentClosed PROVE ProcessInv'
<1> USE DEF EnoentClosed, Finish, Terminated, StopResult, tree, seen, told, Posix, GroupGone, Died
<1>1. ProcessTypeOK'
  BY DEF ProcessInv, ProcessTypeOK, Course, Cause, Label, Result, Outcome, StopReason
<1>2. Course'
  BY DEF ProcessInv, ProcessTypeOK, Course, GroupEmpty
<1>3. AnswerHonest'
  BY DEF ProcessInv, ProcessTypeOK, Course, GroupEmpty, AnswerHonest, StoppedMeansGone,
         ExitedMeansTreeExited, PipesReleased, Returned, Cause, StopReason
<1>4. ErrorsNotMasked'
  BY DEF ProcessInv, ProcessTypeOK, Course, ErrorsNotMasked, Cause, StopReason
<1> QED
  BY <1>1, <1>2, <1>3, <1>4 DEF ProcessInv

LEMMA EnoentExpiresInv == ASSUME ProcessInv, EnoentExpires PROVE ProcessInv'
<1> USE DEF EnoentExpires, Finish, Terminated, StopResult, tree, seen, told, Posix, GroupGone,
    Died
<1>1. ProcessTypeOK'
  BY DEF ProcessInv, ProcessTypeOK, Course, Cause, Label, Result, Outcome, StopReason
<1>2. Course'
  BY DEF ProcessInv, ProcessTypeOK, Course, GroupEmpty
<1>3. AnswerHonest'
  BY DEF ProcessInv, ProcessTypeOK, Course, GroupEmpty, AnswerHonest, StoppedMeansGone,
         ExitedMeansTreeExited, PipesReleased, Returned, Cause, StopReason
<1>4. ErrorsNotMasked'
  BY DEF ProcessInv, ProcessTypeOK, Course, ErrorsNotMasked, Cause, StopReason
<1> QED
  BY <1>1, <1>2, <1>3, <1>4 DEF ProcessInv

LEMMA TerminateInv == ASSUME ProcessInv, Terminate PROVE ProcessInv'
<1>0. /\ step # "done" /\ UNCHANGED cause /\ ProcessTypeOK
      /\ \/ \E gone \in BOOLEAN : Terminated(gone)
         \/ step' = "termWait" /\ UNCHANGED <<cleaned, answer>>
  BY DEF Terminate, ProcessInv, ProcessTypeOK, GroupGone
<1>1. ProcessTypeOK'
  <2>1. /\ cleaned' \in BOOLEAN /\ cause' \in Cause /\ step' \in Label /\ answer' \in Result
        /\ step' = "done" <=> answer' # [outcome |-> "none"]
    BY ONLY <1>0, TerminatedType DEF ProcessTypeOK, Label
  <2>2. /\ UNCHANGED <<request, tree, seen, released>>
    BY DEF Terminate, ProcessInv, ProcessTypeOK
  <2> QED
    BY <2>1, <2>2 DEF ProcessInv, ProcessTypeOK, tree, seen
<1> USE DEF Terminate, Finish, Terminated, StopResult, tree, seen, told, Posix, GroupGone, Died
<1>2. Course'
  BY DEF ProcessInv, ProcessTypeOK, Course, GroupEmpty
<1>3. AnswerHonest'
  BY DEF ProcessInv, ProcessTypeOK, Course, GroupEmpty, AnswerHonest, StoppedMeansGone,
         ExitedMeansTreeExited, PipesReleased, Returned, Cause, StopReason
<1>4. ErrorsNotMasked'
  BY DEF ProcessInv, ProcessTypeOK, Course, ErrorsNotMasked, Cause, StopReason
<1> QED
  BY <1>1, <1>2, <1>3, <1>4 DEF ProcessInv

LEMMA TaskKillInv == ASSUME ProcessInv, TaskKill PROVE ProcessInv'
<1>0. /\ step # "done" /\ UNCHANGED cause /\ ProcessTypeOK
      /\ (\E gone \in BOOLEAN : Terminated(gone))
  BY DEF TaskKill, ProcessInv, ProcessTypeOK, GroupGone
<1>1. ProcessTypeOK'
  <2>1. /\ cleaned' \in BOOLEAN /\ cause' \in Cause /\ step' \in Label /\ answer' \in Result
        /\ step' = "done" <=> answer' # [outcome |-> "none"]
    BY ONLY <1>0, TerminatedType DEF ProcessTypeOK, Label
  <2>2. /\ UNCHANGED <<request, unborn, grouped, holding, killed, seen, released>>
        /\ alive' \subseteq alive
    BY DEF TaskKill, ProcessInv, ProcessTypeOK
  <2> QED
    BY <2>1, <2>2 DEF ProcessInv, ProcessTypeOK, tree, seen
<1> USE DEF TaskKill, Finish, Terminated, StopResult, tree, seen, told, Posix, GroupGone, Died
<1>2. Course'
  BY DEF ProcessInv, ProcessTypeOK, Course, GroupEmpty
<1>3. AnswerHonest'
  BY DEF ProcessInv, ProcessTypeOK, Course, GroupEmpty, AnswerHonest, StoppedMeansGone,
         ExitedMeansTreeExited, PipesReleased, Returned, Cause, StopReason
<1>4. ErrorsNotMasked'
  BY DEF ProcessInv, ProcessTypeOK, Course, ErrorsNotMasked, Cause, StopReason
<1> QED
  BY <1>1, <1>2, <1>3, <1>4 DEF ProcessInv

LEMMA TermWaitInv == ASSUME ProcessInv, TermWait PROVE ProcessInv'
<1>0. /\ step # "done" /\ UNCHANGED cause /\ ProcessTypeOK
      /\ \/ \E gone \in BOOLEAN : Terminated(gone)
         \/ step' = "kill" /\ UNCHANGED <<cleaned, answer>>
  BY DEF TermWait, ProcessInv, ProcessTypeOK, GroupGone
<1>1. ProcessTypeOK'
  <2>1. /\ cleaned' \in BOOLEAN /\ cause' \in Cause /\ step' \in Label /\ answer' \in Result
        /\ step' = "done" <=> answer' # [outcome |-> "none"]
    BY ONLY <1>0, TerminatedType DEF ProcessTypeOK, Label
  <2>2. /\ UNCHANGED <<request, tree, seen, released>>
    BY DEF TermWait, ProcessInv, ProcessTypeOK
  <2> QED
    BY <2>1, <2>2 DEF ProcessInv, ProcessTypeOK, tree, seen
<1> USE DEF TermWait, Finish, Terminated, StopResult, tree, seen, told, Posix, GroupGone, Died
<1>2. Course'
  BY DEF ProcessInv, ProcessTypeOK, Course, GroupEmpty
<1>3. AnswerHonest'
  BY DEF ProcessInv, ProcessTypeOK, Course, GroupEmpty, AnswerHonest, StoppedMeansGone,
         ExitedMeansTreeExited, PipesReleased, Returned, Cause, StopReason
<1>4. ErrorsNotMasked'
  BY DEF ProcessInv, ProcessTypeOK, Course, ErrorsNotMasked, Cause, StopReason
<1> QED
  BY <1>1, <1>2, <1>3, <1>4 DEF ProcessInv

LEMMA KillInv == ASSUME ProcessInv, Kill PROVE ProcessInv'
<1>0. /\ step # "done" /\ UNCHANGED cause /\ ProcessTypeOK
      /\ \/ \E gone \in BOOLEAN : Terminated(gone)
         \/ step' = "killWait" /\ UNCHANGED <<cleaned, answer>>
  BY DEF Kill, ProcessInv, ProcessTypeOK, GroupGone
<1>1. ProcessTypeOK'
  <2>1. /\ cleaned' \in BOOLEAN /\ cause' \in Cause /\ step' \in Label /\ answer' \in Result
        /\ step' = "done" <=> answer' # [outcome |-> "none"]
    BY ONLY <1>0, TerminatedType DEF ProcessTypeOK, Label
  <2>2. /\ UNCHANGED <<request, unborn, alive, grouped, holding, seen, released>>
        /\ killed' \subseteq grouped
    BY DEF Kill, ProcessInv, ProcessTypeOK
  <2> QED
    BY <2>1, <2>2 DEF ProcessInv, ProcessTypeOK, tree, seen
<1> USE DEF Kill, Finish, Terminated, StopResult, tree, seen, told, Posix, GroupGone, Died
<1>2. Course'
  BY DEF ProcessInv, ProcessTypeOK, Course, GroupEmpty
<1>3. AnswerHonest'
  BY DEF ProcessInv, ProcessTypeOK, Course, GroupEmpty, AnswerHonest, StoppedMeansGone,
         ExitedMeansTreeExited, PipesReleased, Returned, Cause, StopReason
<1>4. ErrorsNotMasked'
  BY DEF ProcessInv, ProcessTypeOK, Course, ErrorsNotMasked, Cause, StopReason
<1> QED
  BY <1>1, <1>2, <1>3, <1>4 DEF ProcessInv

LEMMA KillWaitInv == ASSUME ProcessInv, KillWait PROVE ProcessInv'
<1>0. /\ step # "done" /\ UNCHANGED cause /\ ProcessTypeOK
      /\ (\E gone \in BOOLEAN : Terminated(gone))
  BY DEF KillWait, ProcessInv, ProcessTypeOK, GroupGone
<1>1. ProcessTypeOK'
  <2>1. /\ cleaned' \in BOOLEAN /\ cause' \in Cause /\ step' \in Label /\ answer' \in Result
        /\ step' = "done" <=> answer' # [outcome |-> "none"]
    BY ONLY <1>0, TerminatedType DEF ProcessTypeOK, Label
  <2>2. /\ UNCHANGED <<request, tree, seen, released>>
    BY DEF KillWait, ProcessInv, ProcessTypeOK
  <2> QED
    BY <2>1, <2>2 DEF ProcessInv, ProcessTypeOK, tree, seen
<1> USE DEF KillWait, Finish, Terminated, StopResult, tree, seen, told, Posix, GroupGone, Died
<1>2. Course'
  BY DEF ProcessInv, ProcessTypeOK, Course, GroupEmpty
<1>3. AnswerHonest'
  BY DEF ProcessInv, ProcessTypeOK, Course, GroupEmpty, AnswerHonest, StoppedMeansGone,
         ExitedMeansTreeExited, PipesReleased, Returned, Cause, StopReason
<1>4. ErrorsNotMasked'
  BY DEF ProcessInv, ProcessTypeOK, Course, ErrorsNotMasked, Cause, StopReason
<1> QED
  BY <1>1, <1>2, <1>3, <1>4 DEF ProcessInv

LEMMA CloseArrivesInv == ASSUME ProcessInv, CloseArrives PROVE ProcessInv'
<1> USE DEF CloseArrives, Finish, Terminated, StopResult, tree, seen, told, Posix, GroupGone, Died
<1>1. ProcessTypeOK'
  BY DEF ProcessInv, ProcessTypeOK, Course, Cause, Label, Result, Outcome, StopReason
<1>2. Course'
  BY DEF ProcessInv, ProcessTypeOK, Course, GroupEmpty
<1>3. AnswerHonest'
  BY DEF ProcessInv, ProcessTypeOK, Course, GroupEmpty, AnswerHonest, StoppedMeansGone,
         ExitedMeansTreeExited, PipesReleased, Returned, Cause, StopReason
<1>4. ErrorsNotMasked'
  BY DEF ProcessInv, ProcessTypeOK, Course, ErrorsNotMasked, Cause, StopReason
<1> QED
  BY <1>1, <1>2, <1>3, <1>4 DEF ProcessInv

LEMMA CloseExpiresInv == ASSUME ProcessInv, CloseExpires PROVE ProcessInv'
<1> USE DEF CloseExpires, Finish, Terminated, StopResult, tree, seen, told, Posix, GroupGone, Died
<1>1. ProcessTypeOK'
  BY DEF ProcessInv, ProcessTypeOK, Course, Cause, Label, Result, Outcome, StopReason
<1>2. Course'
  BY DEF ProcessInv, ProcessTypeOK, Course, GroupEmpty
<1>3. AnswerHonest'
  BY DEF ProcessInv, ProcessTypeOK, Course, GroupEmpty, AnswerHonest, StoppedMeansGone,
         ExitedMeansTreeExited, PipesReleased, Returned, Cause, StopReason
<1>4. ErrorsNotMasked'
  BY DEF ProcessInv, ProcessTypeOK, Course, ErrorsNotMasked, Cause, StopReason
<1> QED
  BY <1>1, <1>2, <1>3, <1>4 DEF ProcessInv

-----------------------------------------------------------------------------
\* Every step, of the command or of the supervisor, keeps the invariant.
LEMMA ProcessNextInv == ProcessInv /\ [ProcessNext]_processVars => ProcessInv'
<1> SUFFICES ASSUME ProcessInv, [ProcessNext]_processVars PROVE ProcessInv'
  OBVIOUS
<1>1. CASE UNCHANGED processVars
  <2>1. ProcessTypeOK'
    BY <1>1 DEF processVars, ProcessInv, ProcessTypeOK
  <2>2. Course'
    BY <1>1 DEF processVars, ProcessInv, Course, Posix, GroupEmpty
  <2>3. AnswerHonest' /\ ErrorsNotMasked'
    BY <1>1 DEF processVars, ProcessInv, Posix, AnswerHonest, StoppedMeansGone,
           ExitedMeansTreeExited,
       PipesReleased, ErrorsNotMasked, Returned
  <2> QED
    BY <2>1, <2>2, <2>3 DEF ProcessInv
<1>2. CASE Environment
  BY <1>2, ForkInv, DetachInv, DropPipesInv, ExitInv, SignalAbortsInv, CapExceededInv,
     StreamErrorInv DEF Environment
<1>3. CASE Supervisor
  BY <1>3, StartInv, SpawnFailsInv, SpawnInv, RootExitInv, CloseInv, TimeoutInv,
     DrainExpiresInv, GroupWaitInv, EnoentClosedInv, EnoentExpiresInv, TerminateInv,
     TaskKillInv, TermWaitInv, KillInv, KillWaitInv, CloseArrivesInv, CloseExpiresInv
     DEF Supervisor
<1> QED
  BY <1>1, <1>2, <1>3 DEF ProcessNext

\* Type correctness.
THEOREM ProcessTypeCorrect == ProcessSpec => []ProcessTypeOK
<1>1. ProcessInv => ProcessTypeOK
  BY DEF ProcessInv
<1> QED
  BY <1>1, ProcessInitInv, ProcessNextInv, PTL DEF ProcessSpec

\* However many processes the command forks, and whatever they do with their
\* group, their pipes and the signals: a stopped run on POSIX has nobody left
\* in its group, an exited one took its tree with it, and no pipe stays open.
THEOREM AnswersAreHonest == ProcessSpec => []AnswerHonest
<1>1. ProcessInv => AnswerHonest
  BY DEF ProcessInv
<1> QED
  BY <1>1, ProcessInitInv, ProcessNextInv, PTL DEF ProcessSpec

\* An error is told exactly when something failed or could not be confirmed.
THEOREM ErrorsShow == ProcessSpec => []ErrorsNotMasked
<1>1. ProcessInv => ErrorsNotMasked
  BY DEF ProcessInv
<1> QED
  BY <1>1, ProcessInitInv, ProcessNextInv, PTL DEF ProcessSpec

-----------------------------------------------------------------------------
(***************************************************************************)
(* ExecutionBroker and SecurityCommand.                                    *)
(***************************************************************************)

LEMMA ThingFacts ==
  /\ {"executable", "config", "source", "ignore"} = Thing
  /\ \A t \in Thing : VersionsOf(t) \subseteq Version
BY DEF Thing, Version, VersionsOf

LEMMA InitIInv == Init => IInv
<1> SUFFICES ASSUME Init PROVE IInv
  OBVIOUS
<1> USE ThingFacts DEF Init
<1>1. run \in ProcessResult
  BY DEF ProcessResult, NoRun
<1>2. streams \in Streams
  BY DEF Streams, Silent
<1>3. world["ignore"] # "gone"
  BY DEF VersionsOf
<1>4. TypeOK
  BY <1>1, <1>2, <1>3 DEF TypeOK, Unread, NoResult, Status, Version
<1>5. Ordered /\ ChangesCounted
  BY DEF Ordered, ChangesCounted, Running, Unread
<1>6. EnvelopeBound /\ NoSecretShown /\ DriftNotMasked
  BY DEF EnvelopeBound, NoSecretShown, DriftNotMasked, NoResult
<1> QED
  BY <1>4, <1>5, <1>6 DEF IInv

\* A refusal says nothing that could be wrong.
LEMMA RefusalIInv ==
  ASSUME IInv, ~ran, pc \notin Running,
         pc' = "done", result'.status \in Status,
         result'.envelope = FALSE, result'.excerpt = FALSE,
         before' \in [Thing -> Version \cup {"unread"}],
         \A t \in Thing : (t = "ignore" => native) =>
           before'[t] = before[t] \/ before'[t] = world[t],
         UNCHANGED <<native, aborted, worldVars, after, ran, saw, run, streams>>
  PROVE  IInv'
<1>1. TypeOK'
  BY DEF IInv, TypeOK, worldVars
<1>2. Ordered'
  BY DEF IInv, Ordered, Running
<1>3. ChangesCounted'
  BY DEF IInv, ChangesCounted, worldVars
<1>4. EnvelopeBound' /\ NoSecretShown' /\ DriftNotMasked'
  BY DEF EnvelopeBound, NoSecretShown, DriftNotMasked
<1> QED
  BY <1>1, <1>2, <1>3, <1>4 DEF IInv

\* The steps before the launch that go on.
LEMMA PrepareIInv ==
  ASSUME IInv, pc \in {"request", "executable", "config", "source", "ignore"},
         UNCHANGED <<native, aborted, worldVars, after, ran, saw, run, streams, result>>,
         \/ pc = "request" /\ pc' = "executable" /\ UNCHANGED before
         \/ /\ pc = "executable" /\ pc' = "config"
            /\ before' = [before EXCEPT !["executable"] = world["executable"]]
         \/ /\ pc = "config" /\ pc' = "source"
            /\ before["executable"] = "good" /\ world["config"] = "good"
            /\ before' = [before EXCEPT !["config"] = world["config"]]
         \/ /\ pc = "source" /\ pc' = "ignore" /\ world["source"] = "good"
            /\ before' = [before EXCEPT !["source"] = world["source"]]
         \/ /\ pc = "ignore" /\ pc' = "launch" /\ (native => world["ignore"] = "good")
            /\ before' = [before EXCEPT !["ignore"] = IF native THEN world["ignore"] ELSE "good"]
  PROVE  IInv'
<1> USE ThingFacts
<1>1. ~ran /\ pc \notin Running /\ result = NoResult
  BY DEF IInv, Ordered, Running
<1>2. before' \in [Thing -> Version \cup {"unread"}]
  BY DEF IInv, TypeOK, Version
<1>3. TypeOK'
  BY <1>2 DEF IInv, TypeOK, worldVars
<1>4. Ordered'
  BY <1>1 DEF IInv, TypeOK, Ordered, Running
<1>5. \A t \in Thing : (t = "ignore" => native) =>
        before'[t] = before[t] \/ before'[t] = world[t]
  BY DEF IInv, TypeOK
<1>6. ChangesCounted'
  BY <1>1, <1>5 DEF IInv, ChangesCounted, worldVars
<1>7. EnvelopeBound' /\ NoSecretShown' /\ DriftNotMasked'
  BY <1>1 DEF EnvelopeBound, NoSecretShown, DriftNotMasked, NoResult
<1> QED
  BY <1>3, <1>4, <1>6, <1>7 DEF IInv

LEMMA BeforeLaunch ==
  ASSUME IInv,
         RefuseRequest \/ AdmitRequest \/ CheckExecutable \/ CheckConfig \/ ReadSource
           \/ ReadIgnore
  PROVE  IInv'
<1> USE ThingFacts
<1> DEFINE rest == <<native, aborted, worldVars, after, ran, saw, run, streams>>
<1>1. pc \in {"request", "executable", "config", "source", "ignore"} /\ UNCHANGED rest
  BY DEF RefuseRequest, AdmitRequest, CheckExecutable, CheckConfig, ReadSource, ReadIgnore
<1>2. ~ran /\ pc \notin Running
  BY <1>1 DEF IInv, Ordered, Running
<1>3. world \in [Thing -> Version] /\ before \in [Thing -> Version \cup {"unread"}]
  BY DEF IInv, TypeOK
<1>4. ASSUME NEW t \in Thing
      PROVE  /\ [before EXCEPT ![t] = world[t]] \in [Thing -> Version \cup {"unread"}]
             /\ \A u \in Thing : \/ [before EXCEPT ![t] = world[t]][u] = before[u]
                                 \/ [before EXCEPT ![t] = world[t]][u] = world[u]
  BY <1>3
<1>5. {"DENIED_BY_POLICY", "UNAVAILABLE", "VERSION_MISMATCH", "NOT_RUN"} \subseteq Status
  BY DEF Status
<1>6. CASE RefuseRequest
  <2>1. /\ pc' = "done" /\ result'.status \in Status
        /\ result'.envelope = FALSE /\ result'.excerpt = FALSE
    BY <1>5, <1>6 DEF RefuseRequest, Refuse
  <2>2. before' = before
    BY <1>6 DEF RefuseRequest
  <2> QED
    BY <1>1, <1>2, <1>3, <2>1, <2>2, RefusalIInv
<1>7. CASE AdmitRequest
  <2>1. pc = "request" /\ before' = before
    BY <1>7 DEF AdmitRequest
  <2>2. CASE world["source"] = "gone"
    <3>1. /\ pc' = "done" /\ result'.status \in Status
          /\ result'.envelope = FALSE /\ result'.excerpt = FALSE
      BY <1>5, <1>7, <2>2 DEF AdmitRequest, Refuse
    <3> QED
      BY <1>1, <1>2, <1>3, <2>1, <3>1, RefusalIInv
  <2>3. CASE world["source"] # "gone"
    <3>1. pc' = "executable" /\ UNCHANGED result
      BY <1>7, <2>3 DEF AdmitRequest
    <3> QED
      BY <1>1, <2>1, <3>1, PrepareIInv
  <2> QED
    BY <2>2, <2>3
<1>8. CASE CheckExecutable
  BY <1>1, <1>8, PrepareIInv DEF CheckExecutable
<1>9. CASE CheckConfig
  <2>1. CASE before["executable"] = "good" /\ world["config"] = "good"
    BY <1>1, <1>9, <2>1, PrepareIInv DEF CheckConfig
  <2>2. CASE ~(before["executable"] = "good" /\ world["config"] = "good")
    <3>1. before' = [before EXCEPT !["config"] = world["config"]]
      BY <1>9 DEF CheckConfig
    <3>2. /\ pc' = "done" /\ result'.status \in Status
          /\ result'.envelope = FALSE /\ result'.excerpt = FALSE
      BY <1>5, <1>9, <2>2 DEF CheckConfig, RefuseFile, Refuse
    <3> QED
      BY <1>1, <1>2, <1>4, <3>1, <3>2, RefusalIInv
  <2> QED
    BY <2>1, <2>2
<1>10. CASE ReadSource
  <2>1. before' = [before EXCEPT !["source"] = world["source"]]
    BY <1>10 DEF ReadSource
  <2>2. CASE world["source"] = "good"
    BY <1>1, <1>10, <2>1, <2>2, PrepareIInv DEF ReadSource
  <2>3. CASE world["source"] # "good"
    <3>1. /\ pc' = "done" /\ result'.status \in Status
          /\ result'.envelope = FALSE /\ result'.excerpt = FALSE
      BY <1>3, <1>5, <1>10, <2>3 DEF ReadSource, Version, Refuse
    <3> QED
      BY <1>1, <1>2, <1>4, <2>1, <3>1, RefusalIInv
  <2> QED
    BY <2>2, <2>3
<1>11. CASE ReadIgnore
  <2>1. before' = [before EXCEPT !["ignore"] = IF native THEN world["ignore"] ELSE "good"]
    BY <1>11 DEF ReadIgnore
  <2>2. CASE pc' = "launch" /\ UNCHANGED result /\ ~(native /\ world["ignore"] = "bad")
    <3>1. native => world["ignore"] = "good"
      BY <2>2 DEF IInv, TypeOK, Version
    <3> QED
      BY <1>1, <1>11, <2>1, <2>2, <3>1, PrepareIInv DEF ReadIgnore
  <2>3. CASE /\ pc' = "done" /\ result'.status \in Status
             /\ result'.envelope = FALSE /\ result'.excerpt = FALSE
    <3>1. /\ before' \in [Thing -> Version \cup {"unread"}]
          /\ \A t \in Thing : (t = "ignore" => native) =>
               before'[t] = before[t] \/ before'[t] = world[t]
      BY <1>3, <2>1 DEF Version
    <3> QED
      BY <1>1, <1>2, <2>3, <3>1, RefusalIInv
  <2>4. ASSUME NEW reason, Refuse("DENIED_BY_POLICY", reason)
        PROVE  /\ pc' = "done" /\ result'.status \in Status
               /\ result'.envelope = FALSE /\ result'.excerpt = FALSE
    BY <1>5, <2>4 DEF Refuse
  <2>5. CASE Refuse("DENIED_BY_POLICY", "ENGINE_IGNORE_FILE_PRESENT")
    BY <2>3, <2>4, <2>5
  <2>6. CASE Refuse("DENIED_BY_POLICY", "REQUEST_TOO_LARGE")
    BY <2>3, <2>4, <2>6
  <2> QED
    BY <1>11, <2>2, <2>5, <2>6 DEF ReadIgnore
<1> QED
  BY <1>6, <1>7, <1>8, <1>9, <1>10, <1>11

LEMMA LaunchIInv ==
  ASSUME IInv, LaunchAborted \/ LaunchFails \/ Launch
  PROVE  IInv'
<1> USE ThingFacts
<1>1. pc = "launch" /\ UNCHANGED <<native, aborted, worldVars, before, after, streams>>
  BY DEF LaunchAborted, LaunchFails, Launch
<1>2. /\ ~ran /\ result = NoResult /\ after = Unread
      /\ \A t \in Thing : before[t] = "good"
  BY <1>1 DEF IInv, Ordered, Running, Thing
<1>3. world \in [Thing -> Version] /\ before \in [Thing -> Version \cup {"unread"}]
  BY DEF IInv, TypeOK
<1>4. CASE pc' = "done"
  <2>1. /\ Refuse("ENGINE_ERROR", "PROCESS_CONTROL_ERROR")
        /\ UNCHANGED <<native, aborted, worldVars, after, ran, saw, run, streams>>
    BY <1>4 DEF LaunchAborted, LaunchFails, Launch
  <2>2. "ENGINE_ERROR" \in Status
    BY DEF Status
  <2>3. /\ pc' = "done" /\ result'.status \in Status
        /\ result'.envelope = FALSE /\ result'.excerpt = FALSE
    BY <2>1, <2>2 DEF Refuse
  <2>4. pc \notin Running /\ before' = before
    BY <1>1 DEF Running
  <2> QED
    BY <1>2, <1>3, <2>1, <2>3, <2>4, RefusalIInv
<1>5. CASE LaunchAborted \/ (LaunchFails /\ pc' # "done")
  <2>1. /\ pc' = "endSource" /\ UNCHANGED <<ran, saw, result>>
        /\ run' \in ProcessResult /\ run'.outcome \in {"cancelled", "error"}
    <3>1. CASE LaunchAborted
      BY <3>1 DEF LaunchAborted, NoRun, ProcessResult
    <3>2. CASE LaunchFails /\ pc' # "done"
      <4>1. PICK missing \in BOOLEAN :
              run' = [outcome |-> "error", clean |-> TRUE, missing |-> missing]
        BY <3>2 DEF LaunchFails, Refuse
      <4>2. run' \in ProcessResult /\ run'.outcome = "error"
        BY <4>1 DEF ProcessResult
      <4>3. pc' = "endSource" /\ UNCHANGED <<ran, saw, result>>
        BY <3>2 DEF LaunchFails, Refuse
      <4> QED
        BY <4>2, <4>3
    <3> QED
      BY <1>5, <3>1, <3>2
  <2>2. TypeOK'
    BY <1>1, <2>1 DEF IInv, TypeOK, worldVars
  <2>3. Ordered'
    BY <1>1, <1>2, <2>1 DEF Ordered, Running
  <2>4. ChangesCounted'
    BY <1>1, <1>2, <2>1 DEF IInv, ChangesCounted, worldVars
  <2>5. EnvelopeBound' /\ NoSecretShown' /\ DriftNotMasked'
    BY <1>2, <2>1 DEF EnvelopeBound, NoSecretShown, DriftNotMasked, NoResult
  <2> QED
    BY <2>2, <2>3, <2>4, <2>5 DEF IInv
<1>6. CASE Launch
  <2>1. /\ pc' = "running" /\ ran' = TRUE /\ UNCHANGED <<run, result>>
        /\ saw' = [t \in Thing |-> {world[t]}]
    BY <1>6 DEF Launch
  <2>2. TypeOK'
    BY <1>1, <1>3, <2>1 DEF IInv, TypeOK, worldVars
  <2>3. Ordered'
    BY <1>1, <1>2, <2>1 DEF Ordered, Running
  <2>4. ChangesCounted'
    BY <1>1, <1>2, <2>1 DEF IInv, ChangesCounted, worldVars, Unread
  <2>5. EnvelopeBound' /\ NoSecretShown' /\ DriftNotMasked'
    BY <1>2, <2>1 DEF EnvelopeBound, NoSecretShown, DriftNotMasked, NoResult
  <2> QED
    BY <2>2, <2>3, <2>4, <2>5 DEF IInv
<1> QED
  BY <1>4, <1>5, <1>6

\* The steps from the engine's end to the reading of its streams.
LEMMA AfterLaunch ==
  ASSUME IInv,
         EngineEnds \/ ReadSourceEnd \/ CheckExecutableAfter \/ CheckConfigAfter
           \/ ReadIgnoreAfter \/ ReadStreams
  PROVE  IInv'
<1> USE ThingFacts
<1>1. /\ pc \in Running \ {"decide"} /\ pc' \in Running \ {"running"}
      /\ UNCHANGED <<native, aborted, worldVars, before, ran, saw, result>>
  BY DEF EngineEnds, ReadSourceEnd, CheckExecutableAfter, CheckConfigAfter, ReadIgnoreAfter,
         ReadStreams, Running
<1>2. result = NoResult
  BY <1>1 DEF IInv, Ordered, Running
<1>3. /\ world \in [Thing -> Version] /\ after \in [Thing -> Version \cup {"unread"}]
      /\ changes \in [Thing -> Nat]
  BY DEF IInv, TypeOK
<1>4. run' \in ProcessResult /\ (run' # run => pc = "running")
  BY DEF IInv, TypeOK, EngineEnds, EngineResult, ReadSourceEnd, CheckExecutableAfter, CheckConfigAfter,
         ReadIgnoreAfter, ReadStreams
<1>5. streams' \in Streams
  BY DEF IInv, TypeOK, EngineEnds, ReadSourceEnd, CheckExecutableAfter, CheckConfigAfter,
         ReadIgnoreAfter, ReadStreams
<1>6. /\ after' \in [Thing -> Version \cup {"unread"}]
      /\ \A t \in Thing : (t = "ignore" => native) =>
           after'[t] = after[t] \/ after'[t] = world[t]
  BY <1>3 DEF EngineEnds, ReadSourceEnd, CheckExecutableAfter, CheckConfigAfter,
              ReadIgnoreAfter, ReadStreams, Version
<1>7. TypeOK'
  BY <1>1, <1>4, <1>5, <1>6 DEF IInv, TypeOK, worldVars, Running
<1>8. Ordered'
  BY <1>1, <1>4 DEF IInv, Ordered, Running
<1>9. ChangesCounted'
  BY <1>1, <1>6 DEF IInv, ChangesCounted, worldVars
<1>10. EnvelopeBound' /\ NoSecretShown' /\ DriftNotMasked'
  BY <1>1, <1>2 DEF EnvelopeBound, NoSecretShown, DriftNotMasked, NoResult, Running
<1> QED
  BY <1>7, <1>8, <1>9, <1>10 DEF IInv

\* An envelope needs every earlier row to be silent, and drift silences the
\* rows that come after it.
LEMMA DecideFacts ==
  ASSUME TypeOK
  PROVE  /\ Decide.status \in Status
         /\ HasEnvelope(Decide) =>
              /\ run.outcome = "exited" /\ ~StdoutSecret
              /\ \A t \in Thing : after[t] = "good"
         /\ after["source"] # "good" =>
              Decide.reason \notin
                {"CANCELLED", "OUTPUT_CAP_EXCEEDED", "TREE_ESCAPE", "NATIVE_NO_INPUT",
                 "ENVELOPE", "PARTIAL_COVERAGE", "RUN_COMPLETE"}
<1>1. /\ Decide = IF Error # NoRow THEN Error ELSE IF Drift # NoRow THEN Drift
                  ELSE IF Shortfall # NoRow THEN Shortfall ELSE Reported
      /\ Decide \in {Error, Drift, Shortfall, Reported}
  BY DEF Decide, FirstRow
<1>2. /\ Error = NoRow \/ Error.status \in Status
      /\ Error.reason \notin {"CANCELLED", "OUTPUT_CAP_EXCEEDED", "TREE_ESCAPE",
                              "NATIVE_NO_INPUT", "ENVELOPE", "PARTIAL_COVERAGE", "RUN_COMPLETE"}
  BY DEF Error, Row, NoRow, Status
<1>3. /\ Drift = NoRow \/ Drift.status \in Status
      /\ Drift.reason \notin {"CANCELLED", "OUTPUT_CAP_EXCEEDED", "TREE_ESCAPE",
                              "NATIVE_NO_INPUT", "ENVELOPE", "PARTIAL_COVERAGE", "RUN_COMPLETE"}
      /\ (Drift = NoRow) <=> (after["source"] = "good")
  BY DEF Drift, Row, NoRow, Status
<1>4. /\ Shortfall = NoRow \/ Shortfall.status \in Status
      /\ Shortfall.reason \notin {"PARTIAL_COVERAGE", "RUN_COMPLETE"}
  BY DEF Shortfall, Row, NoRow, Status
<1>5. Reported.status \in Status
  BY DEF Reported, Row, Status
<1>6. Decide.status \in Status
  BY <1>1, <1>2, <1>3, <1>4, <1>5
<1>7. ASSUME HasEnvelope(Decide)
      PROVE  run.outcome = "exited" /\ ~StdoutSecret /\ \A t \in Thing : after[t] = "good"
  <2>1. Error = NoRow /\ Drift = NoRow /\ Shortfall = NoRow
    BY <1>1, <1>2, <1>3, <1>4, <1>7 DEF HasEnvelope
  <2>2. /\ run.outcome \notin {"error", "timed_out"} /\ ~StdoutSecret
        /\ \A t \in Thing \ {"source"} : after[t] = "good"
    BY <2>1 DEF Error, Row, NoRow
  <2>3. run.outcome \notin {"cancelled", "capture_limit", "tree_escape"}
    BY <2>1 DEF Shortfall, Row, NoRow
  <2>4. run.outcome \in {"exited", "timed_out", "error", "cancelled", "capture_limit",
                         "tree_escape"}
    BY DEF TypeOK, ProcessResult
  <2> QED
    BY <1>3, <2>1, <2>2, <2>3, <2>4
<1> QED
  BY <1>1, <1>2, <1>3, <1>6, <1>7

LEMMA ConcludeIInv ==
  ASSUME IInv, Conclude
  PROVE  IInv'
<1> USE ThingFacts
<1> DEFINE decoded == HasEnvelope(Decide) /\ streams.stdout = "carried"
           secretFound == StdoutSecret \/ StderrSecret \/ decoded
<1>1. /\ pc = "decide" /\ pc' = "done"
      /\ UNCHANGED <<native, aborted, worldVars, before, after, ran, saw, run, streams>>
  BY DEF Conclude
<1>2. /\ result'.status = IF decoded THEN "MALFORMED_OUTPUT" ELSE Decide.status
      /\ result'.reason = IF decoded THEN "SECRET_IN_OUTPUT" ELSE Decide.reason
      /\ result'.envelope \in BOOLEAN
      /\ result'.envelope => HasEnvelope(Decide) /\ streams.stdout # "carried"
      /\ result'.excerpt = (~secretFound /\ ~streams.stderrCut)
  BY DEF Conclude, Row, HasEnvelope, Excerpt
<1>3. TypeOK /\ Ordered /\ ChangesCounted
  BY DEF IInv
<1>4. TypeOK'
  <2>1. "MALFORMED_OUTPUT" \in Status
    BY DEF Status
  <2>2. result'.status \in Status
    BY <1>2, <1>3, <2>1, DecideFacts
  <2>3. result'.excerpt \in BOOLEAN
    BY <1>2
  <2> QED
    BY <1>1, <1>2, <1>3, <2>2, <2>3 DEF TypeOK, worldVars
<1>5. Ordered' /\ ChangesCounted'
  BY <1>1, <1>3 DEF Ordered, ChangesCounted, Running, worldVars
<1>6. EnvelopeBound'
  <2> SUFFICES ASSUME result'.envelope
               PROVE  /\ ran /\ run.outcome = "exited"
                      /\ \A t \in Thing :
                           changes[t] < 2 /\ (t = "ignore" => native) => saw[t] = {"good"}
    BY <1>1 DEF EnvelopeBound, worldVars
  <2>1. run.outcome = "exited" /\ \A t \in Thing : after[t] = "good"
    BY <1>2, <1>3, DecideFacts
  <2>2. ran
    BY <1>1, <1>3, <2>1 DEF Ordered, Running
  <2>3. changes \in [Thing -> Nat]
    BY <1>3 DEF TypeOK
  <2> QED
    BY <1>3, <2>1, <2>2, <2>3 DEF ChangesCounted
<1>7. NoSecretShown'
  <2>1. result'.envelope => streams.stdout # "carried" /\ (native \/ streams.stdout = "clean")
    BY <1>2, <1>3, DecideFacts DEF StdoutSecret
  <2>2. streams.stderr \in {"clean", "secret", "split"}
        /\ (streams.stderr = "split" => streams.stderrCut)
    BY <1>3 DEF TypeOK, Streams
  <2>3. result'.excerpt => streams.stderr = "clean"
    BY <1>2, <2>2 DEF StderrSecret
  <2> QED
    BY <1>1, <2>1, <2>3 DEF NoSecretShown
<1>8. DriftNotMasked'
  <2>1. ran /\ saw["source"] # {"good"} /\ changes["source"] < 2 => after["source"] # "good"
    BY <1>3 DEF ChangesCounted, TypeOK
  <2> QED
    BY <1>1, <1>2, <1>3, <2>1, DecideFacts DEF DriftNotMasked, worldVars
<1> QED
  BY <1>4, <1>5, <1>6, <1>7, <1>8 DEF IInv

LEMMA AroundIInv ==
  ASSUME IInv, Change \/ Abort \/ UNCHANGED vars
  PROVE  IInv'
<1> USE ThingFacts
<1>1. CASE Change
  <2>1. /\ pc # "done"
        /\ UNCHANGED <<pc, native, aborted, before, after, ran, run, streams, result>>
    BY <1>1 DEF Change
  <2>2. PICK t \in Thing, version \in Version :
          /\ version \in VersionsOf(t) \ {world[t]}
          /\ world' = [world EXCEPT ![t] = version]
          /\ changes' = [changes EXCEPT ![t] = @ + 1]
          /\ saw' = IF pc = "running" THEN [saw EXCEPT ![t] = @ \cup {version}] ELSE saw
    BY <1>1 DEF Change
  <2>3. TypeOK /\ Ordered /\ ChangesCounted
    BY DEF IInv
  <2>4. TypeOK'
    <3>1. world' \in [Thing -> Version] /\ changes' \in [Thing -> Nat]
      BY <2>2, <2>3 DEF TypeOK
    <3>2. world'["ignore"] # "gone"
      BY <2>2, <2>3 DEF TypeOK, VersionsOf
    <3>3. saw' \in [Thing -> SUBSET Version]
      BY <2>2, <2>3 DEF TypeOK
    <3> QED
      BY <2>1, <2>3, <3>1, <3>2, <3>3 DEF TypeOK
  <2>5. Ordered'
    BY <2>1, <2>3 DEF Ordered
  <2>6. ChangesCounted'
    <3> SUFFICES ASSUME NEW u \in Thing, u = "ignore" => native
                 PROVE  /\ before[u] = "good" /\ world'[u] # "good" => changes'[u] >= 1
                        /\ ran /\ saw'[u] # {"good"} =>
                             /\ changes'[u] >= 1
                             /\ world'[u] = "good" \/ after[u] = "good" => changes'[u] >= 2
      BY <2>1 DEF ChangesCounted
    <3>1. world \in [Thing -> Version] /\ changes \in [Thing -> Nat]
          /\ saw \in [Thing -> SUBSET Version]
      BY <2>3 DEF TypeOK
    <3>2. CASE u # t
      BY <2>2, <2>3, <3>1, <3>2 DEF ChangesCounted
    <3>3. CASE u = t
      <4>1. changes'[u] = changes[u] + 1 /\ world'[u] = version /\ changes[u] \in Nat
        BY <2>2, <3>1, <3>3
      <4>2. CASE ran /\ saw[u] # {"good"}
        BY <2>3, <4>1, <4>2 DEF ChangesCounted
      <4>3. CASE saw[u] = {"good"} /\ saw'[u] # {"good"}
        <5>1. pc = "running" /\ saw'[u] = {"good", version}
          BY <2>2, <3>1, <3>3, <4>3
        <5>2. version # "good" /\ after[u] = "unread"
          BY <2>3, <4>3, <5>1 DEF Ordered, Unread
        <5> QED
          BY <4>1, <5>2
      <4> QED
        BY <4>1, <4>2, <4>3
    <3> QED
      BY <3>2, <3>3
  <2>7. EnvelopeBound' /\ NoSecretShown' /\ DriftNotMasked'
    BY <2>1, <2>3 DEF Ordered, EnvelopeBound, NoSecretShown, DriftNotMasked, NoResult
  <2> QED
    BY <2>4, <2>5, <2>6, <2>7 DEF IInv
<1>2. CASE Abort
  <2>1. /\ aborted' = TRUE
        /\ UNCHANGED <<pc, native, worldVars, before, after, ran, saw, run, streams, result>>
    BY <1>2 DEF Abort
  <2>2. TypeOK'
    BY <2>1 DEF IInv, TypeOK, worldVars
  <2>3. Ordered' /\ ChangesCounted'
    BY <2>1 DEF IInv, Ordered, ChangesCounted, worldVars
  <2>4. EnvelopeBound' /\ NoSecretShown' /\ DriftNotMasked'
    BY <2>1 DEF IInv, EnvelopeBound, NoSecretShown, DriftNotMasked, worldVars
  <2> QED
    BY <2>2, <2>3, <2>4 DEF IInv
<1>3. CASE UNCHANGED vars
  <2>1. TypeOK'
    BY <1>3 DEF IInv, TypeOK, vars, worldVars
  <2>2. Ordered' /\ ChangesCounted'
    BY <1>3 DEF IInv, Ordered, ChangesCounted, vars, worldVars
  <2>3. EnvelopeBound' /\ NoSecretShown' /\ DriftNotMasked'
    BY <1>3 DEF IInv, EnvelopeBound, NoSecretShown, DriftNotMasked, vars, worldVars
  <2> QED
    BY <2>1, <2>2, <2>3 DEF IInv
<1> QED
  BY <1>1, <1>2, <1>3

LEMMA NextIInv == IInv /\ [Next]_vars => IInv'
BY BeforeLaunch, LaunchIInv, AfterLaunch, ConcludeIInv, AroundIInv DEF Next

\* The inductive invariant holds in every reachable state of a broker call.
THEOREM Invariance == Spec => []IInv
BY InitIInv, NextIInv, PTL DEF Spec

\* Every state of the call is in range, and a status is one of the frozen list
\* (ENGINE_RUN_STATUSES).
THEOREM TypeCorrect == Spec => []TypeOK
<1>1. IInv => TypeOK
  BY DEF IInv
<1> QED
  BY <1>1, Invariance, PTL

\* An envelope is returned only of an engine that ran on what was requested,
\* save for what changed and changed back (the checks before and after the run).
THEOREM EnvelopeBoundHolds == Spec => []EnvelopeBound
<1>1. IInv => EnvelopeBound
  BY DEF IInv
<1> QED
  BY <1>1, Invariance, PTL

\* The result carries no secret (containsSecret, stderrExcerpt and the search
\* of the decoded envelope).
THEOREM NoSecretShownHolds == Spec => []NoSecretShown
<1>1. IInv => NoSecretShown
  BY DEF IInv
<1> QED
  BY <1>1, Invariance, PTL

\* Drift of the source is never told as less (the order of decideOutcome).
THEOREM DriftNotMaskedHolds == Spec => []DriftNotMasked
<1>1. IInv => DriftNotMasked
  BY DEF IInv
<1> QED
  BY <1>1, Invariance, PTL

-----------------------------------------------------------------------------
(***************************************************************************)
(* The command.                                                            *)
(***************************************************************************)

LEMMA InitCInv == CommandInit => CInv
BY DEF CommandInit, Init, CInv, LaunchTold, CommandVerdict, NoRun

\* The row that decides, of an engine that was launched.
LEMMA DecideOfLaunched ==
  ASSUME ~run.missing
  PROVE  /\ Decide.status \notin {"UNAVAILABLE", "NOT_RUN"}
         /\ Decide.status = "INCOMPLETE" =>
              Decide.reason \in {"SOURCE_BINDING_UNAVAILABLE", "SOURCE_DRIFT_AT_END", "CANCELLED",
                                "OUTPUT_CAP_EXCEEDED", "TREE_ESCAPE", "NATIVE_NO_INPUT",
                                "PARTIAL_COVERAGE"}
<1>1. Decide \in {Error, Drift, Shortfall, Reported} \ {NoRow}
  <2>1. Reported # NoRow
    BY DEF Reported, Row, NoRow
  <2> QED
    BY <2>1 DEF Decide, FirstRow
<1>2. Error = NoRow \/ Error.status \notin {"UNAVAILABLE", "NOT_RUN", "INCOMPLETE"}
  BY DEF Error, Row, NoRow
<1>3. Drift = NoRow \/ (/\ Drift.status = "INCOMPLETE"
                        /\ Drift.reason \in {"SOURCE_BINDING_UNAVAILABLE", "SOURCE_DRIFT_AT_END"})
  BY DEF Drift, Row, NoRow
<1>4. Shortfall = NoRow \/ (/\ Shortfall.status = "INCOMPLETE"
                            /\ Shortfall.reason \in {"CANCELLED", "OUTPUT_CAP_EXCEEDED",
                                                     "TREE_ESCAPE", "NATIVE_NO_INPUT"})
  BY DEF Shortfall, Row, NoRow
<1>5. /\ Reported.status \notin {"UNAVAILABLE", "NOT_RUN"}
      /\ Reported.status = "INCOMPLETE" => Reported.reason = "PARTIAL_COVERAGE"
  BY DEF Reported, Row
<1> QED
  BY <1>1, <1>2, <1>3, <1>4, <1>5

\* A step of the broker keeps what is told of a launch.
LEMMA BrokerLaunchTold ==
  ASSUME IInv, LaunchTold, Next
  PROVE  LaunchTold' /\ (ran' => ran \/ pc = "launch")
<1>0. TypeOK /\ Ordered
  BY DEF IInv
<1>1. CASE RefuseRequest \/ AdmitRequest \/ CheckExecutable \/ CheckConfig \/ ReadSource \/ ReadIgnore
  <2>1. /\ pc \in {"request", "executable", "config", "source", "ignore"} /\ ran' = ran /\ run' = run
    BY <1>1 DEF RefuseRequest, AdmitRequest, CheckExecutable, CheckConfig, ReadSource, ReadIgnore
  <2>2. ~ran /\ ~run.missing
    BY <1>0, <2>1 DEF Ordered, LaunchTold, Running
  <2> QED
    BY <2>1, <2>2 DEF LaunchTold
<1>2. CASE LaunchAborted \/ LaunchFails
  <2>1. ~ran /\ pc' \in Running \cup {"done"} /\ ran' = ran
    BY <1>0, <1>2 DEF LaunchAborted, LaunchFails, Refuse, Ordered, Running
  <2> QED
    BY <2>1 DEF LaunchTold
<1>3. CASE Launch
  <2>1. pc = "launch" /\ pc' = "running" /\ run' = run
    BY <1>3 DEF Launch
  <2>2. ~run.missing
    BY <2>1 DEF LaunchTold, Running
  <2> QED
    BY <2>1, <2>2 DEF LaunchTold
<1>4. CASE EngineEnds
  <2>1. pc' = "endSource" /\ ~run'.missing /\ ran' = ran
    BY <1>4 DEF EngineEnds, EngineResult
  <2> QED
    BY <2>1 DEF LaunchTold
<1>5. CASE ReadSourceEnd \/ CheckExecutableAfter \/ CheckConfigAfter \/ ReadIgnoreAfter \/ ReadStreams
  <2>1. pc' \in Running /\ pc' # "done" /\ run' = run /\ ran' = ran
    BY <1>5 DEF ReadSourceEnd, CheckExecutableAfter, CheckConfigAfter, ReadIgnoreAfter, ReadStreams,
       Running
  <2> QED
    BY <2>1 DEF LaunchTold
<1>6. CASE Conclude
  <2>1. /\ pc' = "done" /\ run' = run /\ ran' = ran
        /\ \/ result'.status = Decide.status /\ result'.reason = Decide.reason
           \/ result'.status = "MALFORMED_OUTPUT"
    BY <1>6 DEF Conclude, Row
  <2>2. ran => ~run.missing
    BY DEF LaunchTold
  <2> QED
    BY <2>1, <2>2, DecideOfLaunched DEF LaunchTold
<1>7. CASE Change \/ Abort
  <2>1. pc' = pc /\ run' = run /\ ran' = ran /\ result' = result
    BY <1>7 DEF Change, Abort
  <2> QED
    BY <2>1 DEF LaunchTold
<1> QED
  BY <1>1, <1>2, <1>3, <1>4, <1>5, <1>6, <1>7 DEF Next

LEMMA NextCInv == IInv /\ CInv /\ [CommandNext]_commandVars => CInv'
<1> SUFFICES ASSUME IInv, CInv, [CommandNext]_commandVars PROVE CInv'
  OBVIOUS
<1>1. CASE NothingToScan \/ CannotScan
  <2>1. /\ ~ran /\ command' = "done" /\ UNCHANGED vars /\ report' \in {NothingScanned, Failed}
    BY <1>1 DEF NothingToScan, CannotScan, CInv
  <2>2. LaunchTold'
    BY <2>1 DEF CInv, LaunchTold, vars
  <2>3. CommandVerdict'
    BY <2>1 DEF CommandVerdict, NothingScanned, Failed, vars
  <2> QED
    BY <2>1, <2>2, <2>3 DEF CInv
<1>2. CASE CallBroker
  BY <1>2 DEF CallBroker, CInv, LaunchTold, CommandVerdict, vars
<1>3. CASE BrokerStep
  <2>1. command' = "called" /\ Next /\ LaunchTold
    BY <1>3 DEF BrokerStep, CInv
  <2> QED
    BY <2>1, BrokerLaunchTold DEF CInv, CommandVerdict
<1>4. CASE Answer
  <2>1. PICK found \in BOOLEAN :
          (found => result.envelope) /\ report' = OutcomeFromRun(result, found)
    BY <1>4 DEF Answer
  <2>2. pc = "done" /\ command' = "done" /\ LaunchTold /\ UNCHANGED vars
    BY <1>4 DEF Answer, CInv
  <2>3. LaunchTold'
    BY <2>2 DEF LaunchTold, vars
  <2>4. /\ report'.exit \in {1, 2, 3, 4}
        /\ report'.findings => /\ ran /\ report'.exit = 1 /\ run.outcome = "exited"
                               /\ saw["source"] = {"good"} \/ changes["source"] > 1
        /\ ran /\ saw["source"] # {"good"} /\ changes["source"] < 2 => report'.exit \in {2, 3}
    <3>0. changes["source"] \in Nat /\ "source" \in Thing
      BY ThingFacts DEF IInv, TypeOK
    <3>1. report'.exit \in {1, 2, 3, 4} /\ (report'.findings => report'.exit = 1 /\ result.envelope)
      BY <2>1 DEF OutcomeFromRun, Incomplete, NothingScanned, Failed
    <3>2. result.envelope =>
            /\ ran /\ run.outcome = "exited"
            /\ changes["source"] < 2 => saw["source"] = {"good"}
      BY <2>2, <3>0 DEF IInv, EnvelopeBound
    <3>3. ASSUME ran, saw["source"] # {"good"}, changes["source"] < 2
          PROVE  report'.exit \in {2, 3}
      <4>1. result.reason \notin {"CANCELLED", "OUTPUT_CAP_EXCEEDED", "TREE_ESCAPE", "NATIVE_NO_INPUT",
                                 "ENVELOPE", "PARTIAL_COVERAGE", "RUN_COMPLETE"}
        BY <2>2, <3>3 DEF IInv, DriftNotMasked
      <4>2. /\ result.status \notin {"UNAVAILABLE", "NOT_RUN"}
            /\ result.status = "INCOMPLETE" =>
                 result.reason \in {"SOURCE_BINDING_UNAVAILABLE", "SOURCE_DRIFT_AT_END"}
        BY <2>2, <3>3, <4>1 DEF LaunchTold
      <4>3. report' = Failed \/ report'.exit = 3
        BY <2>1, <4>2 DEF OutcomeFromRun
      <4> QED
        BY <4>3 DEF Failed
    <3> QED
      BY <3>0, <3>1, <3>2, <3>3
  <2>5. CommandVerdict'
    BY <2>2, <2>4 DEF CommandVerdict, vars, worldVars
  <2> QED
    BY <2>2, <2>3, <2>5 DEF CInv
<1>5. CASE UNCHANGED commandVars
  BY <1>5 DEF commandVars, vars, worldVars, CInv, LaunchTold, CommandVerdict
<1> QED
  BY <1>1, <1>2, <1>3, <1>4, <1>5 DEF CommandNext

\* The command adds nothing to what the broker does: each of its behaviours is
\* one of the broker's, so whatever is proved of the broker holds in it.
THEOREM CommandRunsBroker == CommandSpec => Spec
<1>1. CommandInit => Init
  BY DEF CommandInit
<1>2. [CommandNext]_commandVars => [Next]_vars
  BY DEF CommandNext, NothingToScan, CannotScan, CallBroker, BrokerStep, Answer, commandVars
<1> QED
  BY <1>1, <1>2, PTL DEF CommandSpec, Spec

\* What `ascout security' answers (security-gitleaks.ts): findings are told with
\* exit code 1 and only of an engine that ran to its end over the source the
\* command read; a source seen to change while it ran is drift or an error;
\* there is no clean exit.
THEOREM CommandVerdictHolds == CommandSpec => []CommandVerdict
<1>1. CInv => CommandVerdict
  BY DEF CInv
<1>2. CommandSpec => []IInv
  BY CommandRunsBroker, Invariance, PTL
<1> QED
  BY <1>1, <1>2, InitCInv, NextCInv, PTL DEF CommandSpec

-----------------------------------------------------------------------------
(***************************************************************************)
(* What the broker relies on.                                              *)
(***************************************************************************)

\* An answer of a run that the broker asks for, with require_tree_exit.
AnswerAsAssumed ==
  step = "done" /\ request.tree =>
    IF Root \in unborn
      THEN /\ answer.clean /\ answer.outcome \in {"cancelled", "error"}
           /\ answer.outcome = "cancelled" => signalAborted
      ELSE [outcome |-> answer.outcome, clean |-> answer.clean, missing |-> cause = "enoent"]
             \in EngineResult(signalAborted)

\* A run is cancelled by its signal, and one that never started says so.
Asked ==
  /\ cause = "cancelled" \/ Returned({"cancelled"}) => signalAborted
  /\ cause = "enoent" => ~request.tree
  /\ Root \in unborn => step \in {"start", "launch", "done"}
  /\ step = "done" /\ Root \in unborn => answer.clean /\ answer.outcome \in {"cancelled", "error"}

LEMMA AskedKept == ProcessInv /\ Asked /\ [ProcessNext]_processVars => Asked'
<1> SUFFICES ASSUME ProcessInv, Asked, [ProcessNext]_processVars PROVE Asked'
  OBVIOUS
<1> USE DEF Asked, Finish, Returned, tree, seen, told
<1>1. CASE UNCHANGED processVars
  BY <1>1 DEF processVars
<1>2. CASE Environment
  <2>1. CASE \E p, q \in Proc : Fork(p, q)
    BY <2>1 DEF Fork
  <2>2. CASE \E p \in Proc : Detach(p) \/ DropPipes(p) \/ Exit(p)
    BY <2>2 DEF Detach, DropPipes, Exit
  <2>3. CASE SignalAborts \/ CapExceeded \/ StreamError
    BY <2>3 DEF SignalAborts, CapExceeded, StreamError
  <2> QED
    BY <1>2, <2>1, <2>2, <2>3 DEF Environment
<1>3. CASE Supervisor
  <2>1. CASE Start \/ SpawnFails \/ Spawn
    BY <2>1 DEF Start, SpawnFails, Spawn, ProcessInv, Course
  <2>2. CASE RootExit \/ Timeout \/ DrainExpires
    BY <2>2 DEF RootExit, Timeout, DrainExpires, Died
  <2>3. CASE Close \/ GroupWait \/ EnoentClosed \/ EnoentExpires
    BY <2>3 DEF Close, GroupWait, EnoentClosed, EnoentExpires, ProcessInv, Course
  <2>4. CASE Terminate \/ TaskKill \/ TermWait \/ Kill \/ KillWait
    BY <2>4 DEF Terminate, TaskKill, TermWait, Kill, KillWait, Terminated
  <2>5. CASE CloseArrives \/ CloseExpires
    BY <2>5 DEF CloseArrives, CloseExpires, StopResult
  <2> QED
    BY <1>3, <2>1, <2>2, <2>3, <2>4, <2>5 DEF Supervisor
<1> QED
  BY <1>1, <1>2, <1>3 DEF ProcessNext

\* What the broker assumes of runProcess is so: of an engine that was started it is told one of
\* the results EngineEnds allows, and of one that was not, what LaunchAborted and LaunchFails
\* allow, however many processes the engine forks.
THEOREM ProcessServesBroker == ProcessSpec => []AnswerAsAssumed
<1>1. ProcessInit => Asked
  BY DEF ProcessInit, Asked, Returned
<1>2. ProcessInv /\ Asked => AnswerAsAssumed
  <2> SUFFICES ASSUME ProcessInv, Asked, step = "done", request.tree PROVE AnswerAsAssumed
    BY DEF AnswerAsAssumed
  <2> QED
    BY DEF ProcessInv, ProcessTypeOK, ErrorsNotMasked, Asked, AnswerAsAssumed, EngineResult,
       ProcessResult, Result, Outcome, StopReason, Returned
<1> QED
  BY <1>1, <1>2, ProcessInitInv, ProcessNextInv, AskedKept, PTL DEF ProcessSpec
================================================================================
