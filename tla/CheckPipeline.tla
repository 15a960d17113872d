----------------------------- MODULE CheckPipeline -----------------------------
(***************************************************************************)
(* One `ascout check` (runCheck of src/src/check.ts): the run lock and the *)
(* run directory are taken, the configuration is read, the source state is *)
(* recorded, tasks are admitted, planned and executed one after another,   *)
(* failing tests are rerun, the source state is recorded again, and a      *)
(* receipt with an exit code is built, validated and written.              *)
(*                                                                         *)
(* The working tree may be edited between any two steps, and every step    *)
(* that touches the file system, git or a process may throw.  A version of *)
(* the tree stands for its digest and for all that is read from it.        *)
(***************************************************************************)
EXTENDS Naturals, Sequences

CONSTANTS
  Tasks,     \* the tasks in the order of FIXED_SEMANTIC_TASKS
  Test,      \* test identities, numbers in their sort order
  MaxShown,  \* bound: how often one pass lists the same test identity
  MaxEdits   \* bound: edits of the working tree in one behaviour

Task == {Tasks[k] : k \in 1..Len(Tasks)}

\* Versions of the working tree; an edit may bring an earlier one back.
Tree == 0..MaxEdits

ASSUME CheckPipelineAssumption ==
  /\ Tasks \in Seq(STRING) /\ "test" \in Task
  /\ \A j, k \in 1..Len(Tasks) : Tasks[j] = Tasks[k] => j = k
  /\ Test \subseteq Nat
  /\ MaxShown \in Nat /\ MaxEdits \in Nat

VARIABLES
  pc,        \* where runCheck stands
  next,      \* index of the task to handle
  tree,      \* the working tree as it is now
  edits,     \* edits made so far
  upset,     \* what went wrong around the run: a throw, the clock, the repository
  lock,      \* whether this run holds the run lock
  runDir,    \* this run's directory
  config,    \* the tree that configuration and discovery were read from
  start,     \* sourceStart
  compared,  \* the tree that was compared with HEAD
  admitted,  \* launchAllowed of each task
  plan,      \* the plan of each task
  narrow,    \* selectionMode is native_related
  status,    \* the status of each task, "pending" before it is handled
  counts,    \* observations.runs and .failures of the test task
  obs,       \* what the machine results say of each test, pass after pass
  findings,  \* the tests the receipt reports
  safe,      \* the selection limitation unsafe_selection was removed
  receipt,   \* what buildReceipt derives
  file,      \* receipt.json
  outcome,   \* how runCheck ends
  results    \* history: how the processes of each task ended, reruns left out

taskVars == <<admitted, plan, narrow, status, counts, obs, findings, safe, results>>
sourceVars == <<config, start, compared>>
endVars == <<receipt, file, outcome>>
holdVars == <<lock, runDir>>
worldVars == <<tree, edits, upset>>
vars == <<pc, next, worldVars, holdVars, sourceVars, taskVars, endVars>>

Outcome == {"PASS", "FAIL", "ERROR"}
Status == Outcome \cup {"FLAKY", "NOT_RUN", "NOT_APPLICABLE"}
Executed == {"PASS", "FAIL", "FLAKY"}
Verdict == {"passed", "failed"}
NoExit == 5  \* there is no receipt yet
Plan == {"planned", "not_run", "not_applicable"}

Init ==
  /\ pc = "acquire" /\ next = 1
  /\ tree = 0 /\ edits = 0 /\ upset = {}
  /\ lock = FALSE /\ runDir = "none"
  /\ config = tree /\ start = tree /\ compared = tree
  /\ admitted = [t \in Task |-> FALSE]
  /\ plan = [t \in Task |-> "not_run"]
  /\ narrow = FALSE
  /\ status = [t \in Task |-> "pending"]
  /\ counts = [runs |-> 0, failures |-> 0]
  /\ obs = [t \in Test |-> <<>>]
  /\ findings = {} /\ safe = FALSE
  /\ receipt = [exit |-> NoExit, stability |-> "unknown"]
  /\ file = "none" /\ outcome = "running"
  /\ results = [t \in Task |-> {}]

-----------------------------------------------------------------------------
(* Lock, configuration, run directory, source state, plans.                *)

\* acquireRunLock refuses: there is nothing to complete or to release.
LockRefused ==
  /\ pc = "acquire"
  /\ pc' = "done" /\ outcome' = "thrown" /\ upset' = upset \cup {"throw"}
  /\ UNCHANGED <<next, tree, edits, holdVars, sourceVars, taskVars, receipt, file>>

AcquireLock ==
  /\ pc = "acquire"
  /\ pc' = "discover" /\ lock' = TRUE
  /\ UNCHANGED <<next, worldVars, runDir, sourceVars, taskVars, endVars>>

\* collectDiscoveredProject, observeEnvironment and loadConfig.
Discover ==
  /\ pc = "discover"
  /\ pc' = "createRun" /\ config' = tree
  /\ UNCHANGED <<next, worldVars, holdVars, start, compared, taskVars, endVars>>

CreateRun ==
  /\ pc = "createRun"
  /\ pc' = "source" /\ runDir' = "active"
  /\ UNCHANGED <<next, worldVars, lock, sourceVars, taskVars, endVars>>

ReadSource ==
  /\ pc = "source"
  /\ pc' = "compare" /\ start' = tree
  /\ UNCHANGED <<next, worldVars, holdVars, config, compared, taskVars, endVars>>

\* A task is refused when an authority path of its own changed and the command
\* line does not override that.
Admission(changed, override) ==
  [t \in Task |-> t \notin changed \/ override]

Compare ==
  /\ pc = "compare"
  /\ \E changed \in SUBSET Task, override \in BOOLEAN, widened \in BOOLEAN :
       /\ admitted' = Admission(changed, override)
       /\ narrow' = ~widened
  /\ plan' \in [Task -> Plan]
  /\ pc' = "task" /\ compared' = tree
  /\ UNCHANGED <<next, worldVars, holdVars, config, start, status, counts, obs,
                 findings, safe, results, endVars>>

-----------------------------------------------------------------------------
(* The tasks.                                                              *)

Current == Tasks[next]
AtTask == pc = "task" /\ next <= Len(Tasks)

\* The status a task that launches no process gets.
Skip ==
  /\ AtTask
  /\ ~admitted[Current] \/ plan[Current] # "planned"
  /\ status' = [status EXCEPT ![Current] =
       IF admitted[Current] /\ plan[Current] = "not_applicable"
         THEN "NOT_APPLICABLE" ELSE "NOT_RUN"]
  /\ next' = next + 1
  /\ UNCHANGED <<pc, worldVars, holdVars, sourceVars, admitted, plan, narrow, counts,
                 obs, findings, safe, results, endVars>>

Launchable == AtTask /\ admitted[Current] /\ plan[Current] = "planned"

\* executePlannedTask, for every task but the tests.
Execute ==
  /\ Launchable /\ Current # "test"
  /\ \E result \in Outcome :
       /\ status' = [status EXCEPT ![Current] = result]
       /\ results' = [results EXCEPT ![Current] = @ \cup {result}]
  /\ next' = next + 1
  /\ UNCHANGED <<pc, worldVars, holdVars, sourceVars, admitted, plan, narrow, counts,
                 obs, findings, safe, endVars>>

\* What one pass of the test runner can leave behind: a process that failed to
\* run, or invalid machine results or coverage, is an ERROR and shows nothing.
\* Else the exit code alone decides, and the machine results, of which only the
\* shape is checked, may list any verdicts: a runner may be configured to exit
\* with 0 although tests failed, and to fail although none did.
Shown == UNION {[1..n -> Verdict] : n \in 0..MaxShown}

Pass ==
  {[status |-> "ERROR", shown |-> [t \in Test |-> <<>>]]} \cup
  {[status |-> exited, shown |-> shown] : exited \in {"PASS", "FAIL"}, shown \in [Test -> Shown]}

FailuresOf(pass) == IF pass.status = "FAIL" THEN 1 ELSE 0

\* Mutant. An error of the second pass is dropped.
CombineForgives(first, second) ==
  IF "FAIL" \in {first, second} THEN "FAIL" ELSE first

\* combineTestPasses, of the statuses.
Combine(first, second) ==
  IF "ERROR" \in {first, second} THEN "ERROR"
  ELSE IF "FAIL" \in {first, second} THEN "FAIL"
  ELSE "PASS"

FirstPass ==
  /\ Launchable /\ Current = "test"
  /\ \E pass \in Pass, gap \in BOOLEAN :
       /\ status' = [status EXCEPT !["test"] = pass.status]
       /\ results' = [results EXCEPT !["test"] = @ \cup {pass.status}]
       /\ counts' = [runs |-> 1, failures |-> FailuresOf(pass)]
       /\ obs' = pass.shown
       /\ pc' = IF pass.status # "ERROR" /\ narrow /\ gap THEN "widen" ELSE "account"
  /\ UNCHANGED <<next, worldVars, holdVars, sourceVars, admitted, plan, narrow,
                 findings, safe, endVars>>

\* A changed source without a coverage point makes the runner run everything
\* once more, unless the wider pass cannot be planned.
SecondPass ==
  /\ pc = "widen"
  /\ \E pass \in Pass :
       /\ status' = [status EXCEPT !["test"] = Combine(status["test"], pass.status)]
       /\ results' = [results EXCEPT !["test"] = @ \cup {pass.status}]
       /\ counts' = [runs |-> counts.runs + 1, failures |-> counts.failures + FailuresOf(pass)]
       /\ obs' = [t \in Test |-> obs[t] \o pass.shown[t]]
  /\ pc' = "account"
  /\ UNCHANGED <<next, worldVars, holdVars, sourceVars, admitted, plan, narrow,
                 findings, safe, endVars>>

NotWidened ==
  /\ pc = "widen"
  /\ pc' = "account"
  /\ UNCHANGED <<next, worldVars, holdVars, sourceVars, taskVars, endVars>>

\* finalizeSelectionAccount; coverage is there whenever the task is no ERROR.
Account ==
  /\ pc = "account"
  /\ pc' = "rerun" /\ safe' = (status["test"] # "ERROR")
  /\ UNCHANGED <<next, worldVars, holdVars, sourceVars, admitted, plan, narrow, status,
                 counts, obs, findings, results, endVars>>

\* failingTestIdentities, and the first of them in their order.
Failing == {t \in Test : \E i \in 1..Len(obs[t]) : obs[t][i] = "failed"}
Target == CHOOSE t \in Failing : \A u \in Failing : t <= u

NeedsRerun ==
  /\ status["test"] = "FAIL" /\ Failing # {}
  /\ Len(obs[Target]) < 3
  /\ \A i \in 1..Len(obs[Target]) : obs[Target][i] = "failed"

\* executeTargetedTestObservation.  A rerun that errs, or whose exit code and
\* machine result disagree, observes nothing and is the last.
Rerun ==
  /\ pc = "rerun" /\ NeedsRerun
  /\ \/ /\ \E verdict \in Verdict :
             /\ obs' = [obs EXCEPT ![Target] = Append(@, verdict)]
             /\ counts' = [runs |-> counts.runs + 1, failures |->
                             counts.failures + (IF verdict = "failed" THEN 1 ELSE 0)]
        /\ UNCHANGED pc
     \/ /\ pc' = "classify"
        /\ UNCHANGED <<obs, counts>>
  /\ UNCHANGED <<next, worldVars, holdVars, sourceVars, admitted, plan, narrow, status,
                 findings, safe, results, endVars>>

\* reproduced = false: the test was seen to fail and to pass.
Contradictory(t) == \A verdict \in Verdict : \E i \in 1..Len(obs[t]) : obs[t][i] = verdict

\* normalizedAggregateTestStatus.
Aggregate(failing) ==
  IF failing # {} /\ \A t \in failing : Contradictory(t) THEN "FLAKY" ELSE "FAIL"

\* Mutant. Only the test that was rerun is reported.
ClassifyTargetOnly ==
  /\ pc = "classify" \/ (pc = "rerun" /\ ~NeedsRerun)
  /\ IF status["test"] = "FAIL" /\ Failing # {}
       THEN /\ findings' = {Target}
            /\ status' = [status EXCEPT !["test"] = Aggregate(Failing)]
       ELSE UNCHANGED <<findings, status>>
  /\ pc' = "task" /\ next' = next + 1
  /\ UNCHANGED <<worldVars, holdVars, sourceVars, admitted, plan, narrow, counts, obs,
                 safe, results, endVars>>

\* Mutant. The test task is not left behind.
ClassifyStays ==
  /\ pc = "classify" \/ (pc = "rerun" /\ ~NeedsRerun)
  /\ pc' = "task"
  /\ UNCHANGED <<next, worldVars, holdVars, sourceVars, taskVars, endVars>>

\* The end of normalizeFailedTestExecution.
Classify ==
  /\ pc = "classify" \/ (pc = "rerun" /\ ~NeedsRerun)
  /\ IF status["test"] = "FAIL" /\ Failing # {}
       THEN /\ findings' = Failing
            /\ status' = [status EXCEPT !["test"] = Aggregate(Failing)]
       ELSE UNCHANGED <<findings, status>>
  /\ pc' = "task" /\ next' = next + 1
  /\ UNCHANGED <<worldVars, holdVars, sourceVars, admitted, plan, narrow, counts, obs,
                 safe, results, endVars>>

-----------------------------------------------------------------------------
(* The receipt.                                                            *)

\* Mutant. One executed task is enough, whatever was left out.
CompletenessOfAny(gap) ==
  IF \E t \in Task : status[t] = "ERROR" THEN "unknown_due_to_error"
  ELSE IF (\A t \in Task : status[t] \notin Executed) \/ ~safe \/ gap
    THEN "materially_incomplete"
  ELSE "complete"

\* deriveReceiptCompleteness; gap is exerciseHasMaterialGap.
Completeness(gap) ==
  IF \E t \in Task : status[t] = "ERROR" THEN "unknown_due_to_error"
  ELSE IF \/ \A t \in Task : status[t] \notin Executed
          \/ \E t \in Task : status[t] = "NOT_RUN"
          \/ ~safe \/ gap
    THEN "materially_incomplete"
  ELSE "complete"

\* decideReceiptExitCode
ExitCode(stability, completeness) ==
  IF completeness = "unknown_due_to_error" \/ stability = "unknown" THEN 2
  ELSE IF stability = "tree_drifted" THEN 3
  ELSE IF findings # {} \/ \E t \in Task : status[t] \in {"FAIL", "FLAKY"} THEN 1
  ELSE IF completeness # "complete" THEN 4
  ELSE 0

\* Mutant. The tree is checked against the one that was compared.
StabilityOfCompared ==
  IF "repository" \in upset THEN "unknown"
  ELSE IF tree = compared THEN "stable" ELSE "tree_drifted"

\* deriveStability, of the source state read at the end.
Stability ==
  IF "repository" \in upset THEN "unknown"
  ELSE IF tree = start THEN "stable" ELSE "tree_drifted"

\* validateReceiptSemantics, as far as runCheck can break it: the repository
\* must stay the same, the observations must fit the status of the tests, and
\* a clock that was set back may, or may not, have reversed a time line.
ObservationsFit ==
  /\ status["test"] = "PASS" => counts.failures = 0
  /\ status["test"] = "FAIL" => counts.failures >= 1
  /\ status["test"] = "FLAKY" =>
       counts.runs >= 2 /\ counts.failures >= 1 /\ counts.failures < counts.runs

Valid(inOrder) ==
  /\ "repository" \notin upset
  /\ ObservationsFit
  /\ inOrder

\* The second composeSourceState, buildReceipt and assertSemanticallyValid.
Conclude ==
  /\ pc = "task" /\ next > Len(Tasks)
  /\ \E gap \in BOOLEAN, inOrder \in {"clock" \notin upset, TRUE} :
       /\ status["test"] \notin Executed => ~gap
       /\ IF Valid(inOrder)
            THEN /\ receipt' = [exit |-> ExitCode(Stability, Completeness(gap)),
                                stability |-> Stability]
                 /\ pc' = "write"
                 /\ UNCHANGED outcome
            ELSE /\ outcome' = "thrown" /\ pc' = "complete"
                 /\ UNCHANGED receipt
  /\ UNCHANGED <<next, worldVars, holdVars, sourceVars, taskVars, file>>

Write ==
  /\ pc = "write"
  /\ file' = "full" /\ outcome' = "receipt" /\ pc' = "complete"
  /\ UNCHANGED <<next, worldVars, holdVars, sourceVars, taskVars, receipt>>

-----------------------------------------------------------------------------
(* The finally blocks.  What they throw replaces what was to be returned.  *)

Complete ==
  /\ pc = "complete"
  /\ pc' = "release" /\ runDir' = "complete"
  /\ UNCHANGED <<next, worldVars, lock, sourceVars, taskVars, endVars>>

CompleteFails ==
  /\ pc = "complete"
  /\ pc' = "release" /\ outcome' = "thrown" /\ upset' = upset \cup {"throw"}
  /\ UNCHANGED <<next, tree, edits, holdVars, sourceVars, taskVars, receipt, file>>

Release ==
  /\ pc = "release"
  /\ pc' = "done" /\ lock' = FALSE
  /\ UNCHANGED <<next, worldVars, runDir, sourceVars, taskVars, endVars>>

ReleaseFails ==
  /\ pc = "release"
  /\ pc' = "done" /\ lock' \in BOOLEAN
  /\ outcome' = "thrown" /\ upset' = upset \cup {"throw"}
  /\ UNCHANGED <<next, tree, edits, runDir, sourceVars, taskVars, receipt, file>>

\* Anything between the lock and the return of the receipt may throw.  A write
\* that fails may leave part of receipt.json.
Throws ==
  /\ pc \in {"discover", "createRun", "source", "compare", "task", "widen", "rerun", "write"}
  /\ outcome' = "thrown" /\ upset' = upset \cup {"throw"}
  /\ pc' = IF runDir = "active" THEN "complete" ELSE "release"
  /\ file' \in IF pc = "write" THEN {"none", "partial"} ELSE {file}
  /\ UNCHANGED <<next, tree, edits, holdVars, sourceVars, taskVars, receipt>>

-----------------------------------------------------------------------------
(* Around the run.                                                         *)

Edit ==
  /\ pc # "done" /\ edits < MaxEdits
  /\ tree' \in Tree \ {tree}
  /\ edits' = edits + 1
  /\ UNCHANGED <<pc, next, upset, holdVars, sourceVars, taskVars, endVars>>

\* The clock is set back after the run started, or the remote that identifies
\* the repository changes.
Disturb ==
  /\ pc \notin {"acquire", "discover", "createRun", "source", "done"}
  /\ \E what \in {"clock", "repository"} \ upset : upset' = upset \cup {what}
  /\ UNCHANGED <<pc, next, tree, edits, holdVars, sourceVars, taskVars, endVars>>

Step ==
  \/ LockRefused \/ AcquireLock \/ Discover \/ CreateRun \/ ReadSource \/ Compare
  \/ Skip \/ Execute \/ FirstPass \/ SecondPass \/ NotWidened \/ Account \/ Rerun
  \/ Classify \/ Conclude \/ Write \/ Complete \/ CompleteFails \/ Release
  \/ ReleaseFails \/ Throws

Next == Step \/ Edit \/ Disturb

Spec == Init /\ [][Next]_vars
FairSpec == Spec /\ WF_vars(Step)

-----------------------------------------------------------------------------
(* Properties.                                                             *)

\* Every variable stays in its range.
TypeOK ==
  /\ pc \in {"acquire", "discover", "createRun", "source", "compare", "task", "widen",
             "account", "rerun", "classify", "write", "complete", "release", "done"}
  /\ next \in 1..(Len(Tasks) + 1)
  /\ tree \in Tree /\ edits \in 0..MaxEdits
  /\ upset \subseteq {"throw", "clock", "repository"}
  /\ lock \in BOOLEAN /\ runDir \in {"none", "active", "complete"}
  /\ {config, start, compared} \subseteq Tree
  /\ admitted \in [Task -> BOOLEAN] /\ plan \in [Task -> Plan] /\ narrow \in BOOLEAN
  /\ status \in [Task -> Status \cup {"pending"}]
  /\ counts.runs \in Nat /\ counts.failures \in 0..counts.runs
  /\ obs \in [Test -> Seq(Verdict)]
  /\ findings \subseteq Test /\ safe \in BOOLEAN
  /\ receipt.exit \in 0..NoExit
  /\ file \in {"none", "partial", "full"} /\ outcome \in {"running", "receipt", "thrown"}
  /\ results \in [Task -> SUBSET Outcome]

\* A receipt with exit code 0 stands for a run in which every task was
\* admitted and is either not applicable or exited with 0 in every pass it
\* made, and no rerun of a test failed: neither a second pass nor a rerun can
\* make up for a failure.  What the machine results of a pass that exited with 0
\* list is no part of this, see CleanSawNoFailure.
CleanIsEarned ==
  file = "full" /\ receipt.exit = 0 =>
    /\ \A t \in Task : admitted[t] /\ (status[t] = "NOT_APPLICABLE" \/ results[t] = {"PASS"})
    /\ counts.failures = 0 /\ findings = {}

\* The exit code of a receipt is 2 just when a process of a task did not run
\* to an end that can be trusted, be it only in the second pass of the tests;
\* and a pass that failed shows as 1, unless an error or a drift of the source
\* takes precedence.
FailureShows ==
  file = "full" =>
    /\ receipt.exit = 2 <=> \E t \in Task : "ERROR" \in results[t]
    /\ (\E t \in Task : "FAIL" \in results[t]) => receipt.exit \in {1, 2, 3}

\* When some pass of the tests failed and none erred, the receipt reports every
\* test that any pass or rerun saw fail: also the ones no rerun was spent on, and
\* the ones only a pass that exited with 0 lists.  In no other case does it
\* report a test.
FindingsComplete ==
  file = "full" => findings = IF "FAIL" \in results["test"] /\ "ERROR" \notin results["test"]
                                THEN Failing ELSE {}

\* runCheck returns a receipt only when receipt.json is written, the run
\* directory is completed and the lock is released.
ReturnsSettled ==
  outcome = "receipt" /\ pc = "done" => file = "full" /\ runDir = "complete" /\ ~lock

\* A stable receipt compares with HEAD the very tree it names, although that
\* tree is read again for the comparison, unless it was edited and the edit
\* undone while runCheck ran.
StableBindsComparison ==
  file = "full" /\ receipt.stability = "stable" /\ edits < 2 => compared = start

\* What a receipt says is settled when the caller has it: it is on disk, and it names the
\* tree it was made of.
ReceiptSettled == ReturnsSettled /\ StableBindsComparison

\* runCheck ends: the tasks are handled once each and reruns come to an end.
Ends == <>[](pc = "done")

\* What the specification says of PASS, that it only describes successful work:
\* a check that exits with 0 saw no test fail.
CleanSawNoFailure ==
  file = "full" /\ receipt.exit = 0 => Failing = {}

\* What data-model and plan say of the tests: observations that contradict
\* each other make the task FLAKY, and a run around which nothing went wrong
\* reports that.
FlakyReported ==
  pc = "done" /\ upset = {} /\ Failing # {} /\ status["test"] = "FLAKY" => outcome = "receipt"

-----------------------------------------------------------------------------
(* The inductive invariant behind the properties of the receipt.           *)

Early == {"acquire", "discover", "createRun", "source", "compare"}
AtTests == {"widen", "account", "rerun", "classify"}
Late == {"write", "complete", "release", "done"}

\* While the test task runs it is the current task.
TestsCurrent ==
  pc \in AtTests => /\ next <= Len(Tasks) /\ Tasks[next] = "test"
                    /\ admitted["test"] /\ status["test"] \in Outcome

\* The tasks before `next' have a status, those from `next' on have none yet.
Handled ==
  /\ pc \in Early => next = 1
  /\ pc = "write" => next > Len(Tasks)
  /\ \A k \in 1..Len(Tasks) :
       /\ k < next => status[Tasks[k]] # "pending"
       /\ pc \notin Late /\ (k > next \/ (k = next /\ pc \notin AtTests))
            => status[Tasks[k]] = "pending"

\* The status s a task has when its processes ended as in `ended'.
Told(s, ended) ==
  \/ ended = {} /\ s \in {"pending", "NOT_RUN", "NOT_APPLICABLE"}
  \/ ended = {"PASS"} /\ s = "PASS"
  \/ "ERROR" \in ended /\ s = "ERROR"
  \/ "FAIL" \in ended /\ "ERROR" \notin ended /\ s \in {"FAIL", "FLAKY"}

StatusTells ==
  \A t \in Task : /\ Told(status[t], results[t])
                  /\ status[t] \notin {"pending", "NOT_RUN"} => admitted[t]

\* A pass or a rerun that failed leaves its mark on the status of the tests, and
\* what was seen to fail is found when there was one.
TestsTell ==
  /\ status["test"] \notin {"FAIL", "FLAKY", "ERROR"} => counts.failures = 0
  /\ status["test"] = "pending" \/ pc \in AtTests \/ status["test"] \notin {"FAIL", "FLAKY"}
       => findings = {}
  /\ pc = "task" /\ status["test"] \in {"FAIL", "FLAKY"} => findings = Failing

\* What a receipt says of the tasks, once there is one.
ReceiptTells ==
  /\ pc = "write" \/ file = "full" => receipt.exit # NoExit
  /\ receipt.exit # NoExit =>
       /\ pc \in Late
       /\ findings = IF status["test"] \in {"FAIL", "FLAKY"} THEN Failing ELSE {}
       /\ (\E t \in Task : "FAIL" \in results[t]) => receipt.exit \in {1, 2, 3}
       /\ receipt.exit = 2 <=> \E t \in Task : "ERROR" \in results[t]
       /\ receipt.exit = 0 =>
            /\ \A t \in Task : admitted[t] /\ (status[t] = "NOT_APPLICABLE" \/ results[t] = {"PASS"})
            /\ counts.failures = 0

IInv == TypeOK /\ TestsCurrent /\ Handled /\ StatusTells /\ TestsTell /\ ReceiptTells

\* What is settled, by how far the end of the run has come.
Settling ==
  outcome = "receipt" =>
    /\ file = "full" /\ pc \in {"complete", "release", "done"}
    /\ pc # "complete" => runDir = "complete"
    /\ pc = "done" => ~lock

\* How many edits there must have been, by what differs from what.
EditsTell ==
  /\ pc = "compare" /\ start # tree => edits >= 1
  /\ pc \in {"task", "write"} \cup AtTests /\ compared # start =>
       edits >= (IF tree = compared THEN 1 ELSE 2)
  /\ receipt.exit # NoExit /\ receipt.stability = "stable" /\ compared # start => edits >= 2

SInv == Settling /\ EditsTell
================================================================================
