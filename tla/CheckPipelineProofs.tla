-------------------------- MODULE CheckPipelineProofs --------------------------
(***************************************************************************)
(* Proofs about CheckPipeline: the inductive invariant IInv, and what it   *)
(* says of the receipt.                                                    *)
(***************************************************************************)
EXTENDS CheckPipeline, SequenceTheorems, TLAPS

\* The test task is one of the tasks, each task has one place in their order.
LEMMA TaskFacts ==
  /\ "test" \in Task
  /\ \A t \in Task : \E k \in 1..Len(Tasks) : Tasks[k] = t
  /\ \A k \in 1..Len(Tasks) : Tasks[k] \in Task
  /\ \A j, k \in 1..Len(Tasks) : Tasks[j] = Tasks[k] => j = k
  /\ Len(Tasks) \in Nat
BY CheckPipelineAssumption DEF Task

\* What a pass shows of a test is a sequence of verdicts.
LEMMA ShownIsSeq == Shown \subseteq Seq(Verdict)
<1> SUFFICES ASSUME NEW s \in Shown PROVE s \in Seq(Verdict)
  OBVIOUS
<1>1. PICK n \in 0..MaxShown : s \in [1..n -> Verdict]
  BY DEF Shown
<1>2. n \in Nat
  BY CheckPipelineAssumption
<1> QED
  BY <1>1, <1>2

\* A pass: its status and its verdicts.
LEMMA PassFacts ==
  ASSUME NEW pass \in Pass
  PROVE  pass.status \in Outcome /\ pass.shown \in [Test -> Seq(Verdict)]
<1>1. CASE pass = [status |-> "ERROR", shown |-> [t \in Test |-> <<>>]]
  BY <1>1 DEF Outcome
<1>2. ASSUME NEW exited \in {"PASS", "FAIL"}, NEW shown \in [Test -> Shown],
             pass = [status |-> exited, shown |-> shown]
      PROVE  pass.status \in Outcome /\ pass.shown \in [Test -> Seq(Verdict)]
  BY <1>2, ShownIsSeq DEF Outcome
<1> QED
  BY <1>1, <1>2 DEF Pass

-----------------------------------------------------------------------------

\* The initial states satisfy the invariant.
LEMMA InitIInv == Init => IInv
<1> SUFFICES ASSUME Init PROVE IInv
  OBVIOUS
<1> USE TaskFacts DEF Init
<1>1. TypeOK
  <2>1. 0 \in Tree /\ edits \in 0..MaxEdits /\ 1 \in 1..(Len(Tasks) + 1)
    BY CheckPipelineAssumption DEF Tree
  <2>2. obs \in [Test -> Seq(Verdict)]
    OBVIOUS
  <2>3. /\ admitted \in [Task -> BOOLEAN] /\ plan \in [Task -> Plan]
        /\ status \in [Task -> Status \cup {"pending"}]
        /\ results \in [Task -> SUBSET Outcome]
    BY DEF Plan
  <2>4. {config, start, compared} \subseteq Tree /\ tree \in Tree
    BY <2>1
  <2>5. /\ counts.runs \in Nat /\ counts.failures \in 0..counts.runs
        /\ receipt.exit \in 0..NoExit
    BY DEF NoExit
  <2> QED
    BY <2>1, <2>2, <2>3, <2>4, <2>5 DEF TypeOK
<1>2. TestsCurrent /\ Handled
  BY DEF TestsCurrent, Handled, AtTests, Late, Early
<1>3. StatusTells
  BY DEF StatusTells, Told
<1>4. TestsTell
  BY DEF TestsTell, Failing, AtTests, Executed
<1>5. ReceiptTells
  BY DEF ReceiptTells, NoExit
<1> QED
  BY <1>1, <1>2, <1>3, <1>4, <1>5 DEF IInv

\* Steps that leave the tasks and the receipt alone, and neither enter nor leave
\* the test task.
LEMMA QuietIInv ==
  ASSUME IInv,
         LockRefused \/ AcquireLock \/ Discover \/ CreateRun \/ ReadSource \/ NotWidened
           \/ Complete \/ CompleteFails \/ Release \/ ReleaseFails \/ Throws \/ Write
           \/ Edit \/ Disturb \/ UNCHANGED vars
  PROVE  IInv'
<1> USE TaskFacts
<1>1. UNCHANGED <<next, taskVars, receipt>>
  BY DEF LockRefused, AcquireLock, Discover, CreateRun, ReadSource, NotWidened, Complete,
     CompleteFails, Release, ReleaseFails, Throws, Write, Edit, Disturb, vars, endVars,
     taskVars
<1>2. TypeOK'
  <2>1. tree' \in Tree /\ edits' \in 0..MaxEdits
    BY CheckPipelineAssumption DEF IInv, TypeOK, LockRefused, AcquireLock, Discover,
       CreateRun, ReadSource, NotWidened, Complete, CompleteFails, Release, ReleaseFails,
       Throws, Write, Edit, Disturb, vars, worldVars
  <2>2. /\ upset' \subseteq {"throw", "clock", "repository"}
        /\ lock' \in BOOLEAN /\ runDir' \in {"none", "active", "complete"}
    BY DEF IInv, TypeOK, LockRefused, AcquireLock, Discover, CreateRun, ReadSource,
       NotWidened, Complete, CompleteFails, Release, ReleaseFails, Throws, Write, Edit,
       Disturb, vars, worldVars, holdVars
  <2>3. {config', start', compared'} \subseteq Tree
    BY DEF IInv, TypeOK, LockRefused, AcquireLock, Discover, CreateRun, ReadSource,
       NotWidened, Complete, CompleteFails, Release, ReleaseFails, Throws, Write, Edit,
       Disturb, vars, sourceVars
  <2>4. /\ file' \in {"none", "partial", "full"}
        /\ outcome' \in {"running", "receipt", "thrown"}
    BY DEF IInv, TypeOK, LockRefused, AcquireLock, Discover, CreateRun, ReadSource,
       NotWidened, Complete, CompleteFails, Release, ReleaseFails, Throws, Write, Edit,
       Disturb, vars, endVars
  <2>5. pc' \in {"acquire", "discover", "createRun", "source", "compare", "task", "widen",
                 "account", "rerun", "classify", "write", "complete", "release", "done"}
    BY DEF IInv, TypeOK, LockRefused, AcquireLock, Discover, CreateRun, ReadSource,
       NotWidened, Complete, CompleteFails, Release, ReleaseFails, Throws, Write, Edit,
       Disturb, vars
  <2> QED
    BY <1>1, <2>1, <2>2, <2>3, <2>4, <2>5 DEF IInv, TypeOK, taskVars
<1>3. /\ pc' \in AtTests => pc \in AtTests
      /\ pc' \in Early => pc \in Early
      /\ pc' = "write" => pc = "write"
      /\ pc' \notin Late => pc \notin Late
      /\ pc' = "task" => pc = "task"
      /\ pc \in Late => pc' \in Late
      /\ pc \in AtTests => pc' \in AtTests \cup Late
  BY DEF IInv, ReceiptTells, TypeOK, AtTests, Early, Late, LockRefused, AcquireLock,
     Discover, CreateRun, ReadSource, NotWidened, Complete, CompleteFails, Release,
     ReleaseFails, Throws, Write, Edit, Disturb, vars
<1>4. file' = "full" => file = "full" \/ pc = "write"
  BY DEF LockRefused, AcquireLock, Discover, CreateRun, ReadSource, NotWidened, Complete,
     CompleteFails, Release, ReleaseFails, Throws, Write, Edit, Disturb, vars, endVars
<1>5. Failing' = Failing
  BY <1>1 DEF Failing, taskVars
<1>6. TestsCurrent' /\ Handled'
  BY <1>1, <1>3 DEF IInv, TestsCurrent, Handled, taskVars
<1>7. StatusTells'
  BY <1>1 DEF IInv, StatusTells, taskVars
<1>8. TestsTell'
  BY <1>1, <1>3, <1>5 DEF IInv, TestsTell, taskVars
<1>9. ReceiptTells'
  BY <1>1, <1>3, <1>4, <1>5 DEF IInv, ReceiptTells, taskVars
<1> QED
  BY <1>2, <1>6, <1>7, <1>8, <1>9 DEF IInv

-----------------------------------------------------------------------------
(***************************************************************************)
(* The steps that change the tasks or the receipt.                         *)
(***************************************************************************)

\* Before a receipt is built there is none, neither in memory nor on disk.
LEMMA NoReceiptYet ==
  ASSUME IInv, pc \notin Late
  PROVE  receipt.exit = NoExit /\ file # "full"
BY DEF IInv, ReceiptTells

\* A task whose turn has not come left no mark anywhere.
LEMMA NothingYet ==
  ASSUME IInv, NEW t \in Task, status[t] = "pending"
  PROVE  results[t] = {} /\ (t = "test" => counts.failures = 0 /\ findings = {})
BY DEF IInv, StatusTells, Told, TestsTell

\* When it is a task's turn, the task is pending.
LEMMA TurnIsPending ==
  ASSUME IInv, AtTask
  PROVE  Current \in Task /\ status[Current] = "pending" /\ next \in 1..Len(Tasks)
<1>1. next \in 1..Len(Tasks)
  BY TaskFacts DEF IInv, TypeOK, AtTask
<1> QED
  BY <1>1, TaskFacts DEF IInv, Handled, AtTask, Current, Late, AtTests

\* Handling the current task keeps the order in which tasks are handled.
LEMMA TaskDone ==
  ASSUME IInv, next \in 1..Len(Tasks), pc \in {"task"} \cup AtTests,
         pc \in AtTests => Tasks[next] = "test",
         next' = next + 1, pc' = "task", status'[Tasks[next]] # "pending",
         \A t \in Task \ {Tasks[next]} : status'[t] = status[t]
  PROVE  Handled' /\ TestsCurrent' /\ next' \in 1..(Len(Tasks) + 1)
<1> USE TaskFacts
<1>1. \A k \in 1..Len(Tasks) : k # next => status'[Tasks[k]] = status[Tasks[k]]
  OBVIOUS
<1>2. pc' \notin Early \cup AtTests \cup {"write"} /\ pc' \notin Late /\ pc \notin Late
  BY DEF Early, AtTests, Late
<1>3. ASSUME NEW k \in 1..Len(Tasks), k < next'
      PROVE  status'[Tasks[k]] # "pending"
  <2>1. CASE k = next
    BY <2>1
  <2>2. CASE k < next
    BY <1>1, <2>2 DEF IInv, Handled
  <2> QED
    BY <1>3, <2>1, <2>2
<1>4. ASSUME NEW k \in 1..Len(Tasks), k >= next'
      PROVE  status'[Tasks[k]] = "pending"
  BY <1>1, <1>2, <1>4 DEF IInv, Handled
<1> QED
  BY <1>2, <1>3, <1>4 DEF Handled, TestsCurrent

LEMMA CompareIInv == ASSUME IInv, Compare PROVE IInv'
<1> USE TaskFacts
<1>1. pc = "compare" /\ pc' = "task" /\ next = 1 /\ next' = 1
  BY DEF Compare, IInv, Handled, Early
<1>2. /\ UNCHANGED <<worldVars, holdVars, config, start, status, counts, obs, findings,
                     safe, results, endVars>>
      /\ compared' = tree /\ plan' \in [Task -> Plan]
      /\ admitted' \in [Task -> BOOLEAN] /\ narrow' \in BOOLEAN
  BY DEF Compare, Admission
<1>3. \A t \in Task : status[t] = "pending"
  BY <1>1 DEF IInv, Handled, Late, AtTests
<1>4. receipt.exit = NoExit /\ file # "full"
  BY <1>1, NoReceiptYet DEF Late
<1>5. TypeOK'
  BY <1>1, <1>2 DEF IInv, TypeOK, worldVars, holdVars, endVars
<1>6. TestsCurrent' /\ Handled'
  BY <1>1, <1>2, <1>3 DEF TestsCurrent, Handled, AtTests, Early
<1>7. StatusTells'
  BY <1>2, <1>3 DEF IInv, StatusTells
<1>8. TestsTell'
  BY <1>2, <1>3 DEF IInv, TestsTell, Failing, Executed
<1>9. ReceiptTells'
  BY <1>1, <1>2, <1>4 DEF ReceiptTells, endVars
<1> QED
  BY <1>5, <1>6, <1>7, <1>8, <1>9 DEF IInv

LEMMA SkipIInv == ASSUME IInv, Skip PROVE IInv'
<1> USE TaskFacts, TurnIsPending
<1>1. AtTask /\ pc = "task" /\ pc' = "task" /\ next' = next + 1
  BY DEF Skip, AtTask
<1> DEFINE s == IF admitted[Current] /\ plan[Current] = "not_applicable"
                  THEN "NOT_APPLICABLE" ELSE "NOT_RUN"
<1>2. /\ status' = [status EXCEPT ![Current] = s]
      /\ UNCHANGED <<worldVars, holdVars, sourceVars, admitted, plan, narrow, counts, obs,
                     findings, safe, results, endVars>>
  BY DEF Skip
<1>3. s \in {"NOT_APPLICABLE", "NOT_RUN"} /\ (s = "NOT_APPLICABLE" => admitted[Current])
  OBVIOUS
<1> HIDE DEF s
<1>4. /\ status'[Current] = s
      /\ \A t \in Task \ {Current} : status'[t] = status[t]
      /\ status' \in [Task -> Status \cup {"pending"}]
  BY <1>1, <1>2, <1>3 DEF IInv, TypeOK, Status
<1>5. Handled' /\ TestsCurrent' /\ next' \in 1..(Len(Tasks) + 1)
  BY <1>1, <1>3, <1>4, TaskDone DEF Current, AtTests
<1>6. TypeOK'
  BY <1>1, <1>2, <1>4, <1>5 DEF IInv, TypeOK, worldVars, holdVars, sourceVars, endVars
<1>7. StatusTells'
  <2> SUFFICES ASSUME NEW t \in Task
               PROVE  /\ Told(status'[t], results'[t])
                      /\ status'[t] \notin {"pending", "NOT_RUN"} => admitted'[t]
    BY DEF StatusTells
  <2>1. CASE t = Current
    BY <1>1, <1>2, <1>3, <1>4, <2>1, NothingYet DEF Told
  <2>2. CASE t # Current
    BY <1>2, <1>4, <2>2 DEF IInv, StatusTells
  <2> QED
    BY <2>1, <2>2
<1>8. TestsTell'
  <2>1. Failing' = Failing /\ findings' = findings /\ counts' = counts
    BY <1>2 DEF Failing
  <2>2. CASE Current = "test"
    BY <1>1, <1>3, <1>4, <2>1, <2>2, NothingYet DEF TestsTell, Executed
  <2>3. CASE Current # "test"
    BY <1>1, <1>4, <2>1, <2>3 DEF IInv, TestsTell
  <2> QED
    BY <2>2, <2>3
<1>9. ReceiptTells'
  BY <1>1, <1>2, NoReceiptYet DEF ReceiptTells, endVars, Late
<1> QED
  BY <1>5, <1>6, <1>7, <1>8, <1>9 DEF IInv

LEMMA ExecuteIInv == ASSUME IInv, Execute PROVE IInv'
<1> USE TaskFacts, TurnIsPending
<1>1. /\ AtTask /\ pc = "task" /\ pc' = "task" /\ next' = next + 1
      /\ Current # "test" /\ admitted[Current]
  BY DEF Execute, Launchable, AtTask
<1>2. UNCHANGED <<worldVars, holdVars, sourceVars, admitted, plan, narrow, counts, obs,
                  findings, safe, endVars>>
  BY DEF Execute
<1>3. PICK result \in Outcome :
        /\ status' = [status EXCEPT ![Current] = result]
        /\ results' = [results EXCEPT ![Current] = @ \cup {result}]
  BY DEF Execute
<1>4. /\ status'[Current] = result /\ results'[Current] = {result}
      /\ \A t \in Task \ {Current} : status'[t] = status[t] /\ results'[t] = results[t]
      /\ status' \in [Task -> Status \cup {"pending"}]
      /\ results' \in [Task -> SUBSET Outcome]
  BY <1>1, <1>3, NothingYet DEF IInv, TypeOK, Status
<1>5. Handled' /\ TestsCurrent' /\ next' \in 1..(Len(Tasks) + 1)
  BY <1>1, <1>4, TaskDone DEF Current, AtTests, Outcome
<1>6. TypeOK'
  BY <1>1, <1>2, <1>4, <1>5 DEF IInv, TypeOK, worldVars, holdVars, sourceVars, endVars
<1>7. StatusTells'
  <2> SUFFICES ASSUME NEW t \in Task
               PROVE  /\ Told(status'[t], results'[t])
                      /\ status'[t] \notin {"pending", "NOT_RUN"} => admitted'[t]
    BY DEF StatusTells
  <2>1. CASE t = Current
    BY <1>1, <1>2, <1>4, <2>1 DEF Told, Outcome
  <2>2. CASE t # Current
    BY <1>2, <1>4, <2>2 DEF IInv, StatusTells
  <2> QED
    BY <2>1, <2>2
<1>8. TestsTell'
  <2>1. Failing' = Failing /\ findings' = findings /\ counts' = counts
    BY <1>2 DEF Failing
  <2> QED
    BY <1>1, <1>4, <2>1 DEF IInv, TestsTell
<1>9. ReceiptTells'
  BY <1>1, <1>2, NoReceiptYet DEF ReceiptTells, endVars, Late
<1> QED
  BY <1>5, <1>6, <1>7, <1>8, <1>9 DEF IInv

-----------------------------------------------------------------------------
(***************************************************************************)
(* The test task.                                                          *)
(***************************************************************************)

\* Steps inside the test task keep the order in which tasks are handled.
LEMMA InsideTests ==
  ASSUME IInv, next' = next, next \in 1..Len(Tasks), Tasks[next] = "test",
         pc \in {"task"} \cup AtTests, pc' \in AtTests,
         admitted' = admitted, admitted["test"], status'["test"] \in Outcome,
         \A t \in Task \ {"test"} : status'[t] = status[t]
  PROVE  Handled' /\ TestsCurrent'
<1> USE TaskFacts
<1>1. pc' \notin Early \cup {"write"} \cup Late /\ pc \notin Late
  BY DEF Early, AtTests, Late
<1>2. \A k \in 1..Len(Tasks) : k # next => status'[Tasks[k]] = status[Tasks[k]]
  OBVIOUS
<1>3. \A k \in 1..Len(Tasks) : k < next' => status'[Tasks[k]] # "pending"
  BY <1>2 DEF IInv, Handled
<1>4. \A k \in 1..Len(Tasks) : k > next' => status'[Tasks[k]] = "pending"
  BY <1>1, <1>2 DEF IInv, Handled
<1> QED
  BY <1>1, <1>3, <1>4 DEF Handled, TestsCurrent

LEMMA FirstPassIInv == ASSUME IInv, FirstPass PROVE IInv'
<1> USE TaskFacts, TurnIsPending
<1>1. AtTask /\ pc = "task" /\ next' = next /\ Current = "test" /\ admitted["test"]
  BY DEF FirstPass, Launchable, AtTask
<1>2. UNCHANGED <<worldVars, holdVars, sourceVars, admitted, plan, narrow, findings, safe,
                  endVars>>
  BY DEF FirstPass
<1>3. PICK pass \in Pass :
        /\ status' = [status EXCEPT !["test"] = pass.status]
        /\ results' = [results EXCEPT !["test"] = @ \cup {pass.status}]
        /\ counts' = [runs |-> 1, failures |-> FailuresOf(pass)]
        /\ obs' = pass.shown
        /\ pc' \in {"widen", "account"}
  BY DEF FirstPass
<1>4. /\ pass.status \in Outcome
      /\ pass.shown \in [Test -> Seq(Verdict)]
  BY PassFacts
<1>5. /\ status'["test"] = pass.status /\ results'["test"] = {pass.status}
      /\ \A t \in Task \ {"test"} : status'[t] = status[t] /\ results'[t] = results[t]
      /\ status' \in [Task -> Status \cup {"pending"}]
      /\ results' \in [Task -> SUBSET Outcome]
  BY <1>1, <1>3, <1>4, NothingYet DEF IInv, TypeOK, Status
<1>6. Handled' /\ TestsCurrent'
  BY <1>1, <1>2, <1>3, <1>4, <1>5, InsideTests DEF Current, AtTests
<1>7. TypeOK'
  <2>1. counts'.runs \in Nat /\ counts'.failures \in 0..counts'.runs
    BY <1>3 DEF FailuresOf
  <2> QED
    BY <1>1, <1>2, <1>3, <1>4, <1>5, <2>1
    DEF IInv, TypeOK, worldVars, holdVars, sourceVars, endVars
<1>8. StatusTells'
  <2> SUFFICES ASSUME NEW t \in Task
               PROVE  /\ Told(status'[t], results'[t])
                      /\ status'[t] \notin {"pending", "NOT_RUN"} => admitted'[t]
    BY DEF StatusTells
  <2>1. CASE t = "test"
    BY <1>1, <1>2, <1>4, <1>5, <2>1 DEF Told, Outcome
  <2>2. CASE t # "test"
    BY <1>2, <1>5, <2>2 DEF IInv, StatusTells
  <2> QED
    BY <2>1, <2>2
<1>9. TestsTell'
  <2>1. findings' = {} /\ pc' \in AtTests
    BY <1>1, <1>2, <1>3, NothingYet DEF AtTests
  <2>2. pass.status = "PASS" => counts'.failures = 0
    BY <1>3 DEF FailuresOf
  <2> QED
    BY <1>3, <1>4, <1>5, <2>1, <2>2 DEF TestsTell, Outcome
<1>10. ReceiptTells'
  BY <1>1, <1>2, <1>3, NoReceiptYet DEF ReceiptTells, endVars, Late
<1> QED
  BY <1>6, <1>7, <1>8, <1>9, <1>10 DEF IInv

LEMMA SecondPassIInv == ASSUME IInv, SecondPass PROVE IInv'
<1> USE TaskFacts
<1>1. /\ pc = "widen" /\ pc' = "account" /\ next' = next
      /\ UNCHANGED <<worldVars, holdVars, sourceVars, admitted, plan, narrow, findings, safe,
                     endVars>>
  BY DEF SecondPass
<1>2. /\ next \in 1..Len(Tasks) /\ Tasks[next] = "test"
      /\ admitted["test"] /\ status["test"] \in Outcome
  BY <1>1 DEF IInv, TypeOK, TestsCurrent, AtTests
<1>3. PICK pass \in Pass :
        /\ status' = [status EXCEPT !["test"] = Combine(status["test"], pass.status)]
        /\ results' = [results EXCEPT !["test"] = @ \cup {pass.status}]
        /\ counts' = [runs |-> counts.runs + 1, failures |-> counts.failures + FailuresOf(pass)]
        /\ obs' = [t \in Test |-> obs[t] \o pass.shown[t]]
  BY DEF SecondPass
<1>4. /\ pass.status \in Outcome
      /\ pass.shown \in [Test -> Seq(Verdict)]
  BY PassFacts
<1>5. /\ status'["test"] = Combine(status["test"], pass.status)
      /\ results'["test"] = results["test"] \cup {pass.status}
      /\ \A t \in Task \ {"test"} : status'[t] = status[t] /\ results'[t] = results[t]
  BY <1>3 DEF IInv, TypeOK
<1>6. Combine(status["test"], pass.status) \in Outcome
  BY DEF Combine, Outcome
<1>7. /\ status' \in [Task -> Status \cup {"pending"}]
      /\ results' \in [Task -> SUBSET Outcome]
  BY <1>3, <1>4, <1>6 DEF IInv, TypeOK, Status
<1>8. Handled' /\ TestsCurrent'
  BY <1>1, <1>2, <1>5, <1>6, InsideTests DEF AtTests
<1>9. TypeOK'
  <2>1. counts'.runs \in Nat /\ counts'.failures \in 0..counts'.runs
    BY <1>3 DEF FailuresOf, IInv, TypeOK
  <2>2. obs' \in [Test -> Seq(Verdict)]
    BY <1>3, <1>4, ConcatProperties DEF IInv, TypeOK
  <2> QED
    BY <1>1, <1>7, <2>1, <2>2 DEF IInv, TypeOK, worldVars, holdVars, sourceVars, endVars
<1>10. StatusTells'
  <2> SUFFICES ASSUME NEW t \in Task
               PROVE  /\ Told(status'[t], results'[t])
                      /\ status'[t] \notin {"pending", "NOT_RUN"} => admitted'[t]
    BY DEF StatusTells
  <2>1. CASE t = "test"
    <3>1. Told(status["test"], results["test"])
      BY DEF IInv, StatusTells
    <3>2. Told(Combine(status["test"], pass.status), results["test"] \cup {pass.status})
      BY <1>2, <1>4, <3>1 DEF Told, Combine, Outcome
    <3> QED
      BY <1>1, <1>2, <1>5, <2>1, <3>2
  <2>2. CASE t # "test"
    BY <1>1, <1>5, <2>2 DEF IInv, StatusTells
  <2> QED
    BY <2>1, <2>2
<1>11. TestsTell'
  <2>1. findings' = {} /\ pc' \in AtTests
    BY <1>1 DEF AtTests, IInv, TestsTell
  <2>2. ASSUME status'["test"] = "PASS"
        PROVE  counts'.failures = 0
    <3>1. status["test"] = "PASS" /\ pass.status = "PASS"
      BY <1>2, <1>4, <1>5, <2>2 DEF Combine, Outcome
    <3>2. counts.failures = 0
      BY <3>1 DEF IInv, TestsTell
    <3> QED
      BY <1>3, <3>1, <3>2 DEF FailuresOf
  <2> QED
    BY <1>1, <1>5, <1>6, <2>1, <2>2 DEF TestsTell, Outcome
<1>12. ReceiptTells'
  BY <1>1, NoReceiptYet DEF ReceiptTells, endVars, Late
<1> QED
  BY <1>8, <1>9, <1>10, <1>11, <1>12 DEF IInv

LEMMA AccountIInv == ASSUME IInv, Account PROVE IInv'
<1> USE TaskFacts
<1>1. /\ pc = "account" /\ pc' = "rerun" /\ safe' \in BOOLEAN
      /\ UNCHANGED <<next, worldVars, holdVars, sourceVars, admitted, plan, narrow, status,
                     counts, obs, findings, results, endVars>>
  BY DEF Account
<1>2. /\ next \in 1..Len(Tasks) /\ Tasks[next] = "test"
      /\ admitted["test"] /\ status["test"] \in Outcome
  BY <1>1 DEF IInv, TypeOK, TestsCurrent, AtTests
<1>3. Handled' /\ TestsCurrent'
  BY <1>1, <1>2, InsideTests DEF AtTests
<1>4. TypeOK'
  BY <1>1 DEF IInv, TypeOK, worldVars, holdVars, sourceVars, endVars
<1>5. StatusTells'
  BY <1>1 DEF IInv, StatusTells
<1>6. TestsTell'
  BY <1>1 DEF IInv, TestsTell, Failing, AtTests
<1>7. ReceiptTells'
  BY <1>1, NoReceiptYet DEF ReceiptTells, endVars, Late
<1> QED
  BY <1>3, <1>4, <1>5, <1>6, <1>7 DEF IInv

LEMMA RerunIInv == ASSUME IInv, Rerun PROVE IInv'
<1> USE TaskFacts
<1>1. /\ pc = "rerun" /\ pc' \in {"rerun", "classify"} /\ status["test"] = "FAIL"
      /\ UNCHANGED <<next, worldVars, holdVars, sourceVars, admitted, plan, narrow, status,
                     findings, safe, results, endVars>>
  BY DEF Rerun, NeedsRerun
<1>2. /\ next \in 1..Len(Tasks) /\ Tasks[next] = "test"
      /\ admitted["test"] /\ status["test"] \in Outcome
  BY <1>1 DEF IInv, TypeOK, TestsCurrent, AtTests
<1>3. Handled' /\ TestsCurrent'
  BY <1>1, <1>2, InsideTests DEF AtTests
<1>4. TypeOK'
  <2>1. counts'.runs \in Nat /\ counts'.failures \in 0..counts'.runs
    BY DEF Rerun, IInv, TypeOK
  <2>2. obs' \in [Test -> Seq(Verdict)]
    <3>0. obs \in [Test -> Seq(Verdict)]
      BY DEF IInv, TypeOK
    <3>1. CASE UNCHANGED obs
      BY <3>0, <3>1
    <3>2. ASSUME NEW verdict \in Verdict, obs' = [obs EXCEPT ![Target] = Append(@, verdict)]
          PROVE  obs' \in [Test -> Seq(Verdict)]
      <4>1. Target \in Test => Append(obs[Target], verdict) \in Seq(Verdict)
        BY <3>0, AppendProperties
      <4> QED
        BY <3>0, <3>2, <4>1
    <3> QED
      BY <3>1, <3>2 DEF Rerun
  <2> QED
    BY <1>1, <2>1, <2>2 DEF IInv, TypeOK, worldVars, holdVars, sourceVars, endVars
<1>5. StatusTells'
  BY <1>1 DEF IInv, StatusTells
<1>6. TestsTell'
  BY <1>1 DEF IInv, TestsTell, AtTests
<1>7. ReceiptTells'
  BY <1>1, NoReceiptYet DEF ReceiptTells, endVars, Late
<1> QED
  BY <1>3, <1>4, <1>5, <1>6, <1>7 DEF IInv

LEMMA ClassifyIInv == ASSUME IInv, Classify PROVE IInv'
<1> USE TaskFacts
<1>1. /\ pc \in {"rerun", "classify"} /\ pc' = "task" /\ next' = next + 1
      /\ UNCHANGED <<worldVars, holdVars, sourceVars, admitted, plan, narrow, counts, obs,
                     safe, results, endVars>>
  BY DEF Classify
<1>2. /\ next \in 1..Len(Tasks) /\ Tasks[next] = "test"
      /\ admitted["test"] /\ status["test"] \in Outcome
  BY <1>1 DEF IInv, TypeOK, TestsCurrent, AtTests
<1>3. Failing' = Failing /\ Failing \subseteq Test
  BY <1>1 DEF Failing
<1>4. \/ /\ status["test"] = "FAIL" /\ status'["test"] \in {"FAIL", "FLAKY"}
         /\ findings' = Failing
      \/ /\ status'["test"] = status["test"] /\ findings' = {}
         /\ status["test"] = "FAIL" => Failing = {}
  BY <1>1 DEF Classify, Aggregate, IInv, TypeOK, TestsTell, AtTests
<1>5. /\ \A t \in Task \ {"test"} : status'[t] = status[t]
      /\ status' \in [Task -> Status \cup {"pending"}]
  BY <1>2 DEF Classify, Aggregate, IInv, TypeOK, Status
<1>6. Handled' /\ TestsCurrent' /\ next' \in 1..(Len(Tasks) + 1)
  BY <1>1, <1>2, <1>4, <1>5, TaskDone DEF AtTests, Outcome
<1>7. TypeOK'
  BY <1>1, <1>3, <1>4, <1>5, <1>6 DEF IInv, TypeOK, worldVars, holdVars, sourceVars, endVars
<1>8. StatusTells'
  <2> SUFFICES ASSUME NEW t \in Task
               PROVE  /\ Told(status'[t], results'[t])
                      /\ status'[t] \notin {"pending", "NOT_RUN"} => admitted'[t]
    BY DEF StatusTells
  <2>1. Told(status[t], results[t])
    BY DEF IInv, StatusTells
  <2>2. CASE t = "test"
    BY <1>1, <1>2, <1>4, <2>1, <2>2 DEF Told, Outcome
  <2>3. CASE t # "test"
    BY <1>1, <1>5, <2>3 DEF IInv, StatusTells
  <2> QED
    BY <2>2, <2>3
<1>9. TestsTell'
  BY <1>1, <1>2, <1>3, <1>4 DEF IInv, TestsTell, AtTests, Executed, Outcome
<1>10. ReceiptTells'
  BY <1>1, NoReceiptYet DEF ReceiptTells, endVars, Late
<1> QED
  BY <1>6, <1>7, <1>8, <1>9, <1>10 DEF IInv

-----------------------------------------------------------------------------
(***************************************************************************)
(* The receipt.                                                            *)
(***************************************************************************)

\* When all tasks are handled, the exit code of a valid receipt says what the
\* processes of the tasks did.
LEMMA ExitTells ==
  ASSUME IInv, pc = "task", next > Len(Tasks), "repository" \notin upset,
         NEW gap \in BOOLEAN,
         NEW exit, exit = ExitCode(Stability, Completeness(gap))
  PROVE  /\ exit \in 0..4
         /\ findings = IF status["test"] \in {"FAIL", "FLAKY"} THEN Failing ELSE {}
         /\ (\E t \in Task : "FAIL" \in results[t]) => exit \in {1, 2, 3}
         /\ exit = 2 <=> \E t \in Task : "ERROR" \in results[t]
         /\ exit = 0 =>
              /\ \A t \in Task : admitted[t]
                               /\ (status[t] = "NOT_APPLICABLE" \/ results[t] = {"PASS"})
              /\ counts.failures = 0
<1> USE TaskFacts
<1>1. \A t \in Task : status[t] # "pending"
  BY DEF IInv, TypeOK, Handled
<1>2. \A t \in Task : /\ Told(status[t], results[t])
                      /\ status[t] # "NOT_RUN" => admitted[t]
  BY <1>1 DEF IInv, StatusTells
<1>3. \A t \in Task : status[t] = "ERROR" <=> "ERROR" \in results[t]
  BY <1>2 DEF Told
<1>4. \A t \in Task : "FAIL" \in results[t] => status[t] \in {"FAIL", "FLAKY", "ERROR"}
  BY <1>2 DEF Told
<1>5. Stability \in {"stable", "tree_drifted"}
  BY DEF Stability
<1>6. exit \in 0..4 /\ (exit = 2 <=> Completeness(gap) = "unknown_due_to_error")
  BY <1>5 DEF ExitCode
<1>7. Completeness(gap) = "unknown_due_to_error" <=> \E t \in Task : status[t] = "ERROR"
  BY DEF Completeness
<1>8. exit = 2 <=> \E t \in Task : "ERROR" \in results[t]
  BY <1>3, <1>6, <1>7
<1>9. (\E t \in Task : "FAIL" \in results[t]) => exit \in {1, 2, 3}
  BY <1>4, <1>5, <1>7 DEF ExitCode
<1>10. ASSUME exit = 0
       PROVE  /\ \A t \in Task : admitted[t]
                               /\ (status[t] = "NOT_APPLICABLE" \/ results[t] = {"PASS"})
              /\ counts.failures = 0
  <2>1. /\ Completeness(gap) = "complete"
        /\ \A t \in Task : status[t] \notin {"FAIL", "FLAKY"}
    BY <1>5, <1>10 DEF ExitCode
  <2>2. \A t \in Task : status[t] \notin {"ERROR", "NOT_RUN"}
    BY <2>1 DEF Completeness
  <2>3. \A t \in Task : status[t] \in {"PASS", "NOT_APPLICABLE"}
    BY <1>1, <2>1, <2>2 DEF IInv, TypeOK, Status, Outcome
  <2>4. \A t \in Task : status[t] = "PASS" => results[t] = {"PASS"}
    BY <1>2 DEF Told
  <2>5. counts.failures = 0
    BY <2>3 DEF IInv, TestsTell
  <2> QED
    BY <1>2, <2>3, <2>4, <2>5
<1>11. findings = IF status["test"] \in {"FAIL", "FLAKY"} THEN Failing ELSE {}
  BY <1>1 DEF IInv, TestsTell, AtTests
<1> QED
  BY <1>6, <1>8, <1>9, <1>10, <1>11

LEMMA ConcludeIInv == ASSUME IInv, Conclude PROVE IInv'
<1> USE TaskFacts
<1>1. /\ pc = "task" /\ next > Len(Tasks) /\ pc' \in {"write", "complete"}
      /\ UNCHANGED <<next, worldVars, holdVars, sourceVars, taskVars, file>>
      /\ outcome' \in {outcome, "thrown"}
  BY DEF Conclude
<1>2. \/ /\ pc' = "complete" /\ receipt' = receipt
      \/ /\ "repository" \notin upset
         /\ \E gap \in BOOLEAN : receipt'.exit = ExitCode(Stability, Completeness(gap))
  BY DEF Conclude, Valid
<1>3. receipt.exit = NoExit /\ file # "full"
  BY <1>1, NoReceiptYet DEF Late
<1>4. Failing' = Failing
  BY <1>1 DEF Failing, taskVars
<1>5. \/ receipt'.exit = NoExit /\ pc' = "complete"
      \/ /\ receipt'.exit \in 0..4
         /\ findings = IF status["test"] \in {"FAIL", "FLAKY"} THEN Failing ELSE {}
         /\ (\E t \in Task : "FAIL" \in results[t]) => receipt'.exit \in {1, 2, 3}
         /\ receipt'.exit = 2 <=> \E t \in Task : "ERROR" \in results[t]
         /\ receipt'.exit = 0 =>
              /\ \A t \in Task : admitted[t]
                               /\ (status[t] = "NOT_APPLICABLE" \/ results[t] = {"PASS"})
              /\ counts.failures = 0
  BY <1>1, <1>2, <1>3, ExitTells
<1>6. TypeOK'
  BY <1>1, <1>5 DEF IInv, TypeOK, worldVars, holdVars, sourceVars, taskVars, NoExit
<1>7. Handled' /\ TestsCurrent'
  BY <1>1 DEF IInv, Handled, TestsCurrent, AtTests, Early, Late, taskVars
<1>8. StatusTells'
  BY <1>1 DEF IInv, StatusTells, taskVars
<1>9. TestsTell'
  BY <1>1, <1>4 DEF IInv, TestsTell, AtTests, taskVars
<1>10. ReceiptTells'
  BY <1>1, <1>3, <1>4, <1>5 DEF ReceiptTells, Late, NoExit, taskVars
<1> QED
  BY <1>6, <1>7, <1>8, <1>9, <1>10 DEF IInv

-----------------------------------------------------------------------------
(***************************************************************************)
(* The theorems.                                                           *)
(***************************************************************************)

\* Every step keeps the invariant.
LEMMA NextIInv == IInv /\ [Next]_vars => IInv'
<1> SUFFICES ASSUME IInv, [Next]_vars PROVE IInv'
  OBVIOUS
<1>1. CASE Compare
  BY <1>1, CompareIInv
<1>2. CASE Skip
  BY <1>2, SkipIInv
<1>3. CASE Execute
  BY <1>3, ExecuteIInv
<1>4. CASE FirstPass
  BY <1>4, FirstPassIInv
<1>5. CASE SecondPass
  BY <1>5, SecondPassIInv
<1>6. CASE Account
  BY <1>6, AccountIInv
<1>7. CASE Rerun
  BY <1>7, RerunIInv
<1>8. CASE Classify
  BY <1>8, ClassifyIInv
<1>9. CASE Conclude
  BY <1>9, ConcludeIInv
<1>10. CASE LockRefused \/ AcquireLock \/ Discover \/ CreateRun \/ ReadSource \/ NotWidened
              \/ Complete \/ CompleteFails \/ Release \/ ReleaseFails \/ Throws \/ Write
              \/ Edit \/ Disturb \/ UNCHANGED vars
  BY <1>10, QuietIInv
<1> QED
  BY <1>1, <1>2, <1>3, <1>4, <1>5, <1>6, <1>7, <1>8, <1>9, <1>10 DEF Next, Step

\* The inductive invariant holds in every reachable state of a check, for any
\* list of tasks, any tests and any number of edits.
THEOREM Invariance == Spec => []IInv
BY InitIInv, NextIInv, PTL DEF Spec

\* Every variable keeps its type.
THEOREM TypeCorrect == Spec => []TypeOK
<1>1. IInv => TypeOK
  BY DEF IInv
<1> QED
  BY <1>1, Invariance, PTL

\* Exit code 0 (decideReceiptExitCode) is only given to a run whose every task
\* was admitted and is not applicable, or exited with 0 in all its passes, with no
\* rerun that failed and no finding.
THEOREM CleanIsEarnedHolds == Spec => []CleanIsEarned
<1>1. IInv => CleanIsEarned
  <2> SUFFICES ASSUME IInv, file = "full", receipt.exit = 0
               PROVE  /\ \A t \in Task : admitted[t]
                                        /\ (status[t] = "NOT_APPLICABLE" \/ results[t] = {"PASS"})
                      /\ counts.failures = 0 /\ findings = {}
    BY DEF CleanIsEarned
  <2>1. /\ \A t \in Task : admitted[t]
                           /\ (status[t] = "NOT_APPLICABLE" \/ results[t] = {"PASS"})
        /\ counts.failures = 0
        /\ findings = IF status["test"] \in {"FAIL", "FLAKY"} THEN Failing ELSE {}
    BY DEF IInv, ReceiptTells, NoExit
  <2>2. status["test"] \notin {"FAIL", "FLAKY"}
    BY <2>1, TaskFacts DEF IInv, StatusTells, Told
  <2> QED
    BY <2>1, <2>2
<1> QED
  BY <1>1, Invariance, PTL

\* An error is exit code 2 and a failure is 1, 2 or 3, whichever pass it comes
\* from (combineTestPasses, decideReceiptExitCode).
THEOREM FailureShowsHolds == Spec => []FailureShows
<1>1. IInv => FailureShows
  BY DEF IInv, ReceiptTells, FailureShows
<1> QED
  BY <1>1, Invariance, PTL

\* When a pass of the tests failed and none erred, the receipt lists every test
\* that any pass or rerun saw fail, and else none (normalizeFailedTestExecution).
THEOREM FindingsCompleteHolds == Spec => []FindingsComplete
<1>1. IInv => FindingsComplete
  <2> SUFFICES ASSUME IInv, file = "full" PROVE FindingsComplete
    BY DEF FindingsComplete
  <2>1. findings = IF status["test"] \in {"FAIL", "FLAKY"} THEN Failing ELSE {}
    BY DEF IInv, ReceiptTells
  <2>2. status["test"] \in {"FAIL", "FLAKY"} <=>
          "FAIL" \in results["test"] /\ "ERROR" \notin results["test"]
    BY TaskFacts DEF IInv, StatusTells, Told
  <2> QED
    BY <2>1, <2>2 DEF FindingsComplete
<1> QED
  BY <1>1, Invariance, PTL

-----------------------------------------------------------------------------
(***************************************************************************)
(* What is settled when runCheck returns, and what a stable receipt binds. *)
(***************************************************************************)

LEMMA InitSInv == Init => SInv
BY DEF Init, SInv, Settling, EditsTell, AtTests, NoExit

\* Only the end of the run settles anything: no other step touches what
\* Settling speaks of, and none but Write ends in a receipt.
LEMMA NextSettling == IInv /\ Settling /\ [Next]_vars => Settling'
<1> SUFFICES ASSUME IInv, Settling, [Next]_vars PROVE Settling'
  OBVIOUS
<1>1. CASE outcome' = "thrown" \/ outcome' = "running"
  BY <1>1 DEF Settling
<1>2. CASE Write
  BY <1>2 DEF Write, Settling, holdVars
<1>3. CASE Complete
  BY <1>3 DEF Complete, Settling, endVars
<1>4. CASE Release
  BY <1>4 DEF Release, Settling, endVars
<1>5. CASE UNCHANGED <<pc, holdVars, endVars>>
  BY <1>5 DEF Settling, holdVars, endVars
<1>6. CASE pc \notin {"complete", "release", "done"} /\ outcome' \in {outcome, "thrown"}
  <2>1. outcome # "receipt"
    BY <1>6 DEF Settling
  <2> QED
    BY <1>6, <2>1 DEF Settling
<1>7. CASE AcquireLock \/ Discover \/ CreateRun \/ ReadSource \/ Compare \/ Skip \/ Execute
             \/ FirstPass \/ SecondPass \/ NotWidened \/ Account \/ Rerun \/ Classify \/ Conclude
  BY <1>6, <1>7 DEF AcquireLock, Discover, CreateRun, ReadSource, Compare, Skip, Execute, AtTask,
     Launchable, FirstPass, SecondPass, NotWidened, Account, Rerun, Classify, Conclude, endVars
<1>8. CASE LockRefused \/ CompleteFails \/ ReleaseFails \/ Throws
  BY <1>1, <1>8 DEF LockRefused, CompleteFails, ReleaseFails, Throws
<1>9. CASE Edit \/ Disturb \/ UNCHANGED vars
  BY <1>5, <1>9 DEF Edit, Disturb, vars
<1> QED
  BY <1>2, <1>3, <1>4, <1>7, <1>8, <1>9 DEF Next, Step

\* A tree that differs from the one compared, while that one differs from the
\* recorded one, took an edit of its own.
LEMMA NextEditsTell == IInv /\ EditsTell /\ [Next]_vars => EditsTell'
<1> SUFFICES ASSUME IInv, EditsTell, [Next]_vars PROVE EditsTell'
  OBVIOUS
<1>0. edits \in Nat
  BY CheckPipelineAssumption DEF IInv, TypeOK
<1>1. CASE ReadSource
  <2>1. /\ start' = tree /\ tree' = tree /\ pc' = "compare" /\ receipt' = receipt
        /\ receipt.exit = NoExit
    BY <1>1, NoReceiptYet DEF ReadSource, endVars, worldVars, Late
  <2> QED
    BY <2>1 DEF EditsTell, AtTests
<1>2. CASE Compare
  <2>1. /\ pc = "compare" /\ pc' = "task" /\ compared' = tree /\ receipt.exit = NoExit
        /\ UNCHANGED <<tree, edits, start, receipt>>
    BY <1>2, NoReceiptYet DEF Compare, endVars, worldVars, Late
  <2> QED
    BY <1>0, <2>1 DEF EditsTell, AtTests
<1>3. CASE Edit
  <2>1. edits' = edits + 1 /\ UNCHANGED <<pc, sourceVars, endVars>>
    BY <1>3 DEF Edit
  <2> QED
    BY <1>0, <2>1 DEF EditsTell, sourceVars, endVars
<1>4. CASE Conclude
  <2>1. /\ pc = "task" /\ pc' \in {"write", "complete"}
        /\ UNCHANGED <<tree, edits, start, compared>>
        /\ receipt' = receipt \/ receipt'.stability = Stability
    BY <1>4 DEF Conclude, worldVars, sourceVars
  <2>2. Stability = "stable" => tree = start
    BY DEF Stability
  <2> QED
    BY <2>1, <2>2 DEF EditsTell, AtTests
<1>5. CASE /\ UNCHANGED <<tree, edits, start, compared, receipt>>
           /\ pc' # "compare" \/ pc = "compare"
           /\ pc' \in {"task", "write"} \cup AtTests => pc \in {"task", "write"} \cup AtTests
  BY <1>5 DEF EditsTell
<1>6. CASE LockRefused \/ AcquireLock \/ Discover \/ CreateRun \/ Complete \/ CompleteFails
             \/ Release \/ ReleaseFails \/ Throws \/ Disturb \/ UNCHANGED vars
  BY <1>5, <1>6 DEF LockRefused, AcquireLock, Discover, CreateRun, Complete, CompleteFails, Release,
     ReleaseFails, Throws, Disturb, vars, worldVars, sourceVars, endVars, AtTests
<1>7. CASE Skip \/ Execute \/ FirstPass \/ SecondPass \/ NotWidened \/ Account \/ Rerun \/ Classify
             \/ Write
  BY <1>5, <1>7 DEF Skip, Execute, AtTask, Launchable, FirstPass, SecondPass, NotWidened, Account,
     Rerun, Classify, Write, worldVars, sourceVars, endVars, AtTests
<1> QED
  BY <1>1, <1>2, <1>3, <1>4, <1>6, <1>7 DEF Next, Step

\* A receipt is handed out only when it is on disk, the run directory is
\* completed and the lock released (the finally blocks of runCheck); and if it
\* says `stable', the tree compared with HEAD is the one it names, unless an
\* edit was made and undone in between (composeSourceState, deriveStability).
THEOREM ReceiptSettledHolds == Spec => []ReceiptSettled
<1>1. IInv /\ SInv /\ [Next]_vars => SInv'
  BY NextSettling, NextEditsTell DEF SInv
<1>2. IInv /\ SInv => ReceiptSettled
  <2> SUFFICES ASSUME IInv, SInv PROVE ReceiptSettled
    OBVIOUS
  <2>1. ReturnsSettled
    BY DEF SInv, Settling, ReturnsSettled
  <2>2. file = "full" => receipt.exit # NoExit
    BY DEF IInv, ReceiptTells
  <2>3. edits \in Nat
    BY CheckPipelineAssumption DEF IInv, TypeOK
  <2>4. StableBindsComparison
    BY <2>2, <2>3 DEF SInv, EditsTell, StableBindsComparison
  <2> QED
    BY <2>1, <2>4 DEF ReceiptSettled
<1> QED
  BY <1>1, <1>2, InitSInv, Invariance, PTL DEF Spec
================================================================================
