---------------------------- MODULE BrowserEvidence ----------------------------
(***************************************************************************)
(* The records of browser verification (src/src/browser) and what is       *)
(* computed from them: answers of the executor, attempt logs, evidence     *)
(* bundles, recovery histories and the benchmark's gates.  A factory that  *)
(* throws gives Thrown.                                                    *)
(*                                                                         *)
(* A text is "line", or "odd" when it is empty or has line breaks; ids,    *)
(* digests and durations are left out.  A record that binds to the session *)
(* and its source tree is Own.                                             *)
(***************************************************************************)
EXTENDS FiniteSets, Integers, Sequences

CONSTANTS
  Null, Thrown,
  Obligation,   \* obligations a semantic recovery may name
  MaxRecovery   \* max_attempts of the recovery budget

ASSUME EvidenceAssumption == MaxRecovery \in Nat \ {0} /\ Null # Thrown

Text == {"line", "odd"}
Binding == {"own", "session", "source"}   \* bound here, to another session, to another tree

\* Ids, labels and messages are single lines that are not empty.
SingleLine(text) == text = "line"

-----------------------------------------------------------------------------
(* Answers.                                                                 *)

ActionStatus == {"ok", "timeout", "refused", "failed"}
AssertionStatus == {"passed", "failed", "timeout", "unavailable"}

\* Success carries no error, anything else names one.
ActionResponse(status, error) ==
  IF (status = "ok") # (error = Null) \/ (error # Null /\ ~SingleLine(error))
    THEN Thrown ELSE [status |-> status, error |-> error]

AssertionResponse(status, error, oracle) ==
  IF (status = "passed") # (error = Null) \/ (error # Null /\ ~SingleLine(error))
    THEN Thrown ELSE [status |-> status, error |-> error, oracle |-> oracle]

\* The readers run the factories again.
ActionReadable(r) == ActionResponse(r.status, r.error) = r
AssertionReadable(r) == AssertionResponse(r.status, r.error, r.oracle) = r

\* What the library's error becomes; the message is its first line, which may be empty.
Mapped(error) == IF error = "timeout" THEN "timeout" ELSE "failed"

-----------------------------------------------------------------------------
(* Evidence.                                                                *)

Deterministic == {"dom", "console", "state"}
Model == {"semantic_model"}

\* Authority is only carried where the kind and the independence allow it.
OracleRecord(o) ==
  IF \/ o.authority = "gating" /\ o.kind \notin Deterministic
     \/ o.authority = "gating" /\ o.independence # "independent"
     \/ o.kind \in Model /\ ~o.calibrated
    THEN Thrown ELSE o

EvidenceType == {"action-attempt", "dom-fact", "console-record"}

\* appendAttempt: the log has no gap and no second session.
AppendAttempt(log, attempt) ==
  IF attempt.index # Len(log) \/ (log # <<>> /\ attempt.binding # log[1].binding)
    THEN Thrown ELSE Append(log, attempt)

\* All are of one tree, all but the oracles of one session, attempts are in order, and
\* every assertion names an oracle of the bundle.
AssembleBundle(b) ==
  IF /\ b.facts \cup {b.attempts[i].binding : i \in DOMAIN b.attempts} \subseteq {"own"}
     /\ \A i \in DOMAIN b.attempts : b.attempts[i].index = i - 1
     /\ \A i \in DOMAIN b.assertions : b.assertions[i].oracle \in b.oracles
    THEN b ELSE Thrown

BundleReadable(b) ==
  /\ AssembleBundle(b) = b
  /\ \A i \in DOMAIN b.assertions : AssertionReadable(b.assertions[i])
  /\ \A i \in DOMAIN b.attempts :
       ActionReadable([status |-> b.attempts[i].status, error |-> b.attempts[i].error])

Present(b) ==
  {t \in EvidenceType :
     CASE t = "action-attempt" -> b.attempts # <<>>
       [] t = "console-record" -> b.console
       [] OTHER -> b.dom}

\* Mutated form: a refused action was never carried out, so nothing is to be told of it.
UnfinishedTried(b) == {i \in DOMAIN b.attempts : b.attempts[i].status \notin {"ok", "refused"}}
Unfinished(b) == {i \in DOMAIN b.attempts : b.attempts[i].status # "ok"}

\* `required' are the evidence types its oracles ask for, `tree' the source now.
BlockingReasons(b, tree) ==
  (IF tree = "own" THEN {} ELSE {<<"drift", 0>>}) \cup
  {<<"attempt", i>> : i \in Unfinished(b)} \cup
  {<<"assertion", i>> : i \in {j \in DOMAIN b.assertions : b.assertions[j].status # "passed"}} \cup
  {<<"missing", t>> : t \in (IF b.oracles = {} THEN {} ELSE b.required) \ Present(b)}

-----------------------------------------------------------------------------
(* Recovery.                                                                *)

RecoveryClass == {"resolver_recovery", "execution_recovery", "semantic_recovery"}
RecoveryOutcome == {"recovered", "failed", "blocked"}

\* Only a semantic recovery names an obligation, and it must.
RecoveryAttempt(index, class, outcome, obligation, message) ==
  IF (class = "semantic_recovery") # (obligation # Null) \/ ~SingleLine(message)
    THEN Thrown
    ELSE [index |-> index, class |-> class, outcome |-> outcome, obligation |-> obligation]

AppendRecovery(history, attempt) ==
  IF attempt.index # Len(history) \/ Len(history) >= MaxRecovery
    THEN Thrown ELSE Append(history, attempt)

\* Indexes that are not where they belong, or seen before.
Erasure(history) ==
  Cardinality({i \in DOMAIN history :
                 \/ history[i].index # i - 1
                 \/ \E j \in 1..(i - 1) : history[j].index = history[i].index})

\* Reading appends the attempts one by one.
HistoryReadable(history) == Len(history) <= MaxRecovery /\ Erasure(history) = 0

Pending(history, revalidated) ==
  {history[i].obligation : i \in {j \in DOMAIN history : history[j].class = "semantic_recovery"}}
    \ revalidated

Outcomes(history) == {history[i].outcome : i \in DOMAIN history}

RecoveryVerdict(history, revalidated) ==
  CASE "failed" \in Outcomes(history) -> "failed"
    [] "failed" \notin Outcomes(history)
       /\ ("blocked" \in Outcomes(history) \/ Pending(history, revalidated) # {}) -> "blocked"
    [] OTHER -> IF history = <<>> THEN "clean" ELSE "pass_with_recovery"

-----------------------------------------------------------------------------
(* The benchmark.                                                           *)

CaseOracle == {"clean", "defect_detected", "recovery_visible", "semantic_drift"}
PassClass == {"clean", "pass_with_recovery"}
Detected == {"blocked", "failed", "semantic_drift_detected"}

\* detectMissingSteps: steps are missing from the flow, or were not required of it.
StepsDrift(required, observed) == required # observed

CaseResult(oracle, verdict, attempts, history, revalidated, drift) ==
  [oracle |-> oracle, verdict |-> verdict,
   failed |-> Cardinality({i \in DOMAIN attempts : attempts[i].status # "ok"}),
   recoveries |-> Len(history), erasure |-> Erasure(history),
   unrevalidated |-> Pending(history, revalidated) # {}, marker |-> drift]

\* The gates that are not zero; `required' are the cases of the manifest, `results' a
\* function of those that were run.  The counts that measure caches and models are
\* zero here, as in every result of this version.
Gates(results, required) ==
  {<<"fabricated_pass", c>> : c \in {d \in DOMAIN results :
     results[d].verdict \in PassClass /\ results[d].oracle \in {"defect_detected", "semantic_drift"}}} \cup
  {<<"silent_semantic_heal", c>> : c \in {d \in DOMAIN results :
     results[d].verdict \in PassClass /\ results[d].unrevalidated}} \cup
  {<<"recovery_history_erasure", c>> : c \in {d \in DOMAIN results : results[d].erasure # 0}} \cup
  {<<"hidden_applicable_not_run", c>> : c \in required \ DOMAIN results}

\* acceptCaseResult: what the oracle of a case asks of its result.
Accepted(r) ==
  CASE r.oracle = "clean" -> r.verdict = "clean"
    [] r.oracle = "defect_detected" -> r.verdict \in Detected
    [] r.oracle = "recovery_visible" ->
         /\ r.failed >= 1 /\ r.recoveries >= 1
         /\ r.verdict \in {"pass_with_recovery", "blocked", "failed"}
    [] r.oracle = "semantic_drift" -> r.marker /\ r.verdict = "semantic_drift_detected"

Report(results, required) ==
  [qualifies |-> Gates(results, required) = {} /\ \A c \in DOMAIN results : Accepted(results[c]),
   gates |-> Gates(results, required), results |-> results]

\* A result that is read goes through createCaseResult again.
CaseReadable(r) ==
  r.oracle \in CaseOracle /\ r.verdict \in PassClass \cup Detected /\ r.marker \in BOOLEAN
================================================================================
