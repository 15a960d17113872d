----------------------------- MODULE BrowserSession -----------------------------
(***************************************************************************)
(* One session of the Playwright adapter (browser/playwright-adapter.ts)   *)
(* and the evidence a caller keeps of it.  An action and a text assertion  *)
(* may be awaited while the page logs errors, the browser goes away and    *)
(* dispose() runs; the answers are logged, failures are recovered from,    *)
(* and the log is judged.                                                  *)
(*                                                                         *)
(* Between the settling of a promise and the code that awaited it other    *)
(* callbacks run: Settle and Answer are steps of their own.  The caller is *)
(* the one of the benchmark: it logs every answer, and lets an exception   *)
(* end the session.                                                        *)
(***************************************************************************)
EXTENDS BrowserEvidence

CONSTANTS
  ClassUsed,      \* recovery classes the caller uses
  MaxAttempts,    \* bounds the attempt log
  MaxAssertions   \* bounds the assertions

ASSUME SessionAssumption ==
  /\ ClassUsed \subseteq RecoveryClass
  /\ MaxAttempts \in Nat /\ MaxAssertions \in Nat

VARIABLES
  browser,      \* "none", "up", "lost", "closed", "stray" when its close failed
  disposal,     \* "none", then what dispose() does next: "context", "browser"; "done"
  console,      \* the first console or page error: "none", "line", "odd"
  action, text, \* the calls that are awaited: "idle", "waiting", or how they settled
  attempts, assertions,
  history, revalidated,
  troubled,     \* history variable: an action did not do what was asked
  tree,         \* the source tree now: "own", or another
  stage,        \* "drive", "judged", "over"
  bundle, report

runtimeVars == <<browser, disposal, console>>
callVars == <<action, text>>
logVars == <<attempts, assertions, history, revalidated, troubled>>
sessionVars == <<runtimeVars, callVars, logVars, tree, stage, bundle, report>>

SessionInit ==
  /\ browser = "none" /\ disposal = "none" /\ console = "none"
  /\ action = "idle" /\ text = "idle"
  /\ attempts = <<>> /\ assertions = <<>> /\ history = <<>> /\ revalidated = {}
  /\ troubled = FALSE /\ tree = "own" /\ stage = "drive" /\ bundle = Null /\ report = Null

\* requireActive
Active == disposal = "none" /\ browser = "up"

-----------------------------------------------------------------------------
(* The runtime.                                                             *)

\* No Chromium, or another version of the library: nothing is started.
RefuseLaunch ==
  /\ stage = "drive" /\ browser = "none" /\ stage' = "over"
  /\ UNCHANGED <<runtimeVars, callVars, logVars, tree, bundle, report>>

\* A startup that fails closes the browser it has, and may fail at that as well.
LaunchPlaywrightSession ==
  /\ stage = "drive" /\ browser = "none"
  /\ \/ browser' = "up" /\ stage' = stage
     \/ browser' \in {"closed", "stray"} /\ stage' = "over"
  /\ UNCHANGED <<disposal, console, callVars, logVars, tree, bundle, report>>

\* Only the first error is told of.
LogPageError ==
  /\ stage = "drive" /\ browser = "up" /\ console = "none" /\ console' \in Text
  /\ UNCHANGED <<browser, disposal, callVars, logVars, tree, stage, bundle, report>>

Disconnect ==
  /\ stage = "drive" /\ browser = "up" /\ browser' = "lost"
  /\ UNCHANGED <<disposal, console, callVars, logVars, tree, stage, bundle, report>>

\* A second call shares the promise of the first.
Dispose ==
  /\ stage = "drive" /\ browser \in {"up", "lost"} /\ disposal = "none" /\ disposal' = "context"
  /\ UNCHANGED <<browser, console, callVars, logVars, tree, stage, bundle, report>>

\* The browser is closed whether or not its context could be; the errors of both are
\* what every caller of dispose() gets.
CloseNext ==
  /\ stage = "drive" /\ disposal \in {"context", "browser"}
  /\ disposal' = IF disposal = "context" THEN "browser" ELSE "done"
  /\ browser' \in IF disposal = "context" THEN {browser} ELSE {"closed", "stray"}
  /\ UNCHANGED <<console, callVars, logVars, tree, stage, bundle, report>>

-----------------------------------------------------------------------------
(* Calls.                                                                   *)

\* The candidates in order of preference, each with the matches it has on the page.
Resolution(matches) ==
  IF \E i \in DOMAIN matches : matches[i] = 1 THEN "resolved"
  ELSE IF \E i \in DOMAIN matches : matches[i] > 1 THEN "ambiguous" ELSE "unresolved"

\* recordActionAttempt and appendAttempt, with the exception of the answer.
LogAttempt(response) ==
  IF response = Thrown
    THEN stage' = "over" /\ UNCHANGED attempts
    ELSE /\ attempts' = AppendAttempt(attempts, [index |-> Len(attempts), binding |-> "own",
                                                 status |-> response.status,
                                                 error |-> response.error])
         /\ UNCHANGED stage

\* A value is missing: refused before the page is touched.
RefuseAction ==
  /\ stage = "drive" /\ Active /\ action = "idle" /\ Len(attempts) < MaxAttempts
  /\ LogAttempt(ActionResponse("refused", "line")) /\ troubled' = TRUE
  /\ UNCHANGED <<runtimeVars, callVars, assertions, history, revalidated, tree, bundle, report>>

\* requireResolved throws on any other target; nothing is begun then.
BeginAction ==
  /\ stage = "drive" /\ Active /\ action = "idle" /\ Len(attempts) < MaxAttempts
  /\ \E matches \in [1..2 -> 0..2] : Resolution(matches) = "resolved"
  /\ action' = "waiting"
  /\ UNCHANGED <<runtimeVars, text, logVars, tree, stage, bundle, report>>

\* A browser that is gone, or is being closed, may still have carried out the action.
SettleAction ==
  /\ stage = "drive" /\ action = "waiting" /\ action' \in {"ok", "timeout", "failed", "odd"}
  /\ troubled' = (troubled \/ action' # "ok")
  /\ UNCHANGED <<runtimeVars, text, attempts, assertions, history, revalidated,
                 tree, stage, bundle, report>>

AnswerAction ==
  /\ stage = "drive" /\ action \notin {"idle", "waiting"} /\ action' = "idle"
  /\ LogAttempt(IF action = "ok" THEN ActionResponse("ok", Null)
                ELSE ActionResponse(Mapped(action), IF action = "odd" THEN "odd" ELSE "line"))
  /\ UNCHANGED <<runtimeVars, text, assertions, history, revalidated, troubled, tree, bundle, report>>

LogAssertion(response) ==
  IF response = Thrown
    THEN stage' = "over" /\ UNCHANGED assertions
    ELSE assertions' = Append(assertions, response) /\ UNCHANGED stage

\* Only the two statements on the console are decided here; every other is deferred.
ExecuteAssertion ==
  /\ stage = "drive" /\ Active /\ Len(assertions) < MaxAssertions
  /\ LogAssertion(IF console = "none" THEN AssertionResponse("passed", Null, Null)
                  ELSE AssertionResponse("failed", console, Null))
  /\ UNCHANGED <<runtimeVars, callVars, attempts, history, revalidated, troubled, tree, bundle, report>>

DeferAssertion ==
  /\ stage = "drive" /\ Active /\ Len(assertions) < MaxAssertions
  /\ LogAssertion(AssertionResponse("unavailable", "line", Null))
  /\ UNCHANGED <<runtimeVars, callVars, attempts, history, revalidated, troubled, tree, bundle, report>>

BeginTextAssertion ==
  /\ stage = "drive" /\ Active /\ text = "idle" /\ Len(assertions) < MaxAssertions
  /\ text' = "waiting"
  /\ UNCHANGED <<runtimeVars, action, logVars, tree, stage, bundle, report>>

SettleText ==
  /\ stage = "drive" /\ text = "waiting" /\ text' \in {"match", "mismatch", "timeout", "failed"}
  /\ UNCHANGED <<runtimeVars, action, logVars, tree, stage, bundle, report>>

\* Mutated form: the text was read, so the session is not asked for again.
AnswerTextOfRead ==
  /\ stage = "drive" /\ text \notin {"idle", "waiting"} /\ text' = "idle"
  /\ \E late \in BOOLEAN :
       LogAssertion(
         CASE text \in {"timeout", "failed"} -> AssertionResponse(text, "line", Null)
           [] late /\ text \in {"match", "mismatch"} -> AssertionResponse("timeout", "line", Null)
           [] OTHER -> IF text = "match" THEN AssertionResponse("passed", Null, Null)
                       ELSE AssertionResponse("failed", "line", Null))
  /\ UNCHANGED <<runtimeVars, action, attempts, history, revalidated, troubled,
                 tree, bundle, report>>

\* The text that was read only counts on a session that is still there, in time.
AnswerText ==
  /\ stage = "drive" /\ text \notin {"idle", "waiting"} /\ text' = "idle"
  /\ \E late \in BOOLEAN :
       LogAssertion(
         CASE text \in {"timeout", "failed"} -> AssertionResponse(text, "line", Null)
           [] text \in {"match", "mismatch"} /\ ~Active -> AssertionResponse("failed", "line", Null)
           [] text \in {"match", "mismatch"} /\ Active /\ late ->
                AssertionResponse("timeout", "line", Null)
           [] OTHER -> IF text = "match" THEN AssertionResponse("passed", Null, Null)
                       ELSE AssertionResponse("failed", "line", Null))
  /\ UNCHANGED <<runtimeVars, action, attempts, history, revalidated, troubled,
                 tree, bundle, report>>

-----------------------------------------------------------------------------
(* Recovery.                                                                *)

\* The caller recovers from an attempt that failed; one that may not be recorded is
\* not made.  What it retries is a new attempt; its record of the recovery is read by
\* the verdict only, so it may as well be written after the calls.
Recover ==
  /\ stage = "judged" /\ report = Null
  /\ \E i \in DOMAIN attempts : attempts[i].status # "ok"
  /\ \E class \in ClassUsed, outcome \in RecoveryOutcome, o \in Obligation \cup {Null} :
       LET a == RecoveryAttempt(Len(history), class, outcome, o, "line")
       IN /\ a # Thrown /\ AppendRecovery(history, a) # Thrown
          /\ history' = AppendRecovery(history, a)
  /\ UNCHANGED <<runtimeVars, callVars, attempts, assertions, revalidated, troubled,
                 tree, stage, bundle, report>>

\* The obligation of a semantic recovery is validated again.
Revalidate ==
  /\ stage = "judged" /\ report = Null /\ \E o \in Obligation : revalidated' = revalidated \cup {o}
  /\ UNCHANGED <<runtimeVars, callVars, attempts, assertions, history, troubled,
                 tree, stage, bundle, report>>

-----------------------------------------------------------------------------
(* Judgement.                                                               *)

\* The tree moves on after the session was bound to it; only the reasons look at it.
EditTree ==
  /\ stage = "judged" /\ report = Null /\ tree = "own" /\ tree' = "other"
  /\ UNCHANGED <<runtimeVars, callVars, logVars, stage, bundle, report>>

\* attachOracleRef: each assertion names the record of the oracle that decided it.
WithOracle(as) == [i \in DOMAIN as |-> [as[i] EXCEPT !.oracle = "o"]]

\* The session is disposed of, and its answers are put together with what was recorded of
\* the page.  A fact of another session or tree makes the assembly throw.
Judge ==
  /\ stage = "drive" /\ action = "idle" /\ text = "idle" /\ disposal = "done"
  /\ \E facts \in {{"own"}, {"own", "session"}, {"own", "source"}}, dom \in BOOLEAN,
        authority \in {"gating", "advisory"}, kind \in {"dom", "semantic_model"}, attached \in BOOLEAN :
       LET oracle == OracleRecord([kind |-> kind, authority |-> authority,
                                   independence |-> "independent", calibrated |-> TRUE])
           b == AssembleBundle([attempts |-> attempts, facts |-> facts, dom |-> dom,
                                console |-> console # "none",
                                assertions |-> IF attached THEN WithOracle(assertions) ELSE assertions,
                                oracles |-> {"o"}, required |-> {"action-attempt", "dom-fact"}])
       IN IF oracle = Thrown \/ b = Thrown
            THEN stage' = "over" /\ bundle' = bundle
            ELSE stage' = "judged" /\ bundle' = b
  /\ UNCHANGED <<runtimeVars, callVars, logVars, tree, report>>

\* The verdict the caller gives the session: that of its recoveries, or of its bundle.
Verdict ==
  IF history # <<>> THEN RecoveryVerdict(history, revalidated)
  ELSE IF BlockingReasons(bundle, tree) = {} THEN "clean" ELSE "blocked"

\* One case of the manifest is this session, and the other was left out or was run.
AssembleBenchmarkReport ==
  /\ stage = "judged" /\ report = Null
  /\ \E oracle \in CaseOracle, observed \in {{"open"}, {"open", "pay"}}, other \in BOOLEAN :
       /\ observed # {"open"} => oracle = "semantic_drift"
       /\ LET drift == StepsDrift({"open"}, observed)
              verdict == IF drift THEN "semantic_drift_detected" ELSE Verdict
              r == CaseResult(oracle, verdict, attempts, history, revalidated, drift)
              clean == CaseResult("clean", "clean", <<>>, <<>>, {}, FALSE)
          IN report' = Report([c \in {"this"} \cup (IF other THEN {"other"} ELSE {}) |->
                                 IF c = "this" THEN r ELSE clean], {"this", "other"})
  /\ UNCHANGED <<runtimeVars, callVars, logVars, tree, stage, bundle>>

SessionNext ==
  \/ RefuseLaunch \/ LaunchPlaywrightSession \/ LogPageError \/ Disconnect
  \/ Dispose \/ CloseNext
  \/ RefuseAction \/ BeginAction \/ SettleAction \/ AnswerAction
  \/ ExecuteAssertion \/ DeferAssertion \/ BeginTextAssertion \/ SettleText \/ AnswerText
  \/ Recover \/ Revalidate \/ EditTree \/ Judge \/ AssembleBenchmarkReport

-----------------------------------------------------------------------------
(* Properties.                                                              *)

\* An assertion is answered "passed" only of a session that is connected and not
\* disposed of at that moment, however long ago the page was read, and a console
\* assertion only while no error was logged.
PassedIsCurrent ==
  [][Len(assertions') > Len(assertions) /\ assertions'[Len(assertions')].status = "passed" =>
       Active /\ (text = "match" \/ console = "none")]_sessionVars

\* A bundle without blocking reasons is of this tree, with no action refused, failed or
\* late and no assertion that did not pass.
BundleEarned ==
  BlockingReasons(bundle, tree) = {} =>
    /\ tree = "own" /\ ~troubled
    /\ \A i \in DOMAIN assertions : assertions[i].status = "passed"

\* A recovery is never called clean, and a semantic one passes only when its obligation
\* was validated again.
VerdictEarned ==
  Verdict \in PassClass =>
    /\ history = <<>> <=> Verdict = "clean"
    /\ history = <<>> => ~troubled
    /\ \A i \in DOMAIN history : /\ history[i].outcome = "recovered"
                                 /\ history[i].obligation \in revalidated \cup {Null}

\* A qualified benchmark has run every case of its manifest, and its clean cases were clean.
QualificationEarned ==
  report # Null /\ report.qualifies =>
    /\ DOMAIN report.results = {"this", "other"}
    /\ report.results["this"].oracle = "clean" => ~troubled /\ history = <<>>
    /\ report.results["this"].oracle \in {"defect_detected", "semantic_drift"} =>
         report.results["this"].verdict \notin PassClass

\* What is called clean was clean: a bundle, the verdict of a session and a benchmark.
GreenIsEarned == stage = "judged" => BundleEarned /\ VerdictEarned /\ QualificationEarned

\* What is written of a session is read back by the readers of its records.
SessionReadable ==
  /\ bundle # Null => BundleReadable(bundle)
  /\ HistoryReadable(history)
  /\ report # Null => \A c \in DOMAIN report.results : CaseReadable(report.results[c])

-----------------------------------------------------------------------------
(* The inductive invariant behind them.                                    *)

\* An answer tells of success or of what went wrong, in one line.
Answered(success, error) == success = (error = Null) /\ (error # Null => SingleLine(error))

Attempt == [index : Nat, binding : {"own"}, status : ActionStatus, error : Text \cup {Null}]
Assertion == [status : AssertionStatus, error : Text \cup {Null}, oracle : {Null}]
Recovery == [index : Nat, class : RecoveryClass, outcome : RecoveryOutcome,
             obligation : Obligation \cup {Null}]

SessionTypeOK ==
  /\ console \in Text \cup {"none"}
  /\ action \in {"idle", "waiting", "ok", "timeout", "failed", "odd"}
  /\ text \in {"idle", "waiting", "match", "mismatch", "timeout", "failed"}
  /\ attempts \in Seq(Attempt) /\ assertions \in Seq(Assertion) /\ history \in Seq(Recovery)
  /\ troubled \in BOOLEAN

\* The log is as its factories made it.
LogSound ==
  /\ \A i \in DOMAIN attempts : /\ attempts[i].index = i - 1
                                /\ Answered(attempts[i].status = "ok", attempts[i].error)
  /\ \A i \in DOMAIN assertions : Answered(assertions[i].status = "passed", assertions[i].error)
  /\ Len(history) <= MaxRecovery
  /\ \A i \in DOMAIN history :
       /\ history[i].index = i - 1
       /\ history[i].class = "semantic_recovery" <=> history[i].obligation # Null

\* Trouble is in the log, or about to be; or the session ends without a verdict.
TroubleTold ==
  troubled /\ stage # "over" => \/ action \in {"timeout", "failed", "odd"}
                                \/ \E i \in DOMAIN attempts : attempts[i].status # "ok"

\* The bundle is the log, and nothing is added to it any more.
BundleIsLog ==
  stage = "judged" =>
    /\ action = "idle" /\ bundle.attempts = attempts
    /\ DOMAIN bundle.assertions = DOMAIN assertions
    /\ \A i \in DOMAIN assertions : bundle.assertions[i].status = assertions[i].status

\* Before the session is judged there is neither bundle nor recovery nor report.
Unjudged == stage # "judged" => bundle = Null /\ history = <<>> /\ report = Null

SessionInv ==
  /\ SessionTypeOK /\ LogSound /\ TroubleTold /\ BundleIsLog /\ Unjudged
  /\ QualificationEarned /\ SessionReadable

================================================================================
