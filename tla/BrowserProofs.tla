------------------------------ MODULE BrowserProofs ------------------------------
(***************************************************************************)
(* Proofs about BrowserVerification, for any bounds, budgets and policies. *)
(***************************************************************************)
EXTENDS BrowserVerification, FiniteSetTheorems, SequenceTheorems,
        WellFoundedInduction, TLAPS

USE EvidenceAssumption

-----------------------------------------------------------------------------
(* Sessions.                                                                *)

\* What is logged of an action is what its factory let through, at the next index.
LEMMA AttemptLogged ==
  ASSUME SessionTypeOK, LogSound, NEW s \in ActionStatus, NEW e \in Text \cup {Null},
         LogAttempt(ActionResponse(s, e))
  PROVE  \/ stage' = "over" /\ attempts' = attempts
         \/ /\ stage' = stage /\ Answered(s = "ok", e)
            /\ attempts' = Append(attempts, [index |-> Len(attempts), binding |-> "own",
                                             status |-> s, error |-> e])
<1> DEFINE new == [index |-> Len(attempts), binding |-> "own", status |-> s, error |-> e]
           answer == [status |-> s, error |-> e]
<1>1. ASSUME ActionResponse(s, e) # Thrown
      PROVE  Answered(s = "ok", e) /\ ActionResponse(s, e) = answer
  BY <1>1 DEF ActionResponse, Answered
<1>2. AppendAttempt(attempts, new) = Append(attempts, new)
  <2>1. attempts # <<>> => attempts[1].binding = "own"
    <3> SUFFICES ASSUME attempts # <<>> PROVE attempts[1].binding = "own"
      OBVIOUS
    <3>1. attempts \in Seq(Attempt)
      BY DEF SessionTypeOK
    <3>2. 1 \in 1..Len(attempts)
      BY <3>1, EmptySeq
    <3>3. attempts[1] \in Attempt
      BY <3>1, <3>2, ElementOfSeq
    <3> QED
      BY <3>3 DEF Attempt
  <2> QED
    BY <2>1 DEF AppendAttempt
<1>3. CASE ActionResponse(s, e) = Thrown
  BY <1>3 DEF LogAttempt
<1>4. CASE ActionResponse(s, e) # Thrown
  <2>1. ActionResponse(s, e).status = s /\ ActionResponse(s, e).error = e
    BY <1>1, <1>4
  <2>2. attempts' = AppendAttempt(attempts, new) /\ stage' = stage
    BY <1>4, <2>1 DEF LogAttempt
  <2> QED
    BY <1>1, <1>2, <1>4, <2>2
<1> QED
  BY <1>3, <1>4

\* The same of an assertion.
LEMMA AssertionLogged ==
  ASSUME NEW s \in AssertionStatus, NEW e \in Text \cup {Null},
         LogAssertion(AssertionResponse(s, e, Null))
  PROVE  \/ stage' = "over" /\ assertions' = assertions
         \/ /\ stage' = stage /\ Answered(s = "passed", e)
            /\ assertions' = Append(assertions, [status |-> s, error |-> e, oracle |-> Null])
BY DEF LogAssertion, AssertionResponse, Answered

\* An attempt more keeps the log sound and tells of its own trouble.
LEMMA AttemptKeeps ==
  ASSUME SessionInv, stage = "drive", NEW s \in ActionStatus, NEW e \in Text \cup {Null},
         LogAttempt(ActionResponse(s, e)),
         UNCHANGED <<console, text, assertions, history, revalidated, tree, bundle, report>>,
         action' \in {"idle", "waiting"},
         troubled' \in BOOLEAN,
         troubled' /\ ~troubled => s # "ok",
         action \in {"timeout", "failed", "odd"} => s # "ok"
  PROVE  SessionInv'
<1> DEFINE new == [index |-> Len(attempts), binding |-> "own", status |-> s, error |-> e]
<1>1. \/ stage' = "over" /\ attempts' = attempts
      \/ stage' = "drive" /\ Answered(s = "ok", e) /\ attempts' = Append(attempts, new)
  BY AttemptLogged DEF SessionInv
<1>2. attempts \in Seq(Attempt) /\ new \in Attempt
  BY DEF SessionInv, SessionTypeOK, Attempt
<1> HIDE DEF new
<1>3. attempts' \in Seq(Attempt)
  <2>1. Append(attempts, new) \in Seq(Attempt)
    BY <1>2
  <2> QED
    BY <1>1, <1>2, <2>1
<1>4. SessionTypeOK'
  BY <1>3 DEF SessionInv, SessionTypeOK
<1>5. \A i \in DOMAIN attempts' : attempts'[i].index = i - 1
                                  /\ Answered(attempts'[i].status = "ok", attempts'[i].error)
  <2>1. CASE attempts' = attempts
    BY <2>1 DEF SessionInv, LogSound
  <2>2. CASE Answered(s = "ok", e) /\ attempts' = Append(attempts, new)
    <3> SUFFICES ASSUME NEW i \in DOMAIN attempts'
                 PROVE  /\ attempts'[i].index = i - 1
                        /\ Answered(attempts'[i].status = "ok", attempts'[i].error)
      OBVIOUS
    <3>1. CASE i \in DOMAIN attempts
      <4>1. attempts'[i] = attempts[i]
        BY <1>2, <2>2, <3>1
      <4> QED
        BY <3>1, <4>1 DEF SessionInv, LogSound
    <3>2. CASE i \notin DOMAIN attempts
      <4>1. i = Len(attempts) + 1 /\ attempts'[i] = new
        BY <1>2, <2>2, <3>2
      <4>2. new.index = Len(attempts) /\ new.status = s /\ new.error = e /\ Len(attempts) \in Nat
        BY <1>2 DEF new
      <4> QED
        BY <2>2, <4>1, <4>2
    <3> QED
      BY <3>1, <3>2
  <2> QED
    BY <1>1, <2>1, <2>2
<1>6. LogSound'
  BY <1>5 DEF SessionInv, LogSound
<1>7. TroubleTold'
  <2> SUFFICES ASSUME troubled', stage' # "over"
               PROVE  \E i \in DOMAIN attempts' : attempts'[i].status # "ok"
    BY DEF TroubleTold
  <2>1. attempts' = Append(attempts, new)
    BY <1>1
  <2>2. CASE s # "ok"
    <3>1. Len(attempts) + 1 \in DOMAIN attempts' /\ attempts'[Len(attempts) + 1] = new
      BY <1>2, <2>1
    <3> QED
      BY <2>2, <3>1 DEF new
  <2>3. CASE s = "ok"
    <3>1. PICK i \in DOMAIN attempts : attempts[i].status # "ok"
      BY <2>3 DEF SessionInv, TroubleTold
    <3>2. i \in DOMAIN attempts' /\ attempts'[i] = attempts[i]
      BY <1>2, <2>1
    <3> QED
      BY <3>1, <3>2
  <2> QED
    BY <2>2, <2>3
<1>8. BundleIsLog' /\ Unjudged' /\ QualificationEarned' /\ SessionReadable'
  BY <1>1 DEF SessionInv, BundleIsLog, Unjudged, QualificationEarned, SessionReadable,
              HistoryReadable
<1> QED
  BY <1>4, <1>6, <1>7, <1>8 DEF SessionInv

\* An assertion more keeps the log sound.
LEMMA AssertionKeeps ==
  ASSUME SessionInv, stage = "drive", NEW s \in AssertionStatus, NEW e \in Text \cup {Null},
         LogAssertion(AssertionResponse(s, e, Null)),
         UNCHANGED <<console, action, attempts, history, revalidated, troubled, tree, bundle, report>>,
         text' \in {"idle", text}
  PROVE  SessionInv'
<1> DEFINE new == [status |-> s, error |-> e, oracle |-> Null]
<1>1. \/ stage' = "over" /\ assertions' = assertions
      \/ stage' = "drive" /\ Answered(s = "passed", e) /\ assertions' = Append(assertions, new)
  BY AssertionLogged
<1>2. assertions \in Seq(Assertion) /\ new \in Assertion
  BY DEF SessionInv, SessionTypeOK, Assertion
<1>3. new.status = s /\ new.error = e
  OBVIOUS
<1> HIDE DEF new
<1>4. assertions' \in Seq(Assertion)
  BY <1>1, <1>2
<1>5. SessionTypeOK'
  BY <1>4 DEF SessionInv, SessionTypeOK
<1>6. \A i \in DOMAIN assertions' :
        Answered(assertions'[i].status = "passed", assertions'[i].error)
  <2>1. CASE assertions' = assertions
    BY <2>1 DEF SessionInv, LogSound
  <2>2. CASE Answered(s = "passed", e) /\ assertions' = Append(assertions, new)
    <3> SUFFICES ASSUME NEW i \in DOMAIN assertions'
                 PROVE  Answered(assertions'[i].status = "passed", assertions'[i].error)
      OBVIOUS
    <3>1. CASE i \in DOMAIN assertions
      <4>1. assertions'[i] = assertions[i]
        BY <1>2, <2>2, <3>1
      <4> QED
        BY <3>1, <4>1 DEF SessionInv, LogSound
    <3>2. CASE i \notin DOMAIN assertions
      <4>1. assertions'[i] = new
        BY <1>2, <2>2, <3>2
      <4> QED
        BY <1>3, <2>2, <4>1
    <3> QED
      BY <3>1, <3>2
  <2> QED
    BY <1>1, <2>1, <2>2
<1>7. LogSound'
  BY <1>6 DEF SessionInv, LogSound
<1>8. TroubleTold' /\ BundleIsLog' /\ Unjudged' /\ QualificationEarned' /\ SessionReadable'
  BY <1>1 DEF SessionInv, TroubleTold, BundleIsLog, Unjudged, QualificationEarned,
              SessionReadable, HistoryReadable
<1> QED
  BY <1>5, <1>7, <1>8 DEF SessionInv

\* Steps that touch neither the log nor what is made of it.
LEMMA QuietKeeps ==
  ASSUME SessionInv, stage # "judged", stage' \in {stage, "over"},
         console' \in Text \cup {"none"},
         action' \in {"idle", "waiting", "ok", "timeout", "failed", "odd"},
         text' \in {"idle", "waiting", "match", "mismatch", "timeout", "failed"},
         troubled' \in BOOLEAN,
         troubled' => action' \in {"timeout", "failed", "odd"} \/ troubled,
         action' # action => action \in {"idle", "waiting"},
         UNCHANGED <<attempts, assertions, history, revalidated, bundle, report>>
  PROVE  SessionInv'
<1>1. SessionTypeOK'
  BY DEF SessionInv, SessionTypeOK
<1>2. LogSound' /\ SessionReadable'
  BY DEF SessionInv, LogSound, SessionReadable, HistoryReadable
<1>3. TroubleTold'
  BY DEF SessionInv, TroubleTold
<1>4. BundleIsLog' /\ Unjudged' /\ QualificationEarned'
  BY DEF SessionInv, BundleIsLog, Unjudged, QualificationEarned
<1> QED
  BY <1>1, <1>2, <1>3, <1>4 DEF SessionInv

LEMMA RuntimeKeeps ==
  ASSUME SessionInv,
         \/ RefuseLaunch \/ LaunchPlaywrightSession \/ LogPageError \/ Disconnect
         \/ Dispose \/ CloseNext \/ BeginAction \/ BeginTextAssertion \/ SettleText \/ SettleAction
  PROVE  SessionInv'
<1> USE QuietKeeps DEF logVars, callVars, runtimeVars
<1>1. ASSUME RefuseLaunch \/ LaunchPlaywrightSession \/ Disconnect \/ Dispose \/ CloseNext
      PROVE  SessionInv'
  BY <1>1 DEF SessionInv, SessionTypeOK, RefuseLaunch, LaunchPlaywrightSession, Disconnect,
              Dispose, CloseNext
<1>2. ASSUME LogPageError PROVE SessionInv'
  BY <1>2 DEF SessionInv, SessionTypeOK, LogPageError
<1>3. ASSUME BeginAction \/ BeginTextAssertion \/ SettleText PROVE SessionInv'
  BY <1>3 DEF SessionInv, SessionTypeOK, BeginAction, BeginTextAssertion, SettleText
<1>4. ASSUME SettleAction PROVE SessionInv'
  BY <1>4 DEF SessionInv, SessionTypeOK, SettleAction
<1> QED
  BY <1>1, <1>2, <1>3, <1>4

LEMMA RefuseActionKeeps == ASSUME SessionInv, RefuseAction PROVE SessionInv'
<1>1. LogAttempt(ActionResponse("refused", "line")) /\ stage = "drive" /\ troubled' = TRUE
      /\ action = "idle" /\ UNCHANGED <<runtimeVars, callVars, assertions, history, revalidated,
                                        tree, bundle, report>>
  BY DEF RefuseAction
<1>2. "refused" \in ActionStatus /\ "line" \in Text \cup {Null}
  BY DEF ActionStatus, Text
<1> QED
  BY <1>1, <1>2, AttemptKeeps DEF runtimeVars, callVars

LEMMA AnswerActionKeeps == ASSUME SessionInv, AnswerAction PROVE SessionInv'
<1>1. /\ stage = "drive" /\ action \in {"ok", "timeout", "failed", "odd"} /\ action' = "idle"
      /\ UNCHANGED <<runtimeVars, text, assertions, history, revalidated, troubled,
                     tree, bundle, report>>
  BY DEF AnswerAction, SessionInv, SessionTypeOK
<1>2. troubled \in BOOLEAN
  BY DEF SessionInv, SessionTypeOK
<1>3. CASE action = "ok"
  <2>1. LogAttempt(ActionResponse("ok", Null)) /\ "ok" \in ActionStatus
    BY <1>3 DEF AnswerAction, ActionStatus
  <2> QED
    BY <1>1, <1>2, <1>3, <2>1, AttemptKeeps DEF runtimeVars
<1>4. CASE action # "ok"
  <2> DEFINE s == Mapped(action)
             e == IF action = "odd" THEN "odd" ELSE "line"
  <2>1. LogAttempt(ActionResponse(s, e))
    BY <1>4 DEF AnswerAction
  <2>2. s \in ActionStatus /\ s # "ok" /\ e \in Text \cup {Null}
    BY DEF Mapped, ActionStatus, Text
  <2> HIDE DEF s, e
  <2> QED
    BY <1>1, <1>2, <2>1, <2>2, AttemptKeeps DEF runtimeVars
<1> QED
  BY <1>3, <1>4

LEMMA AssertionsKeep ==
  ASSUME SessionInv, ExecuteAssertion \/ DeferAssertion \/ AnswerText PROVE SessionInv'
<1> USE DEF AssertionStatus, Text, runtimeVars, callVars
<1>1. ASSUME ExecuteAssertion PROVE SessionInv'
  <2>1. /\ stage = "drive"
        /\ UNCHANGED <<console, action, text, attempts, history, revalidated, troubled,
                       tree, bundle, report>>
    BY <1>1 DEF ExecuteAssertion
  <2>2. CASE console = "none"
    BY <1>1, <2>1, <2>2, AssertionKeeps DEF ExecuteAssertion
  <2>3. CASE console # "none"
    <3>1. console \in {"line", "odd"}
      BY <2>3 DEF SessionInv, SessionTypeOK
    <3>2. LogAssertion(AssertionResponse("failed", console, Null))
      BY <1>1, <2>3 DEF ExecuteAssertion
    <3> QED
      BY <2>1, <3>1, <3>2, AssertionKeeps
  <2> QED
    BY <2>2, <2>3
<1>2. ASSUME DeferAssertion PROVE SessionInv'
  BY <1>2, AssertionKeeps DEF DeferAssertion
<1>3. ASSUME AnswerText PROVE SessionInv'
  <2>1. /\ stage = "drive" /\ text' = "idle"
        /\ UNCHANGED <<console, action, attempts, history, revalidated, troubled,
                       tree, bundle, report>>
    BY <1>3 DEF AnswerText
  <2>2. /\ text \in {"match", "mismatch", "timeout", "failed"}
    BY <1>3 DEF AnswerText, SessionInv, SessionTypeOK
  <2>3. \/ LogAssertion(AssertionResponse("passed", Null, Null))
        \/ LogAssertion(AssertionResponse("timeout", "line", Null))
        \/ LogAssertion(AssertionResponse("failed", "line", Null))
    BY <1>3, <2>2, Zenon DEF AnswerText
  <2> QED
    BY <2>1, <2>3, AssertionKeeps
<1> QED
  BY <1>1, <1>2, <1>3

\* Indexes that are where they belong repeat none.
LEMMA HistoryReads ==
  ASSUME NEW h \in Seq(Recovery), Len(h) <= MaxRecovery, \A i \in DOMAIN h : h[i].index = i - 1
  PROVE  HistoryReadable(h)
<1>1. {i \in DOMAIN h : \/ h[i].index # i - 1
                        \/ \E j \in 1..(i - 1) : h[j].index = h[i].index} = {}
  <2> SUFFICES ASSUME NEW i \in DOMAIN h, NEW j \in 1..(i - 1), h[j].index = h[i].index
               PROVE  FALSE
    OBVIOUS
  <2>1. i \in Nat /\ j \in DOMAIN h
    OBVIOUS
  <2> QED
    BY <2>1
<1> QED
  BY <1>1, FS_EmptySet DEF HistoryReadable, Erasure

\* What a bundle without reasons leaves out did not happen.
LEMMA BundleSpeaks == ASSUME SessionInv, stage = "judged" PROVE BundleEarned
<1> SUFFICES ASSUME BlockingReasons(bundle, tree) = {}
             PROVE  /\ tree = "own" /\ ~troubled
                    /\ \A i \in DOMAIN assertions : assertions[i].status = "passed"
  BY DEF BundleEarned
<1>1. /\ action = "idle" /\ bundle.attempts = attempts
      /\ DOMAIN bundle.assertions = DOMAIN assertions
      /\ \A i \in DOMAIN assertions : bundle.assertions[i].status = assertions[i].status
  BY DEF SessionInv, BundleIsLog
<1>2. tree = "own"
  BY DEF BlockingReasons
<1>3. Unfinished(bundle) = {}
  BY DEF BlockingReasons
<1>4. {j \in DOMAIN bundle.assertions : bundle.assertions[j].status # "passed"} = {}
  BY DEF BlockingReasons
<1>5. ~troubled
  BY <1>1, <1>3 DEF Unfinished, SessionInv, TroubleTold
<1> QED
  BY <1>1, <1>2, <1>4, <1>5

\* A verdict that passes has no failure, nothing blocked and nothing pending behind it.
LEMMA VerdictSpeaks == ASSUME SessionInv, stage = "judged" PROVE VerdictEarned
<1> SUFFICES ASSUME Verdict \in PassClass
             PROVE  /\ history = <<>> <=> Verdict = "clean"
                    /\ history = <<>> => ~troubled
                    /\ \A i \in DOMAIN history :
                         /\ history[i].outcome = "recovered"
                         /\ history[i].obligation \in revalidated \cup {Null}
  BY DEF VerdictEarned
<1>1. CASE history = <<>>
  <2>1. BlockingReasons(bundle, tree) = {} /\ Verdict = "clean"
    BY <1>1 DEF Verdict, PassClass
  <2> QED
    BY <1>1, <2>1, BundleSpeaks DEF BundleEarned
<1>2. CASE history # <<>>
  <2>1. RecoveryVerdict(history, revalidated) \in PassClass
    BY <1>2 DEF Verdict
  <2>2. "failed" \notin Outcomes(history)
    BY <2>1 DEF RecoveryVerdict, PassClass
  <2>3. "blocked" \notin Outcomes(history) /\ Pending(history, revalidated) = {}
    BY <2>1, <2>2 DEF RecoveryVerdict, PassClass
  <2>4. Verdict = "pass_with_recovery"
    BY <1>2, <2>2, <2>3 DEF Verdict, RecoveryVerdict
  <2>5. ASSUME NEW i \in DOMAIN history
        PROVE  /\ history[i].outcome = "recovered"
               /\ history[i].obligation \in revalidated \cup {Null}
    <3>1. history[i] \in Recovery
      BY DEF SessionInv, SessionTypeOK
    <3>2. history[i].outcome \in {"recovered", "failed", "blocked"}
      BY <3>1 DEF Recovery, RecoveryOutcome
    <3>3. history[i].outcome \in Outcomes(history)
      BY DEF Outcomes
    <3>4. history[i].class = "semantic_recovery" <=> history[i].obligation # Null
      BY DEF SessionInv, LogSound
    <3>5. history[i].class = "semantic_recovery" => history[i].obligation \in revalidated
      BY <2>3 DEF Pending
    <3> QED
      BY <2>2, <2>3, <3>2, <3>3, <3>4, <3>5
  <2> QED
    BY <1>2, <2>4, <2>5
<1> QED
  BY <1>1, <1>2

LEMMA RecoverKeeps == ASSUME SessionInv, Recover PROVE SessionInv'
<1>1. PICK class \in ClassUsed, outcome \in RecoveryOutcome, o \in Obligation \cup {Null} :
        LET a == RecoveryAttempt(Len(history), class, outcome, o, "line")
        IN /\ a # Thrown /\ AppendRecovery(history, a) # Thrown
           /\ history' = AppendRecovery(history, a)
  BY DEF Recover
<1> DEFINE new == [index |-> Len(history), class |-> class, outcome |-> outcome, obligation |-> o]
<1>2. RecoveryAttempt(Len(history), class, outcome, o, "line") = new
      /\ (class = "semantic_recovery" <=> o # Null)
  BY <1>1 DEF RecoveryAttempt
<1>3. Len(history) < MaxRecovery /\ history' = Append(history, new)
  <2>1. AppendRecovery(history, new) # Thrown /\ history' = AppendRecovery(history, new)
    BY <1>1, <1>2
  <2>2. Len(history) \in Nat
    BY DEF SessionInv, SessionTypeOK
  <2> QED
    BY <2>1, <2>2 DEF AppendRecovery
<1>4. history \in Seq(Recovery) /\ new \in Recovery
  BY SessionAssumption DEF SessionInv, SessionTypeOK, Recovery
<1>5. new.index = Len(history) /\ new.class = class /\ new.obligation = o
  OBVIOUS
<1> HIDE DEF new
<1>6. history' \in Seq(Recovery) /\ Len(history') = Len(history) + 1
  BY <1>3, <1>4
<1>7. stage = "judged" /\ report = Null
      /\ UNCHANGED <<console, action, text, attempts, assertions, revalidated, troubled,
                     tree, stage, bundle, report>>
  BY DEF Recover, runtimeVars, callVars
<1>8. SessionTypeOK'
  BY <1>6, <1>7 DEF SessionInv, SessionTypeOK
<1>9. ASSUME NEW i \in DOMAIN history'
      PROVE  /\ history'[i].index = i - 1
             /\ history'[i].class = "semantic_recovery" <=> history'[i].obligation # Null
  <2>1. CASE i \in DOMAIN history
    <3>1. history'[i] = history[i]
      BY <1>3, <1>4, <2>1
    <3> QED
      BY <2>1, <3>1 DEF SessionInv, LogSound
  <2>2. CASE i \notin DOMAIN history
    <3>1. i = Len(history) + 1 /\ history'[i] = new /\ Len(history) \in Nat
      BY <1>3, <1>4, <2>2
    <3> QED
      BY <1>2, <1>5, <3>1
  <2> QED
    BY <2>1, <2>2
<1>10. LogSound'
  <2>1. Len(history) \in Nat
    BY <1>4
  <2> QED
    BY <1>3, <1>6, <1>7, <1>9, <2>1 DEF SessionInv, LogSound
<1>11. HistoryReadable(history')
  BY <1>6, <1>8, <1>9, <1>10, HistoryReads DEF LogSound
<1>12. TroubleTold' /\ BundleIsLog' /\ Unjudged' /\ QualificationEarned' /\ SessionReadable'
  BY <1>7, <1>11 DEF SessionInv, TroubleTold, BundleIsLog, Unjudged, QualificationEarned,
                     SessionReadable
<1> QED
  BY <1>8, <1>10, <1>12 DEF SessionInv

LEMMA RevalidateKeeps == ASSUME SessionInv, Revalidate \/ EditTree PROVE SessionInv'
<1>1. /\ stage = "judged" /\ report = Null
      /\ UNCHANGED <<console, action, text, attempts, assertions, history, troubled,
                     stage, bundle, report>>
  BY DEF Revalidate, EditTree, runtimeVars, callVars, logVars
<1> QED
  BY <1>1 DEF SessionInv, SessionTypeOK, LogSound, TroubleTold, BundleIsLog, Unjudged,
              QualificationEarned, SessionReadable, HistoryReadable

\* A bundle that was put together is what it was put together from, and is read again: its
\* attempts and assertions are those of the log, which passed their factories.
LEMMA BundleReads ==
  ASSUME SessionInv, NEW b, AssembleBundle(b) = b, b.attempts = attempts,
         \/ b.assertions = assertions
         \/ b.assertions = WithOracle(assertions)
  PROVE  /\ BundleReadable(b)
         /\ DOMAIN b.assertions = DOMAIN assertions
         /\ \A i \in DOMAIN assertions : b.assertions[i].status = assertions[i].status
<1>1. \A i \in DOMAIN assertions :
        /\ assertions[i] \in Assertion
        /\ Answered(assertions[i].status = "passed", assertions[i].error)
  BY DEF SessionInv, SessionTypeOK, LogSound
<1>2. \A i \in DOMAIN attempts : Answered(attempts[i].status = "ok", attempts[i].error)
  BY DEF SessionInv, LogSound
<1>3. DOMAIN b.assertions = DOMAIN assertions
  BY DEF WithOracle
<1>4. ASSUME NEW i \in DOMAIN assertions
      PROVE  /\ b.assertions[i].status = assertions[i].status
             /\ b.assertions[i].error = assertions[i].error
             /\ AssertionReadable(b.assertions[i])
  <2>1. PICK o : b.assertions[i] = [status |-> assertions[i].status,
                                   error |-> assertions[i].error, oracle |-> o]
    <3>1. assertions[i] = [status |-> assertions[i].status, error |-> assertions[i].error,
                           oracle |-> assertions[i].oracle]
      BY <1>1 DEF Assertion
    <3>2. CASE b.assertions = assertions
      BY <3>1, <3>2
    <3>3. CASE b.assertions = WithOracle(assertions)
      <4>1. [assertions[i] EXCEPT !.oracle = "o"]
              = [status |-> assertions[i].status, error |-> assertions[i].error, oracle |-> "o"]
        BY <1>1 DEF Assertion
      <4> QED
        BY <3>3, <4>1 DEF WithOracle
    <3> QED
      BY <3>2, <3>3
  <2> QED
    BY <1>1, <2>1 DEF AssertionReadable, AssertionResponse, Answered
<1>5. ASSUME NEW i \in DOMAIN attempts
      PROVE  ActionReadable([status |-> attempts[i].status, error |-> attempts[i].error])
  BY <1>2 DEF ActionReadable, ActionResponse, Answered
<1> QED
  BY <1>3, <1>4, <1>5 DEF BundleReadable

LEMMA JudgeKeeps == ASSUME SessionInv, Judge PROVE SessionInv'
<1>1. /\ stage = "drive" /\ action = "idle"
      /\ UNCHANGED <<console, action, text, attempts, assertions, history, revalidated, troubled,
                     tree, report>>
  BY DEF Judge, runtimeVars, callVars, logVars
<1>2. history = <<>> /\ report = Null /\ bundle = Null
  BY <1>1 DEF SessionInv, Unjudged
<1>3. PICK shown, dom, attached :
        LET b == AssembleBundle([attempts |-> attempts, facts |-> shown, dom |-> dom,
                                 console |-> console # "none",
                                 assertions |-> IF attached THEN WithOracle(assertions)
                                                ELSE assertions,
                                 oracles |-> {"o"}, required |-> {"action-attempt", "dom-fact"}])
        IN \/ stage' = "over" /\ bundle' = bundle
           \/ stage' = "judged" /\ bundle' = b /\ b # Thrown
  <2>1. PICK shown \in {{"own"}, {"own", "session"}, {"own", "source"}}, dom \in BOOLEAN,
             authority \in {"gating", "advisory"}, kind \in {"dom", "semantic_model"},
             attached \in BOOLEAN :
          LET oracle == OracleRecord([kind |-> kind, authority |-> authority,
                                      independence |-> "independent", calibrated |-> TRUE])
              b == AssembleBundle([attempts |-> attempts, facts |-> shown, dom |-> dom,
                                   console |-> console # "none",
                                   assertions |-> IF attached THEN WithOracle(assertions)
                                                  ELSE assertions,
                                   oracles |-> {"o"}, required |-> {"action-attempt", "dom-fact"}])
          IN IF oracle = Thrown \/ b = Thrown
               THEN stage' = "over" /\ bundle' = bundle
               ELSE stage' = "judged" /\ bundle' = b
    BY Zenon DEF Judge
  <2> QED
    BY <2>1, Zenon
<1>4. SessionTypeOK' /\ LogSound'
  BY <1>1 DEF SessionInv, SessionTypeOK, LogSound
<1>5. CASE stage' = "over" /\ bundle' = bundle
  BY <1>1, <1>2, <1>4, <1>5 DEF SessionInv, TroubleTold, BundleIsLog, Unjudged,
     QualificationEarned, SessionReadable, HistoryReadable
<1>6. CASE stage' # "over"
  <2> DEFINE r == [attempts |-> attempts, facts |-> shown, dom |-> dom,
                   console |-> console # "none",
                   assertions |-> IF attached THEN WithOracle(assertions) ELSE assertions,
                   oracles |-> {"o"}, required |-> {"action-attempt", "dom-fact"}]
  <2>1. stage' = "judged" /\ bundle' = AssembleBundle(r) /\ AssembleBundle(r) # Thrown
    BY <1>3, <1>6
  <2>2. AssembleBundle(r) = r
    BY <2>1 DEF AssembleBundle
  <2>3. /\ r.attempts = attempts
        /\ r.assertions = assertions \/ r.assertions = WithOracle(assertions)
    OBVIOUS
  <2> HIDE DEF r
  <2>4. /\ BundleReadable(r) /\ DOMAIN r.assertions = DOMAIN assertions
        /\ \A i \in DOMAIN assertions : r.assertions[i].status = assertions[i].status
    BY <2>2, <2>3, BundleReads
  <2>5. bundle' = r
    BY <2>1, <2>2
  <2>6. BundleIsLog' /\ SessionReadable'
    BY <1>1, <1>2, <2>3, <2>4, <2>5 DEF SessionInv, BundleIsLog, SessionReadable, HistoryReadable
  <2>7. TroubleTold' /\ Unjudged' /\ QualificationEarned'
    BY <1>1, <1>2, <2>1 DEF SessionInv, TroubleTold, Unjudged, QualificationEarned
  <2> QED
    BY <1>4, <2>6, <2>7 DEF SessionInv
<1> QED
  BY <1>3, <1>5, <1>6

\* A case of the manifest that counts as clean had a clean verdict, and that was earned.
LEMMA AssembleKeeps == ASSUME SessionInv, AssembleBenchmarkReport PROVE SessionInv'
<1>1. PICK oracle \in CaseOracle, observed \in {{"open"}, {"open", "pay"}}, other \in BOOLEAN :
        /\ observed # {"open"} => oracle = "semantic_drift"
        /\ LET drift == StepsDrift({"open"}, observed)
               verdict == IF drift THEN "semantic_drift_detected" ELSE Verdict
               r == CaseResult(oracle, verdict, attempts, history, revalidated, drift)
               clean == CaseResult("clean", "clean", <<>>, <<>>, {}, FALSE)
           IN report' = Report([c \in {"this"} \cup (IF other THEN {"other"} ELSE {}) |->
                                  IF c = "this" THEN r ELSE clean], {"this", "other"})
  BY DEF AssembleBenchmarkReport
<1> DEFINE drift == StepsDrift({"open"}, observed)
           verdict == IF drift THEN "semantic_drift_detected" ELSE Verdict
           r == CaseResult(oracle, verdict, attempts, history, revalidated, drift)
           clean == CaseResult("clean", "clean", <<>>, <<>>, {}, FALSE)
           cases == {"this"} \cup (IF other THEN {"other"} ELSE {})
           results == [c \in cases |-> IF c = "this" THEN r ELSE clean]
<1>2. report' = Report(results, {"this", "other"})
  BY <1>1
<1>3. /\ stage = "judged" /\ report = Null
      /\ UNCHANGED <<console, action, text, attempts, assertions, history, revalidated, troubled,
                     tree, stage, bundle>>
  BY DEF AssembleBenchmarkReport, runtimeVars, callVars, logVars
<1>4. BundleEarned /\ VerdictEarned
  BY <1>3, BundleSpeaks, VerdictSpeaks
<1>5. verdict \in PassClass \cup Detected
  <2>1. Verdict \in {"clean", "blocked", "failed", "pass_with_recovery"}
    BY DEF Verdict, RecoveryVerdict
  <2> QED
    BY <2>1 DEF PassClass, Detected
<1>6. /\ r.oracle = oracle /\ r.verdict = verdict /\ r.marker = drift
      /\ clean.oracle = "clean" /\ clean.verdict = "clean" /\ clean.marker = FALSE
  BY DEF CaseResult
<1>7. drift \in BOOLEAN /\ verdict = (IF drift THEN "semantic_drift_detected" ELSE Verdict)
  BY DEF StepsDrift
<1> HIDE DEF r, clean, drift, verdict
<1>8. /\ DOMAIN results = cases /\ results["this"] = r
      /\ \A c \in cases : results[c] \in {r, clean}
  OBVIOUS
<1>9. /\ report'.results = results
      /\ report'.qualifies <=> Gates(results, {"this", "other"}) = {}
                               /\ \A c \in DOMAIN results : Accepted(results[c])
  BY <1>2 DEF Report
<1> HIDE DEF results
<1>10. \A c \in DOMAIN report'.results : CaseReadable(report'.results[c])
  BY <1>5, <1>6, <1>7, <1>8, <1>9 DEF CaseReadable, CaseOracle, PassClass
<1>11. ASSUME report'.qualifies
       PROVE  /\ DOMAIN report'.results = {"this", "other"}
              /\ report'.results["this"].oracle = "clean" => ~troubled' /\ history' = <<>>
              /\ report'.results["this"].oracle \in {"defect_detected", "semantic_drift"} =>
                   report'.results["this"].verdict \notin PassClass
  <2>1. {"this", "other"} \ DOMAIN results = {}
    <3>1. {<<"hidden_applicable_not_run", c>> : c \in {"this", "other"} \ DOMAIN results} = {}
      BY <1>9, <1>11, Zenon DEF Gates
    <3>2. \A c \in {"this", "other"} \ DOMAIN results :
            <<"hidden_applicable_not_run", c>>
              \in {<<"hidden_applicable_not_run", d>> : d \in {"this", "other"} \ DOMAIN results}
      OBVIOUS
    <3> QED
      BY <3>1, <3>2
  <2>2. DOMAIN results = {"this", "other"}
    BY <1>8, <2>1
  <2>3. Accepted(r)
    BY <1>8, <1>9, <1>11
  <2>4. ASSUME oracle = "clean" PROVE ~troubled /\ history = <<>>
    <3>1. verdict = "clean"
      BY <1>6, <2>3, <2>4 DEF Accepted
    <3>2. Verdict = "clean"
      BY <1>7, <3>1
    <3> QED
      BY <1>4, <3>2 DEF VerdictEarned, PassClass
  <2>5. ASSUME oracle \in {"defect_detected", "semantic_drift"} PROVE verdict \notin PassClass
    BY <1>6, <2>3, <2>5 DEF Accepted, Detected, PassClass
  <2> QED
    BY <1>3, <1>6, <1>8, <1>9, <2>2, <2>4, <2>5
<1>12. QualificationEarned' /\ SessionReadable'
  BY <1>3, <1>10, <1>11 DEF SessionInv, QualificationEarned, SessionReadable, HistoryReadable
<1>13. SessionTypeOK' /\ LogSound' /\ TroubleTold' /\ BundleIsLog' /\ Unjudged'
  BY <1>3 DEF SessionInv, SessionTypeOK, LogSound, TroubleTold, BundleIsLog, Unjudged
<1> QED
  BY <1>12, <1>13 DEF SessionInv

LEMMA SessionInitInv == SessionInit => SessionInv
<1> SUFFICES ASSUME SessionInit PROVE SessionInv
  OBVIOUS
<1>1. /\ console = "none" /\ action = "idle" /\ text = "idle" /\ attempts = <<>>
      /\ assertions = <<>> /\ history = <<>> /\ troubled = FALSE /\ stage = "drive"
      /\ bundle = Null /\ report = Null
  BY DEF SessionInit
<1>2. /\ attempts \in Seq(Attempt) /\ assertions \in Seq(Assertion) /\ history \in Seq(Recovery)
      /\ DOMAIN attempts = {} /\ DOMAIN assertions = {} /\ DOMAIN history = {} /\ Len(history) = 0
  BY <1>1
<1>3. SessionTypeOK
  BY <1>1, <1>2 DEF SessionTypeOK
<1>4. LogSound /\ HistoryReadable(history)
  <2>1. Len(history) <= MaxRecovery
    BY <1>2
  <2> HIDE <1>1
  <2> QED
    BY <1>2, <2>1, HistoryReads DEF LogSound
<1> QED
  BY <1>1, <1>3, <1>4 DEF SessionInv, TroubleTold, BundleIsLog, Unjudged, QualificationEarned,
     SessionReadable

LEMMA SessionKeeps == ASSUME SessionInv, SessionNext \/ UNCHANGED sessionVars PROVE SessionInv'
<1>1. CASE SessionNext
  BY <1>1, RuntimeKeeps, RefuseActionKeeps, AnswerActionKeeps, AssertionsKeep, RecoverKeeps,
     RevalidateKeeps, JudgeKeeps, AssembleKeeps DEF SessionNext
<1>2. CASE UNCHANGED sessionVars
  <2>1. UNCHANGED <<console, action, text, attempts, assertions, history, revalidated, troubled,
                    tree, stage, bundle, report>>
    BY <1>2 DEF sessionVars, runtimeVars, callVars, logVars
  <2> QED
    BY <2>1 DEF SessionInv, SessionTypeOK, LogSound, TroubleTold, BundleIsLog, Unjudged,
       QualificationEarned, SessionReadable, HistoryReadable
<1> QED
  BY <1>1, <1>2

\* An assertion that was answered "passed" was so at a moment at which the session is there.
LEMMA PassedNow ==
  ASSUME SessionInv, SessionNext \/ UNCHANGED sessionVars,
         Len(assertions') > Len(assertions), assertions'[Len(assertions')].status = "passed"
  PROVE  Active /\ (text = "match" \/ console = "none")
<1>1. assertions \in Seq(Assertion) /\ Len(assertions) \in Nat
  BY DEF SessionInv, SessionTypeOK
<1>2. assertions' # assertions
  BY <1>1
<1>3. ExecuteAssertion \/ DeferAssertion \/ AnswerText
  BY <1>2 DEF SessionNext, sessionVars, runtimeVars, callVars, logVars, RefuseLaunch,
     LaunchPlaywrightSession, LogPageError, Disconnect, Dispose, CloseNext, RefuseAction,
     BeginAction, SettleAction, AnswerAction, BeginTextAssertion, SettleText, Recover,
     Revalidate, EditTree, Judge, AssembleBenchmarkReport
<1>4. ASSUME NEW s \in AssertionStatus, NEW e \in Text \cup {Null},
             LogAssertion(AssertionResponse(s, e, Null))
      PROVE  s = "passed"
  <2>1. assertions' = Append(assertions, [status |-> s, error |-> e, oracle |-> Null])
    BY <1>2, <1>4, AssertionLogged
  <2>2. assertions'[Len(assertions')] = [status |-> s, error |-> e, oracle |-> Null]
    BY <1>1, <2>1
  <2> QED
    BY <2>2
<1> USE DEF AssertionStatus, Text
<1>5. CASE ExecuteAssertion
  <2>1. Active
    BY <1>5 DEF ExecuteAssertion
  <2>2. console # "none" => LogAssertion(AssertionResponse("failed", console, Null))
    BY <1>5 DEF ExecuteAssertion
  <2>3. console # "none" => console \in Text
    BY DEF SessionInv, SessionTypeOK
  <2> QED
    BY <1>4, <2>1, <2>2, <2>3
<1>6. CASE DeferAssertion
  BY <1>4, <1>6 DEF DeferAssertion
<1>7. CASE AnswerText
  <2>1. text \in {"match", "mismatch", "timeout", "failed"}
    BY <1>7 DEF AnswerText, SessionInv, SessionTypeOK
  <2>2. \/ Active /\ text = "match"
        \/ LogAssertion(AssertionResponse("timeout", "line", Null))
        \/ LogAssertion(AssertionResponse("failed", "line", Null))
    BY <1>7, <2>1, Zenon DEF AnswerText
  <2> QED
    BY <1>4, <2>2
<1> QED
  BY <1>3, <1>5, <1>6, <1>7

-----------------------------------------------------------------------------
(* Traces.                                                                  *)

\* A nonempty set of numbers has a smallest one.
LEMMA Smallest ==
  ASSUME NEW S \in SUBSET Nat, S # {}
  PROVE  \E m \in S : \A n \in S : m <= n
<1>1. PICK m \in S : \A n \in S : <<n, m>> \notin OpToRel(<, Nat)
  BY NatLessThanWellFounded, WFMin
<1>2. ASSUME NEW n \in S, n < m PROVE FALSE
  <2>1. <<n, m>> \in Nat \X Nat /\ <<n, m>>[1] < <<n, m>>[2]
    BY <1>2
  <2> QED
    BY <1>1, <2>1 DEF OpToRel
<1> QED
  BY <1>2

\* One that is bounded has a largest.
LEMMA Largest ==
  ASSUME NEW n \in Nat, NEW S \in SUBSET (0..n), S # {}
  PROVE  \E m \in S : \A k \in S : k <= m
<1> DEFINE T == {n - k : k \in S}
<1>1. T \in SUBSET Nat /\ T # {}
  <2>1. \A k \in S : n - k \in Nat
    OBVIOUS
  <2> QED
    BY <2>1
<1>2. PICK g \in T : \A h \in T : g <= h
  BY <1>1, Smallest
<1>3. PICK m \in S : g = n - m
  BY <1>2
<1>4. ASSUME NEW k \in S PROVE k <= m
  <2>1. g <= n - k /\ k \in 0..n /\ m \in 0..n
    BY <1>2
  <2> QED
    BY <1>3, <2>1
<1> QED
  BY <1>4

\* The sum of sizes is a function there is: one for the sets of up to n elements can be
\* extended to those of n + 1, and no number is the least at which that fails.
LEMMA SumExists ==
  ASSUME NEW as, NEW S, IsFiniteSet(S), \A a \in S : as[a].size \in Nat
  PROVE  \E sum \in [SUBSET S -> Nat] :
           sum = [T \in SUBSET S |->
                    IF T = {} THEN 0 ELSE as[AnyOf(T)].size + sum[T \ {AnyOf(T)}]]
<1> DEFINE D(n) == {T \in SUBSET S : Cardinality(T) <= n}
           Fits(f, n) == \A T \in D(n) :
             f[T] = IF T = {} THEN 0 ELSE as[AnyOf(T)].size + f[T \ {AnyOf(T)}]
           Bad == {n \in Nat : \A f \in [D(n) -> Nat] : ~Fits(f, n)}
<1>1. \A T \in SUBSET S : IsFiniteSet(T) /\ Cardinality(T) \in Nat /\ Cardinality(T) <= Cardinality(S)
  BY FS_Subset, FS_CardinalityType
<1>2. \A T \in SUBSET S : T # {} => /\ AnyOf(T) \in T /\ Cardinality(T \ {AnyOf(T)}) = Cardinality(T) - 1
  <2>1. ASSUME NEW T \in SUBSET S, T # {} PROVE AnyOf(T) \in T
    BY <2>1 DEF AnyOf
  <2> QED
    BY <1>1, <2>1, FS_RemoveElement
<1>3. 0 \notin Bad
  <2>1. \A T \in D(0) : T = {}
    BY <1>1, FS_EmptySet
  <2>2. [T \in D(0) |-> 0] \in [D(0) -> Nat] /\ Fits([T \in D(0) |-> 0], 0)
    BY <2>1
  <2> QED
    BY <2>2
<1>4. ASSUME NEW n \in Nat, n \notin Bad PROVE n + 1 \notin Bad
  <2>1. PICK f \in [D(n) -> Nat] : Fits(f, n)
    BY <1>4
  <2> DEFINE g == [T \in D(n + 1) |->
                     IF T = {} THEN 0 ELSE as[AnyOf(T)].size + f[T \ {AnyOf(T)}]]
  <2>2. ASSUME NEW T \in D(n + 1), T # {}
        PROVE  T \ {AnyOf(T)} \in D(n) /\ as[AnyOf(T)].size \in Nat
    <3>1. T \in SUBSET S /\ Cardinality(T) <= n + 1 /\ Cardinality(T) \in Nat
      BY <1>1
    <3>2. AnyOf(T) \in T /\ Cardinality(T \ {AnyOf(T)}) = Cardinality(T) - 1
      BY <1>2, <2>2, <3>1
    <3>3. Cardinality(T \ {AnyOf(T)}) <= n
      BY <3>1, <3>2
    <3>4. T \ {AnyOf(T)} \in SUBSET S /\ AnyOf(T) \in S
      BY <3>1, <3>2
    <3> QED
      BY <3>3, <3>4
  <2>3. g \in [D(n + 1) -> Nat]
    <3>1. \A T \in D(n + 1) : (IF T = {} THEN 0 ELSE as[AnyOf(T)].size + f[T \ {AnyOf(T)}]) \in Nat
      <4> SUFFICES ASSUME NEW T \in D(n + 1), T # {}
                   PROVE  as[AnyOf(T)].size + f[T \ {AnyOf(T)}] \in Nat
        OBVIOUS
      <4> DEFINE x == as[AnyOf(T)].size
                 y == f[T \ {AnyOf(T)}]
      <4>1. x \in Nat /\ T \ {AnyOf(T)} \in D(n)
        BY <2>2
      <4>2. y \in Nat
        <5> HIDE DEF D
        <5> QED
          BY <2>1, <4>1
      <4>3. \A k, l \in Nat : k + l \in Nat
        OBVIOUS
      <4> QED
        BY <4>1, <4>2, <4>3, Zenon
    <3> QED
      BY <3>1
  <2>4. \A T \in D(n) : T \in D(n + 1) /\ g[T] = f[T]
    <3>1. \A T \in D(n) : T \in D(n + 1)
      BY <1>1
    <3> HIDE DEF D
    <3> QED
      BY <2>1, <3>1
  <2>5. \A T \in D(n + 1) : g[T] = IF T = {} THEN 0 ELSE as[AnyOf(T)].size + g[T \ {AnyOf(T)}]
    BY <2>2, <2>4
  <2> HIDE DEF g
  <2> QED
    BY <2>3, <2>5
<1> HIDE DEF Bad
<1>5. Bad = {}
  <2> SUFFICES ASSUME Bad # {} PROVE FALSE
    OBVIOUS
  <2>1. Bad \in SUBSET Nat
    BY DEF Bad
  <2>2. PICK m \in Bad : \A n \in Bad : m <= n
    BY <2>1, Smallest
  <2>3. m \in Nat \ {0} /\ m - 1 \in Nat /\ m - 1 \notin Bad
    BY <1>3, <2>1, <2>2
  <2> QED
    BY <1>4, <2>2, <2>3
<1>6. Cardinality(S) \in Nat /\ D(Cardinality(S)) = SUBSET S
  BY <1>1, FS_CardinalityType
<1>7. PICK f \in [D(Cardinality(S)) -> Nat] : Fits(f, Cardinality(S))
  BY <1>5, <1>6 DEF Bad
<1>8. f \in [SUBSET S -> Nat]
  BY <1>6, <1>7
<1>9. \A T \in SUBSET S : f[T] = IF T = {} THEN 0 ELSE as[AnyOf(T)].size + f[T \ {AnyOf(T)}]
  BY <1>6, <1>7
<1> QED
  BY <1>8, <1>9

\* Whatever satisfies the equation is a number: take a smallest set of which it is not.
LEMMA SumIsNat ==
  ASSUME NEW as, NEW S, IsFiniteSet(S), \A a \in S : as[a].size \in Nat, NEW f,
         \A T \in SUBSET S : f[T] = IF T = {} THEN 0 ELSE as[AnyOf(T)].size + f[T \ {AnyOf(T)}]
  PROVE  f[S] \in Nat
<1>1. \A T \in SUBSET S : IsFiniteSet(T) /\ Cardinality(T) \in Nat
  BY FS_Subset, FS_CardinalityType
<1> DEFINE Bad == {T \in SUBSET S : f[T] \notin Nat}
           Sizes == {Cardinality(T) : T \in Bad}
<1>2. SUFFICES ASSUME Bad # {} PROVE FALSE
  OBVIOUS
<1>3. Sizes \in SUBSET Nat /\ Sizes # {}
  BY <1>1, <1>2
<1>4. PICK m \in Sizes : \A n \in Sizes : m <= n
  BY <1>3, Smallest
<1>5. PICK T \in Bad : m = Cardinality(T)
  BY <1>4
<1>6. f[T] = (IF T = {} THEN 0 ELSE as[AnyOf(T)].size + f[T \ {AnyOf(T)}]) /\ f[T] \notin Nat
  BY <1>5
<1>7. T # {} /\ AnyOf(T) \in T
  <2>1. T # {}
    BY <1>6, 0 \in Nat, Zenon
  <2> QED
    BY <2>1 DEF AnyOf
<1>8. T \in SUBSET S /\ T \ {AnyOf(T)} \in SUBSET S /\ as[AnyOf(T)].size \in Nat
  BY <1>5, <1>7
<1>9. Cardinality(T \ {AnyOf(T)}) = Cardinality(T) - 1
  BY <1>1, <1>7, <1>8, FS_RemoveElement
<1>10. f[T \ {AnyOf(T)}] \notin Nat
  <2> SUFFICES ASSUME f[T \ {AnyOf(T)}] \in Nat PROVE FALSE
    OBVIOUS
  <2>1. f[T] = as[AnyOf(T)].size + f[T \ {AnyOf(T)}]
    BY <1>6, <1>7
  <2>2. \A k, l \in Nat : k + l \in Nat
    OBVIOUS
  <2>3. as[AnyOf(T)].size + f[T \ {AnyOf(T)}] \in Nat
    BY <1>8, <2>2, Zenon
  <2> QED
    BY <1>6, <2>1, <2>3, Zenon
<1>11. Cardinality(T \ {AnyOf(T)}) \in Sizes
  BY <1>8, <1>10
<1>12. m <= Cardinality(T) - 1 /\ Cardinality(T) \in Nat
  BY <1>1, <1>4, <1>8, <1>9, <1>11
<1> QED
  BY <1>5, <1>12

\* So a sum is a number, and that of nothing is 0.
LEMMA BytesSum ==
  ASSUME NEW as, NEW S, IsFiniteSet(S), \A a \in S : as[a].size \in Nat
  PROVE  Bytes(as, S) \in Nat /\ (S = {} => Bytes(as, S) = 0)
<1> DEFINE sum == CHOOSE f : f = [T \in SUBSET S |->
                    IF T = {} THEN 0 ELSE as[AnyOf(T)].size + f[T \ {AnyOf(T)}]]
<1>1. Bytes(as, S) = sum[S]
  BY DEF Bytes
<1>2. sum = [T \in SUBSET S |-> IF T = {} THEN 0 ELSE as[AnyOf(T)].size + sum[T \ {AnyOf(T)}]]
  <2>1. \E f : f = [T \in SUBSET S |->
                      IF T = {} THEN 0 ELSE as[AnyOf(T)].size + f[T \ {AnyOf(T)}]]
    <3>1. PICK f \in [SUBSET S -> Nat] : f = [T \in SUBSET S |->
                      IF T = {} THEN 0 ELSE as[AnyOf(T)].size + f[T \ {AnyOf(T)}]]
      BY SumExists
    <3> QED
      BY <3>1, Zenon
  <2> QED
    BY <2>1, Zenon
<1> HIDE DEF sum
<1>3. \A T \in SUBSET S : sum[T] = IF T = {} THEN 0 ELSE as[AnyOf(T)].size + sum[T \ {AnyOf(T)}]
  BY <1>2
<1>4. sum[S] \in Nat
  BY <1>3, SumIsNat
<1> QED
  BY <1>1, <1>3, <1>4

\* What the lemmas on capture order ask of a set of artifacts.
Captured(as, S) ==
  IsFiniteSet(S) /\ S \subseteq Nat /\ \A a \in S : as[a].at \in Nat /\ as[a].size \in Nat

Ahead(as, S, a) == {b \in S : Older(as, a, b)}

LEMMA OlderIsOrder ==
  ASSUME NEW as, NEW S, Captured(as, S)
  PROVE  /\ \A a \in S : ~Older(as, a, a)
         /\ \A a, b \in S : a = b \/ Older(as, a, b) \/ Older(as, b, a)
         /\ \A a, b, c \in S : Older(as, a, b) /\ Older(as, b, c) => Older(as, a, c)
         /\ \A a, b \in S : Older(as, a, b) => as[a].at <= as[b].at
<1>1. \A a \in S : a \in Nat /\ as[a].at \in Nat
  BY DEF Captured
<1>2. \A x, a \in Nat : ~(x < x \/ (x = x /\ a < a))
  OBVIOUS
<1>3. \A x, y, a, b \in Nat : a = b \/ (x < y \/ (x = y /\ a < b)) \/ (y < x \/ (y = x /\ b < a))
  OBVIOUS
<1>4. \A x, y, a, b \in Nat : (x < y \/ (x = y /\ a < b)) => x <= y
  OBVIOUS
<1>5. \A a \in S : ~Older(as, a, a)
  BY <1>1, <1>2, Zenon DEF Older
<1>6. \A a, b \in S : a = b \/ Older(as, a, b) \/ Older(as, b, a)
  BY <1>1, <1>3, Zenon DEF Older
<1>7. ASSUME NEW a \in S, NEW b \in S, NEW c \in S, Older(as, a, b), Older(as, b, c)
      PROVE  Older(as, a, c)
  <2> DEFINE x == as[a].at
             y == as[b].at
             z == as[c].at
  <2>1. a \in Nat /\ b \in Nat /\ c \in Nat /\ x \in Nat /\ y \in Nat /\ z \in Nat
    BY <1>1
  <2>2. x < y \/ (x = y /\ a < b)
    BY <1>7, Zenon DEF Older
  <2>3. y < z \/ (y = z /\ b < c)
    BY <1>7, Zenon DEF Older
  <2>4. Older(as, a, c) <=> x < z \/ (x = z /\ a < c)
    BY Zenon DEF Older
  <2> HIDE DEF x, y, z
  <2>5. x < z \/ (x = z /\ a < c)
    <3>1. \A k, l, m \in Nat : k < l /\ l < m => k < m
      OBVIOUS
    <3>2. x < y /\ y < z => x < z
      BY <2>1, <3>1, Zenon
    <3>3. a < b /\ b < c => a < c
      BY <2>1, <3>1, Zenon
    <3> QED
      BY <2>2, <2>3, <3>2, <3>3, Zenon
  <2> QED
    BY <2>4, <2>5, Zenon
<1>8. \A a, b \in S : Older(as, a, b) => as[a].at <= as[b].at
  BY <1>1, <1>4, Zenon DEF Older
<1> QED
  BY <1>5, <1>6, <1>7, <1>8

LEMMA AheadIsFinite ==
  ASSUME NEW as, NEW S, Captured(as, S), NEW a
  PROVE  IsFiniteSet(Ahead(as, S, a)) /\ Cardinality(Ahead(as, S, a)) \in Nat
<1>1. Ahead(as, S, a) \in SUBSET S /\ IsFiniteSet(S)
  BY DEF Ahead, Captured
<1> QED
  BY <1>1, FS_Subset, FS_CardinalityType

\* The older of two has more ahead of it.
LEMMA MoreAhead ==
  ASSUME NEW as, NEW S, Captured(as, S), NEW a \in S, NEW b \in S, Older(as, b, a)
  PROVE  Cardinality(Ahead(as, S, a)) < Cardinality(Ahead(as, S, b))
<1>1. Ahead(as, S, a) \cup {a} \in SUBSET Ahead(as, S, b)
  BY OlderIsOrder DEF Ahead
<1>2. a \notin Ahead(as, S, a)
  BY OlderIsOrder DEF Ahead
<1>3. /\ IsFiniteSet(Ahead(as, S, a)) /\ Cardinality(Ahead(as, S, a)) \in Nat
      /\ IsFiniteSet(Ahead(as, S, b)) /\ Cardinality(Ahead(as, S, b)) \in Nat
  BY AheadIsFinite
<1>4. Cardinality(Ahead(as, S, a) \cup {a}) = Cardinality(Ahead(as, S, a)) + 1
  BY <1>2, <1>3, FS_AddElement
<1>5. Cardinality(Ahead(as, S, a) \cup {a}) <= Cardinality(Ahead(as, S, b))
  BY <1>1, <1>3, FS_Subset
<1>6. \A k, l \in Nat : k + 1 <= l => k < l
  OBVIOUS
<1> QED
  BY <1>3, <1>4, <1>5, <1>6, Zenon

LEMMA NewestIs ==
  ASSUME NEW as, NEW S, NEW n
  PROVE  \A a : a \in Newest(as, S, n) <=> a \in S /\ Cardinality(Ahead(as, S, a)) < n
BY DEF Newest, Ahead

\* Who is newer than one of the n newest is one of them.
LEMMA NewerStays ==
  ASSUME NEW as, NEW S, Captured(as, S), NEW n \in Nat, NEW b \in Newest(as, S, n),
         NEW a \in S, Older(as, b, a)
  PROVE  a \in Newest(as, S, n)
<1>1. b \in S /\ Cardinality(Ahead(as, S, b)) < n
  BY NewestIs, Zenon
<1>2. Cardinality(Ahead(as, S, a)) < Cardinality(Ahead(as, S, b))
  BY <1>1, MoreAhead
<1>3. Cardinality(Ahead(as, S, a)) \in Nat /\ Cardinality(Ahead(as, S, b)) \in Nat
  BY AheadIsFinite
<1>4. \A k, l \in Nat : k < l /\ l < n => k < n
  OBVIOUS
<1>5. Cardinality(Ahead(as, S, a)) < n
  BY <1>1, <1>2, <1>3, <1>4, Zenon
<1> QED
  BY <1>5, NewestIs, Zenon

\* The n newest are no more than n: no two have as many ahead of them.
LEMMA NewestAreFew ==
  ASSUME NEW as, NEW S, Captured(as, S), NEW n \in Nat
  PROVE  Cardinality(Newest(as, S, n)) <= n
<1> DEFINE N == Newest(as, S, n)
           rank == [a \in N |-> Cardinality(Ahead(as, S, a))]
<1>1. \A a \in N : a \in S /\ Cardinality(Ahead(as, S, a)) \in 0..(n - 1)
  <2> TAKE a \in N
  <2>1. a \in S /\ Cardinality(Ahead(as, S, a)) < n
    BY NewestIs, Zenon
  <2>2. Cardinality(Ahead(as, S, a)) \in Nat
    BY AheadIsFinite
  <2>3. \A k \in Nat : k < n => k \in 0..(n - 1)
    OBVIOUS
  <2> QED
    BY <2>1, <2>2, <2>3, Zenon
<1>2. ASSUME NEW a \in N, NEW b \in N, rank[a] = rank[b] PROVE a = b
  <2>1. Cardinality(Ahead(as, S, a)) = Cardinality(Ahead(as, S, b))
    BY <1>2
  <2>2. ~Older(as, a, b) /\ ~Older(as, b, a)
    <3>1. a \in S /\ b \in S
      BY <1>1
    <3>2. \A k \in Nat : ~(k < k)
      OBVIOUS
    <3>3. ~(Cardinality(Ahead(as, S, a)) < Cardinality(Ahead(as, S, b)))
          /\ ~(Cardinality(Ahead(as, S, b)) < Cardinality(Ahead(as, S, a)))
      BY <2>1, <3>2, AheadIsFinite, Zenon
    <3> QED
      BY <3>1, <3>3, MoreAhead
  <2> QED
    BY <1>1, <2>2, OlderIsOrder
<1>3. rank \in [N -> 0..(n - 1)]
  BY <1>1
<1> HIDE DEF rank, N
<1>4. rank \in Injection(N, 0..(n - 1))
  BY <1>2, <1>3 DEF Injection, IsInjective
<1>5. IsFiniteSet(0..(n - 1)) /\ Cardinality(0..(n - 1)) = n
  BY FS_Interval
<1>6. Cardinality(N) <= n
  BY <1>4, <1>5, FS_Injection
<1> QED
  BY <1>6 DEF N

\* evaluateRetention, in the terms of what it keeps: the policy is kept, nothing goes that is
\* newer than what stays, and nothing fresh goes that would still have fitted.
LEMMA RetainedFits ==
  ASSUME NEW as, Captured(as, DOMAIN as), NEW now \in Nat
  PROVE  LET kept == Retained(as, now)
         IN /\ kept \subseteq DOMAIN as
            /\ Cardinality(kept) <= MaxArtifacts /\ Bytes(as, kept) <= MaxBytes
            /\ \A a \in kept : now - as[a].at <= MaxAge
            /\ \A a \in DOMAIN as \ kept :
                 /\ \A b \in kept : ~Older(as, b, a)
                 /\ now - as[a].at <= MaxAge =>
                      LET newer == {b \in DOMAIN as : b = a \/ Older(as, a, b)}
                      IN Cardinality(newer) > MaxArtifacts \/ Bytes(as, newer) > MaxBytes
<1> DEFINE S == DOMAIN as
           fresh == {a \in S : now - as[a].at <= MaxAge}
           kept == Newest(as, fresh, MaxArtifacts)
           Best(m) == /\ Bytes(as, Newest(as, kept, m)) <= MaxBytes
                      /\ \A k \in (m + 1)..Cardinality(kept) : Bytes(as, Newest(as, kept, k)) > MaxBytes
           n == CHOOSE m \in 0..Cardinality(kept) : Best(m)
           R == Newest(as, kept, n)
           newer(a) == {b \in S : b = a \/ Older(as, a, b)}
<1>1. Retained(as, now) = R
  BY DEF Retained
<1>2. /\ MaxAge \in Nat /\ MaxArtifacts \in Nat /\ MaxBytes \in Nat
  BY RecordsAssumption
<1>a. \A x, y \in Nat : x <= y /\ now - x <= MaxAge => now - y <= MaxAge
  BY <1>2
<1>3. fresh \in SUBSET S /\ kept \in SUBSET fresh
  BY NewestIs
<1>4. Captured(as, fresh) /\ Captured(as, kept) /\ Cardinality(kept) \in Nat
  <2>1. IsFiniteSet(fresh) /\ IsFiniteSet(kept)
    BY <1>3, FS_Subset DEF Captured
  <2> QED
    BY <1>3, <2>1, FS_CardinalityType DEF Captured
<1>5. \A m : /\ Newest(as, kept, m) \in SUBSET kept /\ IsFiniteSet(Newest(as, kept, m))
             /\ Bytes(as, Newest(as, kept, m)) \in Nat
  <2> TAKE m
  <2>1. Newest(as, kept, m) \in SUBSET kept
    BY NewestIs, Zenon
  <2>2. IsFiniteSet(Newest(as, kept, m))
    BY <1>4, <2>1, FS_Subset DEF Captured
  <2>3. \A a \in Newest(as, kept, m) : as[a].size \in Nat
    BY <1>4, <2>1 DEF Captured
  <2> QED
    BY <2>1, <2>2, <2>3, BytesSum
<1>6. Bytes(as, Newest(as, kept, 0)) <= MaxBytes
  <2>1. Newest(as, kept, 0) = {}
    <3> SUFFICES ASSUME NEW a \in Newest(as, kept, 0) PROVE FALSE
      OBVIOUS
    <3>1. Cardinality(Ahead(as, kept, a)) < 0 /\ Cardinality(Ahead(as, kept, a)) \in Nat
      BY <1>4, NewestIs, AheadIsFinite, Zenon
    <3>2. \A k \in Nat : ~(k < 0)
      OBVIOUS
    <3> QED
      BY <3>1, <3>2, Zenon
  <2>2. Bytes(as, Newest(as, kept, 0)) = 0
    BY <2>1, FS_EmptySet, BytesSum
  <2>3. 0 <= MaxBytes
    BY <1>2
  <2> QED
    BY <2>2, <2>3
<1>7. n \in 0..Cardinality(kept) /\ Best(n)
  <2>1. \E m \in 0..Cardinality(kept) : Best(m)
    <3>1. \A x, y \in Nat : ~(x <= MaxBytes) <=> x > MaxBytes
      BY <1>2
    <3> HIDE DEF kept
    <3>2. PICK m \in 0..Cardinality(kept) :
            /\ Bytes(as, Newest(as, kept, m)) <= MaxBytes
            /\ \A k \in (m + 1)..Cardinality(kept) : ~(Bytes(as, Newest(as, kept, k)) <= MaxBytes)
      <4> DEFINE Good == {m \in 0..Cardinality(kept) : Bytes(as, Newest(as, kept, m)) <= MaxBytes}
      <4>1. Good \in SUBSET (0..Cardinality(kept)) /\ 0 \in Good
        <5>1. \A x \in Nat : 0 \in 0..x
          OBVIOUS
        <5> QED
          BY <1>4, <1>6, <5>1, Zenon
      <4>2. PICK m \in Good : \A k \in Good : k <= m
        <5> HIDE DEF Good
        <5> QED
          BY <1>4, <4>1, Largest
      <4>3. \A k \in (m + 1)..Cardinality(kept) : k \in 0..Cardinality(kept) /\ ~(k <= m)
        BY <1>4, <4>1, <4>2
      <4> QED
        BY <4>2, <4>3
    <3> QED
      BY <1>5, <3>1, <3>2, Zenon
  <2> HIDE DEF Best
  <2> QED
    BY <2>1, Zenon
<1> HIDE DEF n
<1>8. /\ n \in Nat /\ R \in SUBSET kept
      /\ \A k \in (n + 1)..Cardinality(kept) : Bytes(as, Newest(as, kept, k)) > MaxBytes
      /\ Bytes(as, R) <= MaxBytes
  <2>1. \A x \in Nat : 0..x \subseteq Nat
    OBVIOUS
  <2>2. n \in Nat
    BY <1>4, <1>7, <2>1, Zenon
  <2> QED
    BY <1>5, <1>7, <2>2, Zenon
<1>9. Cardinality(R) <= MaxArtifacts
  <2>1. Cardinality(kept) <= MaxArtifacts
    BY <1>2, <1>4, NewestAreFew
  <2>2. Cardinality(R) <= Cardinality(kept) /\ Cardinality(R) \in Nat
    BY <1>4, <1>8, FS_Subset, FS_CardinalityType DEF Captured
  <2>3. \A x, y, z \in Nat : x <= y /\ y <= z => x <= z
    OBVIOUS
  <2> QED
    BY <1>2, <1>4, <2>1, <2>2, <2>3, Zenon
<1>10. \A a \in S : \A b \in R : Older(as, b, a) => a \in R
  <2> SUFFICES ASSUME NEW a \in S, NEW b \in R, Older(as, b, a) PROVE a \in R
    OBVIOUS
  <2>1. b \in kept /\ b \in fresh /\ b \in S
    BY <1>3, <1>8
  <2>2. a \in fresh
    <3>1. as[b].at <= as[a].at /\ as[a].at \in Nat /\ as[b].at \in Nat
      BY <2>1, OlderIsOrder DEF Captured
    <3> QED
      BY <1>a, <2>1, <3>1, Zenon
  <2>3. a \in kept
    <3> HIDE DEF fresh
    <3> QED
      BY <1>2, <1>4, <2>1, <2>2, NewerStays
  <2> HIDE DEF kept
  <2> QED
    BY <1>4, <1>8, <2>1, <2>3, NewerStays
<1>11. ASSUME NEW a \in S \ R, a \in fresh
       PROVE  Cardinality(newer(a)) > MaxArtifacts \/ Bytes(as, newer(a)) > MaxBytes
  <2>1. newer(a) = Ahead(as, fresh, a) \cup {a}
    <3>1. ASSUME NEW b \in S, Older(as, a, b) PROVE b \in fresh
      <4>1. as[a].at <= as[b].at /\ as[a].at \in Nat /\ as[b].at \in Nat
        BY <3>1, OlderIsOrder DEF Captured
      <4> QED
        BY <1>a, <1>11, <4>1, Zenon
    <3> HIDE DEF fresh
    <3> QED
      BY <1>3, <1>11, <3>1 DEF Ahead
  <2>2. CASE a \notin kept
    <3> HIDE DEF fresh
    <3>1. /\ IsFiniteSet(Ahead(as, fresh, a)) /\ Cardinality(Ahead(as, fresh, a)) \in Nat
          /\ ~(Cardinality(Ahead(as, fresh, a)) < MaxArtifacts)
      BY <1>4, <1>11, <2>2, NewestIs, AheadIsFinite, Zenon
    <3>2. a \notin Ahead(as, fresh, a)
      BY <1>4, <1>11, OlderIsOrder DEF Ahead
    <3>3. Cardinality(Ahead(as, fresh, a) \cup {a}) = Cardinality(Ahead(as, fresh, a)) + 1
      BY <3>1, <3>2, FS_AddElement
    <3>4. \A x \in Nat : ~(x < MaxArtifacts) => x + 1 > MaxArtifacts
      BY <1>2
    <3>5. Cardinality(newer(a)) > MaxArtifacts
      <4> HIDE DEF newer
      <4> QED
        BY <2>1, <3>1, <3>3, <3>4, Zenon
    <3> QED
      BY <3>5
  <2>3. CASE a \in kept
    <3> HIDE DEF fresh
    <3> DEFINE k == Cardinality(Ahead(as, kept, a)) + 1
    <3>1. /\ IsFiniteSet(Ahead(as, kept, a)) /\ Cardinality(Ahead(as, kept, a)) \in Nat
      BY <1>4, AheadIsFinite
    <3>2. a \notin Ahead(as, kept, a)
      BY <1>4, <2>3, OlderIsOrder DEF Ahead
    <3>3. Cardinality(Ahead(as, kept, a) \cup {a}) = k
      BY <3>1, <3>2, FS_AddElement
    <3>4. Ahead(as, kept, a) \cup {a} \in SUBSET kept
      BY <2>3 DEF Ahead
    <3>5. k <= Cardinality(kept)
      BY <1>4, <3>3, <3>4, FS_Subset DEF Captured
    <3>6. ~(Cardinality(Ahead(as, kept, a)) < n)
      BY <1>11, <2>3, NewestIs, Zenon
    <3>7. k \in (n + 1)..Cardinality(kept)
      <4>1. \A x, y \in Nat : ~(x < n) /\ x + 1 <= y => x + 1 \in (n + 1)..y
        BY <1>8
      <4> QED
        BY <1>4, <3>1, <3>5, <3>6, <4>1, Zenon
    <3>0. \A b : b \in Newest(as, kept, k) <=>
                   b \in kept /\ Cardinality(Ahead(as, kept, b)) < Cardinality(Ahead(as, kept, a)) + 1
      BY NewestIs, Zenon
    <3>8. Ahead(as, fresh, a) \cup {a} = Newest(as, kept, k)
      <4>1. ASSUME NEW b \in Ahead(as, fresh, a) PROVE b \in Newest(as, kept, k)
        <5>1. b \in fresh /\ Older(as, a, b)
          BY DEF Ahead
        <5>2. b \in kept
          BY <1>2, <1>4, <2>3, <5>1, <1>3, NewerStays
        <5>3. Cardinality(Ahead(as, kept, b)) < Cardinality(Ahead(as, kept, a))
          BY <1>4, <2>3, <5>1, <5>2, MoreAhead
        <5>4. Cardinality(Ahead(as, kept, b)) \in Nat
          BY <1>4, AheadIsFinite
        <5>5. \A x, y \in Nat : x < y => x < y + 1
          OBVIOUS
        <5> QED
          BY <3>0, <3>1, <5>2, <5>3, <5>4, <5>5, Zenon
      <4>2. a \in Newest(as, kept, k)
        <5>1. \A x \in Nat : x < x + 1
          OBVIOUS
        <5> QED
          BY <2>3, <3>0, <3>1, <5>1, Zenon
      <4>3. ASSUME NEW b \in Newest(as, kept, k), b # a PROVE b \in Ahead(as, fresh, a)
        <5>1. b \in kept /\ Cardinality(Ahead(as, kept, b)) < k
          BY <3>0, <4>3, Zenon
        <5>2. Cardinality(Ahead(as, kept, b)) \in Nat
          BY <1>4, AheadIsFinite
        <5>3. \A x, y \in Nat : x < y + 1 => ~(y < x)
          OBVIOUS
        <5>4. ~(Cardinality(Ahead(as, kept, a)) < Cardinality(Ahead(as, kept, b)))
          BY <3>1, <5>1, <5>2, <5>3, Zenon
        <5>5. ~Older(as, b, a)
          BY <1>4, <2>3, <5>1, <5>4, MoreAhead
        <5>6. Older(as, a, b)
          BY <1>4, <2>3, <4>3, <5>1, <5>5, OlderIsOrder
        <5> QED
          BY <1>3, <5>1, <5>6 DEF Ahead
      <4> QED
        BY <4>1, <4>2, <4>3
    <3>9. Bytes(as, Newest(as, kept, k)) > MaxBytes
      BY <1>8, <3>7
    <3>10. Bytes(as, newer(a)) > MaxBytes
      BY <2>1, <3>8, <3>9
    <3> QED
      BY <3>10
  <2> QED
    BY <2>2, <2>3
<1> QED
  <2>1. /\ R \subseteq S /\ Cardinality(R) <= MaxArtifacts /\ Bytes(as, R) <= MaxBytes
        /\ \A a \in R : now - as[a].at <= MaxAge
    BY <1>3, <1>8, <1>9
  <2>2. \A a \in S \ R : \A b \in R : ~Older(as, b, a)
    BY <1>10
  <2>3. \A a \in S \ R : now - as[a].at <= MaxAge =>
          Cardinality(newer(a)) > MaxArtifacts \/ Bytes(as, newer(a)) > MaxBytes
    BY <1>11
  <2> HIDE DEF R
  <2> QED
    BY <1>1, <2>1, <2>2, <2>3

\* The artifacts there are, as the lemmas on retention want them.
LEMMA ArtifactsCaptured ==
  ASSUME TracesOK PROVE Captured(artifacts, DOMAIN artifacts)
<1>1. Artifact \subseteq Nat
  BY RecordsAssumption
<1> QED
  BY <1>1 DEF TracesOK, Captured

LEMMA RetainedIsThere ==
  ASSUME TracesOK PROVE Retained(artifacts, clock) \in SUBSET DOMAIN artifacts
BY ArtifactsCaptured, RetainedFits DEF TracesOK

LEMMA TraceKeeps == ASSUME TracesOK, TraceNext PROVE TracesOK'
<1>1. CASE CaptureArtifact
  <2>1. PICK a \in Artifact \ DOMAIN artifacts, size \in 0..MaxSize :
          artifacts' = Put(artifacts, a, [at |-> clock, size |-> size])
    BY <1>1 DEF CaptureArtifact
  <2> DEFINE r == [at |-> clock, size |-> size]
  <2>2. r \in [at : Nat, size : Nat]
    BY RecordsAssumption DEF TracesOK
  <2> HIDE DEF r
  <2>3. artifacts' = Put(artifacts, a, r)
    BY <2>1 DEF r
  <2>4. artifacts' = [z \in DOMAIN artifacts \cup {a} |-> IF z = a THEN r ELSE artifacts[z]]
    BY <2>3 DEF Put
  <2>5. IsFiniteSet(DOMAIN artifacts') /\ DOMAIN artifacts' \subseteq Artifact
    BY <2>4, FS_AddElement DEF TracesOK
  <2>6. artifacts' \in [DOMAIN artifacts' -> [at : Nat, size : Nat]]
    BY <2>2, <2>4 DEF TracesOK
  <2> QED
    BY <1>1, <2>5, <2>6 DEF CaptureArtifact, TracesOK
<1>2. CASE Tick
  BY <1>2 DEF Tick, TracesOK
<1>3. CASE EvaluateRetention
  <2> DEFINE kept == Retained(artifacts, clock)
  <2>1. kept \in SUBSET DOMAIN artifacts
    BY RetainedIsThere
  <2>2. artifacts' = [a \in kept |-> artifacts[a]]
    BY <1>3 DEF EvaluateRetention
  <2> HIDE DEF kept
  <2>3. IsFiniteSet(kept)
    BY <2>1, FS_Subset DEF TracesOK
  <2> QED
    BY <1>3, <2>1, <2>2, <2>3 DEF EvaluateRetention, TracesOK
<1>4. CASE IngestTraceFact
  <2>1. PICK a \in DOMAIN artifacts \cap TraceArtifact, key \in Key, value \in Value :
          facts' = facts \cup {[artifact |-> a, key |-> key, value |-> value]}
    BY <1>4 DEF IngestTraceFact
  <2>2. facts' \subseteq Finding
    BY <2>1 DEF TracesOK, Finding
  <2> QED
    BY <1>4, <2>2 DEF IngestTraceFact, TracesOK
<1>5. CASE CorroborateWithTrace
  BY <1>5 DEF CorroborateWithTrace, TracesOK
<1> QED
  BY <1>1, <1>2, <1>3, <1>4, <1>5 DEF TraceNext

\* A step that takes artifacts away is the evaluation of the policy.
LEMMA RetentionKeeps ==
  ASSUME TracesOK, TraceNext, DOMAIN artifacts' \subseteq DOMAIN artifacts, artifacts' # artifacts
  PROVE  LET kept == DOMAIN artifacts'
         IN /\ Cardinality(kept) <= MaxArtifacts /\ Bytes(artifacts, kept) <= MaxBytes
            /\ \A a \in kept : clock - artifacts[a].at <= MaxAge
            /\ \A a \in DOMAIN artifacts \ kept :
                 /\ \A b \in kept : ~Older(artifacts, b, a)
                 /\ clock - artifacts[a].at <= MaxAge =>
                      LET newer == {b \in DOMAIN artifacts : b = a \/ Older(artifacts, a, b)}
                      IN Cardinality(newer) > MaxArtifacts \/ Bytes(artifacts, newer) > MaxBytes
<1>1. ~CaptureArtifact
  <2> SUFFICES ASSUME CaptureArtifact PROVE FALSE
    OBVIOUS
  <2>1. PICK a \in Artifact \ DOMAIN artifacts, size \in 0..MaxSize :
          artifacts' = Put(artifacts, a, [at |-> clock, size |-> size])
    BY DEF CaptureArtifact
  <2>2. a \in DOMAIN artifacts'
    BY <2>1 DEF Put
  <2> QED
    BY <2>1, <2>2
<1>2. EvaluateRetention
  BY <1>1 DEF TraceNext, Tick, IngestTraceFact, CorroborateWithTrace
<1>3. DOMAIN artifacts' = Retained(artifacts, clock)
  BY <1>2 DEF EvaluateRetention
<1>4. Captured(artifacts, DOMAIN artifacts) /\ clock \in Nat
  BY ArtifactsCaptured DEF TracesOK
<1> QED
  BY <1>3, <1>4, RetainedFits, Zenon

-----------------------------------------------------------------------------
(* Journeys.                                                                *)

LEMMA IntentKeeps == ASSUME JourneysOK, CreateIntentTest PROVE JourneysOK'
<1>1. PICK obligations, known \in SUBSET Obligations, counts \in [Scope -> 0..1],
           policies \in SUBSET [scope : Scope, index : 0..1], actions, retries \in 0..2 :
        intent' = IntentTest([obligations |-> obligations, counts |-> counts,
                              policies |-> policies,
                              recovery |-> IF actions = 0 THEN Conservative
                                           ELSE [semantic |-> TRUE, actions |-> actions,
                                                 retries |-> retries]], known)
  BY Zenon DEF CreateIntentTest
<1> DEFINE i == [obligations |-> obligations, counts |-> counts, policies |-> policies,
                 recovery |-> IF actions = 0 THEN Conservative
                              ELSE [semantic |-> TRUE, actions |-> actions, retries |-> retries]]
<1> HIDE DEF i
<1>2. intent' = IntentTest(i, known)
  BY <1>1 DEF i
<1>3. ASSUME intent' # Rejected PROVE IntentTest(intent', Obligations) = intent'
  <2>1. intent' = i
    BY <1>2, <1>3 DEF IntentTest
  <2>2. /\ i.obligations # {} /\ i.obligations \subseteq known
        /\ ~(i.counts["action"] = 0 \/ i.counts["expected_outcome"] = 0)
        /\ ~\E p \in i.policies : ~PolicyFits(p, i.counts)
        /\ RecoveryPolicyFits(i.recovery)
    BY <1>2, <1>3 DEF IntentTest
  <2>3. i.obligations \subseteq Obligations
    BY <2>2
  <2> QED
    BY <2>1, <2>2, <2>3 DEF IntentTest
<1> QED
  BY <1>3 DEF CreateIntentTest, JourneysOK, IntentReadable

\* Every relation a journey can have to a change selects it.
LEMMA AllSelected ==
  ASSUME NEW c, NEW paths, NEW obligations, NEW inferred
  PROVE  Selected(MappingKind(c, paths, obligations, inferred))
BY DEF MappingKind, Selected

LEMMA JourneyKeeps == ASSUME JourneysOK, JourneyNext PROVE JourneysOK'
<1>1. CASE SelectJourneysForChanges
  <2>1. PICK paths \in SUBSET Path \ {{}}, obligations \in SUBSET Obligations,
             inferred \in SUBSET DOMAIN candidates :
          selection' = [j \in DOMAIN candidates |->
                          LET kind == MappingKind(candidates[j], paths, obligations, j \in inferred)
                          IN [kind |-> kind, selected |-> Selected(kind),
                              touched |-> candidates[j].paths \cap paths # {}]]
    BY <1>1, Zenon DEF SelectJourneysForChanges
  <2>2. ASSUME NEW j \in DOMAIN selection' PROVE selection'[j].selected
    <3>1. selection'[j].selected
            = Selected(MappingKind(candidates[j], paths, obligations, j \in inferred))
      BY <2>1
    <3> QED
      BY <3>1, AllSelected
  <2> QED
    BY <1>1, <2>2 DEF SelectJourneysForChanges, JourneysOK
<1>2. ASSUME NEW j \in Journey, CreateJourneyCandidate(j) PROVE JourneysOK'
  BY <1>2 DEF CreateJourneyCandidate, JourneysOK
<1>3. ASSUME NEW j \in Journey, EvaluateJourneyCoverage(j) PROVE JourneysOK'
  <2>1. PICK oracles, run, reason, own \in BOOLEAN, kind \in {"observed", "inferred"},
             to \in {1, 2}, walked \in BOOLEAN :
          LET edge == [kind |-> kind, run |-> run, reason |-> reason, own |-> own,
                       from |-> 1, to |-> to]
              r == JourneyRecord([nodes |-> {1}, oracles |-> oracles,
                                  obligations |-> candidates[j].obligations # {},
                                  edges |-> IF walked THEN {edge} ELSE {}])
          IN covered' = Put(covered, j, IF r = Rejected THEN [verdict |-> "rejected"]
                                        ELSE [verdict |-> CoverageVerdict(r), record |-> r])
    BY <1>3, Zenon DEF EvaluateJourneyCoverage
  <2> DEFINE rec == [nodes |-> {1}, oracles |-> oracles,
                     obligations |-> candidates[j].obligations # {},
                     edges |-> IF walked THEN {[kind |-> kind, run |-> run, reason |-> reason,
                                                own |-> own, from |-> 1, to |-> to]} ELSE {}]
             r == JourneyRecord(rec)
             c == IF r = Rejected THEN [verdict |-> "rejected"]
                  ELSE [verdict |-> CoverageVerdict(r), record |-> r]
  <2>2. covered' = Put(covered, j, c)
    BY <2>1
  <2>3. JourneyReadable(c)
    <3> HIDE DEF rec
    <3>1. CASE r = Rejected
      BY <3>1 DEF JourneyReadable
    <3>2. CASE r # Rejected
      <4>1. r = rec
        BY <3>2 DEF JourneyRecord
      <4>2. c.record = r
        BY <3>2
      <4> QED
        BY <4>1, <4>2 DEF JourneyReadable
    <3> QED
      BY <3>1, <3>2
  <2> HIDE DEF c
  <2>4. \A i \in DOMAIN covered' : JourneyReadable(covered'[i])
    BY <2>2, <2>3 DEF JourneysOK, Put
  <2> QED
    BY <1>3, <2>4 DEF EvaluateJourneyCoverage, JourneysOK
<1> QED
  BY <1>1, <1>2, <1>3 DEF JourneyNext

-----------------------------------------------------------------------------
(* The agent.                                                               *)

\* What total is in Calls.
Totals(f, s) ==
  f = [n \in 0..Len(s) |-> IF n = 0 THEN 0 ELSE f[n - 1] + s[n].calls]

\* What is asked together is a number, and there is one.
LEMMA TotalsExist ==
  ASSUME NEW s \in Seq(Proposal)
  PROVE  \E f : Totals(f, s)
<1> DEFINE Fits(f, m) == \A n \in 0..m : f[n] = IF n = 0 THEN 0 ELSE f[n - 1] + s[n].calls
           Bad == {m \in 0..Len(s) : ~\E f : Fits(f, m)}
<1>1. 0 \notin Bad
  <2>1. Fits([n \in {0} |-> 0], 0)
    OBVIOUS
  <2> QED
    BY <2>1
<1>2. ASSUME NEW m \in 0..Len(s), m # 0, m - 1 \notin Bad PROVE m \notin Bad
  <2>1. m - 1 \in 0..Len(s)
    BY <1>2
  <2>2. PICK f : Fits(f, m - 1)
    BY <1>2, <2>1
  <2> DEFINE g == [n \in 0..m |-> IF n = m THEN f[m - 1] + s[m].calls ELSE f[n]]
  <2>3. \A n \in 0..m : g[n] = IF n = m THEN f[m - 1] + s[m].calls ELSE f[n]
    OBVIOUS
  <2> HIDE DEF g
  <2>4. ASSUME NEW n \in 0..m PROVE g[n] = IF n = 0 THEN 0 ELSE g[n - 1] + s[n].calls
    <3>1. CASE n = m
      <4>1. m - 1 \in 0..m /\ m - 1 # m /\ g[m - 1] = f[m - 1]
        BY <1>2, <2>3
      <4> QED
        BY <1>2, <2>3, <3>1, <4>1
    <3>2. CASE n # m
      <4>1. n \in 0..(m - 1) /\ g[n] = f[n]
        BY <2>3, <3>2
      <4>2. n # 0 => n - 1 \in 0..m /\ n - 1 # m /\ g[n - 1] = f[n - 1]
        BY <2>3, <3>2
      <4> QED
        BY <2>2, <4>1, <4>2
    <3> QED
      BY <3>1, <3>2
  <2> QED
    BY <2>4
<1> HIDE DEF Bad
<1>3. Bad = {}
  <2> SUFFICES ASSUME Bad # {} PROVE FALSE
    OBVIOUS
  <2>1. Bad \in SUBSET Nat /\ Bad \subseteq 0..Len(s)
    BY DEF Bad
  <2>2. PICK m \in Bad : \A n \in Bad : m <= n
    BY <2>1, Smallest
  <2>3. m \in 0..Len(s) /\ m # 0 /\ ~(m <= m - 1)
    BY <1>1, <2>1, <2>2
  <2> QED
    BY <1>2, <2>2, <2>3
<1>4. PICK f : Fits(f, Len(s))
  <2>1. Len(s) \in 0..Len(s)
    OBVIOUS
  <2> QED
    BY <1>3, <2>1 DEF Bad
<1>5. Totals([n \in 0..Len(s) |-> f[n]], s)
  <2> DEFINE g == [n \in 0..Len(s) |-> f[n]]
  <2>1. ASSUME NEW n \in 0..Len(s) PROVE g[n] = IF n = 0 THEN 0 ELSE g[n - 1] + s[n].calls
    <3>1. n # 0 => n - 1 \in 0..Len(s)
      OBVIOUS
    <3> QED
      BY <1>4, <3>1
  <2> QED
    BY <2>1 DEF Totals
<1> QED
  BY <1>5

\* And two of them agree as far as their sequences do.
LEMMA TotalsAgree ==
  ASSUME NEW s \in Seq(Proposal), NEW t \in Seq(Proposal), Len(s) <= Len(t),
         \A n \in 1..Len(s) : s[n] = t[n], NEW f, Totals(f, s), NEW g, Totals(g, t)
  PROVE  \A n \in 0..Len(s) : f[n] = g[n] /\ f[n] \in Nat
<1> DEFINE Bad == {n \in 0..Len(s) : f[n] # g[n] \/ f[n] \notin Nat}
<1>1. ASSUME NEW n \in 0..Len(s)
      PROVE  /\ f[n] = (IF n = 0 THEN 0 ELSE f[n - 1] + s[n].calls)
             /\ g[n] = (IF n = 0 THEN 0 ELSE g[n - 1] + t[n].calls)
  <2>1. n \in 0..Len(t)
    OBVIOUS
  <2>2. f[n] = (IF n = 0 THEN 0 ELSE f[n - 1] + s[n].calls)
    BY Zenon DEF Totals
  <2>3. g[n] = (IF n = 0 THEN 0 ELSE g[n - 1] + t[n].calls)
    BY <2>1, Zenon DEF Totals
  <2> QED
    BY <2>2, <2>3
<1>2. 0 \notin Bad
  <2>1. 0 \in 0..Len(s)
    OBVIOUS
  <2> QED
    BY <1>1, <2>1
<1>3. ASSUME NEW n \in 0..Len(s), n # 0, n - 1 \notin Bad PROVE n \notin Bad
  <2>1. n - 1 \in 0..Len(s) /\ n \in 1..Len(s)
    BY <1>3
  <2>2. f[n - 1] = g[n - 1] /\ f[n - 1] \in Nat
    BY <1>3, <2>1
  <2>3. s[n] = t[n] /\ s[n].calls \in Nat
    <3>1. s[n] \in Proposal
      BY <2>1, ElementOfSeq
    <3> QED
      BY <2>1, <3>1 DEF Proposal
  <2>4. f[n] = f[n - 1] + s[n].calls /\ g[n] = f[n - 1] + s[n].calls
    BY <1>1, <1>3, <2>2, <2>3
  <2>5. f[n - 1] + s[n].calls \in Nat
    BY <2>2, <2>3
  <2> QED
    BY <2>4, <2>5
<1> HIDE DEF Bad
<1>4. Bad = {}
  <2> SUFFICES ASSUME Bad # {} PROVE FALSE
    OBVIOUS
  <2>1. Bad \in SUBSET Nat /\ Bad \subseteq 0..Len(s)
    BY DEF Bad
  <2>2. PICK m \in Bad : \A n \in Bad : m <= n
    BY <2>1, Smallest
  <2>3. m \in 0..Len(s) /\ m # 0 /\ ~(m <= m - 1)
    BY <1>2, <2>1, <2>2
  <2> QED
    BY <1>3, <2>2, <2>3
<1> QED
  BY <1>4 DEF Bad

\* One more proposal asks for its calls more.
LEMMA CallsGrow ==
  /\ Calls(<<>>) = 0
  /\ \A s \in Seq(Proposal) : Calls(s) \in Nat
  /\ \A s \in Seq(Proposal), p \in Proposal : Calls(Append(s, p)) = Calls(s) + p.calls
<1> DEFINE total(s) == CHOOSE f : Totals(f, s)
<1>1. ASSUME NEW s PROVE Calls(s) = total(s)[Len(s)]
  BY DEF Calls, Totals
<1>2. ASSUME NEW s \in Seq(Proposal) PROVE Totals(total(s), s)
  BY TotalsExist, Zenon
<1> HIDE DEF total
<1>3. Calls(<<>>) = 0
  <2>1. <<>> \in Seq(Proposal) /\ Len(<<>>) = 0
    OBVIOUS
  <2>2. total(<<>>)[0] = 0
    <3>1. Totals(total(<<>>), <<>>)
      BY <1>2, <2>1
    <3>2. 0 \in 0..Len(<<>>)
      BY <2>1
    <3> QED
      BY <3>1, <3>2, Zenon DEF Totals
  <2> QED
    BY <1>1, <2>1, <2>2
<1>4. ASSUME NEW s \in Seq(Proposal) PROVE Calls(s) \in Nat
  <2>1. Len(s) \in 0..Len(s) /\ Len(s) <= Len(s)
    OBVIOUS
  <2> QED
    BY <1>1, <1>2, <2>1, TotalsAgree
<1>5. ASSUME NEW s \in Seq(Proposal), NEW p \in Proposal
      PROVE  Calls(Append(s, p)) = Calls(s) + p.calls
  <2> DEFINE t == Append(s, p)
  <2>1. /\ t \in Seq(Proposal) /\ Len(t) = Len(s) + 1 /\ t[Len(t)] = p
        /\ \A n \in 1..Len(s) : s[n] = t[n]
    OBVIOUS
  <2> HIDE DEF t
  <2>2. Len(s) \in Nat /\ Len(s) \in 0..Len(s) /\ Len(s) <= Len(t) /\ Len(t) \in 0..Len(t)
        /\ Len(t) # 0 /\ Len(t) - 1 = Len(s)
    BY <2>1
  <2>3. total(s)[Len(s)] = total(t)[Len(s)]
    BY <1>2, <2>1, <2>2, TotalsAgree
  <2>4. total(t)[Len(t)] = total(t)[Len(t) - 1] + t[Len(t)].calls
    BY <1>2, <2>1, <2>2 DEF Totals
  <2>5. Calls(t) = Calls(s) + p.calls
    BY <1>1, <2>1, <2>2, <2>3, <2>4
  <2> QED
    BY <2>5 DEF t
<1> QED
  BY <1>3, <1>4, <1>5

\* What is admitted was asked, and what was asked counts as spent.
LEMMA AgentKeeps == ASSUME BudgetOK, AgentNext PROVE BudgetOK'
<1>1. CASE PlanExploration
  BY <1>1 DEF PlanExploration, BudgetOK
<1>2. CASE EvaluateProposalAdmission
  <2>1. PICK bound, own, listed \in BOOLEAN, calls \in 0..(MaxToolCalls + 1) :
          LET p == [bound |-> bound, own |-> own, listed |-> listed, calls |-> calls]
          IN /\ admitted' = IF BlockedBy(p, spent) = {} THEN Append(admitted, p) ELSE admitted
             /\ spent' =
                  [proposals |-> MaxProposals - AtLeast0(MaxProposals - spent.proposals - 1),
                   calls |-> MaxToolCalls - AtLeast0(MaxToolCalls - spent.calls - calls)]
    BY <1>2, Zenon DEF EvaluateProposalAdmission
  <2> DEFINE p == [bound |-> bound, own |-> own, listed |-> listed, calls |-> calls]
             np == MaxProposals - AtLeast0(MaxProposals - spent.proposals - 1)
             nc == MaxToolCalls - AtLeast0(MaxToolCalls - spent.calls - calls)
  <2>2. /\ MaxProposals \in Nat /\ MaxToolCalls \in Nat
        /\ spent.proposals \in 0..MaxProposals /\ spent.calls \in 0..MaxToolCalls
        /\ Len(admitted) \in Nat /\ calls \in Nat
    BY RecordsAssumption DEF BudgetOK
  <2>3. /\ np \in 0..MaxProposals /\ spent.proposals <= np
        /\ nc \in 0..MaxToolCalls /\ spent.calls <= nc
        /\ spent.proposals < MaxProposals => np = spent.proposals + 1
        /\ calls <= MaxToolCalls - spent.calls => nc = spent.calls + calls
    <3>1. ASSUME NEW m \in Nat, NEW x \in 0..m, NEW k \in Nat, NEW y,
                 y = m - AtLeast0(m - x - k)
          PROVE  y \in 0..m /\ x <= y /\ (k <= m - x => y = x + k)
      BY <3>1 DEF AtLeast0
    <3>2. 1 \in Nat /\ (spent.proposals < MaxProposals => 1 <= MaxProposals - spent.proposals)
      BY <2>2
    <3>3. /\ np \in 0..MaxProposals /\ spent.proposals <= np
          /\ 1 <= MaxProposals - spent.proposals => np = spent.proposals + 1
      BY <2>2, <3>1, <3>2, Zenon
    <3>4. /\ nc \in 0..MaxToolCalls /\ spent.calls <= nc
          /\ calls <= MaxToolCalls - spent.calls => nc = spent.calls + calls
      <4>1. PICK x \in 0..MaxToolCalls : x = spent.calls
        BY <2>2
      <4>2. nc = MaxToolCalls - AtLeast0(MaxToolCalls - x - calls)
        BY <4>1
      <4> HIDE DEF nc
      <4>3. nc \in 0..MaxToolCalls /\ x <= nc /\ (calls <= MaxToolCalls - x => nc = x + calls)
        BY <2>2, <4>2 DEF AtLeast0
      <4> QED
        BY <4>1, <4>3, Zenon
    <3> QED
      BY <3>2, <3>3, <3>4, Zenon
  <2>4. spent' = [proposals |-> np, calls |-> nc]
    BY <2>1
  <2>5. admitted' = IF BlockedBy(p, spent) = {} THEN Append(admitted, p) ELSE admitted
    BY <2>1
  <2>6. ASSUME BlockedBy(p, spent) = {}
        PROVE  /\ p \in Proposal /\ spent.proposals < MaxProposals
               /\ calls <= MaxToolCalls - spent.calls
    <3>1. /\ "authorization-mismatch" \notin BlockedBy(p, spent)
          /\ "cross-tree-proposal" \notin BlockedBy(p, spent)
          /\ "not-allowlisted" \notin BlockedBy(p, spent)
          /\ "proposal-budget-exhausted" \notin BlockedBy(p, spent)
          /\ "tool-call-budget-exceeded" \notin BlockedBy(p, spent)
      BY <2>6
    <3>2. p.bound /\ p.own /\ p.listed
      BY <3>1 DEF BlockedBy
    <3>3. ~(MaxProposals - spent.proposals <= 0)
      BY <3>1 DEF BlockedBy
    <3>4. ~(p.calls > AtLeast0(MaxToolCalls - spent.calls))
      BY <3>1 DEF BlockedBy
    <3>5. p \in Proposal
      BY <2>2, <3>2 DEF Proposal
    <3>6. calls <= MaxToolCalls - spent.calls
      BY <2>2, <3>4 DEF AtLeast0
    <3> QED
      BY <2>2, <3>3, <3>5, <3>6
  <2>7. p.calls = calls
    OBVIOUS
  <2> HIDE DEF p, np, nc
  <2>8. spent' \in [proposals : 0..MaxProposals, calls : 0..MaxToolCalls]
        /\ spent'.proposals = np /\ spent'.calls = nc
    BY <2>3, <2>4
  <2>9. admitted \in Seq(Proposal) /\ Len(admitted) <= spent.proposals
        /\ Calls(admitted) <= spent.calls
    BY DEF BudgetOK
  <2>10. CASE BlockedBy(p, spent) = {}
    <3>1. admitted' = Append(admitted, p) /\ p \in Proposal
      BY <2>5, <2>6, <2>10
    <3>2. admitted' \in Seq(Proposal) /\ Len(admitted') = Len(admitted) + 1
      BY <2>9, <3>1
    <3>3. Calls(admitted) \in Nat /\ Calls(admitted') = Calls(admitted) + calls
      BY <2>7, <2>9, <3>1, CallsGrow
    <3>4. np = spent.proposals + 1 /\ nc = spent.calls + calls
      BY <2>3, <2>6, <2>10
    <3>5. Len(admitted') <= np
      BY <2>2, <2>9, <3>2, <3>4
    <3>6. Calls(admitted') <= nc
      BY <2>2, <2>9, <3>3, <3>4
    <3> QED
      BY <2>8, <3>2, <3>5, <3>6 DEF BudgetOK
  <2>11. CASE BlockedBy(p, spent) # {}
    <3>1. admitted' = admitted
      BY <2>5, <2>11
    <3>2. Calls(admitted) \in Nat
      BY <2>9, CallsGrow
    <3>3. Len(admitted) <= np /\ Calls(admitted) <= nc
      BY <2>2, <2>3, <2>9, <3>2
    <3> QED
      BY <2>8, <2>9, <3>1, <3>3 DEF BudgetOK
  <2> QED
    BY <2>10, <2>11
<1> QED
  BY <1>1, <1>2 DEF AgentNext

-----------------------------------------------------------------------------
(* The whole.                                                               *)

LEMMA RecordsInitInv == RecordsInit => RecordsInv
<1> SUFFICES ASSUME RecordsInit PROVE RecordsInv
  OBVIOUS
<1>1. DOMAIN Nothing = {}
  BY DEF Nothing
<1>2. TracesOK
  <2>1. Nothing = [x \in DOMAIN Nothing |-> Nothing[x]]
    BY DEF Nothing
  <2> QED
    BY <1>1, <2>1, FS_EmptySet DEF RecordsInit, TracesOK
<1>3. JourneysOK
  BY <1>1 DEF RecordsInit, JourneysOK
<1>4. BudgetOK
  <2>1. 0 \in 0..MaxProposals /\ 0 \in 0..MaxToolCalls
    BY RecordsAssumption
  <2>2. spent = [proposals |-> 0, calls |-> 0] /\ admitted = <<>>
    BY DEF RecordsInit
  <2>3. <<>> \in Seq(Proposal) /\ Len(<<>>) = 0
    OBVIOUS
  <2> QED
    BY <2>1, <2>2, <2>3, CallsGrow DEF BudgetOK
<1> QED
  BY <1>2, <1>3, <1>4 DEF RecordsInv

LEMMA RecordsKeep ==
  ASSUME RecordsInv,
         \/ TraceNext \/ CreateIntentTest \/ JourneyNext \/ AgentNext \/ UNCHANGED recordVars
  PROVE  RecordsInv'
<1> USE DEF RecordsInv
<1>1. ASSUME UNCHANGED traceVars PROVE TracesOK'
  BY <1>1 DEF traceVars, TracesOK
<1>2. ASSUME UNCHANGED journeyVars PROVE JourneysOK'
  BY <1>2 DEF journeyVars, JourneysOK
<1>3. ASSUME UNCHANGED agentVars PROVE BudgetOK'
  BY <1>3 DEF agentVars, BudgetOK
<1>4. CASE TraceNext
  <2>1. UNCHANGED <<journeyVars, agentVars>>
    BY <1>4 DEF TraceNext, CaptureArtifact, Tick, EvaluateRetention, IngestTraceFact,
       CorroborateWithTrace
  <2> QED
    BY <1>2, <1>3, <1>4, <2>1, TraceKeeps
<1>5. CASE CreateIntentTest
  <2>1. UNCHANGED <<traceVars, agentVars>>
    BY <1>5 DEF CreateIntentTest
  <2> QED
    BY <1>1, <1>3, <1>5, <2>1, IntentKeeps
<1>6. CASE JourneyNext
  <2>1. UNCHANGED <<traceVars, agentVars>>
    BY <1>6 DEF JourneyNext, SelectJourneysForChanges, CreateJourneyCandidate,
       EvaluateJourneyCoverage
  <2> QED
    BY <1>1, <1>3, <1>6, <2>1, JourneyKeeps
<1>7. CASE AgentNext
  <2>1. UNCHANGED <<traceVars, journeyVars>>
    BY <1>7 DEF AgentNext, PlanExploration, EvaluateProposalAdmission
  <2> QED
    BY <1>1, <1>2, <1>7, <2>1, AgentKeeps
<1>8. CASE UNCHANGED recordVars
  BY <1>1, <1>2, <1>3, <1>8 DEF recordVars
<1> QED
  BY <1>4, <1>5, <1>6, <1>7, <1>8

LEMMA Invariance == Spec => []IInv
<1>1. Init => IInv
  BY SessionInitInv, RecordsInitInv DEF Init, IInv
<1>2. IInv /\ [Next]_vars => IInv'
  <2> SUFFICES ASSUME IInv, [Next]_vars PROVE IInv'
    OBVIOUS
  <2>1. SessionNext \/ UNCHANGED sessionVars
    BY DEF Next, vars
  <2>2. \/ TraceNext \/ CreateIntentTest \/ JourneyNext \/ AgentNext \/ UNCHANGED recordVars
    BY DEF Next, vars
  <2> QED
    BY <2>1, <2>2, SessionKeeps, RecordsKeep DEF IInv
<1> QED
  BY <1>1, <1>2, PTL DEF Spec

\* What is called clean was clean, of any session: with any number of attempts, assertions and
\* recoveries, whatever the page and the browser do while calls are awaited.
THEOREM GreenIsEarnedHolds == Spec => []GreenIsEarned
<1>1. IInv => GreenIsEarned
  BY BundleSpeaks, VerdictSpeaks DEF IInv, SessionInv, GreenIsEarned
<1> QED
  BY <1>1, Invariance, PTL

\* An assertion is answered "passed" only of a session that is there at that moment.
THEOREM PassedIsCurrentHolds == Spec => PassedIsCurrent
<1>1. IInv /\ [Next]_vars =>
        [Len(assertions') > Len(assertions) /\ assertions'[Len(assertions')].status = "passed" =>
           Active /\ (text = "match" \/ console = "none")]_sessionVars
  <2> SUFFICES ASSUME IInv, [Next]_vars,
                      Len(assertions') > Len(assertions),
                      assertions'[Len(assertions')].status = "passed"
               PROVE  Active /\ (text = "match" \/ console = "none")
    OBVIOUS
  <2>1. SessionNext \/ UNCHANGED sessionVars
    BY DEF Next, vars
  <2> QED
    BY <2>1, PassedNow DEF IInv
<1> QED
  BY <1>1, Invariance, PTL DEF Spec, PassedIsCurrent

\* Every record that is made, of a session, an intent, a journey or a proposal, is accepted by
\* its reader.
THEOREM RecordsRereadHolds == Spec => []RecordsReread
<1>1. IInv => RecordsReread
  <2> SUFFICES ASSUME IInv PROVE RecordsReread
    OBVIOUS
  <2>1. SessionReadable
    BY DEF IInv, SessionInv
  <2>2. IngestionReadable
    BY DEF IInv, RecordsInv, TracesOK, Finding, IngestionReadable
  <2>3. SelectionReadable
    BY DEF IInv, RecordsInv, JourneysOK, SelectionReadable
  <2>4. AuthorizationReadable
    BY RecordsAssumption DEF AuthorizationReadable
  <2>5. intent # Rejected =>
          IntentReadable(intent) /\ \A p \in Uncovered(intent) : PolicyFits(p, intent.counts)
    BY DEF IInv, RecordsInv, JourneysOK, Uncovered, PolicyFits
  <2>6. \A j \in DOMAIN covered : JourneyReadable(covered[j])
    BY DEF IInv, RecordsInv, JourneysOK
  <2>7. \A i \in DOMAIN admitted : ProposalReadable(admitted[i])
    <3>1. \A i \in DOMAIN admitted : admitted[i] \in Proposal
      BY ElementOfSeq, LenProperties DEF IInv, RecordsInv, BudgetOK
    <3>2. \A i \in DOMAIN admitted : admitted[i].calls \in Nat
      BY <3>1 DEF Proposal
    <3>3. \A n \in Nat : n >= 0
      OBVIOUS
    <3> QED
      BY <3>2, <3>3, Zenon DEF ProposalReadable
  <2> QED
    BY <2>1, <2>2, <2>3, <2>4, <2>5, <2>6, <2>7 DEF RecordsReread, RecordsReadable
<1> QED
  BY <1>1, Invariance, PTL

\* The proposals admitted fit the budget together, for any budget and any number of them, and
\* no journey that a change touches is left out.
THEOREM ExplorationIsGrounded == Spec => []ExplorationGrounded
<1>1. IInv => ExplorationGrounded
  <2> SUFFICES ASSUME IInv PROVE ExplorationGrounded
    OBVIOUS
  <2>1. /\ spent \in [proposals : 0..MaxProposals, calls : 0..MaxToolCalls]
        /\ admitted \in Seq(Proposal)
        /\ Len(admitted) <= spent.proposals /\ Calls(admitted) <= spent.calls
    BY DEF IInv, RecordsInv, BudgetOK
  <2>2. Len(admitted) \in Nat /\ Calls(admitted) \in Nat
    BY <2>1, CallsGrow
  <2>3. /\ spent.proposals \in Nat /\ spent.proposals <= MaxProposals /\ MaxProposals \in Nat
        /\ spent.calls \in Nat /\ spent.calls <= MaxToolCalls /\ MaxToolCalls \in Nat
    BY <2>1, RecordsAssumption
  <2>4. Len(admitted) <= MaxProposals /\ Calls(admitted) <= MaxToolCalls
    BY <2>1, <2>2, <2>3
  <2>5. \A i \in DOMAIN admitted : admitted[i].bound /\ admitted[i].own /\ admitted[i].listed
    <3>1. \A i \in DOMAIN admitted : admitted[i] \in Proposal
      BY <2>1, ElementOfSeq, LenProperties
    <3> QED
      BY <3>1 DEF Proposal
  <2> QED
    BY <2>4, <2>5 DEF ExplorationGrounded, IInv, RecordsInv, JourneysOK
<1> QED
  BY <1>1, Invariance, PTL

\* The retention policy is kept whenever it is evaluated, for any artifacts and any policy.
THEOREM RetentionHoldsAlways == Spec => RetentionHolds
<1>1. IInv /\ [Next]_vars =>
        [DOMAIN artifacts' \subseteq DOMAIN artifacts /\ artifacts' # artifacts =>
           LET kept == DOMAIN artifacts'
           IN /\ Cardinality(kept) <= MaxArtifacts /\ Bytes(artifacts, kept) <= MaxBytes
              /\ \A a \in kept : clock - artifacts[a].at <= MaxAge
              /\ \A a \in DOMAIN artifacts \ kept :
                   /\ \A b \in kept : ~Older(artifacts, b, a)
                   /\ clock - artifacts[a].at <= MaxAge =>
                        LET newer == {b \in DOMAIN artifacts : b = a \/ Older(artifacts, a, b)}
                        IN Cardinality(newer) > MaxArtifacts \/ Bytes(artifacts, newer) > MaxBytes
        ]_recordVars
  <2> SUFFICES ASSUME IInv, [Next]_vars, artifacts' # artifacts,
                      DOMAIN artifacts' \subseteq DOMAIN artifacts
               PROVE  LET kept == DOMAIN artifacts'
                      IN /\ Cardinality(kept) <= MaxArtifacts /\ Bytes(artifacts, kept) <= MaxBytes
                         /\ \A a \in kept : clock - artifacts[a].at <= MaxAge
                         /\ \A a \in DOMAIN artifacts \ kept :
                              /\ \A b \in kept : ~Older(artifacts, b, a)
                              /\ clock - artifacts[a].at <= MaxAge =>
                                   LET newer == {b \in DOMAIN artifacts :
                                                   b = a \/ Older(artifacts, a, b)}
                                   IN \/ Cardinality(newer) > MaxArtifacts
                                      \/ Bytes(artifacts, newer) > MaxBytes
    OBVIOUS
  <2>1. TraceNext
    BY DEF Next, vars, recordVars, traceVars, journeyVars, CreateIntentTest, JourneyNext,
       AgentNext, SelectJourneysForChanges, CreateJourneyCandidate, EvaluateJourneyCoverage,
       PlanExploration, EvaluateProposalAdmission
  <2> QED
    BY <2>1, RetentionKeeps, Zenon DEF IInv, RecordsInv
<1> QED
  BY <1>1, Invariance, PTL DEF Spec, RetentionHolds
================================================================================
