---------------------------- MODULE ExecutionBroker ----------------------------
(***************************************************************************)
(* One call of runQualifiedEngineV1 (src/src/assurance/engines/            *)
(* execution-broker.ts): the request is admitted, the executable, the      *)
(* configuration and the source are read and compared with what was        *)
(* requested, the engine runs through runProcess, all of them are read     *)
(* once more, and a status is decided.                                     *)
(*                                                                         *)
(* Nothing holds these things still.  Each may change between any two      *)
(* steps and while the engine runs; the broker only sees what it reads.    *)
(***************************************************************************)
EXTENDS Integers

CONSTANT MaxChanges  \* bound: changes of the things around the engine

ASSUME ExecutionBrokerAssumption == MaxChanges \in Nat

VARIABLES
  pc,       \* the await the call stands at
  native,   \* the profile's output_format is a native report
  aborted,  \* the caller's signal
  world,    \* what each thing is now, compared with what was requested
  changes,  \* how often each thing changed
  before,   \* what the broker read of each before the launch
  after,    \* what it read after the engine ended
  ran,      \* history: the engine was launched
  saw,      \* history: what each thing was while the engine ran
  run,      \* the result of runProcess
  streams,  \* what the engine left on its streams, and its exit code
  result    \* the result of the call

worldVars == <<world, changes>>
vars == <<pc, native, aborted, worldVars, before, after, ran, saw, run, streams, result>>

\* "ignore" is an ignore file of the engine, good when there is none.
Thing == {"executable", "config", "source", "ignore"}

\* A bad file has another digest, or its path leads elsewhere or into the source.
Version == {"good", "bad", "gone"}
VersionsOf(thing) == IF thing = "ignore" THEN {"good", "bad"} ELSE Version

Status == {"EXECUTED", "NOT_RUN", "UNAVAILABLE", "VERSION_MISMATCH", "DENIED_BY_POLICY",
           "MALFORMED_OUTPUT", "ENGINE_ERROR", "TIMEOUT", "INCOMPLETE"}

\* runProcess with require_tree_exit and stop_on_capture_limit; `missing' is ENOENT.
ProcessResult ==
  [outcome : {"exited", "timed_out", "error", "cancelled", "capture_limit", "tree_escape"},
   clean : BOOLEAN, missing : BOOLEAN]

NoRun == [outcome |-> "cancelled", clean |-> TRUE, missing |-> FALSE]

\* `exit' is the exit code through native_exit_map, "ERROR" also for a signal or an
\* exit code that is not mapped.
\* `output' is what decideFromEnvelope makes of stdout.  A secret in stdout is
\* raw, or such that a decoded envelope carries it; a secret in stderr may be
\* split by the cap, and is then not recognised.
Streams ==
  {s \in [exit : {"success", "ERROR", "NO_INPUT"},
          output : {"wrong", "partial", "complete"},
          stdout : {"clean", "raw", "carried"}, stdoutCut : BOOLEAN,
          stderr : {"clean", "secret", "split"}, stderrCut : BOOLEAN] :
     /\ s.stderr = "split" => s.stderrCut
     /\ s.stdout = "carried" => s.output # "wrong"}

Silent == [exit |-> "ERROR", output |-> "wrong", stdout |-> "clean", stdoutCut |-> FALSE,
           stderr |-> "clean", stderrCut |-> FALSE]

Unread == [t \in Thing |-> "unread"]
NoResult == [status |-> "NOT_RUN", reason |-> "PENDING", envelope |-> FALSE, excerpt |-> FALSE]

Init ==
  /\ pc = "request" /\ native \in BOOLEAN /\ aborted = FALSE
  /\ world \in {w \in [Thing -> Version] : \A t \in Thing : w[t] \in VersionsOf(t)}
  /\ changes = [t \in Thing |-> 0]
  /\ before = Unread /\ after = Unread
  /\ ran = FALSE /\ saw = [t \in Thing |-> {}]
  /\ run = NoRun /\ streams = Silent /\ result = NoResult

-----------------------------------------------------------------------------
(* Before the launch.                                                      *)

Refuse(status, reason) ==
  /\ pc' = "done"
  /\ result' = [status |-> status, reason |-> reason, envelope |-> FALSE, excerpt |-> FALSE]

\* An invalid profile or request is told before the signal is looked at, and a
\* platform, capability or qualification that does not fit after it.
RefuseRequest ==
  /\ pc = "request"
  /\ \/ Refuse("DENIED_BY_POLICY", "INVALID_REQUEST")
     \/ aborted /\ Refuse("NOT_RUN", "CANCELLED_BEFORE_START")
     \/ ~aborted /\ Refuse("UNAVAILABLE", "PLATFORM_MISMATCH")
     \/ ~aborted /\ Refuse("DENIED_BY_POLICY", "NOT_QUALIFIED")
  /\ UNCHANGED <<native, aborted, worldVars, before, after, ran, saw, run, streams>>

\* The source root is resolved.
AdmitRequest ==
  /\ pc = "request" /\ ~aborted
  /\ IF world["source"] = "gone"
       THEN Refuse("NOT_RUN", "SOURCE_BINDING_UNAVAILABLE")
       ELSE pc' = "executable" /\ UNCHANGED result
  /\ UNCHANGED <<native, aborted, worldVars, before, after, ran, saw, run, streams>>

\* checkFixedFile hashes the file it resolves.
CheckExecutable ==
  /\ pc = "executable"
  /\ pc' = "config" /\ before' = [before EXCEPT !["executable"] = world["executable"]]
  /\ UNCHANGED <<native, aborted, worldVars, after, ran, saw, run, streams, result>>

RefuseFile(version, reason) ==
  \/ version = "gone" /\ Refuse("UNAVAILABLE", reason)
  \/ version = "bad" /\ Refuse("DENIED_BY_POLICY", reason)
  \/ version = "bad" /\ Refuse("VERSION_MISMATCH", reason)

\* Both files are judged when both are read, the executable first.
CheckConfig ==
  /\ pc = "config"
  /\ before' = [before EXCEPT !["config"] = world["config"]]
  /\ IF before["executable"] # "good"
       THEN RefuseFile(before["executable"], "EXECUTABLE_REFUSED")
     ELSE IF world["config"] # "good"
       THEN RefuseFile(world["config"], "CONFIG_REFUSED")
     ELSE pc' = "source" /\ UNCHANGED result
  /\ UNCHANGED <<native, aborted, worldVars, after, ran, saw, run, streams>>

ReadSource ==
  /\ pc = "source"
  /\ before' = [before EXCEPT !["source"] = world["source"]]
  /\ CASE world["source"] = "gone" -> Refuse("NOT_RUN", "SOURCE_BINDING_UNAVAILABLE")
       [] world["source"] = "bad"  -> Refuse("NOT_RUN", "SOURCE_DRIFT_AT_START")
       [] OTHER                    -> pc' = "ignore" /\ UNCHANGED result
  /\ UNCHANGED <<native, aborted, worldVars, after, ran, saw, run, streams>>

\* Only an engine with a native report reads ignore files.  The request that
\* is written to the engine may be too large.
ReadIgnore ==
  /\ pc = "ignore"
  /\ before' = [before EXCEPT !["ignore"] = IF native THEN world["ignore"] ELSE "good"]
  /\ \/ native /\ world["ignore"] = "bad"
          /\ Refuse("DENIED_BY_POLICY", "ENGINE_IGNORE_FILE_PRESENT")
     \/ ~(native /\ world["ignore"] = "bad")
          /\ \/ Refuse("DENIED_BY_POLICY", "REQUEST_TOO_LARGE")
             \/ pc' = "launch" /\ UNCHANGED result
  /\ UNCHANGED <<native, aborted, worldVars, after, ran, saw, run, streams>>

-----------------------------------------------------------------------------
(* The engine.                                                             *)

\* runProcess looks at the signal once more before it spawns.
LaunchAborted ==
  /\ pc = "launch" /\ aborted
  /\ pc' = "endSource" /\ run' = NoRun
  /\ UNCHANGED <<native, aborted, worldVars, before, after, ran, saw, streams, result>>

\* A missing executable or working directory is ENOENT, and any launch may fail
\* otherwise; runProcess itself throws on a request it does not accept.
LaunchFails ==
  /\ pc = "launch" /\ ~aborted
  /\ \/ /\ pc' = "endSource"
        /\ \E missing \in BOOLEAN :
             /\ missing => "gone" \in {world["executable"], world["source"]}
             /\ run' = [outcome |-> "error", clean |-> TRUE, missing |-> missing]
        /\ UNCHANGED result
     \/ Refuse("ENGINE_ERROR", "PROCESS_CONTROL_ERROR") /\ UNCHANGED run
  /\ UNCHANGED <<native, aborted, worldVars, before, after, ran, saw, streams>>

Launch ==
  /\ pc = "launch" /\ ~aborted
  /\ "gone" \notin {world["executable"], world["source"]}
  /\ pc' = "running" /\ ran' = TRUE /\ saw' = [t \in Thing |-> {world[t]}]
  /\ UNCHANGED <<native, aborted, worldVars, before, after, run, streams, result>>

\* What runProcess may return of an engine it started, with the signal as it then is.
EngineResult(cancelled) ==
  {r \in ProcessResult : /\ ~r.missing /\ (r.outcome # "error" => r.clean)
                         /\ r.outcome = "cancelled" => cancelled}

EngineEnds ==
  /\ pc = "running"
  /\ run' \in EngineResult(aborted)
  /\ pc' = "endSource"
  /\ UNCHANGED <<native, aborted, worldVars, before, after, ran, saw, streams, result>>

-----------------------------------------------------------------------------
(* After the engine has ended.                                             *)

ReadSourceEnd ==
  /\ pc = "endSource"
  /\ pc' = "endExecutable" /\ after' = [after EXCEPT !["source"] = world["source"]]
  /\ UNCHANGED <<native, aborted, worldVars, before, ran, saw, run, streams, result>>

CheckExecutableAfter ==
  /\ pc = "endExecutable"
  /\ pc' = "endConfig" /\ after' = [after EXCEPT !["executable"] = world["executable"]]
  /\ UNCHANGED <<native, aborted, worldVars, before, ran, saw, run, streams, result>>

\* Mutant. The configuration is not read again.
CheckConfigOnce ==
  /\ pc = "endConfig"
  /\ pc' = "endIgnore" /\ after' = [after EXCEPT !["config"] = before["config"]]
  /\ UNCHANGED <<native, aborted, worldVars, before, ran, saw, run, streams, result>>

CheckConfigAfter ==
  /\ pc = "endConfig"
  /\ pc' = "endIgnore" /\ after' = [after EXCEPT !["config"] = world["config"]]
  /\ UNCHANGED <<native, aborted, worldVars, before, ran, saw, run, streams, result>>

ReadIgnoreAfter ==
  /\ pc = "endIgnore"
  /\ pc' = "streams"
  /\ after' = [after EXCEPT !["ignore"] = IF native THEN world["ignore"] ELSE "good"]
  /\ UNCHANGED <<native, aborted, worldVars, before, ran, saw, run, streams, result>>

\* What the engine left is looked at only now.
ReadStreams ==
  /\ pc = "streams"
  /\ pc' = "decide"
  /\ \/ ~ran /\ UNCHANGED streams
     \/ ran /\ \E s \in Streams :
          /\ run.outcome = "capture_limit" => s.stdoutCut \/ s.stderrCut
          /\ native => s.output # "complete"
          /\ streams' = s
  /\ UNCHANGED <<native, aborted, worldVars, before, after, ran, saw, run, result>>

\* containsSecret, of the raw streams; a native report is judged when decoded.
StdoutSecret == ~native /\ streams.stdout # "clean"
StderrSecret == streams.stderr = "secret"

Row(status, reason) == [status |-> status, reason |-> reason]
NoRow == Row("none", "none")
FirstRow(one, other) == IF one # NoRow THEN one ELSE other

\* The rows of decideOutcome that are errors,
Error ==
  IF run.missing THEN Row("UNAVAILABLE", "EXECUTABLE_MISSING")
  ELSE IF ~run.clean THEN Row("ENGINE_ERROR", "CLEANUP_INCOMPLETE")
  ELSE IF run.outcome = "error" THEN Row("ENGINE_ERROR", "PROCESS_CONTROL_ERROR")
  ELSE IF \E t \in Thing \ {"source"} : after[t] # "good"
    THEN Row("VERSION_MISMATCH", "ARTIFACT_CHANGED_DURING_RUN")
  ELSE IF run.outcome = "timed_out" THEN Row("TIMEOUT", "WALL_TIME_EXCEEDED")
  ELSE IF StdoutSecret \/ StderrSecret THEN Row("MALFORMED_OUTPUT", "SECRET_IN_OUTPUT")
  ELSE IF run.outcome = "exited" /\ streams.exit = "ERROR"
    THEN Row("ENGINE_ERROR", "ENGINE_EXIT")
  ELSE NoRow

\* drift of the source,
Drift ==
  IF after["source"] = "good" THEN NoRow
  ELSE IF after["source"] = "gone" THEN Row("INCOMPLETE", "SOURCE_BINDING_UNAVAILABLE")
  ELSE Row("INCOMPLETE", "SOURCE_DRIFT_AT_END")

\* work that was cut short,
Shortfall ==
  IF run.outcome = "cancelled" THEN Row("INCOMPLETE", "CANCELLED")
  ELSE IF run.outcome = "capture_limit" \/ streams.stdoutCut \/ streams.stderrCut
    THEN Row("INCOMPLETE", "OUTPUT_CAP_EXCEEDED")
  ELSE IF run.outcome = "tree_escape" THEN Row("INCOMPLETE", "TREE_ESCAPE")
  ELSE IF streams.exit = "NO_INPUT" THEN Row("INCOMPLETE", "NATIVE_NO_INPUT")
  ELSE NoRow

\* and what the output is worth: decideFromEnvelope.
Reported ==
  CASE streams.output = "wrong"   -> Row("MALFORMED_OUTPUT", "ENVELOPE")
    [] streams.output = "partial" -> Row("INCOMPLETE", "PARTIAL_COVERAGE")
    [] OTHER                      -> Row("EXECUTED", "RUN_COMPLETE")

\* Mutant. Work that was cut short is told before drift.
DecideShortfallFirst == FirstRow(Error, FirstRow(Shortfall, FirstRow(Drift, Reported)))

\* "Errors come before drift, and drift before incomplete work".
Decide == FirstRow(Error, FirstRow(Drift, FirstRow(Shortfall, Reported)))

HasEnvelope(row) == row.reason \in {"PARTIAL_COVERAGE", "RUN_COMPLETE"}

\* Mutant. An excerpt of stderr is given although stderr was cut.
ExcerptCut(secretFound) == ~secretFound

\* stderrExcerpt: a cut can split a secret so that its shape no longer matches.
Excerpt(secretFound) == ~secretFound /\ ~streams.stderrCut

\* The decoded envelope is searched for secrets before it is returned.
Conclude ==
  /\ pc = "decide"
  /\ pc' = "done"
  /\ LET row == Decide
         decoded == HasEnvelope(row) /\ streams.stdout = "carried"
         secretFound == StdoutSecret \/ StderrSecret \/ decoded
         told == IF decoded THEN Row("MALFORMED_OUTPUT", "SECRET_IN_OUTPUT") ELSE row
     IN result' = [status |-> told.status, reason |-> told.reason,
                   envelope |-> ~secretFound /\ HasEnvelope(told),
                   excerpt |-> Excerpt(secretFound)]
  /\ UNCHANGED <<native, aborted, worldVars, before, after, ran, saw, run, streams>>

-----------------------------------------------------------------------------
(* Around the call.                                                        *)

\* A file, the source or an ignore file changes, be it by the engine.  What
\* happens before the first or after the last reading is not seen by anybody.
Change ==
  /\ pc \notin {"request", "streams", "decide", "done"}
  /\ changes["executable"] + changes["config"] + changes["source"] + changes["ignore"] < MaxChanges
  /\ \E t \in Thing : \E version \in VersionsOf(t) \ {world[t]} :
       /\ world' = [world EXCEPT ![t] = version]
       /\ changes' = [changes EXCEPT ![t] = @ + 1]
       /\ saw' = IF pc = "running" THEN [saw EXCEPT ![t] = @ \cup {version}] ELSE saw
  /\ UNCHANGED <<pc, native, aborted, before, after, ran, run, streams, result>>

Abort ==
  /\ pc \in {"request", "executable", "config", "source", "ignore", "launch", "running"}
  /\ ~aborted
  /\ aborted' = TRUE
  /\ UNCHANGED <<pc, native, worldVars, before, after, ran, saw, run, streams, result>>

Next ==
  \/ RefuseRequest \/ AdmitRequest \/ CheckExecutable \/ CheckConfig \/ ReadSource
  \/ ReadIgnore \/ LaunchAborted \/ LaunchFails \/ Launch \/ EngineEnds \/ ReadSourceEnd
  \/ CheckExecutableAfter \/ CheckConfigAfter \/ ReadIgnoreAfter \/ ReadStreams \/ Conclude
  \/ Change \/ Abort

Spec == Init /\ [][Next]_vars

-----------------------------------------------------------------------------
(* Properties.                                                             *)

\* Every variable stays in its range; a status is one of the frozen list.
TypeOK ==
  /\ pc \in {"request", "executable", "config", "source", "ignore", "launch", "running",
             "endSource", "endExecutable", "endConfig", "endIgnore", "streams", "decide", "done"}
  /\ native \in BOOLEAN /\ aborted \in BOOLEAN /\ ran \in BOOLEAN
  /\ world \in [Thing -> Version] /\ world["ignore"] # "gone" /\ changes \in [Thing -> Nat]
  /\ before \in [Thing -> Version \cup {"unread"}]
  /\ after \in [Thing -> Version \cup {"unread"}]
  /\ saw \in [Thing -> SUBSET Version]
  /\ run \in ProcessResult /\ streams \in Streams
  /\ result.status \in Status
  /\ result.envelope \in BOOLEAN /\ result.excerpt \in BOOLEAN

\* An envelope is returned only of an engine that ran, and as long as it ran
\* the executable, the configuration, the source and, for a native report, the
\* absence of an ignore file were those that were requested, each unless it
\* changed twice: what changes and does not change back is seen.
EnvelopeBound ==
  result.envelope =>
    /\ ran /\ run.outcome = "exited"
    /\ \A t \in Thing : changes[t] < 2 /\ (t = "ignore" => native) => saw[t] = {"good"}

\* What the result carries holds no secret, also when the secret only shows in
\* the decoded envelope, or was cut in two by the cap of stderr.
NoSecretShown ==
  /\ result.envelope => streams.stdout # "carried" /\ (native \/ streams.stdout = "clean")
  /\ result.excerpt => streams.stderr = "clean"

\* A source that changed once while the engine ran is reported as drift, or as
\* an error, and never as work that was cut short or is complete.
DriftNotMasked ==
  pc = "done" /\ ran /\ saw["source"] # {"good"} /\ changes["source"] < 2 =>
    result.reason \notin {"CANCELLED", "OUTPUT_CAP_EXCEEDED", "TREE_ESCAPE", "NATIVE_NO_INPUT",
                         "ENVELOPE", "PARTIAL_COVERAGE", "RUN_COMPLETE"}

-----------------------------------------------------------------------------
(* The inductive invariant behind them.                                    *)

\* A thing that was found good needs one change to be otherwise, and two to be
\* good again after the engine saw it otherwise.
ChangesCounted ==
  \A t \in Thing : (t = "ignore" => native) =>
    /\ before[t] = "good" /\ world[t] # "good" => changes[t] >= 1
    /\ ran /\ saw[t] # {"good"} =>
         /\ changes[t] >= 1
         /\ world[t] = "good" \/ after[t] = "good" => changes[t] >= 2

Running == {"running", "endSource", "endExecutable", "endConfig", "endIgnore", "streams",
            "decide"}

\* Where the call stands tells what has been read, and with what result.
Ordered ==
  /\ pc \in {"source", "ignore", "launch"} =>
       before["executable"] = "good" /\ before["config"] = "good"
  /\ pc \in {"ignore", "launch"} => before["source"] = "good"
  /\ pc = "launch" => before["ignore"] = "good"
  /\ ran => pc \in Running \cup {"done"} /\ \A t \in Thing : before[t] = "good"
  /\ pc \notin Running \cup {"done"} \/ pc = "running" => after = Unread
  /\ pc = "running" => ran
  /\ pc \in Running /\ ~ran => run.outcome \in {"cancelled", "error"}
  /\ pc # "done" => result = NoResult

IInv ==
  /\ TypeOK /\ Ordered /\ ChangesCounted
  /\ EnvelopeBound /\ NoSecretShown /\ DriftNotMasked
================================================================================
