---------------------------- MODULE SecurityCommand ----------------------------
(***************************************************************************)
(* `ascout security' with Gitleaks (security-gitleaks.ts): what has to be  *)
(* so before the broker is called, the call (ExecutionBroker), and what    *)
(* the command makes of its result.  What was requested of the broker is   *)
(* the source as the command read it, so a `good' source is that one.  The *)
(* profile of the command is native; the broker is taken with either.      *)
(***************************************************************************)
EXTENDS ExecutionBroker

VARIABLES
  command,  \* "start", "called" or "done"
  report    \* what the command answered

commandVars == <<vars, command, report>>

NoReport == [kind |-> "none", outcome |-> "none", exit |-> 0, executed |-> FALSE, findings |-> FALSE]

\* Nothing was scanned: exit 4, never a clean result.
NothingScanned ==
  [kind |-> "report", outcome |-> "NOT_RUN", exit |-> 4, executed |-> FALSE, findings |-> FALSE]

Failed == [kind |-> "error", outcome |-> "none", exit |-> 2, executed |-> FALSE, findings |-> FALSE]

CommandInit == Init /\ command = "start" /\ report = NoReport

-----------------------------------------------------------------------------
(* Before the call.                                                         *)

\* No variable names an engine (the report of the pinned capabilities), no executable is
\* pinned for this platform, the variable names no file, or there is no repository here.
NothingToScan ==
  /\ command = "start"
  /\ command' = "done" /\ report' = NothingScanned
  /\ UNCHANGED vars

\* A repository that is refused or cannot be read, or no temporary directory.
CannotScan ==
  /\ command = "start"
  /\ command' = "done" /\ report' = Failed
  /\ UNCHANGED vars

CallBroker ==
  /\ command = "start"
  /\ command' = "called"
  /\ UNCHANGED <<vars, report>>

-----------------------------------------------------------------------------
(* The result of the call.                                                  *)

\* The process was told to start; that it did is not told.
Started == after["source"] # "unread"

\* output_withheld.
Withheld == StdoutSecret \/ StderrSecret \/ result.reason = "SECRET_IN_OUTPUT"

Incomplete(r, found) ==
  LET partial == r.reason = "PARTIAL_COVERAGE"
  IN IF partial /\ ~r.envelope THEN Failed
     ELSE IF partial /\ found
       THEN [kind |-> "report", outcome |-> "FINDINGS", exit |-> 1, executed |-> TRUE, findings |-> TRUE]
     ELSE [kind |-> "report", outcome |-> "INCOMPLETE", exit |-> 4, executed |-> Started,
           findings |-> FALSE]

\* Mutated form: drift at the end is told like any other incomplete run.
OutcomeOfStatus(r, found) ==
  IF Withheld \/ r.reason = "SOURCE_BINDING_UNAVAILABLE" THEN Failed
  ELSE IF r.reason = "SOURCE_DRIFT_AT_START"
    THEN [kind |-> "drift", outcome |-> "SOURCE_DRIFT", exit |-> 3, executed |-> Started,
          findings |-> FALSE]
  ELSE CASE r.status \in {"UNAVAILABLE", "NOT_RUN"} -> NothingScanned
         [] r.status = "INCOMPLETE" -> Incomplete(r, found)
         [] OTHER -> Failed

\* Errors come before drift.  A run that claims to have covered everything is refused.
OutcomeFromRun(r, found) ==
  IF Withheld \/ r.reason = "SOURCE_BINDING_UNAVAILABLE" THEN Failed
  ELSE IF r.reason \in {"SOURCE_DRIFT_AT_START", "SOURCE_DRIFT_AT_END"}
    THEN [kind |-> "drift", outcome |-> "SOURCE_DRIFT", exit |-> 3, executed |-> Started,
          findings |-> FALSE]
  ELSE CASE r.status \in {"UNAVAILABLE", "NOT_RUN"} -> NothingScanned
         [] r.status = "INCOMPLETE" -> Incomplete(r, found)
         [] OTHER -> Failed

\* The envelope, when there is one, holds observations or none.
Answer ==
  /\ command = "called" /\ pc = "done"
  /\ \E found \in BOOLEAN :
       /\ found => result.envelope
       /\ report' = OutcomeFromRun(result, found)
  /\ command' = "done"
  /\ UNCHANGED vars

BrokerStep == command = "called" /\ Next /\ UNCHANGED <<command, report>>

CommandNext == NothingToScan \/ CannotScan \/ CallBroker \/ BrokerStep \/ Answer

CommandSpec == CommandInit /\ [][CommandNext]_commandVars

-----------------------------------------------------------------------------
(* Properties.                                                              *)

\* Findings are told only of an engine that ran to its end over the source the command read:
\* the source changed there at no time, or changed and changed back.  A source seen to
\* change while the engine ran is told as drift or as an error, so never as a scan that
\* found nothing.  There is no clean exit.
CommandVerdict ==
  command = "done" =>
    /\ report.exit \in {1, 2, 3, 4}
    /\ report.findings => /\ ran /\ report.exit = 1 /\ run.outcome = "exited"
                          /\ saw["source"] = {"good"} \/ changes["source"] > 1
    /\ ran /\ saw["source"] # {"good"} /\ changes["source"] < 2 => report.exit \in {2, 3}

-----------------------------------------------------------------------------
(* The inductive invariant behind it, beside the broker's own.              *)

\* An executable that was missing was not launched, so no result of a launched engine is told
\* as unavailable; and one that is incomplete is so for a reason that came after every error.
LaunchTold ==
  /\ run.missing => ~ran /\ pc \in Running \cup {"done"}
  /\ ran /\ pc = "done" =>
       /\ result.status \notin {"UNAVAILABLE", "NOT_RUN"}
       /\ result.status = "INCOMPLETE" =>
            result.reason \in {"SOURCE_BINDING_UNAVAILABLE", "SOURCE_DRIFT_AT_END", "CANCELLED",
                              "OUTPUT_CAP_EXCEEDED", "TREE_ESCAPE", "NATIVE_NO_INPUT",
                              "PARTIAL_COVERAGE"}

CInv == LaunchTold /\ (command = "start" => ~ran) /\ CommandVerdict
==============================================================================
