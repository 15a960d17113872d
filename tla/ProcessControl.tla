---------------------------- MODULE ProcessControl ----------------------------
(***************************************************************************)
(* runProcess of src/src/process.ts: one external command, its process     *)
(* tree, and the supervisor that starts it, races its end against a        *)
(* timeout, an abort, an error and two stop requests, tears the tree down  *)
(* and says how it went.                                                   *)
(*                                                                         *)
(* The operating system and the command move between any two steps of the  *)
(* supervisor: processes fork, leave the group, drop the output pipes and  *)
(* exit when they like.  Timers may fire at any time after they are armed. *)
(* On POSIX the root leads a process group; on Windows taskkill walks the  *)
(* tree below a live root.  The requests that ask for require_tree_exit    *)
(* also start their executable exactly, so cross-spawn's ENOENT in place   *)
(* of an exit only meets the others.                                       *)
(***************************************************************************)
EXTENDS Naturals, FiniteSets

CONSTANTS
  Proc,   \* the processes of the command; a bound on how many it forks
  Root    \* the one runProcess starts

ASSUME ProcessControlAssumption == Root \in Proc

VARIABLES
  request,       \* the options of the request and the platform
  unborn,        \* processes not started yet
  alive,         \* processes that run
  grouped,       \* processes in the group (POSIX) or the tree (Windows) of the root
  holding,       \* processes that hold an output pipe
  killed,        \* processes sent SIGKILL
  reaped,        \* the `exit' of the root was delivered (rootExited)
  closeSeen,     \* closePromise is resolved
  full,          \* a stream passed its capture cap
  signalAborted, \* request.signal is aborted
  early,         \* preTimeoutRuntimeError
  cause,         \* which observation won the race
  cleaned,       \* what terminateOwnedTree returned
  released,      \* releasePipes was called
  step,          \* where runProcess stands
  answer         \* what it returned

processVars == <<request, unborn, alive, grouped, holding, killed, reaped, closeSeen,
                 full, signalAborted, early, cause, cleaned, released, step, answer>>
tree == <<unborn, alive, grouped, holding, killed>>
seen == <<reaped, closeSeen, full, signalAborted, early>>
told == <<cause, cleaned, released, answer>>

Target == {"process_group", "native_process_tree"}
Request == [tree : BOOLEAN,   \* require_tree_exit
            stop : BOOLEAN,   \* stop_on_capture_limit
            target : Target]  \* terminationTarget()

Posix == request.target = "process_group"

StopReason == {"cancelled", "capture_limit", "tree_escape"}
Outcome    == {"exited", "timed_out", "error"} \cup StopReason
Cause      == {"none", "closed", "timed_out", "error", "enoent"} \cup StopReason
Result     == [outcome : Outcome, clean : BOOLEAN] \cup {[outcome |-> "none"]}
Label      == {"start", "launch", "race", "groupWait", "enoentWait", "terminate",
               "termWait", "kill", "killWait", "closeWait", "done"}

Died(p) == p \notin unborn /\ p \notin alive

\* A zombie stays in its group until it is reaped.
GroupGone == grouped \cap alive = {} /\ (Died(Root) => reaped)

ProcessInit ==
  /\ request \in Request
  /\ unborn = Proc
  /\ alive = {} /\ grouped = {} /\ holding = {} /\ killed = {}
  /\ reaped = FALSE /\ closeSeen = FALSE /\ full = FALSE
  /\ signalAborted \in BOOLEAN
  /\ early = FALSE
  /\ cause = "none" /\ cleaned = FALSE /\ released = FALSE
  /\ step = "start"
  /\ answer = [outcome |-> "none"]

Finish(outcome, clean) ==
  /\ answer' = [outcome |-> outcome, clean |-> clean]
  /\ step' = "done"

-----------------------------------------------------------------------------
(***************************************************************************)
(* The command and the operating system.                                   *)
(***************************************************************************)

\* A child inherits the group and the pipes.
Fork(p, q) ==
  /\ p \in alive \ killed /\ q \in unborn \ {Root}
  /\ unborn' = unborn \ {q}
  /\ alive' = alive \cup {q}
  /\ grouped' = IF p \in grouped THEN grouped \cup {q} ELSE grouped
  /\ holding' = IF p \in holding THEN holding \cup {q} ELSE holding
  /\ UNCHANGED <<request, killed, seen, told, step>>

Detach(p) ==
  /\ p \in alive \ (killed \cup {Root})
  /\ grouped' = grouped \ {p}
  /\ UNCHANGED <<request, unborn, alive, holding, killed, seen, told, step>>

DropPipes(p) ==
  /\ p \in alive \ killed
  /\ holding' = holding \ {p}
  /\ UNCHANGED <<request, unborn, alive, grouped, killed, seen, told, step>>

Exit(p) ==
  /\ p \in alive
  /\ alive' = alive \ {p}
  /\ UNCHANGED <<request, unborn, grouped, holding, killed, seen, told, step>>

\* The caller aborts.
SignalAborts ==
  /\ ~signalAborted /\ step # "done"
  /\ signalAborted' = TRUE
  /\ IF step = "race"
       THEN cause' = "cancelled" /\ step' = "terminate"
       ELSE UNCHANGED <<cause, step>>
  /\ UNCHANGED <<request, tree, reaped, closeSeen, full, early, cleaned, released, answer>>

-----------------------------------------------------------------------------
(***************************************************************************)
(* Launch.                                                                 *)
(***************************************************************************)

Start ==
  /\ step = "start"
  /\ IF signalAborted
       THEN Finish("cancelled", TRUE)
       ELSE step' = "launch" /\ UNCHANGED answer
  /\ UNCHANGED <<request, tree, seen, cause, cleaned, released>>

\* spawn throws, or the child emits `error' before `spawn'.
SpawnFails ==
  /\ step = "launch"
  /\ early' = TRUE
  /\ Finish("error", TRUE)
  /\ UNCHANGED <<request, tree, reaped, closeSeen, full, signalAborted, cause, cleaned, released>>

\* The abort listener is added after the launch and looks at the signal once.
Spawn ==
  /\ step = "launch"
  /\ unborn' = unborn \ {Root}
  /\ alive' = {Root} /\ grouped' = {Root} /\ holding' = {Root}
  /\ IF signalAborted
       THEN cause' = "cancelled" /\ step' = "terminate"
       ELSE step' = "race" /\ UNCHANGED cause
  /\ UNCHANGED <<request, killed, seen, cleaned, released, answer>>

-----------------------------------------------------------------------------
(***************************************************************************)
(* What the race observes.  The first observation decides; those that come  *)
(* later only leave a trace in `seen'.                                     *)
(***************************************************************************)

\* The operating system reports the exit of the root; the child process
\* object passes it on, or, where cross-spawn finds that the command did not
\* exist, an ENOENT error in its place.
RootExit ==
  /\ Died(Root) /\ ~reaped
  /\ reaped' = TRUE
  /\ \/ UNCHANGED <<early, cause, step>>
     \/ /\ step = "race" /\ ~Posix /\ ~request.tree
        /\ early' = TRUE
        /\ cause' = "enoent"
        /\ step' = "enoentWait"
  /\ UNCHANGED <<request, tree, closeSeen, full, signalAborted, cleaned, released, answer>>

\* Mutant of Close: the group is not looked at.
CloseIgnoresGroup ==
  /\ reaped /\ alive \cap holding = {} /\ ~closeSeen
  /\ closeSeen' = TRUE
  /\ IF step = "race"
       THEN cause' = "closed" /\ Finish("exited", TRUE)
       ELSE UNCHANGED <<cause, step, answer>>
  /\ UNCHANGED <<request, tree, reaped, full, signalAborted, early, cleaned, released>>

\* The root exited and nobody holds its pipes any more.
Close ==
  /\ reaped /\ alive \cap holding = {} /\ ~closeSeen
  /\ closeSeen' = TRUE
  /\ IF step = "race"
       THEN /\ cause' = "closed"
            /\ IF request.tree /\ Posix
                 THEN step' = "groupWait" /\ UNCHANGED answer
                 ELSE Finish("exited", TRUE)
       ELSE UNCHANGED <<cause, step, answer>>
  /\ UNCHANGED <<request, tree, reaped, full, signalAborted, early, cleaned, released>>

\* Data past the cap.
CapExceeded ==
  /\ alive \cap holding # {} /\ ~full
  /\ full' = TRUE
  /\ IF step = "race" /\ request.stop
       THEN cause' = "capture_limit" /\ step' = "terminate"
       ELSE UNCHANGED <<cause, step>>
  /\ UNCHANGED <<request, tree, reaped, closeSeen, signalAborted, early, cleaned, released,
                 answer>>

\* recordRuntimeError: an output stream fails.
StreamError ==
  /\ step = "race"
  /\ early' = TRUE
  /\ cause' = "error"
  /\ step' = "terminate"
  /\ UNCHANGED <<request, tree, reaped, closeSeen, full, signalAborted, cleaned, released,
                 answer>>

Timeout ==
  /\ step = "race"
  /\ cause' = "timed_out"
  /\ step' = "terminate"
  /\ UNCHANGED <<request, tree, seen, cleaned, released, answer>>

\* The root is gone and its streams have not ended.
DrainExpires ==
  /\ step = "race" /\ request.tree /\ reaped
  /\ cause' = "tree_escape"
  /\ step' = "terminate"
  /\ UNCHANGED <<request, tree, seen, cleaned, released, answer>>

-----------------------------------------------------------------------------
(***************************************************************************)
(* After the race.                                                         *)
(***************************************************************************)

\* waitForProcessGroupGone after a close, ROOT_EXIT_GROUP_WAIT_MS.
GroupWait ==
  /\ step = "groupWait"
  /\ IF GroupGone
       THEN Finish("exited", TRUE)
       ELSE step' = "terminate" /\ UNCHANGED answer
  /\ UNCHANGED <<request, tree, seen, cause, cleaned, released>>

\* A command that did not exist should close by itself.
EnoentClosed ==
  /\ step = "enoentWait" /\ closeSeen
  /\ Finish("error", TRUE)
  /\ UNCHANGED <<request, tree, seen, cause, cleaned, released>>

EnoentExpires ==
  /\ step = "enoentWait" /\ ~closeSeen
  /\ step' = "terminate"
  /\ UNCHANGED <<request, tree, seen, told>>

\* terminateOwnedTree, or the terminateProcessTree after a close, returned.
Terminated(gone) ==
  IF cause = "closed"
    THEN /\ Finish(IF gone THEN "tree_escape" ELSE "error", gone)
         /\ UNCHANGED cleaned
    ELSE /\ cleaned' = gone
         /\ step' = "closeWait"
         /\ UNCHANGED answer

Terminate ==
  /\ step = "terminate" /\ Posix
  /\ \/ GroupGone /\ Terminated(TRUE)
     \/ ~GroupGone /\ Terminated(FALSE)     \* EPERM
     \/ ~GroupGone /\ step' = "termWait" /\ UNCHANGED <<cleaned, answer>>
  /\ UNCHANGED <<request, tree, seen, cause, released>>

\* taskkill, unless the root is known to have exited: its pid may be another's.
TaskKill ==
  /\ step = "terminate" /\ ~Posix
  /\ \/ /\ request.tree /\ reaped
        /\ Terminated(TRUE)
        /\ UNCHANGED alive
     \/ /\ ~(request.tree /\ reaped)
        /\ \/ /\ alive' = IF Root \in alive THEN alive \ grouped ELSE alive
              /\ Terminated(TRUE)
           \/ Terminated(FALSE) /\ UNCHANGED alive
  /\ UNCHANGED <<request, unborn, grouped, holding, killed, seen, cause, released>>

TermWait ==
  /\ step = "termWait"
  /\ IF GroupGone
       THEN Terminated(TRUE)
       ELSE step' = "kill" /\ UNCHANGED <<cleaned, answer>>
  /\ UNCHANGED <<request, tree, seen, cause, released>>

Kill ==
  /\ step = "kill"
  /\ \/ GroupGone /\ Terminated(TRUE) /\ UNCHANGED killed
     \/ ~GroupGone /\ Terminated(FALSE) /\ UNCHANGED killed     \* EPERM
     \/ /\ ~GroupGone
        /\ killed' = killed \cup (grouped \cap alive)
        /\ step' = "killWait"
        /\ UNCHANGED <<cleaned, answer>>
  /\ UNCHANGED <<request, unborn, alive, grouped, holding, seen, cause, released>>

KillWait ==
  /\ step = "killWait"
  /\ Terminated(GroupGone)
  /\ UNCHANGED <<request, tree, seen, cause, released>>

\* Mutant of StopResult: pipes still open do not count against the cleanup.
StopResultWithoutClose(close) ==
  /\ released' = ~close
  /\ Finish(IF cause \in {"error", "enoent"} \/ early THEN "error"
            ELSE IF cleaned \/ close THEN cause ELSE "error", cleaned)

\* What is returned after the tear-down: the reason of the stop, unless the
\* cleanup cannot be confirmed or an error came first.
StopResult(close) ==
  /\ released' = ~close
  /\ Finish(IF cause \in {"error", "enoent"} \/ early \/ ~cleaned \/ ~close
              THEN "error" ELSE cause,
            cleaned /\ close)

CloseArrives ==
  /\ step = "closeWait" /\ closeSeen
  /\ StopResult(TRUE)
  /\ UNCHANGED <<request, tree, seen, cause, cleaned>>

\* Mutant of CloseExpires: the wait has no end.
CloseExpiresNever ==
  /\ step = "closeWait" /\ ~closeSeen /\ alive = {}
  /\ StopResult(FALSE)
  /\ UNCHANGED <<request, tree, seen, cause, cleaned>>

CloseExpires ==
  /\ step = "closeWait" /\ ~closeSeen
  /\ StopResult(FALSE)
  /\ UNCHANGED <<request, tree, seen, cause, cleaned>>

Environment ==
  \/ \E p, q \in Proc : Fork(p, q)
  \/ \E p \in Proc : Detach(p) \/ DropPipes(p) \/ Exit(p)
  \/ SignalAborts \/ CapExceeded \/ StreamError

Supervisor ==
  \/ Start \/ SpawnFails \/ Spawn \/ RootExit \/ Close \/ Timeout \/ DrainExpires
  \/ GroupWait \/ EnoentClosed \/ EnoentExpires \/ Terminate \/ TaskKill \/ TermWait
  \/ Kill \/ KillWait \/ CloseArrives \/ CloseExpires

ProcessNext == Environment \/ Supervisor

ProcessSpec == ProcessInit /\ [][ProcessNext]_processVars

\* Timers fire, and node delivers what it has observed; nothing makes the
\* command exit, drop its pipes or obey a signal.
FairProcessSpec == ProcessSpec /\ WF_processVars(Supervisor)

-----------------------------------------------------------------------------
(***************************************************************************)
(* Properties.                                                             *)
(***************************************************************************)

\* Every variable keeps its type; a process is in the group or holds a pipe
\* only if it was started.
ProcessTypeOK ==
  /\ request \in Request
  /\ alive \subseteq Proc \ unborn
  /\ unborn \subseteq Proc
  /\ grouped \subseteq Proc \ unborn
  /\ holding \subseteq Proc \ unborn
  /\ killed \subseteq grouped
  /\ {reaped, closeSeen, full, signalAborted, early, cleaned, released} \subseteq BOOLEAN
  /\ cause \in Cause
  /\ step \in Label
  /\ answer \in Result
  /\ step = "done" <=> answer # [outcome |-> "none"]

Returned(outcomes) == step = "done" /\ answer.outcome \in outcomes

\* On POSIX, a run reported as timed out, cancelled or stopped has no process
\* left in its group and nobody left holding its pipes: timeout and
\* cancellation must not leave an owned process tree running after Ascout
\* reports cleanup complete (SECURITY.md).
StoppedMeansGone ==
  Posix /\ Returned({"timed_out"} \cup StopReason) /\ cause # "none"
    => grouped \cap alive = {} /\ closeSeen

\* With require_tree_exit a run is only reported as exited when no descendant
\* in the group outlived the root.
ExitedMeansTreeExited ==
  Posix /\ request.tree /\ Returned({"exited"}) => grouped \cap alive = {}

\* A run is reported as an error exactly when its launch or a stream failed
\* or its cleanup could not be confirmed, so no other outcome hides either.
ErrorsNotMasked ==
  step = "done" => (answer.outcome = "error" <=> early \/ ~answer.clean)

\* When runProcess returns, no pipe of the command keeps Ascout alive: its
\* streams have closed or were destroyed.
PipesReleased ==
  step = "done" /\ Root \notin unborn => closeSeen \/ released

\* What runProcess says of the processes it started is so when it says it.
AnswerHonest == StoppedMeansGone /\ ExitedMeansTreeExited /\ PipesReleased

\* Whatever the command does with its pipes, its group and the signals it is
\* sent, runProcess returns.
Returns == <>(step = "done")

-----------------------------------------------------------------------------
(***************************************************************************)
(* The inductive invariant of ExecutionProofs.                             *)
(***************************************************************************)

\* Nothing of the command runs where it was started.
GroupEmpty == grouped \cap alive = {}

\* What the supervisor knows at each of its awaits.
Course ==
  /\ step \in {"start", "launch"} => Root \in unborn /\ alive \cup grouped = {} /\ ~early
      /\ ~cleaned
  /\ step \in {"start", "launch", "race"} => cause = "none"
  /\ step = "groupWait" => cause = "closed" /\ Posix /\ request.tree
  /\ step = "enoentWait" => cause = "enoent"
  /\ step \in {"terminate", "termWait", "kill", "killWait", "closeWait"} => cause # "none"
  /\ step \in {"termWait", "kill", "killWait"} => Posix
  /\ step = "closeWait" => cause # "closed"
  /\ cause = "closed" => closeSeen
  /\ step # "done" => (early <=> cause \in {"error", "enoent"})
  /\ Posix /\ cleaned => GroupEmpty

ProcessInv == ProcessTypeOK /\ Course /\ AnswerHonest /\ ErrorsNotMasked

================================================================================
