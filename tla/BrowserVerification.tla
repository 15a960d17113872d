--------------------------- MODULE BrowserVerification ---------------------------
(***************************************************************************)
(* Browser verification as a whole.  A session, the traces, the intents,   *)
(* the journeys and the agent share no state, so a behaviour is of one of  *)
(* them.                                                                   *)
(***************************************************************************)
EXTENDS BrowserSession, BrowserRecords

VARIABLE area

vars == <<area, sessionVars, recordVars>>

Init == SessionInit /\ RecordsInit /\ area \in {"session", "traces", "intents", "journeys", "agent"}

Next ==
  /\ UNCHANGED area
  /\ \/ area = "session" /\ SessionNext /\ UNCHANGED recordVars
     \/ area = "traces" /\ TraceNext /\ UNCHANGED sessionVars
     \/ area = "intents" /\ CreateIntentTest /\ UNCHANGED sessionVars
     \/ area = "journeys" /\ JourneyNext /\ UNCHANGED sessionVars
     \/ area = "agent" /\ AgentNext /\ UNCHANGED sessionVars

Spec == Init /\ [][Next]_vars

-----------------------------------------------------------------------------
\* Every record that was made is accepted by the reader of its kind, which runs the
\* checks of its factory again over what was written.
RecordsReread == SessionReadable /\ RecordsReadable

\* The inductive invariant of both.
IInv == SessionInv /\ RecordsInv
================================================================================
