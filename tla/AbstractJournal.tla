---------------------------- MODULE AbstractJournal ----------------------------
(***************************************************************************)
(* What a durable journal promises its callers: an intent, once recorded,  *)
(* stays; it is settled at most once; nothing is settled that was not      *)
(* intended first.                                                         *)
(***************************************************************************)
CONSTANTS Id, Attempt, State

VARIABLE calls    \* the recorded intents and how each one stands

Record == [id : Id, attempt : Attempt, state : State]

Init == calls = {}

\* A new intent, under identities nobody used before.
Intend(id, attempt) ==
  /\ \A r \in calls : r.id # id /\ r.attempt # attempt
  /\ calls' = calls \cup {[id |-> id, attempt |-> attempt, state |-> "IN_PROGRESS"]}

\* An unfinished intent gets its terminal outcome.
Settle(r, state) ==
  /\ r \in calls /\ r.state = "IN_PROGRESS" /\ state # "IN_PROGRESS"
  /\ calls' = (calls \ {r}) \cup {[r EXCEPT !.state = state]}

Next ==
  \/ \E id \in Id, attempt \in Attempt : Intend(id, attempt)
  \/ \E r \in calls, state \in State : Settle(r, state)

Spec == Init /\ [][Next]_calls
================================================================================
