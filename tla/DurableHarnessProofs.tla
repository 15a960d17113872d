-------------------------- MODULE DurableHarnessProofs --------------------------
(***************************************************************************)
(* Proofs about DurableHarness, for any number of handles, calls, bounds   *)
(* and file-system errors.                                                 *)
(***************************************************************************)
EXTENDS DurableHarness, FiniteSetTheorems, TLAPS

\* A journal that was never created satisfies the inductive invariant.
LEMMA InitInv == Init => IInv
<1> SUFFICES ASSUME Init PROVE IInv
  OBVIOUS
<1>1. Cardinality({}) = 0
  BY FS_EmptySet
<1>2. TypeOK
  BY DurableHarnessAssumption
  DEF Init, TypeOK, Journal, Empty, Op, NoOp, Label
<1>3. LockHeld /\ ViewFresh /\ SavedStays /\ Acknowledged /\ MissingIsEmpty
  BY DEF Init, LockHeld, ViewFresh, SavedStays, Acknowledged, MissingIsEmpty, Critical
<1>4. Decodable
  BY <1>1, DurableHarnessAssumption DEF Init, Decodable, Empty
<1>5. QED
  BY <1>2, <1>3, <1>4 DEF IInv

\* Settling a record keeps its identities.
LEMMA Settled ==
  ASSUME NEW r \in Record, NEW state \in State
  PROVE  /\ [r EXCEPT !.state = state] \in Record
         /\ [r EXCEPT !.state = state] = [id |-> r.id, attempt |-> r.attempt, state |-> state]
         /\ CallOf([r EXCEPT !.state = state]) = CallOf(r)
  BY DEF Record, CallOf

-----------------------------------------------------------------------------
(***************************************************************************)
(* What each step under the lock computes.                                 *)
(***************************************************************************)

\* Load either leaves the client without a view, or gives it a snapshot that
\* is the one on disk with the client's own change.
LEMMA LoadCases ==
  ASSUME TypeOK, MissingIsEmpty, Decodable, NEW c \in Client, Load(c)
  PROVE  \/ /\ pc' = [pc EXCEPT ![c] = "unlock"] /\ view' = view
            /\ \/ failing' = [failing EXCEPT ![c] = TRUE]
               \/ /\ failing' = failing
                  /\ op[c].kind # "complete"
                  /\ op[c].kind = "begin" =>
                       \E r \in journal.calls : CallOf(r) = op[c].call
         \/ \E calls \in SUBSET Record, binding \in Binding :
              /\ pc' = [pc EXCEPT ![c] = "write"]
              /\ view' = [view EXCEPT ![c] = [binding |-> binding, calls |-> calls]]
              /\ failing' = failing
              /\ journal.binding \in {NoBinding, binding}
              /\ Encodable(calls)
              /\ Changes(op[c], calls)
<1> USE DurableHarnessAssumption DEF TypeOK, Load, Throw, Goto
<1>1. op[c].kind \in {"none", "create", "recover", "begin", "complete"}
  BY DEF Op
<1>2. CASE LoadCreate(c)
  <2>1. journal.binding = NoBinding => journal = Empty
    BY DEF MissingIsEmpty
  <2>2. op[c].kind = "create"
    BY <1>2 DEF LoadCreate
  <2>3. CASE journal.binding = NoBinding /\ Encodable({})
    <3>1. Changes(op[c], {})
      BY <2>1, <2>2, <2>3 DEF Changes
    <3>2. expected[c] \in Binding /\ {} \in SUBSET Record
      OBVIOUS
    <3>3. /\ pc' = [pc EXCEPT ![c] = "write"]
          /\ view' = [view EXCEPT ![c] = [binding |-> expected[c], calls |-> {}]]
          /\ failing' = failing
      BY <1>2, <2>3 DEF LoadCreate, Save
    <3>4. QED
      BY <2>3, <3>1, <3>2, <3>3
  <2>4. CASE ~(journal.binding = NoBinding /\ Encodable({}))
    BY <1>2, <2>4 DEF LoadCreate, Save
  <2>5. QED
    BY <2>3, <2>4
<1>3. CASE LoadBegin(c)
  <2> DEFINE call   == op[c].call
             record == [id |-> call.id, attempt |-> call.attempt, state |-> "IN_PROGRESS"]
             calls  == journal.calls \cup {record}
  <2>1. op[c].kind = "begin" /\ call \in Call
    BY <1>3 DEF LoadBegin, Op
  <2>2. CASE journal.binding # expected[c]
    BY <1>3, <2>2 DEF LoadBegin
  <2>3. CASE /\ journal.binding = expected[c]
             /\ \E r \in journal.calls : r.id = call.id
    <3>1. CASE \E r \in journal.calls : r.id = call.id /\ CallOf(r) = call
      <4>1. pc' = [pc EXCEPT ![c] = "unlock"] /\ view' = view /\ failing' = failing
        BY <1>3, <2>3, <3>1 DEF LoadBegin, Keep
      <4>2. QED
        BY <2>1, <3>1, <4>1
    <3>2. CASE ~\E r \in journal.calls : r.id = call.id /\ CallOf(r) = call
      BY <1>3, <2>3, <3>2 DEF LoadBegin
    <3>3. QED
      BY <3>1, <3>2
  <2>4. CASE /\ journal.binding = expected[c]
             /\ ~\E r \in journal.calls : r.id = call.id
    <3>1. Save(c, journal.binding, calls)
      BY <1>3, <2>4 DEF LoadBegin
    <3>2. calls \in SUBSET Record /\ journal.binding \in Binding
      BY <2>1, <2>4 DEF Journal, Record, Call, State
    <3>3. Changes(op[c], calls)
      BY <2>1 DEF Changes
    <3>4. CASE Encodable(calls)
      <4> HIDE DEF calls
      <4>1. /\ pc' = [pc EXCEPT ![c] = "write"]
            /\ view' = [view EXCEPT ![c] = [binding |-> journal.binding, calls |-> calls]]
            /\ failing' = failing
        BY <3>1, <3>4 DEF Save
      <4>2. QED
        BY <3>2, <3>3, <3>4, <4>1
    <3>5. CASE ~Encodable(calls)
      BY <3>1, <3>5 DEF Save
    <3>6. QED
      BY <3>4, <3>5
  <2>5. QED
    BY <2>2, <2>3, <2>4
<1>4. CASE LoadComplete(c)
  <2> DEFINE match == {r \in journal.calls : CallOf(r) = op[c].call /\ r.state = "IN_PROGRESS"}
             calls == (journal.calls \ match) \cup {[r EXCEPT !.state = op[c].state] : r \in match}
  <2>1. op[c].kind = "complete" /\ op[c].call \in Call /\ op[c].state \in Outcome
    BY <1>4 DEF LoadComplete, Op
  <2>2. CASE journal.binding # expected[c] \/ match = {}
    BY <1>4, <2>2 DEF LoadComplete
  <2>3. CASE ~(journal.binding # expected[c] \/ match = {})
    <3>1. Save(c, journal.binding, calls)
      BY <1>4, <2>3 DEF LoadComplete
    <3>2. PICK r \in journal.calls : CallOf(r) = op[c].call /\ r.state = "IN_PROGRESS"
      BY <2>3
    <3>3. match = {r}
      <4>1. \A s \in match : s.id = r.id
        BY <3>2 DEF CallOf
      <4>2. QED
        BY <3>2, <4>1 DEF Decodable
    <3>4. calls = (journal.calls \ {r}) \cup {[r EXCEPT !.state = op[c].state]}
      BY <3>3
    <3>5. r \in Record /\ op[c].state \in State
      BY <2>1 DEF Journal, State
    <3>6. calls \in SUBSET Record /\ journal.binding \in Binding
      <4>1. [r EXCEPT !.state = op[c].state] \in Record
        BY <3>5, Settled
      <4>2. journal.calls \in SUBSET Record
        BY DEF Journal
      <4>3. QED
        BY <2>3, <3>4, <4>1, <4>2
    <3> HIDE DEF calls
    <3>7. Changes(op[c], calls)
      BY <2>1, <3>2, <3>4 DEF Changes
    <3>8. CASE Encodable(calls)
      <4>1. /\ pc' = [pc EXCEPT ![c] = "write"]
            /\ view' = [view EXCEPT ![c] = [binding |-> journal.binding, calls |-> calls]]
            /\ failing' = failing
        BY <3>1, <3>8 DEF Save
      <4>2. QED
        BY <3>6, <3>7, <3>8, <4>1
    <3>9. CASE ~Encodable(calls)
      BY <3>1, <3>9 DEF Save
    <3>10. QED
      BY <3>8, <3>9
  <2>4. QED
    BY <2>2, <2>3
<1>5. CASE LoadRecover(c)
  BY <1>5 DEF LoadRecover
<1>6. QED
  BY <1>2, <1>3, <1>4, <1>5 DEF Load

\* A changed snapshot keeps every call and every terminal outcome, and has the
\* change in it.
LEMMA ChangesKeep ==
  ASSUME journal \in Journal, NEW o \in Op, NEW calls, Changes(o, calls)
  PROVE  /\ \A r \in journal.calls : \E s \in calls : CallOf(s) = CallOf(r)
         /\ \A r \in journal.calls : r.state # "IN_PROGRESS" => r \in calls
         /\ o.kind = "begin" => \E r \in calls : CallOf(r) = o.call
         /\ o.kind = "complete" =>
              [id |-> o.call.id, attempt |-> o.call.attempt, state |-> o.state] \in calls
<1>1. journal.calls \subseteq Record
  BY DEF Journal
<1>2. CASE o.kind = "create" /\ journal = Empty /\ calls = {}
  BY <1>2 DEF Empty
<1>3. CASE /\ o.kind = "begin"
           /\ calls = journal.calls \cup
                {[id |-> o.call.id, attempt |-> o.call.attempt, state |-> "IN_PROGRESS"]}
  <2>1. o.call \in Call
    BY <1>3 DEF Op
  <2>2. CallOf([id |-> o.call.id, attempt |-> o.call.attempt, state |-> "IN_PROGRESS"]) = o.call
    BY <2>1 DEF CallOf, Call
  <2>3. QED
    BY <1>3, <2>2
<1>4. CASE /\ o.kind = "complete"
           /\ \E r \in journal.calls :
                /\ CallOf(r) = o.call /\ r.state = "IN_PROGRESS"
                /\ calls = (journal.calls \ {r}) \cup {[r EXCEPT !.state = o.state]}
  <2>1. PICK r \in journal.calls :
          /\ CallOf(r) = o.call /\ r.state = "IN_PROGRESS"
          /\ calls = (journal.calls \ {r}) \cup {[r EXCEPT !.state = o.state]}
    BY <1>4
  <2>2. r \in Record /\ o.call \in Call /\ o.state \in State
    BY <1>1, <1>4 DEF Op, State
  <2>3. /\ CallOf([r EXCEPT !.state = o.state]) = CallOf(r)
        /\ [r EXCEPT !.state = o.state] = [id |-> r.id, attempt |-> r.attempt, state |-> o.state]
    BY <2>2, Settled
  <2>4. r.id = o.call.id /\ r.attempt = o.call.attempt
    BY <2>1, <2>2 DEF CallOf, Call
  <2>5. QED
    BY <1>4, <2>1, <2>3, <2>4
<1>5. QED
  BY <1>2, <1>3, <1>4 DEF Changes

-----------------------------------------------------------------------------
(***************************************************************************)
(* Every step preserves the invariant.                                     *)
(***************************************************************************)

\* The part of a state that only the holder of the lock touches.
LEMMA RenameIInv ==
  ASSUME IInv, NEW c \in Client, Rename(c)
  PROVE  IInv'
<1> USE DurableHarnessAssumption DEF IInv, TypeOK, Rename, Goto
<1>1. pc[c] = "rename" /\ c # NoClient /\ lock = c
  BY DEF LockHeld, Critical
<1>2. \A d \in Client \ {c} : pc'[d] = pc[d] /\ pc[d] \notin Critical
  BY <1>1 DEF LockHeld
<1>3. pc'[c] = "cleanup"
  OBVIOUS
<1>4. /\ view[c].binding \in Binding
      /\ Encodable(view[c].calls)
      /\ Changes(op[c], view[c].calls)
  BY <1>1 DEF ViewFresh
<1>5. /\ \A r \in journal.calls : \E s \in view[c].calls : CallOf(s) = CallOf(r)
      /\ \A r \in journal.calls : r.state # "IN_PROGRESS" => r \in view[c].calls
      /\ op[c].kind = "begin" => \E r \in view[c].calls : CallOf(r) = op[c].call
      /\ op[c].kind = "complete" =>
           [id |-> op[c].call.id, attempt |-> op[c].call.attempt, state |-> op[c].state]
             \in view[c].calls
  BY <1>4, ChangesKeep
<1>6. TypeOK'
  BY <1>1 DEF Label
<1>7. LockHeld'
  BY <1>1, <1>2 DEF LockHeld
<1>8. Decodable' /\ MissingIsEmpty'
  BY <1>4 DEF Decodable, MissingIsEmpty, Encodable
<1>9. ViewFresh'
  BY <1>2, <1>3 DEF ViewFresh, Critical
<1>10. SavedStays'
  BY <1>2, <1>3, <1>5 DEF SavedStays, Critical
<1>11. Acknowledged'
  <2>1. \A call \in begun : \E r \in view[c].calls : CallOf(r) = call
    BY <1>5 DEF Acknowledged
  <2>2. finished \subseteq view[c].calls
    <3>1. \A r \in finished : r \in journal.calls /\ r.state # "IN_PROGRESS"
      BY DEF Acknowledged, Outcome
    <3>2. QED
      BY <1>5, <3>1
  <2>3. QED
    BY <2>1, <2>2 DEF Acknowledged
<1>12. QED
  BY <1>6, <1>7, <1>8, <1>9, <1>10, <1>11

\* A client that loads the snapshot gets a view of the one on disk.
LEMMA LoadIInv ==
  ASSUME IInv, NEW c \in Client, Load(c)
  PROVE  IInv'
<1> USE DurableHarnessAssumption DEF IInv, TypeOK
<1>1. /\ pc[c] = "load"
      /\ UNCHANGED <<lock, journal, op, expected, begun, finished, faults>>
  BY DEF Load
<1>2. lock = c
  BY <1>1 DEF LockHeld, Critical
<1>3. report' \in [Client -> SUBSET [id : Id, disposition : Disposition]]
  <2>1. CASE LoadRecover(c)
    <3>1. \A r \in journal.calls : r.id \in Id
      BY DEF Journal, Record
    <3>2. \A r, current : DispositionOf(r, current) \in Disposition
      BY DEF DispositionOf, Disposition
    <3>3. {[id |-> r.id, disposition |-> DispositionOf(r, journal.binding = expected[c])] :
             r \in journal.calls} \in SUBSET [id : Id, disposition : Disposition]
      BY <3>1, <3>2
    <3>4. QED
      BY <2>1, <3>3 DEF LoadRecover
  <2>2. CASE report' = report
    BY <2>2
  <2>3. QED
    BY <2>1, <2>2 DEF Load, LoadCreate, LoadBegin, LoadComplete, Save, Throw, Keep
<1>4. Decodable' /\ MissingIsEmpty' /\ Acknowledged'
  BY <1>1 DEF Decodable, MissingIsEmpty, Acknowledged
<1>5. CASE /\ pc' = [pc EXCEPT ![c] = "unlock"] /\ view' = view
           /\ \/ failing' = [failing EXCEPT ![c] = TRUE]
              \/ /\ failing' = failing
                 /\ op[c].kind # "complete"
                 /\ op[c].kind = "begin" =>
                      \E r \in journal.calls : CallOf(r) = op[c].call
  <2>1. TypeOK'
    BY <1>1, <1>3, <1>5 DEF Label
  <2>2. LockHeld'
    BY <1>1, <1>2, <1>5 DEF LockHeld
  <2>3. ViewFresh'
    BY <1>1, <1>5 DEF ViewFresh, Changes
  <2>4. SavedStays'
    BY <1>1, <1>5 DEF SavedStays
  <2>5. QED
    BY <1>4, <2>1, <2>2, <2>3, <2>4
<1>6. CASE \E calls \in SUBSET Record, binding \in Binding :
              /\ pc' = [pc EXCEPT ![c] = "write"]
              /\ view' = [view EXCEPT ![c] = [binding |-> binding, calls |-> calls]]
              /\ failing' = failing
              /\ journal.binding \in {NoBinding, binding}
              /\ Encodable(calls)
              /\ Changes(op[c], calls)
  <2> PICK calls \in SUBSET Record, binding \in Binding :
              /\ pc' = [pc EXCEPT ![c] = "write"]
              /\ view' = [view EXCEPT ![c] = [binding |-> binding, calls |-> calls]]
              /\ failing' = failing
              /\ journal.binding \in {NoBinding, binding}
              /\ Encodable(calls)
              /\ Changes(op[c], calls)
    BY <1>6
  <2>1. TypeOK'
    BY <1>1, <1>3 DEF Label, Journal
  <2>2. LockHeld'
    BY <1>1, <1>2 DEF LockHeld
  <2>3. ViewFresh'
    <3> SUFFICES ASSUME NEW d \in Client, pc'[d] \in {"write", "rename"}
                 PROVE  /\ view'[d].binding \in Binding
                        /\ journal.binding \in {NoBinding, view'[d].binding}
                        /\ Encodable(view'[d].calls)
                        /\ Changes(op[d], view'[d].calls)
      BY <1>1 DEF ViewFresh, Changes, Encodable
    <3>1. CASE d = c
      BY <3>1
    <3>2. CASE d # c
      BY <3>2 DEF ViewFresh
    <3>3. QED
      BY <3>1, <3>2
  <2>4. SavedStays'
    BY <1>1 DEF SavedStays
  <2>5. QED
    BY <1>4, <2>1, <2>2, <2>3, <2>4
<1>7. QED
  BY <1>5, <1>6, LoadCases

\* Leaving the lock: the last client finds its own change where it left it.
LEMMA UnlockIInv ==
  ASSUME IInv, NEW c \in Client, Unlock(c)
  PROVE  IInv'
<1> USE DurableHarnessAssumption DEF IInv, TypeOK, Unlock, Return, Goto
<1>1. pc[c] = "unlock" /\ lock = c /\ c # NoClient
  BY DEF LockHeld, Critical
<1>2. \A d \in Client \ {c} : pc'[d] = pc[d] /\ pc[d] \notin Critical
  BY <1>1 DEF LockHeld
<1>3. pc'[c] \in {"idle", "closed"} /\ pc' \in [Client -> Label]
  BY DEF Label
<1>4. TypeOK'
  <2>1. op' \in [Client -> Op] /\ view' \in [Client -> Journal] /\ failing' \in [Client -> BOOLEAN]
    BY DEF Op, NoOp, Journal, Empty
  <2>2. begun' \subseteq Call
    BY DEF Op
  <2>3. finished' \subseteq [id : Id, attempt : Attempt, state : Outcome]
    <3>1. op[c].kind = "complete" => op[c].call \in Call /\ op[c].state \in Outcome
      BY DEF Op
    <3>2. op[c].kind = "complete" =>
            [id |-> op[c].call.id, attempt |-> op[c].call.attempt, state |-> op[c].state]
              \in [id : Id, attempt : Attempt, state : Outcome]
      BY <3>1 DEF Call
    <3>3. QED
      BY <3>2
  <2>4. QED
    BY <1>3, <2>1, <2>2, <2>3
<1>5. LockHeld' /\ ViewFresh' /\ SavedStays'
  BY <1>2, <1>3 DEF LockHeld, ViewFresh, SavedStays, Critical
<1>6. Decodable' /\ MissingIsEmpty'
  BY DEF Decodable, MissingIsEmpty
<1>7. Acknowledged'
  <2>1. ~failing[c] =>
          /\ op[c].kind = "begin" => \E r \in journal.calls : CallOf(r) = op[c].call
          /\ op[c].kind = "complete" =>
               [id |-> op[c].call.id, attempt |-> op[c].call.attempt, state |-> op[c].state]
                 \in journal.calls
    BY <1>1 DEF SavedStays
  <2>2. \A call \in begun' : \E r \in journal.calls : CallOf(r) = call
    BY <2>1 DEF Acknowledged
  <2>3. finished' \subseteq journal.calls
    BY <2>1 DEF Acknowledged
  <2>4. QED
    BY <2>2, <2>3 DEF Acknowledged
<1>8. QED
  BY <1>4, <1>5, <1>6, <1>7

\* Making the lock directory admits a client only when nobody is inside.
LEMMA LockIInv ==
  ASSUME IInv, NEW c \in Client, Lock(c)
  PROVE  IInv'
<1> USE DurableHarnessAssumption DEF IInv, TypeOK, Lock, Return, Goto
<1>1. pc[c] = "lock" /\ UNCHANGED <<journal, expected, report, faults, begun, finished>>
  OBVIOUS
<1>2. \A d \in Client \ {c} : pc'[d] = pc[d] /\ op'[d] = op[d] /\ view'[d] = view[d]
                                /\ failing'[d] = failing[d]
  OBVIOUS
<1>3. pc'[c] \in {"load", "idle", "closed"} /\ pc' \in [Client -> Label]
  BY DEF Label
<1>4. TypeOK'
  <2>1. NoOp \in Op /\ Empty \in Journal
    BY DEF Op, NoOp, Journal, Empty
  <2>2. /\ op' = op \/ op' = [op EXCEPT ![c] = NoOp]
        /\ view' = view \/ view' = [view EXCEPT ![c] = Empty]
        /\ failing' = failing \/ failing' = [failing EXCEPT ![c] = FALSE]
    OBVIOUS
  <2>3. lock' \in Client \cup {NoClient}
    OBVIOUS
  <2>4. op' \in [Client -> Op]
    BY <2>1, <2>2
  <2>5. view' \in [Client -> Journal]
    BY <2>1, <2>2
  <2>6. failing' \in [Client -> BOOLEAN]
    BY <2>2
  <2>7. QED
    BY <1>1, <1>3, <2>3, <2>4, <2>5, <2>6
<1>5. LockHeld'
  BY <1>2, <1>3 DEF LockHeld, Critical
<1>6. ViewFresh'
  BY <1>1, <1>2, <1>3 DEF ViewFresh, Changes
<1>7. SavedStays'
  BY <1>1, <1>2, <1>3 DEF SavedStays
<1>8. Decodable' /\ MissingIsEmpty' /\ Acknowledged'
  BY <1>1 DEF Decodable, MissingIsEmpty, Acknowledged
<1>9. QED
  BY <1>4, <1>5, <1>6, <1>7, <1>8

\* A step that changes neither the snapshot nor a lock somebody needs, and
\* gives no client a view, preserves the invariant if it preserves types.
LEMMA QuietIInv ==
  ASSUME IInv, TypeOK', NEW c \in Client,
         UNCHANGED <<lock, journal, expected, begun, finished>>,
         \A d \in Client \ {c} : pc'[d] = pc[d] /\ op'[d] = op[d] /\ view'[d] = view[d]
                                   /\ failing'[d] = failing[d],
         \/ pc'[c] \notin Critical
         \/ /\ pc[c] \in Critical /\ op'[c] = op[c]
            /\ \/ pc'[c] \in {"cleanup", "unlock"} /\ failing'[c]
               \/ pc[c] = "write" /\ pc'[c] = "rename" /\ view'[c] = view[c]
               \/ pc[c] = "cleanup" /\ pc'[c] = "unlock" /\ failing'[c] = failing[c]
  PROVE  IInv'
<1> USE DEF IInv, Critical
<1>1. LockHeld' /\ Decodable' /\ MissingIsEmpty' /\ Acknowledged'
  BY DEF LockHeld, Decodable, MissingIsEmpty, Acknowledged
<1>2. ViewFresh'
  BY DEF ViewFresh, Changes, Encodable
<1>3. SavedStays'
  BY DEF SavedStays
<1>4. QED
  BY <1>1, <1>2, <1>3

LEMMA NextIInv == IInv /\ [Next]_vars => IInv'
<1> SUFFICES ASSUME IInv, [Next]_vars
             PROVE  IInv'
  OBVIOUS
<1> USE DurableHarnessAssumption DEF Goto
<1>1. ASSUME NEW c \in Client, Open(c) PROVE IInv'
  <2>1. TypeOK'
    BY <1>1 DEF Open, IInv, TypeOK, Label
  <2>2. QED
    BY <1>1, <2>1, QuietIInv DEF Open, IInv, TypeOK, Critical
<1>2. ASSUME NEW c \in Client, Invoke(c) PROVE IInv'
  <2>1. TypeOK'
    <3>1. op' \in [Client -> Op]
      BY <1>2 DEF Invoke, IInv, TypeOK, Op
    <3>2. QED
      BY <1>2, <3>1 DEF Invoke, IInv, TypeOK, Label
  <2>2. pc'[c] = "lock" /\ \A d \in Client \ {c} : op'[d] = op[d]
    BY <1>2 DEF Invoke, IInv, TypeOK
  <2>3. QED
    BY <1>2, <2>1, <2>2, QuietIInv DEF Invoke, IInv, TypeOK, Critical
<1>3. ASSUME NEW c \in Client, Step(c) PROVE IInv'
  <2>1. CASE Write(c)
    <3>1. TypeOK'
      BY <2>1 DEF Write, IInv, TypeOK, Label
    <3>2. QED
      BY <2>1, <3>1, QuietIInv DEF Write, IInv, TypeOK, Critical
  <2>2. CASE Cleanup(c)
    <3>1. TypeOK'
      BY <2>2 DEF Cleanup, IInv, TypeOK, Label
    <3>2. QED
      BY <2>2, <3>1, QuietIInv DEF Cleanup, IInv, TypeOK, Critical
  <2>3. QED
    BY <1>3, <2>1, <2>2, LockIInv, LoadIInv, RenameIInv, UnlockIInv DEF Step
<1>4. ASSUME NEW c \in Client, Fault(c) PROVE IInv'
  <2>1. TypeOK'
    <3>1. NoOp \in Op /\ Empty \in Journal
      BY DEF Op, NoOp, Journal, Empty
    <3>2. /\ op' = op \/ op' = [op EXCEPT ![c] = NoOp]
          /\ view' = view \/ view' = [view EXCEPT ![c] = Empty]
          /\ failing' \in {[failing EXCEPT ![c] = TRUE], [failing EXCEPT ![c] = FALSE]}
      BY <1>4 DEF Fault, Return, Throw
    <3>3. pc' \in [Client -> Label] /\ faults' \in Nat
      BY <1>4 DEF Fault, Return, Throw, IInv, TypeOK, Label
    <3>4. UNCHANGED <<lock, journal, expected, report, begun, finished>>
      BY <1>4 DEF Fault, Return, Throw
    <3>5. op' \in [Client -> Op]
      BY <3>1, <3>2 DEF IInv, TypeOK
    <3>6. view' \in [Client -> Journal]
      BY <3>1, <3>2 DEF IInv, TypeOK
    <3>7. failing' \in [Client -> BOOLEAN]
      BY <3>2 DEF IInv, TypeOK
    <3>8. QED
      BY <3>3, <3>4, <3>5, <3>6, <3>7 DEF IInv, TypeOK
  <2>2. begun' = begun /\ finished' = finished
    BY <1>4 DEF Fault, Return
  <2>3. \A d \in Client \ {c} : pc'[d] = pc[d] /\ op'[d] = op[d] /\ view'[d] = view[d]
                                  /\ failing'[d] = failing[d]
    BY <1>4 DEF Fault, Return, Throw, IInv, TypeOK
  <2>4. \/ pc'[c] \notin Critical
        \/ /\ pc[c] \in Critical /\ op'[c] = op[c]
           /\ pc'[c] \in {"cleanup", "unlock"} /\ failing'[c]
    BY <1>4 DEF Fault, Return, Throw, IInv, TypeOK, Critical
  <2>5. UNCHANGED <<lock, journal, expected>>
    BY <1>4 DEF Fault
  <2>6. QED
    BY <2>1, <2>2, <2>3, <2>4, <2>5, QuietIInv
<1>5. ASSUME NEW c \in Client, Crash(c) PROVE IInv'
  <2>1. TypeOK'
    BY <1>5 DEF Crash, IInv, TypeOK, Label, Op, NoOp, Journal, Empty
  <2>2. QED
    BY <1>5, <2>1, QuietIInv DEF Crash, IInv, TypeOK, Critical
<1>6. CASE Repair
  <2>1. \A c \in Client : pc[c] \notin Critical
    BY <1>6 DEF Repair, IInv, LockHeld
  <2>2. TypeOK'
    BY <1>6 DEF Repair, IInv, TypeOK
  <2>3. QED
    BY <1>6, <2>1, <2>2 DEF Repair, IInv, LockHeld, Decodable, MissingIsEmpty, ViewFresh,
       SavedStays, Acknowledged, Changes, Critical
<1>7. CASE UNCHANGED vars
  BY <1>7 DEF vars, IInv, TypeOK, LockHeld, Decodable, MissingIsEmpty, ViewFresh,
     SavedStays, Acknowledged, Changes, Encodable
<1>8. QED
  BY <1>1, <1>2, <1>3, <1>4, <1>5, <1>6, <1>7 DEF Next

-----------------------------------------------------------------------------
\* The inductive invariant of the harness (IInv): what a client is about to
\* write is the snapshot on disk with its own change.
THEOREM Invariance == Spec => []IInv
  BY InitInv, NextIInv, PTL DEF Spec

\* Every variable of the harness keeps its type (TypeOK).
THEOREM TypeCorrect == Spec => []TypeOK
<1>1. IInv => TypeOK
  BY DEF IInv
<1>2. QED
  BY <1>1, Invariance, PTL

\* At most one client is between mkdir and rmdir (LockHeld), whoever crashed
\* and whatever an operator repaired.
THEOREM LockHeldHolds == Spec => []LockHeld
<1>1. IInv => LockHeld
  BY DEF IInv
<1>2. QED
  BY <1>1, Invariance, PTL

\* What begin() and complete() acknowledged stays in the snapshot
\* (Acknowledged), for any number of clients, crashes and failed writes.
THEOREM AcknowledgedHolds == Spec => []Acknowledged
<1>1. IInv => Acknowledged
  BY DEF IInv
<1>2. QED
  BY <1>1, Invariance, PTL

\* No snapshot outgrows DURABLE_HARNESS_MAX_CALLS or repeats an identity
\* (Decodable), so no writer leaves a file the next reader must reject.
THEOREM DecodableHolds == Spec => []Decodable
<1>1. IInv => Decodable
  BY DEF IInv
<1>2. QED
  BY <1>1, Invariance, PTL

-----------------------------------------------------------------------------
\* The snapshot only changes in Rename, and there as the abstract journal may:
\* a fresh intent, or an outcome for an unfinished one.
LEMMA RenameRefines ==
  ASSUME IInv, NEW c \in Client, Rename(c)
  PROVE  Abstract!Next \/ UNCHANGED journal.calls
<1> USE DEF IInv, TypeOK, Rename
<1>1. Encodable(view[c].calls) /\ Changes(op[c], view[c].calls)
  BY DEF ViewFresh
<1>2. journal'.calls = view[c].calls
  OBVIOUS
<1>3. CASE op[c].kind = "create" /\ journal = Empty /\ view[c].calls = {}
  BY <1>2, <1>3 DEF Empty
<1>4. CASE /\ op[c].kind = "begin"
           /\ view[c].calls = journal.calls \cup
                {[id |-> op[c].call.id, attempt |-> op[c].call.attempt, state |-> "IN_PROGRESS"]}
  <2> DEFINE call   == op[c].call
             record == [id |-> call.id, attempt |-> call.attempt, state |-> "IN_PROGRESS"]
  <2>1. call.id \in Id /\ call.attempt \in Attempt
    BY <1>4 DEF Op, Call
  <2>2. CASE record \in journal.calls
    BY <1>2, <1>4, <2>2
  <2>3. CASE record \notin journal.calls
    <3>1. \A r \in journal.calls : r.id # call.id /\ r.attempt # call.attempt
      BY <1>1, <1>4, <2>3 DEF Encodable
    <3>2. Abstract!Intend(call.id, call.attempt)
      BY <1>2, <1>4, <3>1 DEF Abstract!Intend
    <3>3. QED
      BY <2>1, <3>2 DEF Abstract!Next
  <2>4. QED
    BY <2>2, <2>3
<1>5. CASE /\ op[c].kind = "complete"
           /\ \E r \in journal.calls :
                /\ CallOf(r) = op[c].call /\ r.state = "IN_PROGRESS"
                /\ view[c].calls = (journal.calls \ {r}) \cup {[r EXCEPT !.state = op[c].state]}
  <2>1. op[c].state \in Outcome
    BY <1>5 DEF Op
  <2>2. op[c].state # "IN_PROGRESS" /\ op[c].state \in State
    BY <2>1 DEF Outcome, State
  <2>3. \E r \in journal.calls : Abstract!Settle(r, op[c].state)
    BY <1>2, <1>5, <2>2 DEF Abstract!Settle
  <2>4. QED
    BY <2>2, <2>3 DEF Abstract!Next
<1>6. QED
  BY <1>1, <1>3, <1>4, <1>5 DEF Changes

\* The journal file implements the abstract journal (ImplementsAbstract): no
\* interleaving of clients, crash or repair loses a call or rewrites an outcome.
THEOREM Refinement == Spec => ImplementsAbstract
<1>1. Init => Abstract!Init
  BY DEF Init, Empty, Abstract!Init
<1>2. IInv /\ [Next]_vars => [Abstract!Next]_(journal.calls)
  <2> SUFFICES ASSUME IInv, [Next]_vars
               PROVE  Abstract!Next \/ UNCHANGED journal.calls
    OBVIOUS
  <2>1. CASE \E c \in Client : Rename(c)
    BY <2>1, RenameRefines
  <2>2. CASE ~\E c \in Client : Rename(c)
    <3>1. UNCHANGED journal
      BY <2>2 DEF Next, Open, Invoke, Step, Lock, Load, Write, Cleanup, Unlock, Fault, Crash,
         Repair, vars
    <3>2. QED
      BY <3>1
  <2>3. QED
    BY <2>1, <2>2
<1>3. QED
  BY <1>1, <1>2, Invariance, PTL DEF Spec, ImplementsAbstract, Abstract!Spec

-----------------------------------------------------------------------------
(***************************************************************************)
(* What recover() reports.                                                 *)
(***************************************************************************)

\* What each client that recovers keeps of its report, by what a step did to it.
LEMMA ReportKept ==
  ASSUME IInv, ReportFresh, NEW c \in Client, op'[c].kind = "recover",
         \/ pc'[c] \notin {"write", "rename", "cleanup", "unlock"}
         \/ pc'[c] \in {"cleanup", "unlock"} /\ failing'[c]
         \/ /\ pc'[c] \in {"cleanup", "unlock"} /\ pc[c] \in {"cleanup", "unlock"}
            /\ op'[c] = op[c] /\ failing'[c] = failing[c] /\ report'[c] = report[c]
            /\ UNCHANGED <<journal, expected>>
  PROVE  /\ pc'[c] \notin {"write", "rename"}
         /\ pc'[c] \in {"cleanup", "unlock"} /\ ~failing'[c] =>
              report'[c] = {[id |-> r.id, disposition |-> DispositionOf(r, journal'.binding = expected'[c])] :
                              r \in journal'.calls}
BY DEF ReportFresh

LEMMA NextReportFresh == IInv /\ ReportFresh /\ [Next]_vars => ReportFresh'
<1> SUFFICES ASSUME IInv, ReportFresh, [Next]_vars, NEW d \in Client, op'[d].kind = "recover"
             PROVE  /\ pc'[d] \notin {"write", "rename"}
                    /\ pc'[d] \in {"cleanup", "unlock"} /\ ~failing'[d] =>
                         report'[d] = {[id |-> r.id,
                                        disposition |-> DispositionOf(r, journal'.binding = expected'[d])] :
                                         r \in journal'.calls}
  BY DEF ReportFresh
<1>0. TypeOK /\ LockHeld
  BY DEF IInv
<1>1. CASE /\ pc'[d] = pc[d] /\ op'[d] = op[d] /\ failing'[d] = failing[d] /\ report'[d] = report[d]
           /\ UNCHANGED <<journal, expected>>
  BY <1>1 DEF ReportFresh
<1>2. ASSUME NEW c \in Client, c # d, ~Rename(c),
             Open(c) \/ Invoke(c) \/ Step(c) \/ Fault(c) \/ Crash(c)
      PROVE  /\ pc'[d] = pc[d] /\ op'[d] = op[d] /\ failing'[d] = failing[d]
             /\ report'[d] = report[d] /\ UNCHANGED <<journal, expected>>
  <2>1. /\ Open(c) \/ Invoke(c) \/ Lock(c) \/ Load(c) \/ Write(c) \/ Cleanup(c) \/ Unlock(c)
             \/ Fault(c) \/ Crash(c)
        /\ pc \in [Client -> Label] /\ failing \in [Client -> BOOLEAN] /\ DOMAIN op = Client
        /\ DOMAIN report = Client
    BY <1>0, <1>2 DEF Step, TypeOK
  <2>2. CASE Open(c) \/ Write(c) \/ Cleanup(c)
    BY <1>2, <2>1, <2>2 DEF Open, Write, Cleanup, Goto
  <2>3. CASE Invoke(c) \/ Crash(c)
    BY <1>2, <2>1, <2>3 DEF Invoke, Crash, Goto
  <2>4. CASE Lock(c) \/ Unlock(c)
    BY <1>2, <2>1, <2>4 DEF Lock, Unlock, Return, Goto
  <2>5. CASE Load(c)
    BY <1>2, <2>1, <2>5 DEF Load, LoadCreate, LoadBegin, LoadComplete, LoadRecover, Save, Throw,
       Keep, Goto
  <2>6. CASE Fault(c)
    BY <1>2, <2>1, <2>6 DEF Fault, Return, Throw, Goto
  <2> QED
    BY <2>1, <2>2, <2>3, <2>4, <2>5, <2>6
<1>3. ASSUME NEW c \in Client, Rename(c)
      PROVE  d # c /\ pc'[d] = pc[d] /\ pc[d] \notin {"write", "rename", "cleanup", "unlock"}
  <2>1. pc[c] = "rename" /\ pc' = [pc EXCEPT ![c] = "cleanup"] /\ op' = op
    BY <1>3 DEF Rename, Goto
  <2>2. d # c
    BY <2>1 DEF ReportFresh
  <2>3. lock = c
    BY <1>0, <2>1 DEF LockHeld, Critical
  <2> QED
    BY <1>0, <2>1, <2>2, <2>3 DEF LockHeld, Critical, TypeOK
<1>4. CASE Load(d)
  <2>1. op[d].kind = "recover" /\ op' = op /\ UNCHANGED <<journal, expected>>
    BY <1>4 DEF Load
  <2>2. LoadRecover(d)
    BY <1>4, <2>1 DEF Load, LoadCreate, LoadBegin, LoadComplete
  <2>3. /\ pc'[d] = "unlock"
        /\ report'[d] = {[id |-> r.id, disposition |-> DispositionOf(r, journal.binding = expected[d])] :
                           r \in journal.calls}
    BY <1>0, <2>2 DEF LoadRecover, Goto, TypeOK
  <2> QED
    BY <2>1, <2>3
<1>5. ASSUME Open(d) \/ Invoke(d) \/ Lock(d) \/ Write(d) \/ Cleanup(d) \/ Unlock(d) \/ Fault(d) \/ Crash(d)
      PROVE  \/ pc'[d] \notin {"write", "rename", "cleanup", "unlock"}
             \/ pc'[d] \in {"cleanup", "unlock"} /\ failing'[d]
             \/ /\ pc'[d] \in {"cleanup", "unlock"} /\ pc[d] \in {"cleanup", "unlock"}
                /\ op'[d] = op[d] /\ failing'[d] = failing[d] /\ report'[d] = report[d]
                /\ UNCHANGED <<journal, expected>>
  <2>1. CASE Write(d)
    BY <2>1 DEF Write, ReportFresh
  <2>2. CASE Open(d) \/ Invoke(d) \/ Lock(d) \/ Unlock(d) \/ Crash(d)
    BY <1>0, <2>2 DEF Open, Invoke, Lock, Unlock, Crash, Return, Goto, TypeOK
  <2>3. CASE Cleanup(d)
    BY <1>0, <2>3 DEF Cleanup, Goto, TypeOK
  <2>4. CASE Fault(d)
    BY <1>0, <2>4 DEF Fault, Return, Throw, Goto, TypeOK
  <2> QED
    BY <1>5, <2>1, <2>2, <2>3, <2>4
<1>6. CASE Repair \/ UNCHANGED vars
  BY <1>1, <1>6 DEF Repair, vars
<1>7. CASE \E c \in Client : Rename(c)
  BY <1>3, <1>7, ReportKept
<1>8. CASE \E c \in Client : ~Rename(c) /\ (Open(c) \/ Invoke(c) \/ Step(c) \/ Fault(c) \/ Crash(c))
  <2>1. PICK c \in Client : ~Rename(c) /\ (Open(c) \/ Invoke(c) \/ Step(c) \/ Fault(c) \/ Crash(c))
    BY <1>8
  <2>2. CASE c # d
    BY <1>1, <1>2, <2>1, <2>2
  <2>3. CASE c = d
    BY <1>4, <1>5, <2>1, <2>3, ReportKept DEF Step
  <2> QED
    BY <2>2, <2>3
<1> QED
  BY <1>6, <1>7, <1>8 DEF Next, Step

\* recover() hides no uncertain effect: an acknowledged never-call without an
\* outcome needs reconciliation, and an outcome is only reported as recorded if
\* it is, under the binding the handle was opened with
\* (durableHarnessRecoveryV1), whatever other clients do meanwhile.
THEOREM ReportHonestHolds == Spec => []ReportHonest
<1>1. Init => ReportFresh
  BY DEF Init, ReportFresh, NoOp
<1>2. IInv /\ ReportFresh => ReportHonest
  <2> SUFFICES ASSUME IInv, ReportFresh, NEW c \in Client,
                      pc[c] = "unlock", op[c].kind = "recover", ~failing[c]
               PROVE  /\ \A call \in begun :
                           call.id \in Never /\ (\E r \in journal.calls : CallOf(r) = call /\ r.state = "IN_PROGRESS")
                             => [id |-> call.id, disposition |-> "RECONCILIATION_REQUIRED"] \in report[c]
                      /\ \A e \in report[c] : e.disposition \in {"RECORDED_SUCCESS", "RECORDED_FAILURE"} =>
                           /\ journal.binding = expected[c]
                           /\ \E r \in journal.calls :
                                /\ r.id = e.id
                                /\ r.state = IF e.disposition = "RECORDED_SUCCESS"
                                               THEN "SUCCEEDED" ELSE "FAILED"
    BY DEF ReportHonest
  <2>1. report[c] = {[id |-> r.id, disposition |-> DispositionOf(r, journal.binding = expected[c])] :
                       r \in journal.calls}
    BY DEF ReportFresh
  <2>2. \A r \in journal.calls :
          r.id \in Never /\ r.state = "IN_PROGRESS"
            => DispositionOf(r, journal.binding = expected[c]) = "RECONCILIATION_REQUIRED"
    BY DEF DispositionOf
  <2>3. \A r \in journal.calls :
          /\ DispositionOf(r, journal.binding = expected[c]) = "RECORDED_SUCCESS"
               => journal.binding = expected[c] /\ r.state = "SUCCEEDED"
          /\ DispositionOf(r, journal.binding = expected[c]) = "RECORDED_FAILURE"
               => journal.binding = expected[c] /\ r.state = "FAILED"
    <3>1. \A r \in journal.calls : r.state \in {"SUCCEEDED", "FAILED", "IN_PROGRESS"}
      BY DEF IInv, TypeOK, Journal, Record, State, Outcome
    <3> QED
      BY <3>1 DEF DispositionOf
  <2> QED
    BY <2>1, <2>2, <2>3 DEF CallOf
<1> QED
  BY <1>1, <1>2, NextReportFresh, Invariance, PTL DEF Spec
================================================================================
