---------------------------- MODULE AbstractRunLock ----------------------------
(***************************************************************************)
(* What the run lock promises, without files, guard, pids or errors: an    *)
(* owner that is recorded before it may use the repository, that nobody    *)
(* displaces while it uses it, and that can be forgotten once it does not. *)
(***************************************************************************)
CONSTANTS Call, NoOwner

VARIABLES
  owner,  \* the call on record, or NoOwner
  using   \* the calls whose caller holds a handle it has not released

absVars == <<owner, using>>

AbsInit ==
  /\ owner = NoOwner
  /\ using = {}

\* A free lock gets an owner.
Claim(c) ==
  /\ owner = NoOwner
  /\ owner' = c
  /\ UNCHANGED using

\* Only the owner on record gets to use the repository.
Enter(c) ==
  /\ owner = c
  /\ using' = using \cup {c}
  /\ UNCHANGED owner

\* Calls stop using the repository: they release, or their process dies.
Leave(S) ==
  /\ using' = using \ S
  /\ UNCHANGED owner

\* The record of an owner that does not use the repository is removed.
Forget ==
  /\ owner # NoOwner
  /\ owner \notin using
  /\ owner' = NoOwner
  /\ UNCHANGED using

AbsNext ==
  \/ \E c \in Call : Claim(c) \/ Enter(c)
  \/ \E S \in SUBSET Call : Leave(S)
  \/ Forget

AbsSpec == AbsInit /\ [][AbsNext]_absVars
================================================================================
