------------------------------- MODULE MCRunLock -------------------------------
(***************************************************************************)
(* Instances of RunLock for TLC.                                           *)
(***************************************************************************)
EXTENDS RunLock, TLC

CONSTANTS c1, c2, c3, p1, p2, p3

\* Three processes with one call each; p3 is started under the pid that p1
\* had, so a dead owner may look alive.
ReuseProcOf == (c1 :> p1) @@ (c2 :> p2) @@ (c3 :> p3)
ReusePidOf  == (p1 :> 1) @@ (p2 :> 2) @@ (p3 :> 1)

\* Two processes with one call each.
PairProcOf == (c1 :> p1) @@ (c2 :> p2)
PairPidOf  == (p1 :> 1) @@ (p2 :> 2)
================================================================================
