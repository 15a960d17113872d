-------------------------- MODULE MCBrowserVerification --------------------------
(* Browser verification for TLC. *)
EXTENDS BrowserVerification, TLC

MCClasses == {"execution_recovery", "semantic_recovery"}
MCSymmetry == Permutations(Key) \cup Permutations(Value) \cup Permutations(Path)
================================================================================
