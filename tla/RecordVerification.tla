--------------------------- MODULE RecordVerification ---------------------------
(***************************************************************************)
(* What is decided from records: the quality engine, the assurance case    *)
(* and the security review.  They share no state, so a behaviour is of one *)
(* of them.                                                                *)
(***************************************************************************)
EXTENDS QualityEngine, AssuranceCase, SecurityReview

VARIABLE domain

vars == <<domain, qualityVars, caseVars, reviewVars>>

\* The repository under review matters to the review only.
Init ==
  /\ domain \in {"quality", "case", "review"}
  /\ QualityInit /\ CaseInit /\ ReviewInit
  /\ domain # "review" => service = "records"

Next ==
  /\ UNCHANGED domain
  /\ \/ domain = "quality" /\ QualityNext /\ UNCHANGED <<caseVars, reviewVars>>
     \/ domain = "case" /\ CaseNext /\ UNCHANGED <<qualityVars, reviewVars>>
     \/ domain = "review" /\ ReviewNext /\ UNCHANGED <<qualityVars, caseVars>>

Spec == Init /\ [][Next]_vars
================================================================================
