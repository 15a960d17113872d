----------------------------- MODULE MCQualityEngine -----------------------------
(***************************************************************************)
(* QualityEngine for TLC: an obligation that may name a conflict, with  *)
(* an oracle that may gate and one that may not.                           *)
(***************************************************************************)
EXTENDS QualityEngine

CONSTANTS k1

MCLinks == {<<>>, <<k1>>}
MCOracles == {[independence |-> "independent", calibrated |-> TRUE],
              [independence |-> "derived", calibrated |-> TRUE]}
MCClaims == {[smaller |-> TRUE, preserved |-> TRUE, reproduces |-> TRUE],
             [smaller |-> TRUE, preserved |-> FALSE, reproduces |-> TRUE]}
================================================================================
