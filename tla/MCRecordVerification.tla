------------------------- MODULE MCRecordVerification -------------------------
(* The three record-keeping parts for TLC, each with its own inputs. *)
EXTENDS RecordVerification, MCQualityEngine, MCAssuranceCase, MCSecurityReview
================================================================================
