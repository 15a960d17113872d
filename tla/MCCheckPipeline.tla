--------------------------- MODULE MCCheckPipeline ---------------------------
(***************************************************************************)
(* CheckPipeline for TLC: two of the four tasks, the second of them the    *)
(* tests.                                                                  *)
(***************************************************************************)
EXTENDS CheckPipeline

MCTasks == <<"lint", "test">>
================================================================================
