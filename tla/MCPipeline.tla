----------------------------- MODULE MCPipeline -----------------------------
(***************************************************************************)
(* Instances of Pipeline for TLC: two flows on two workers.                *)
(***************************************************************************)
EXTENDS Pipeline

TwoWorkers == [f \in {"a", "b"} |-> IF f = "a" THEN 0 ELSE 1]
=============================================================================
