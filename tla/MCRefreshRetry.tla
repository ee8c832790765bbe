--------------------------- MODULE MCRefreshRetry ---------------------------
(* A catch-up that Cloud Run retries once under the same identity, while   *)
(* an hourly execution may run.                                            *)
EXTENDS RefreshPipeline, TLC

MCLateness == [t \in 0..MaxTime |-> (Overlap + Delay) - (t % (Overlap + Delay + 1))]
=============================================================================
