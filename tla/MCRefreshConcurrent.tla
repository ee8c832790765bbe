------------------------ MODULE MCRefreshConcurrent ------------------------
(* Executions that compete for the lease, none of them retried: hourly     *)
(* runs and a catch-up.                                                    *)
EXTENDS RefreshPipeline, TLC

MCLateness == [t \in 0..MaxTime |-> (Overlap + Delay) - (t % (Overlap + Delay + 1))]
Symmetric  == Permutations(Execution \ UntilCurrent)
=============================================================================
