-------------------------- MODULE MCOtherWriters --------------------------
(* Two News jobs; two turns of one day, one backfill.                      *)
EXTENDS OtherWriters, TLC

CONSTANTS t1, t2

TurnDay == t1 :> 1 @@ t2 :> 1

(* What the theorems about the recoveries assume of their constants.       *)
ASSUME RecoveryAssumption == HistoryAssumption
=============================================================================
