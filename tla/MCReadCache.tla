---------------------------- MODULE MCReadCache ----------------------------
(* Request threads that read one mutable pointer and roster snapshots of   *)
(* two sizes, with room for only one of the snapshots.                     *)
EXTENDS ReadCache, TLC

CONSTANTS pointer, small, large
MCSize == (pointer :> 0) @@ (small :> 1) @@ (large :> 2)
=============================================================================
