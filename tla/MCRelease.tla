---------------------------- MODULE MCRelease -----------------------------
(* Two runs and three intents of a promotion; one activation, two pauses   *)
(* and freezes, two scripts at once; three revisions, different timeouts.  *)
EXTENDS MCPromotion, ReleaseProtocols

CONSTANTS a1, d1, d2, v1, v2, v3

PauseAfter     == d1 :> a1 @@ d2 :> a1
RequestTimeout == v1 :> 2 @@ v2 :> 1 @@ v3 :> 1

(* What the theorems about the last two assume of their constants.         *)
ASSUME ReleaseAssumptions == CutoverAssumption /\ EnforcementAssumption

ReleaseSymmetry == Symmetry \cup Permutations({d1, d2})
=============================================================================
