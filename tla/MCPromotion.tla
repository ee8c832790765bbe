---------------------------- MODULE MCPromotion ----------------------------
(* Two concurrent runs at a time; three intents, two for one revision.     *)
EXTENDS Promotion, TLC

CONSTANTS a, b, c, r1, r2
Candidates == (a :> r1) @@ (b :> r1) @@ (c :> r2)
Symmetry == Permutations(Run) \cup Permutations({a, b})
=============================================================================
