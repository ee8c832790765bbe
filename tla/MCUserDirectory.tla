-------------------------- MODULE MCUserDirectory --------------------------
(* Two admins and the projector; a label and a user older than the claims: *)
(* a user nobody is bound to, or one with a foreign id that is bound to    *)
(* the root of the other email.                                            *)
EXTENDS UserDirectory, TLC

CONSTANTS e1, e2, x, l1, l2, n1, n2, r1, r2
OwnEmails  == (r1 :> e1) @@ (r2 :> e2)
LegacyName == l1 :> n1
OldUsers   ==
  {e1 :> [email |-> e1, bound |-> None, labels |-> {}],
   x :> [email |-> e1, bound |-> r2, labels |-> {l1}]}
Symmetry   == Permutations(Admin)
=============================================================================
