--------------------------- MODULE MCDistillation ---------------------------
(* Distillation for TLC: one user with two conversations of one turn each. *)
EXTENDS Distillation, TLC

CONSTANTS c1, c2, t1, t2, u1, w1

OneEach == (t1 :> c1) @@ (t2 :> c2)
OneOwner == (c1 :> u1) @@ (c2 :> u1)

\* No action tells one statement from another.
Alike == Permutations(Facts)
=============================================================================
