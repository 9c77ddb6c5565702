---------------------------- MODULE MCJwksCache -----------------------------
(* JwksCache for TLC. *)
EXTENDS JwksCache, TLC

CONSTANTS r1, r2, r3, k1, k2

RequestSymmetry == Permutations(Requests)
=============================================================================
