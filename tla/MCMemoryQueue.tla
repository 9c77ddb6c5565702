--------------------------- MODULE MCMemoryQueue ---------------------------
(* Instances of MemoryQueue for TLC: who talks where. *)
EXTENDS MemoryQueue, TLC

CONSTANTS c1, c2, t1, t2, t3, w1

TwoThenOne == (t1 :> c1) @@ (t2 :> c1) @@ (t3 :> c2)
=============================================================================
