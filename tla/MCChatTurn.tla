----------------------------- MODULE MCChatTurn -----------------------------
(* ChatTurn for TLC: a keyed request, and one that retries it, shares the   *)
(* conversation with it under no key, or uses its key elsewhere.  Up to the *)
(* names these are all the ways in which two requests can be related.       *)
EXTENDS ChatTurn

CONSTANTS c1, c2, k

FirstAndOther ==
  [r \in Requests |-> IF r = 1 THEN {<<c1, k>>} ELSE {c1, c2} \X {k, NoKey}]
=============================================================================
