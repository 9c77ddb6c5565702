------------------------ MODULE DistillationPromise ------------------------
(***************************************************************************)
(* What the distillation queue promises a conversation, with no worker, no *)
(* clock and no claim in sight: a queued turn is owed a distillation, and  *)
(* the debt is discharged by one that has read every turn owed.            *)
(***************************************************************************)
CONSTANTS Conversations, Turns

VARIABLES
  promised,   \* per conversation, the turns queued so far
  kept,       \* per conversation, the turns its last distillation had read
  verdict     \* per conversation: none, owed, kept or abandoned

promiseVars == <<promised, kept, verdict>>

PromiseTypeOK ==
  /\ promised \in [Conversations -> SUBSET Turns]
  /\ kept \in [Conversations -> SUBSET Turns]
  /\ verdict \in [Conversations -> {"none", "owed", "kept", "abandoned"}]

Init ==
  /\ promised = [c \in Conversations |-> {}]
  /\ kept = [c \in Conversations |-> {}]
  /\ verdict = [c \in Conversations |-> "none"]

\* A turn completes; an earlier verdict no longer counts.
Owe(c, t) ==
  /\ promised' = [promised EXCEPT ![c] = @ \union {t}]
  /\ verdict' = [verdict EXCEPT ![c] = "owed"]
  /\ UNCHANGED kept

Keep(c, turns) ==
  /\ verdict[c] = "owed"
  /\ promised[c] \subseteq turns
  /\ kept' = [kept EXCEPT ![c] = turns]
  /\ verdict' = [verdict EXCEPT ![c] = "kept"]
  /\ UNCHANGED promised

Abandon(c) ==
  /\ verdict[c] = "owed"
  /\ verdict' = [verdict EXCEPT ![c] = "abandoned"]
  /\ UNCHANGED <<promised, kept>>

\* The conversation is deleted, and never comes back.
Forget(c) ==
  /\ verdict' = [verdict EXCEPT ![c] = "none"]
  /\ UNCHANGED <<promised, kept>>

Next ==
  \E c \in Conversations :
    \/ \E t \in Turns : Owe(c, t)
    \/ \E turns \in SUBSET Turns : Keep(c, turns)
    \/ Abandon(c)
    \/ Forget(c)

Spec == Init /\ [][Next]_promiseVars
=============================================================================
