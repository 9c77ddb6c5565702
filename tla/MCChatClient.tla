----------------------------- MODULE MCChatClient -----------------------------
(* The chat client, the votes on one answer and the rate limiter its messages *)
(* pass, side by side: an answer is voted on whatever its thread does, and    *)
(* the limiter sees one process's requests, whoever sent them, so a behaviour *)
(* takes the steps of one of the three.                                       *)
EXTENDS ChatClient, ChatRateLimiter, FeedbackVotes

VARIABLE part

Messages == [c1 |-> 3, c2 |-> 1, c3 |-> 0]

Accepted == Frame("accepted", 0)
Token    == Frame("token", 0)
Done     == Frame("done", 0)
Failed   == Frame("error", 0)

\* One tool reported twice between stretches of text, and a turn that fails after some text.
Turns == {<<Accepted, Frame("tool", 1), Token, Frame("tool", 1), Done>>, <<Accepted, Token, Failed>>}

AllVars == <<vars, limiterVars, voteVars, part>>

MCInit ==
  /\ Init /\ LimiterInit /\ VotesInit
  /\ part \in {"client", "limiter", "votes"}
  /\ part # "votes" => row = NoRow

MCNext ==
  /\ UNCHANGED part
  /\ \/ part = "client"  /\ Next        /\ UNCHANGED <<limiterVars, voteVars>>
     \/ part = "limiter" /\ LimiterNext /\ UNCHANGED <<vars, voteVars>>
     \/ part = "votes"   /\ VotesNext   /\ UNCHANGED <<vars, limiterVars>>

MCSpec == MCInit /\ [][MCNext]_AllVars
=============================================================================
