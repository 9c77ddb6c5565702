---------------------------- MODULE FeedbackVotes ----------------------------
(***************************************************************************)
(* The vote on an answer: the thumbs of ui/primitives/Feedback.tsx, the    *)
(* optimistic entry of the chat store with its rollback and hydration, the *)
(* routes of live_chat.py and the row of core/chat/feedback.py.  One       *)
(* answer, one user, several tabs; a request may fail before or after the  *)
(* server did what it asks.                                                *)
(***************************************************************************)
EXTENDS Integers, Sequences

CONSTANTS
  Tabs,      \* open pages of the user
  Comments,  \* what may be written into the prompt, one of them NoComment
  Answer,    \* the run that produced the message
  MaxAsks    \* bound on requests

NoOne     == "no one"
NoComment == "no comment"
NoRow     == [verdict |-> "no row", comment |-> NoComment, run |-> NoOne]

ASSUME VoteAssumption == NoOne \notin Tabs /\ NoComment \in Comments

VARIABLES
  visible,    \* the message is there: its conversation has not been deleted
  row,        \* the user's row of message_feedback for it
  feedback,   \* per tab the entry of the store
  prompting,  \* per tab whether "What went wrong?" is open
  asks,       \* the requests, by number
  clear       \* history: per tab, nothing happened since it was opened that its entry cannot show

voteVars == <<visible, row, feedback, prompting, asks, clear>>

Vote(verdict, comment) == [verdict |-> verdict, comment |-> comment]
NoVote == Vote("none", NoComment)

VoteAsk(tab, kind, vote, prev) ==
  [tab |-> tab, kind |-> kind, vote |-> vote, prev |-> prev, at |-> "asked", ok |-> FALSE]
Landed == VoteAsk(NoOne, "over", NoVote, NoVote)
Waiting(tab) == {k \in DOMAIN asks : asks[k].tab = tab}

\* What GET says; 404 for no row, for a cleared one and for no message.
RecordedVote ==
  IF visible /\ row.verdict \in {"up", "down"} THEN Vote(row.verdict, row.comment) ELSE NoVote

\* A comment goes with a thumb down only.
Votes == {NoVote, Vote("up", NoComment)} \union {Vote("down", c) : c \in Comments}

VotesTypeOK ==
  /\ visible \in BOOLEAN
  /\ row = NoRow \/ \E v \in Votes : row = [verdict |-> v.verdict, comment |-> v.comment, run |-> Answer]
  /\ feedback \in [Tabs -> Votes] /\ prompting \in [Tabs -> BOOLEAN] /\ clear \in [Tabs -> BOOLEAN]
  /\ asks \in Seq({Landed} \union [tab : Tabs \union {NoOne}, kind : {"post", "get"}, vote : Votes,
                                   prev : Votes, at : {"asked", "answered"}, ok : BOOLEAN])

VotesInit ==
  /\ visible = TRUE
  /\ row \in {NoRow} \union {[verdict |-> v, comment |-> NoComment, run |-> Answer] : v \in {"up", "down"}}
  /\ feedback = [t \in Tabs |-> NoVote] /\ prompting = [t \in Tabs |-> FALSE]
  /\ asks = << >> /\ clear = [t \in Tabs |-> FALSE]

-----------------------------------------------------------------------------
(* The tabs.                                                                *)
\* A request beside another one of its tab: which of the two the server takes first, and which
\* answer comes first, is open.
Asked(a) ==
  /\ Len(asks) < MaxAsks
  /\ asks' = Append(asks, a)
  /\ clear' = [clear EXCEPT ![a.tab] = @ /\ Waiting(a.tab) = {}]

Submit(t, vote) ==
  /\ Asked(VoteAsk(t, "post", vote, feedback[t]))
  /\ feedback' = [feedback EXCEPT ![t] = vote]
  /\ UNCHANGED <<visible, row>>

\* A vote that is clicked again is taken back.
ClickUp(t) ==
  /\ Submit(t, IF feedback[t].verdict = "up" THEN NoVote ELSE Vote("up", NoComment))
  /\ prompting' = [prompting EXCEPT ![t] = FALSE]

ClickDown(t) ==
  IF feedback[t].verdict = "down" THEN Submit(t, NoVote) /\ UNCHANGED prompting
  ELSE /\ prompting' = [prompting EXCEPT ![t] = TRUE]
       /\ UNCHANGED <<visible, row, feedback, asks, clear>>

SubmitDown(t) ==
  /\ prompting[t]
  /\ \E c \in Comments : Submit(t, Vote("down", c))
  /\ prompting' = [prompting EXCEPT ![t] = FALSE]

CancelPrompt(t) ==
  /\ prompting[t]
  /\ prompting' = [prompting EXCEPT ![t] = FALSE]
  /\ UNCHANGED <<visible, row, feedback, asks, clear>>

\* The page is loaded: the store is new, what it asked before concerns nobody any more, and
\* the message of the opened conversation is hydrated.
OpenTab(t) ==
  /\ Len(asks) < MaxAsks
  /\ feedback' = [feedback EXCEPT ![t] = NoVote]
  /\ prompting' = [prompting EXCEPT ![t] = FALSE]
  /\ asks' = Append([k \in DOMAIN asks |-> IF asks[k].tab = t THEN [asks[k] EXCEPT !.tab = NoOne] ELSE asks[k]],
                    VoteAsk(t, "get", NoVote, NoVote))
  /\ clear' = [clear EXCEPT ![t] = TRUE]
  /\ UNCHANGED <<visible, row>>

\* The conversation is opened again, or an earlier page of it loaded.
HydrateFeedback(t) ==
  /\ Asked(VoteAsk(t, "get", NoVote, NoVote))
  /\ UNCHANGED <<visible, row, feedback, prompting>>

\* Mutant: a vote that failed is taken away.
NothingShown(a) == NoVote

\* A failed vote gives way to what was there before it; a failed GET is swallowed.
Rollback(a) == a.prev

\* What the answer makes of its tab's entry.
Settled(a, entry) ==
  IF a.kind = "get" /\ a.ok THEN a.vote
  ELSE IF a.kind = "post" /\ ~a.ok THEN Rollback(a) ELSE entry

Land(k) ==
  LET a == asks[k]
  IN  /\ a.at = "answered"
      /\ asks' = [asks EXCEPT ![k] = Landed]
      /\ feedback' = [t \in Tabs |-> IF t = a.tab THEN Settled(a, feedback[t]) ELSE feedback[t]]
      /\ UNCHANGED <<visible, row, prompting, clear>>

-----------------------------------------------------------------------------
(* The server.                                                              *)
\* One transaction: the run of the message is resolved, which is also the check that it is
\* there, and the one row of the user is written or amended; a vote taken back keeps no comment.
Upsert(vote) ==
  [verdict |-> vote.verdict, run |-> IF row = NoRow THEN Answer ELSE row.run,
   comment |-> IF vote.verdict = "none" THEN NoComment ELSE vote.comment]

\* Every other tab shows what was there before.
SpoiledFor(others) == [t \in Tabs |-> clear[t] /\ t \notin others]

PostFeedback(k) ==
  LET a == asks[k]
  IN  /\ a.kind = "post" /\ a.at = "asked"
      /\ asks' = [asks EXCEPT ![k].at = "answered", ![k].ok = visible]
      /\ row' = IF visible THEN Upsert(a.vote) ELSE row
      /\ clear' = SpoiledFor(Tabs \ {a.tab})
      /\ UNCHANGED <<visible, feedback, prompting>>

GetFeedback(k) ==
  /\ asks[k].kind = "get" /\ asks[k].at = "asked"
  /\ asks' = [asks EXCEPT ![k].at = "answered", ![k].ok = RecordedVote # NoVote, ![k].vote = RecordedVote]
  /\ UNCHANGED <<visible, row, feedback, prompting, clear>>

\* The request or its answer is lost, or the statement fails; what the server did stays done,
\* and the tab cannot know.
Lose(k) ==
  LET a == asks[k]
  IN  /\ a # Landed
      /\ a.at = "asked" \/ (a.at = "answered" /\ a.ok)
      /\ asks' = [asks EXCEPT ![k].at = "answered", ![k].ok = FALSE]
      /\ clear' = IF a.at = "answered" \/ a.kind = "get" THEN SpoiledFor({a.tab}) ELSE clear
      /\ UNCHANGED <<visible, row, feedback, prompting>>

\* The conversation goes with its messages, and they with their votes.
DeleteConversation ==
  /\ visible
  /\ visible' = FALSE /\ row' = NoRow
  /\ UNCHANGED <<feedback, prompting, asks, clear>>

VotesNext ==
  \/ \E t \in Tabs : ClickUp(t) \/ ClickDown(t) \/ SubmitDown(t) \/ CancelPrompt(t)
                     \/ OpenTab(t) \/ HydrateFeedback(t)
  \/ \E k \in DOMAIN asks : PostFeedback(k) \/ GetFeedback(k) \/ Lose(k) \/ Land(k)
  \/ DeleteConversation

VotesSpec == VotesInit /\ [][VotesNext]_voteVars

-----------------------------------------------------------------------------
\* A tab whose requests are over shows the vote that is recorded, with the comment that was
\* given with it: after any number of votes, taken back, refused and rolled back, in any tab
\* before it was opened; unless two requests of the tab overlapped, another page voted since it
\* was opened, or an answer of the server was lost.  A row never keeps the comment of a vote
\* that was taken back, and stays filed under the run of the answer.
SettledVoteIsRecorded ==
  /\ \A t \in Tabs : visible /\ clear[t] /\ Waiting(t) = {} => feedback[t] = RecordedVote
  /\ row # NoRow => row.run = Answer /\ (row.verdict = "none" => row.comment = NoComment)
=============================================================================
