------------------------------ MODULE ChatClient ------------------------------
(***************************************************************************)
(* The chat store of the frontend (frontend/src/state/chatStore.ts, with   *)
(* api/sse.ts and ChatScreen.tsx) over the pages the history store serves  *)
(* (get_messages and list_conversations of core/chat/history.py).          *)
(*                                                                         *)
(* Every request is asked, answered from what the server holds at that     *)
(* moment, and lands later; requests overlap and land in any order.        *)
(***************************************************************************)
EXTENDS TurnStream

CONSTANTS
  Convs,        \* ids of conversations
  Old,          \* per conversation the number of messages it has at the start (0: not created)
  MessageLimit, \* get_messages: page size
  ListLimit,    \* list_conversations: page size
  Scripts,      \* the frames a turn may have, with one terminal frame, the last
  MaxCalls, MaxSends   \* bounds

None == "none"

ASSUME ClientAssumption ==
  /\ IsFiniteSet(Convs) /\ None \notin Convs /\ Old \in [Convs -> Nat]
  /\ MessageLimit \in Nat \ {0} /\ ListLimit \in Nat \ {0}
  /\ \A s \in Scripts :
       s \in Seq(Frames) /\ s # << >> /\ \A i \in DOMAIN s : s[i].name \in Terminals <=> i = Len(s)

VARIABLES
  server,        \* per conversation its rows of messages, oldest first
  updated,       \* per conversation its updated_at
  conversations, listCursor, loadingMore,
  activeId, messages, cursor, loadingEarlier, opener,
  booting,       \* bootstrapInFlight
  calls,         \* the requests made, by number
  turns          \* the turns sent, by number; the composer allows one at a time

serverVars == <<server, updated>>
listVars   == <<conversations, listCursor, loadingMore, booting>>
threadVars == <<messages, cursor, loadingEarlier, opener>>
vars == <<serverVars, listVars, activeId, threadVars, calls, turns>>

\* The rows a turn makes and the messages the client makes up for it, by the number of the turn.
Id(of, c, n) == [of |-> of, conv |-> c, n |-> n]
NotKnown == Id("unknown", None, 0)
Message(id, parts, lastSeq) == [id |-> id, parts |-> parts, lastSeq |-> lastSeq]
Row(id, parts) == Message(id, parts, 0)
IsAssistant(id) == id.of \in {"opener", "old answer", "answer", "bubble"}

OldRows(c) == [i \in 1..Old[c] |->
  Row(Id(IF i = 1 THEN "opener" ELSE IF i % 2 = 0 THEN "old ask" ELSE "old answer", c, i), << >>)]

-----------------------------------------------------------------------------
(* Pages.  A cursor of messages is the position of the oldest row of the    *)
(* page before, one of conversations the updated_at of the last; 0 is null. *)
MessagePage(c, before) ==
  LET older == IF before = 0 THEN server[c] ELSE SubSeq(server[c], 1, before - 1)
      from == IF Len(older) > MessageLimit THEN Len(older) - MessageLimit + 1 ELSE 1
  IN  [items |-> SubSeq(older, from, Len(older)), next |-> IF from > 1 THEN from ELSE 0]

Created == {c \in Convs : server[c] # << >>}

LatestFirst(set) ==
  {all \in [1..Cardinality(set) -> set] :
     \A i, j \in DOMAIN all : i < j => updated[all[i]] > updated[all[j]]}

\* updated_at orders them in one way.
ConversationPages(before) ==
  {LET more == Len(all) > ListLimit
   IN  [items |-> IF more THEN SubSeq(all, 1, ListLimit) ELSE all,
        next  |-> IF more THEN updated[all[ListLimit]] ELSE 0] :
     all \in LatestFirst({c \in Created : before = 0 \/ updated[c] < before})}

Now == 1 + Max({updated[c] : c \in Convs})

-----------------------------------------------------------------------------
Call(op, c, before) == [op |-> op, conv |-> c, before |-> before, at |-> "asked", page |-> << >>,
                         overtaken |-> FALSE]   \* history: its thread was replaced meanwhile
NextCall == Len(calls) + 1
Ask(op, c, before) == NextCall <= MaxCalls /\ calls' = Append(calls, Call(op, c, before))
Over(k) == [calls EXCEPT ![k].at = "over", ![k].page = << >>]

NoTurn == [conv |-> None, at |-> "none", script |-> << >>, read |-> 0, stored |-> FALSE,
           reloaded |-> FALSE]
Live == {n \in DOMAIN turns : turns[n].at \notin {"over", "ended"}}

Init ==
  /\ server = [c \in Convs |-> OldRows(c)]
  /\ updated \in [Convs -> 0..Cardinality(Created)]
  /\ \A c, d \in Convs : updated[c] = updated[d] => c = d \/ updated[c] = 0
  /\ \A c \in Convs : updated[c] = 0 <=> Old[c] = 0
  /\ conversations = << >> /\ listCursor = 0 /\ loadingMore = FALSE
  /\ activeId = None /\ booting = FALSE
  /\ messages = [c \in Convs |-> << >>] /\ cursor = [c \in Convs |-> -1]   \* -1: undefined
  /\ loadingEarlier = [c \in Convs |-> FALSE] /\ opener = [c \in Convs |-> NotKnown]
  /\ calls = << >> /\ turns = << >>

\* bootstrap, once at a time.
Bootstrap ==
  /\ ~booting /\ activeId = None
  /\ Ask("list", None, 0) /\ booting' = TRUE
  /\ UNCHANGED <<serverVars, conversations, listCursor, loadingMore, activeId, threadVars, turns>>

NewConversation ==
  /\ Ask("create", None, 0)
  /\ UNCHANGED <<serverVars, listVars, activeId, threadVars, turns>>

OpenConversation(c) ==
  /\ c \in ToSet(conversations)
  /\ Ask("open", c, 0) /\ activeId' = c
  /\ UNCHANGED <<serverVars, listVars, threadVars, turns>>

\* Mutant: nothing stops a second load while the first is on its way.
LoadEarlierTwice(c) ==
  /\ c = activeId /\ cursor[c] > 0
  /\ Ask("earlier", c, cursor[c])
  /\ UNCHANGED <<serverVars, listVars, activeId, threadVars, turns>>

LoadEarlierMessages(c) ==
  /\ c = activeId /\ cursor[c] > 0 /\ ~loadingEarlier[c]
  /\ Ask("earlier", c, cursor[c]) /\ loadingEarlier' = [loadingEarlier EXCEPT ![c] = TRUE]
  /\ UNCHANGED <<serverVars, listVars, activeId, messages, cursor, opener, turns>>

LoadMoreConversations ==
  /\ listCursor # 0 /\ ~loadingMore
  /\ Ask("more", None, listCursor) /\ loadingMore' = TRUE
  /\ UNCHANGED <<serverVars, conversations, listCursor, activeId, booting, threadVars, turns>>

\* The server answers from what it holds; a create makes one of the ids not yet in use.
Serve(k) ==
  /\ calls[k].at = "asked"
  /\ IF calls[k].op \in {"create", "boot create"}
     THEN \E c \in Convs \ Created :
            /\ server' = [server EXCEPT ![c] = <<Row(Id("opener", c, 1), << >>)>>]
            /\ updated' = [updated EXCEPT ![c] = Now]
            /\ calls' = [calls EXCEPT ![k].at = "served", ![k].conv = c]
     ELSE /\ \E page \in IF calls[k].op \in {"list", "more"} THEN ConversationPages(calls[k].before)
                         ELSE {MessagePage(calls[k].conv, calls[k].before)} :
               calls' = [calls EXCEPT ![k].at = "served", ![k].page = page]
          /\ UNCHANGED serverVars
  /\ UNCHANGED <<listVars, activeId, threadVars, turns>>

-----------------------------------------------------------------------------
\* History: the thread of these turns, and of a page on its way, was replaced by a page.
Replaced(k, c) ==
  [j \in DOMAIN calls |-> IF calls[j].op = "earlier" /\ calls[j].at # "over" /\ calls[j].conv = c
                          THEN [calls[j] EXCEPT !.overtaken = TRUE] ELSE Over(k)[j]]
Reloaded(c) ==
  [n \in DOMAIN turns |-> IF turns[n].conv = c THEN [turns[n] EXCEPT !.reloaded = TRUE] ELSE turns[n]]

Landing(k, ops) == calls[k].at = "served" /\ calls[k].op \in ops

\* The first page of bootstrap: open its first conversation, or create one.
LandList(k) ==
  LET page == calls[k].page
      first == Head(page.items)
  IN  /\ Landing(k, {"list"})
      /\ IF page.items = << >>
         THEN /\ calls' = [calls EXCEPT ![k] = Call("boot create", None, 0)]
              /\ UNCHANGED <<conversations, listCursor, activeId>>
         ELSE /\ calls' = [calls EXCEPT ![k] = Call("boot open", first, 0)]
              /\ conversations' = page.items /\ listCursor' = page.next /\ activeId' = first
      /\ UNCHANGED <<serverVars, loadingMore, booting, threadVars, turns>>

LandCreate(k) ==
  LET c == calls[k].conv
      boot == calls[k].op = "boot create"
  IN  /\ Landing(k, {"create", "boot create"})
      /\ calls' = Replaced(k, c)
      /\ conversations' = IF boot THEN <<c>> ELSE <<c>> \o conversations
      /\ listCursor' = IF boot THEN 0 ELSE listCursor
      /\ booting' = (booting /\ ~boot)
      /\ activeId' = c
      /\ messages' = [messages EXCEPT ![c] = <<Head(server[c])>>] /\ cursor' = [cursor EXCEPT ![c] = 0]
      /\ opener' = [opener EXCEPT ![c] = server[c][1].id]
      /\ turns' = Reloaded(c)
      /\ UNCHANGED <<serverVars, loadingMore, loadingEarlier>>

\* Mutant: the first message of the first page is taken for the opener of the conversation.
OpenerOfAnyPage(c, page) == [opener EXCEPT ![c] = Head(page.items).id]

\* The opener is known with a page that reaches back to the start.
OpenerOf(c, page) ==
  IF page.next = 0 /\ page.items # << >> THEN [opener EXCEPT ![c] = Head(page.items).id] ELSE opener

\* openConversation: the page replaces what was there.
LandOpen(k) ==
  LET c == calls[k].conv
      page == calls[k].page
  IN  /\ Landing(k, {"open", "boot open"})
      /\ calls' = Replaced(k, c)
      /\ messages' = [messages EXCEPT ![c] = page.items]
      /\ cursor' = [cursor EXCEPT ![c] = page.next]
      /\ opener' = OpenerOf(c, page)
      /\ booting' = (booting /\ calls[k].op # "boot open")
      /\ turns' = Reloaded(c)
      /\ UNCHANGED <<serverVars, conversations, listCursor, loadingMore, activeId, loadingEarlier>>

LandEarlier(k) ==
  LET c == calls[k].conv
      page == calls[k].page
  IN  /\ Landing(k, {"earlier"})
      /\ calls' = Over(k)
      /\ messages' = [messages EXCEPT ![c] = page.items \o @]
      /\ cursor' = [cursor EXCEPT ![c] = page.next]
      /\ opener' = OpenerOf(c, page)
      /\ loadingEarlier' = [loadingEarlier EXCEPT ![c] = FALSE]
      /\ UNCHANGED <<serverVars, listVars, activeId, turns>>

LandMore(k) ==
  /\ Landing(k, {"more"})
  /\ calls' = Over(k)
  /\ conversations' = conversations \o calls[k].page.items
  /\ listCursor' = calls[k].page.next /\ loadingMore' = FALSE
  /\ UNCHANGED <<serverVars, activeId, booting, threadVars, turns>>

\* A request that fails: only the flags are put back.
Fail(k) ==
  LET op == calls[k].op
      c == calls[k].conv
  IN  /\ calls[k].at \in {"asked", "served"}
      /\ calls' = Over(k)
      /\ loadingMore' = (loadingMore /\ op # "more")
      /\ booting' = (booting /\ op \notin {"list", "boot create", "boot open"})
      /\ loadingEarlier' = IF op = "earlier" THEN [loadingEarlier EXCEPT ![c] = FALSE]
                           ELSE loadingEarlier
      /\ UNCHANGED <<serverVars, conversations, listCursor, activeId, messages, cursor, opener, turns>>

-----------------------------------------------------------------------------
Shown(c, message) == [messages EXCEPT ![c] = Append(@, message)]
Bubble(n) == Message(Id("bubble", turns[n].conv, n), << >>, 0)

\* send of ChatScreen and sendMessage up to its request.
SendMessage ==
  LET n == Len(turns) + 1
      c == activeId
  IN  /\ c # None /\ Live = {} /\ n <= MaxSends
      /\ \E script \in Scripts :
           turns' = Append(turns, [NoTurn EXCEPT !.conv = c, !.at = "posted", !.script = script])
      /\ messages' = Shown(c, Message(Id("local ask", c, n), << >>, 0))
      /\ UNCHANGED <<serverVars, listVars, activeId, cursor, loadingEarlier, opener, calls>>

\* The server takes the turn: the question is a row before the first frame is sent.
TakeTurn(n) ==
  LET c == turns[n].conv
  IN  /\ turns[n].at = "posted"
      /\ server' = [server EXCEPT ![c] = Append(@, Row(Id("ask", c, n), << >>))]
      /\ updated' = [updated EXCEPT ![c] = Now]
      /\ turns' = [turns EXCEPT ![n].at = "streaming"]
      /\ UNCHANGED <<listVars, activeId, threadVars, calls>>

\* The answer is a row before its terminal frame is sent, whether the client still reads or not.
StoreAnswer(n) ==
  LET c == turns[n].conv
  IN  /\ turns[n].at \in {"streaming", "cut", "ended", "over"}
      /\ ~turns[n].stored /\ turns[n].script # << >>
      /\ server' = [server EXCEPT ![c] = Append(@, Row(Id("answer", c, n), Recorded(turns[n].script)))]
      /\ updated' = [updated EXCEPT ![c] = Now]
      /\ turns' = [turns EXCEPT ![n].stored = TRUE]
      /\ UNCHANGED <<listVars, activeId, threadVars, calls>>

\* findIndex: where a list has a message, or 0.
Place(list, id) == SelectInSeq(list, LAMBDA m : m.id = id)

\* applyEventTo: find the message or add it, drop a frame already seen.
WithFrame(list, id, frame, seq) ==
  LET at == Place(list, id)
      known == IF at # 0 THEN list ELSE Append(list, Message(id, << >>, 0))
      i == IF at # 0 THEN at ELSE Len(known)
      m == known[i]
  IN  IF at # 0 /\ (frame.name = "accepted" \/ seq <= m.lastSeq) THEN list
      ELSE [known EXCEPT ![i] = Message(id, ApplyFrame(m.parts, frame, seq), seq)]

ReadFrame(n) ==
  LET t == turns[n]
      seq == t.read + 1
      id == Id("answer", t.conv, n)
  IN  /\ t.at = "streaming" /\ seq <= Len(t.script)
      /\ seq = Len(t.script) => t.stored
      /\ messages' = [messages EXCEPT ![t.conv] = WithFrame(@, id, t.script[seq], seq)]
      /\ turns' = [turns EXCEPT ![n].read = seq,
                                ![n].at = IF seq = Len(t.script) THEN "over" ELSE @]
      /\ UNCHANGED <<serverVars, listVars, activeId, cursor, loadingEarlier, opener, calls>>

\* The request is refused (404, 409, 429), or its connection breaks before or while it streams.
Refuse(n) ==
  /\ turns[n].at = "posted" \/ (turns[n].at = "streaming" /\ turns[n].read = 0)
  /\ turns' = [turns EXCEPT ![n].at = "over", ![n].script = IF turns[n].at = "posted" THEN << >> ELSE @]
  /\ messages' = Shown(turns[n].conv, Bubble(n))
  /\ UNCHANGED <<serverVars, listVars, activeId, cursor, loadingEarlier, opener, calls>>

\* Its connection breaks after its first frame: streamTurn throws.
Cut(n) ==
  /\ turns[n].at = "streaming" /\ turns[n].read > 0
  /\ turns' = [turns EXCEPT ![n].at = "cut"]
  /\ UNCHANGED <<serverVars, listVars, activeId, threadVars, calls>>

\* It ends before its terminal frame, in good order: streamTurn returns, and sendMessage neither
\* recovers the answer nor adds a bubble.
EndEarly(n) ==
  /\ turns[n].at = "streaming"
  /\ turns' = [turns EXCEPT ![n].at = "ended"]
  /\ UNCHANGED <<serverVars, listVars, activeId, threadVars, calls>>

\* GET /turns/{id}: the message of the turn, once it is a row.
GetTurn(n) ==
  LET t == turns[n]
  IN  IF t.stored THEN <<Message(Id("answer", t.conv, n), Recorded(t.script), 0)>> ELSE << >>

\* Mutant: an answer that is not there yet counts as reconciled.
ReconcileRegardless(n, ok) ==
  LET t == turns[n]
      recovered == Message(Id("answer", t.conv, n), Recorded(t.script), 0)
      at == Place(messages[t.conv], recovered.id)
  IN  /\ t.at = "cut"
      /\ turns' = [turns EXCEPT ![n].at = "over"]
      /\ messages' = CASE ~ok -> Shown(t.conv, Bubble(n))
                       [] ok /\ t.stored /\ at # 0 -> [messages EXCEPT ![t.conv][at] = recovered]
                       [] OTHER -> messages
      /\ UNCHANGED <<serverVars, listVars, activeId, cursor, loadingEarlier, opener, calls>>

\* On a drop: the stored answer in place of what was streamed, else an error bubble.
Reconcile(n, ok) ==
  LET t == turns[n]
      recovered == IF ok THEN GetTurn(n) ELSE << >>
      at == Place(messages[t.conv], Id("answer", t.conv, n))
  IN  /\ t.at = "cut"
      /\ turns' = [turns EXCEPT ![n].at = "over"]
      /\ messages' = CASE recovered = << >> -> Shown(t.conv, Bubble(n))
                       [] recovered # << >> /\ at # 0 ->
                            [messages EXCEPT ![t.conv][at] = recovered[1]]
                       [] OTHER -> Shown(t.conv, recovered[1])
      /\ UNCHANGED <<serverVars, listVars, activeId, cursor, loadingEarlier, opener, calls>>

Next ==
  \/ Bootstrap \/ NewConversation \/ LoadMoreConversations \/ SendMessage
  \/ \E c \in Convs : OpenConversation(c) \/ LoadEarlierMessages(c)
  \/ \E k \in DOMAIN calls : \/ Serve(k) \/ Fail(k) \/ LandList(k) \/ LandCreate(k) \/ LandOpen(k)
                             \/ LandEarlier(k) \/ LandMore(k)
  \/ \E n \in DOMAIN turns : \/ TakeTurn(n) \/ StoreAnswer(n) \/ ReadFrame(n) \/ Refuse(n) \/ Cut(n)
                             \/ EndEarly(n) \/ \E ok \in BOOLEAN : Reconcile(n, ok)

Spec == Init /\ [][Next]_vars

-----------------------------------------------------------------------------
Has(c, of, n) == \E i \in DOMAIN messages[c] : messages[c][i].id = Id(of, c, n)

Overtaken(c) == \E k \in DOMAIN calls : calls[k].overtaken /\ calls[k].conv = c

\* Whatever overlaps (a page asked for twice, a reload under a stream, an answer recovered after
\* its first frames), a thread shows no message twice, none of another conversation, and no
\* question both as it was typed and as it was stored; unless the thread was loaded anew while
\* an earlier page of it was on its way.
NoMessageTwice ==
  \A c \in Convs : Overtaken(c) \/
    LET ids == [i \in DOMAIN messages[c] |-> messages[c][i].id]
    IN  /\ \A i, j \in DOMAIN ids : i # j => ids[i] # ids[j]
        /\ \A i \in DOMAIN ids : ids[i].conv = c
        /\ \A n \in DOMAIN turns : ~(Has(c, "ask", n) /\ Has(c, "local ask", n))

\* isTurnBackedAssistantMessage with the cursor ChatScreen passes on.
Thumbs(c, id) ==
  IsAssistant(id) /\ IF opener[c] # NotKnown THEN id # opener[c] ELSE cursor[c] > 0

\* Feedback is offered on every answer of a loaded thread and never on the opener, which the
\* server would refuse, although pages come latest first and the opener's id is learned last.
ThumbsFollowTheOpener ==
  \A c \in Convs : \A i \in DOMAIN messages[c] :
    LET id == messages[c][i].id
    IN  IsAssistant(id) /\ cursor[c] # -1 => (Thumbs(c, id) <=> id.of # "opener")

\* The thread has the message these frames of the turn make.
Shows(n, frames) ==
  LET list == messages[turns[n].conv]
  IN  \E i \in DOMAIN list :
        list[i].id = Id("answer", turns[n].conv, n) /\ list[i].parts = Recorded(frames)

\* A turn that is over leaves its whole answer on the screen or says that it failed, wherever its
\* stream broke, unless its thread was loaded anew meanwhile.  One whose stream ended early in
\* good order says nothing: its thread keeps what the frames it had read make, no more, no less.
SettledShowsTheTurn ==
  \A n \in DOMAIN turns :
    LET t == turns[n]
    IN  ~t.reloaded =>
          /\ t.at = "over" => Shows(n, t.script) \/ Has(t.conv, "bubble", n)
          /\ t.at = "ended" => IF t.read = 0 THEN ~Has(t.conv, "answer", n)
                               ELSE Shows(n, SubSeq(t.script, 1, t.read))

\* What the Next.js tier makes of a stream, complete or broken anywhere, is a stream the UI can
\* read: text lies in an open run, a run is opened once and closed before anything else but an
\* error, nothing follows a finish but an error, and the last chunk is one of the two.
ChunksWellFormed ==
  \A n \in DOMAIN turns : \A interrupted \in BOOLEAN :
    LET t == turns[n]
        out == Relay(SubSeq(t.script, 1, t.read), interrupted)
        type(i) == out[i].type
        opens(i) == type(i) = "text-start"
    IN  /\ type(Len(out)) \in {"finish", "error"}
        /\ \A i \in DOMAIN out :
             /\ type(i) \in {"text-delta", "text-end"} =>
                  i > 1 /\ type(i - 1) \in {"text-start", "text-delta"} /\ out[i].id = out[i - 1].id
             /\ type(i) \in {"text-start", "text-delta"} =>
                  i < Len(out) /\ type(i + 1) \in {"text-delta", "text-end", "error"}
             /\ \A j \in DOMAIN out : opens(i) /\ opens(j) /\ i # j => out[i].id # out[j].id
             /\ type(i) = "finish" => \A j \in (i + 1)..Len(out) : type(j) = "error"
=============================================================================
