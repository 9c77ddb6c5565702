-------------------------- MODULE ChatClientProofs --------------------------
(***************************************************************************)
(* Proofs about the client of the chat and what stands beside it, for any  *)
(* conversations, page sizes, scripts, requests, keys, threads, tabs and   *)
(* comments: feedback is offered on the answers and not on the opener, a   *)
(* stream is relayed as chunks the UI can read, a turn that is over shows  *)
(* its answer or that it failed (ChatClient), the limiter keeps its rate   *)
(* (ChatRateLimiter), a settled vote is the recorded one (FeedbackVotes).  *)
(* The client's invariant says what a page is at whatever time it was cut, *)
(* what the client knows of the opener, and that no page still to come has *)
(* the answer of a turn its thread already shows.                          *)
(***************************************************************************)
EXTENDS ChatClient, ChatRateLimiter, FeedbackVotes, SequenceTheorems, FiniteSetTheorems, TLAPS

-----------------------------------------------------------------------------
(* Sequences of anything.                                                   *)

Elements(s) == {s[i] : i \in DOMAIN s}
IsSeq(s) == s \in Seq(Elements(s))

LEMMA SeqIs ==
  ASSUME NEW s, IsSeq(s)
  PROVE  Len(s) \in Nat /\ DOMAIN s = 1 .. Len(s)
BY LenProperties DEF IsSeq

LEMMA SeqHas ==
  ASSUME NEW S, NEW s \in Seq(S)
  PROVE  IsSeq(s)
<1>1. s \in [1 .. Len(s) -> S] /\ Len(s) \in Nat /\ DOMAIN s = 1 .. Len(s)
  BY LenProperties
<1>2. s \in [1 .. Len(s) -> Elements(s)]
  BY <1>1 DEF Elements
<1> QED
  BY <1>1, <1>2 DEF IsSeq

LEMMA WiderSeq ==
  ASSUME NEW s, IsSeq(s), NEW T, Elements(s) \subseteq T
  PROVE  s \in Seq(T)
BY SeqMonotonic DEF IsSeq

LEMMA EmptyIs == IsSeq(<< >>) /\ Len(<< >>) = 0
BY EmptySeq, SeqHas

LEMMA OneIs ==
  ASSUME NEW e
  PROVE  IsSeq(<<e>>) /\ Len(<<e>>) = 1 /\ <<e>>[1] = e
<1>1. <<e>> \in Seq({e})
  OBVIOUS
<1> QED
  BY <1>1, SeqHas

LEMMA AppendIs ==
  ASSUME NEW s, IsSeq(s), NEW e
  PROVE  /\ IsSeq(Append(s, e)) /\ Len(Append(s, e)) = Len(s) + 1
         /\ \A i \in 1 .. Len(s) : Append(s, e)[i] = s[i]
         /\ Append(s, e)[Len(s) + 1] = e
<1> DEFINE T == Elements(s) \union {e}
<1>1. s \in Seq(T) /\ e \in T
  BY WiderSeq
<1> HIDE DEF T
<1>2. /\ Append(s, e) \in Seq(T) /\ Len(Append(s, e)) = Len(s) + 1
      /\ \A i \in 1 .. Len(s) : Append(s, e)[i] = s[i]
      /\ Append(s, e)[Len(s) + 1] = e
  BY <1>1, AppendProperties
<1>3. IsSeq(Append(s, e))
  BY <1>2, SeqHas
<1> QED
  BY <1>2, <1>3

LEMMA ConcatIs ==
  ASSUME NEW s, NEW t, IsSeq(s), IsSeq(t)
  PROVE  /\ IsSeq(s \o t) /\ Len(s \o t) = Len(s) + Len(t)
         /\ \A i \in 1 .. Len(s) + Len(t) :
              (s \o t)[i] = IF i <= Len(s) THEN s[i] ELSE t[i - Len(s)]
<1> DEFINE T == Elements(s) \union Elements(t)
<1>1. s \in Seq(T) /\ t \in Seq(T)
  BY WiderSeq
<1> HIDE DEF T
<1> QED
  BY <1>1, ConcatProperties, SeqHas

LEMMA SubSeqIs ==
  ASSUME NEW s, IsSeq(s), NEW m \in Nat \ {0}, NEW n \in Nat, n <= Len(s)
  PROVE  /\ IsSeq(SubSeq(s, m, n))
         /\ Len(SubSeq(s, m, n)) = IF m <= n THEN n - m + 1 ELSE 0
         /\ \A i \in 1 .. n - m + 1 : SubSeq(s, m, n)[i] = s[m + i - 1]
<1>1. Len(s) \in Nat /\ DOMAIN s = 1 .. Len(s)
  BY SeqIs
<1>2. \A i \in m .. n : s[i] \in Elements(s)
  BY <1>1 DEF Elements
<1>3. /\ SubSeq(s, m, n) \in Seq(Elements(s))
      /\ Len(SubSeq(s, m, n)) = IF m <= n THEN n - m + 1 ELSE 0
      /\ \A i \in 1 .. n - m + 1 : SubSeq(s, m, n)[i] = s[m + i - 1]
  BY <1>2, SubSeqProperties
<1> QED
  BY <1>3, SeqHas

\* A function on 1 .. n is a sequence.
LEMMA FunctionIs ==
  ASSUME NEW n \in Nat, NEW s, s = [i \in 1 .. n |-> s[i]]
  PROVE  IsSeq(s) /\ Len(s) = n
<1>1. DOMAIN s = 1 .. n
  OBVIOUS
<1>2. s \in [1 .. n -> Elements(s)]
  BY <1>1 DEF Elements
<1>3. s \in Seq(Elements(s)) /\ Len(s) = n
  BY <1>2
<1> QED
  BY <1>3 DEF IsSeq

LEMMA ExceptIs ==
  ASSUME NEW s, IsSeq(s), NEW i, NEW e
  PROVE  /\ IsSeq([s EXCEPT ![i] = e]) /\ Len([s EXCEPT ![i] = e]) = Len(s)
         /\ \A j \in 1 .. Len(s) : [s EXCEPT ![i] = e][j] = IF j = i THEN e ELSE s[j]
<1> DEFINE r == [s EXCEPT ![i] = e]
<1>1. Len(s) \in Nat /\ DOMAIN s = 1 .. Len(s)
  BY SeqIs
<1>2. r = [j \in 1 .. Len(s) |-> IF j = i THEN e ELSE s[j]]
  BY <1>1
<1> HIDE DEF r
<1>3. r = [j \in 1 .. Len(s) |-> r[j]]
  BY <1>2
<1>4. IsSeq(r) /\ Len(r) = Len(s)
  BY <1>1, <1>3, FunctionIs
<1>5. \A j \in 1 .. Len(s) : r[j] = IF j = i THEN e ELSE s[j]
  BY <1>2
<1> QED
  BY <1>4, <1>5, Zenon DEF r

-----------------------------------------------------------------------------
(* The invariant.                                                           *)

OpenerId(c) == Id("opener", c, 1)
CallFields == {"op", "conv", "before", "at", "page", "overtaken"}
TurnFields == {"conv", "at", "script", "read", "stored", "reloaded"}

\* The first row of a conversation is its opener, and no other is.
RowsOf(c) ==
  /\ IsSeq(server[c])
  /\ \A i \in 1 .. Len(server[c]) :
       /\ server[c][i].id.of = "opener" <=> i = 1
       /\ i = 1 => server[c][i].id = OpenerId(c)

\* A page of rows was not empty when it was cut, and has the opener if nothing is before it.
PageOf(c, page) ==
  /\ IsSeq(page.items) /\ Len(page.items) > 0
  /\ page.next \in Nat /\ page.next # 1 /\ page.next <= Len(server[c])
  /\ page.next = 0 => page.items[1].id = OpenerId(c)
  /\ \A i \in 1 .. Len(page.items) :
       page.items[i].id.of = "opener" => page.next = 0 /\ page.items[i].id = OpenerId(c)

Listed(list) == IsSeq(list) /\ \A i \in 1 .. Len(list) : list[i] \in Created

Requested(r) ==
  /\ DOMAIN r = CallFields
  /\ r.op \in {"open", "boot open"} => r.conv \in Created /\ r.before = 0
  /\ r.op = "earlier" =>
       r.conv \in Created /\ r.before \in Nat /\ r.before > 1 /\ r.before <= Len(server[r.conv])
  /\ r.op \in {"create", "boot create"} /\ r.at = "served" => r.conv \in Created
  /\ r.op \in {"open", "boot open", "earlier"} /\ r.at = "served" => PageOf(r.conv, r.page)
  /\ r.op \in {"list", "more"} /\ r.at = "served" => Listed(r.page.items)

\* The client knows the opener once it has loaded it, and a thread that is loaded to its start
\* or shows the opener is one whose opener it knows.
ThreadOf(c) ==
  /\ opener[c] \in {NotKnown, OpenerId(c)}
  /\ cursor[c] \in Int /\ cursor[c] >= -1 /\ cursor[c] # 1 /\ cursor[c] <= Len(server[c])
  /\ cursor[c] = 0 => opener[c] # NotKnown
  /\ IsSeq(messages[c])
  /\ \A i \in 1 .. Len(messages[c]) :
       messages[c][i].id.of = "opener" => messages[c][i].id = OpenerId(c) /\ opener[c] # NotKnown

Functions ==
  /\ DOMAIN server = Convs /\ DOMAIN messages = Convs /\ DOMAIN cursor = Convs
  /\ DOMAIN opener = Convs

Rows     == \A c \in Convs : RowsOf(c)
Known    == \A c \in Convs : ThreadOf(c)
Requests == IsSeq(calls) /\ \A k \in 1 .. Len(calls) : Requested(calls[k])
Opened   ==
  /\ Listed(conversations) /\ activeId \in Created \union {None}
  /\ IsSeq(turns)
  /\ \A n \in 1 .. Len(turns) : DOMAIN turns[n] = TurnFields /\ turns[n].conv \in Created

ClientInv == Functions /\ Rows /\ Known /\ Requests /\ Opened

\* The property is what the invariant says of a thread.
LEMMA ThumbsFollow == ClientInv => ThumbsFollowTheOpener
<1> SUFFICES ASSUME ClientInv, NEW c \in Convs, NEW i \in DOMAIN messages[c],
                    IsAssistant(messages[c][i].id), cursor[c] # -1
             PROVE  Thumbs(c, messages[c][i].id) <=> messages[c][i].id.of # "opener"
  BY DEF ThumbsFollowTheOpener
<1>1. ThreadOf(c) /\ i \in 1 .. Len(messages[c])
  BY SeqIs DEF ClientInv, Known, ThreadOf
<1>2. OpenerId(c).of = "opener" /\ NotKnown.of # "opener"
  BY DEF OpenerId, Id, NotKnown
<1>3. CASE opener[c] # NotKnown
  BY <1>1, <1>2, <1>3 DEF ThreadOf, Thumbs
<1>4. CASE opener[c] = NotKnown
  BY <1>1, <1>4 DEF ThreadOf, Thumbs
<1> QED
  BY <1>3, <1>4

-----------------------------------------------------------------------------
(* What stays true of a page, a request and a thread while rows are added.  *)

Grown == \A c \in Convs : Len(server[c]) \in Nat /\ Len(server'[c]) \in Nat
                          /\ Len(server[c]) <= Len(server'[c])
                          /\ (server[c] # << >> => server'[c] # << >>)

LEMMA NothingAdded == ASSUME ClientInv, server' = server PROVE Grown
BY SeqIs DEF ClientInv, Rows, RowsOf, Grown

LEMMA CreatedStays == ASSUME Grown, NEW c \in Created PROVE c \in Created'
BY DEF Grown, Created

LEMMA ListedStays == ASSUME Grown, NEW list, Listed(list) PROVE Listed(list)'
BY CreatedStays DEF Listed

LEMMA RequestedStays ==
  ASSUME Grown, NEW r, Requested(r)
  PROVE  Requested(r)'
<1>1. \A c \in Created : c \in Created' /\ Len(server[c]) \in Nat /\ Len(server'[c]) \in Nat
                         /\ Len(server[c]) <= Len(server'[c])
  BY CreatedStays DEF Grown, Created
<1>2. ASSUME r.op \in {"open", "boot open", "earlier"}, r.at = "served"
      PROVE  PageOf(r.conv, r.page)'
  <2>1. r.conv \in Created /\ PageOf(r.conv, r.page)
    BY <1>2 DEF Requested
  <2> QED
    BY <1>1, <2>1 DEF PageOf
<1>3. ASSUME r.op \in {"list", "more"}, r.at = "served" PROVE Listed(r.page.items)'
  BY <1>3, ListedStays DEF Requested
<1>4. r.op \in {"open", "boot open"} => r.conv \in Created' /\ r.before = 0
  BY <1>1 DEF Requested
<1>5. r.op = "earlier" => /\ r.conv \in Created' /\ r.before \in Nat /\ r.before > 1
                          /\ r.before <= Len(server'[r.conv])
  BY <1>1 DEF Requested
<1>6. r.op \in {"create", "boot create"} /\ r.at = "served" => r.conv \in Created'
  BY <1>1 DEF Requested
<1>7. DOMAIN r = CallFields
  BY DEF Requested
<1> QED
  BY <1>2, <1>3, <1>4, <1>5, <1>6, <1>7, Zenon DEF Requested

LEMMA ThreadStays ==
  ASSUME Grown, NEW c \in Convs, ThreadOf(c),
         messages'[c] = messages[c], cursor'[c] = cursor[c], opener'[c] = opener[c]
  PROVE  ThreadOf(c)'
BY DEF Grown, ThreadOf

-----------------------------------------------------------------------------
(* What becomes of the requests.                                            *)

Closed(r) == [r EXCEPT !.at = "over", !.page = << >>]
Passed(r) == [r EXCEPT !.overtaken = TRUE]

LEMMA ClosedIs == ASSUME NEW r, Requested(r) PROVE Requested(Closed(r)) /\ Requested(Passed(r))
<1>1. /\ DOMAIN Closed(r) = CallFields /\ DOMAIN Passed(r) = CallFields
      /\ Closed(r).op = r.op /\ Closed(r).at = "over"
      /\ Closed(r).conv = r.conv /\ Closed(r).before = r.before
      /\ Passed(r).op = r.op /\ Passed(r).at = r.at /\ Passed(r).conv = r.conv
      /\ Passed(r).before = r.before /\ Passed(r).page = r.page
  BY DEF Closed, Passed, Requested, CallFields
<1> QED
  BY <1>1 DEF Requested

LEMMA OverIs ==
  ASSUME Requests, NEW k \in 1 .. Len(calls)
  PROVE  /\ Over(k) = [calls EXCEPT ![k] = Closed(calls[k])]
         /\ IsSeq(Over(k)) /\ Len(Over(k)) = Len(calls)
         /\ \A j \in 1 .. Len(calls) : Requested(Over(k)[j])
<1>1. DOMAIN calls = 1 .. Len(calls)
  BY SeqIs DEF Requests
<1>2. Over(k) = [calls EXCEPT ![k] = Closed(calls[k])]
  BY <1>1 DEF Over, Closed
<1>3. \A j \in 1 .. Len(calls) : Requested(calls[j]) /\ Requested(Closed(calls[j]))
  BY ClosedIs DEF Requests
<1>4. /\ IsSeq(Over(k)) /\ Len(Over(k)) = Len(calls)
      /\ \A j \in 1 .. Len(calls) : Over(k)[j] = IF j = k THEN Closed(calls[k]) ELSE calls[j]
  <2>1. Over(k) = [j \in 1 .. Len(calls) |-> IF j = k THEN Closed(calls[k]) ELSE calls[j]]
    BY <1>1, <1>2
  <2>2. Over(k) = [j \in 1 .. Len(calls) |-> Over(k)[j]]
    BY <2>1, Zenon
  <2>3. IsSeq(Over(k)) /\ Len(Over(k)) = Len(calls)
    BY <1>1, <2>2, SeqIs, FunctionIs DEF Requests
  <2> QED
    BY <2>1, <2>3, Zenon
<1> QED
  BY <1>2, <1>3, <1>4

LEMMA ReplacedIs ==
  ASSUME Requests, NEW k \in 1 .. Len(calls), NEW c
  PROVE  /\ IsSeq(Replaced(k, c)) /\ Len(Replaced(k, c)) = Len(calls)
         /\ \A j \in 1 .. Len(calls) : Requested(Replaced(k, c)[j])
<1>1. DOMAIN calls = 1 .. Len(calls) /\ Len(calls) \in Nat
  BY SeqIs DEF Requests
<1>2. Replaced(k, c) = [j \in 1 .. Len(calls) |->
         IF calls[j].op = "earlier" /\ calls[j].at # "over" /\ calls[j].conv = c
         THEN Passed(calls[j]) ELSE Over(k)[j]]
  BY <1>1 DEF Replaced, Passed
<1>3. IsSeq(Replaced(k, c)) /\ Len(Replaced(k, c)) = Len(calls)
  BY <1>1, <1>2, FunctionIs
<1>4. \A j \in 1 .. Len(calls) : Requested(Passed(calls[j])) /\ Requested(Over(k)[j])
  BY ClosedIs, OverIs DEF Requests
<1> QED
  BY <1>2, <1>3, <1>4

\* Requests that were sound stay so while rows are added.
LEMMA SoundStay ==
  ASSUME Grown, IsSeq(calls'), \A j \in 1 .. Len(calls') : Requested(calls'[j])
  PROVE  Requests'
BY RequestedStays DEF Requests

LEMMA AskKeeps ==
  ASSUME Requests, Grown, NEW op, NEW c, NEW before, Ask(op, c, before),
         Requested(Call(op, c, before))
  PROVE  Requests'
<1>1. calls' = Append(calls, Call(op, c, before))
  BY DEF Ask
<1>2. /\ IsSeq(calls') /\ Len(calls') = Len(calls) + 1 /\ Len(calls) \in Nat
      /\ \A i \in 1 .. Len(calls) : calls'[i] = calls[i]
      /\ calls'[Len(calls) + 1] = Call(op, c, before)
  BY <1>1, AppendIs, SeqIs DEF Requests
<1>3. \A j \in 1 .. Len(calls') : Requested(calls'[j])
  <2>1. TAKE j \in 1 .. Len(calls')
  <2>2. j \in 1 .. Len(calls) \/ j = Len(calls) + 1
    BY <1>2
  <2> QED
    BY <1>2, <2>2 DEF Requests
<1> QED
  BY <1>2, <1>3, SoundStay

\* A new request asks about a conversation that is there; one that has no answer yet shows none.
LEMMA AskedIs ==
  ASSUME NEW op \in {"list", "more", "create", "boot create", "open", "boot open", "earlier"},
         NEW c, NEW before,
         op \in {"open", "boot open"} => c \in Created /\ before = 0,
         op = "earlier" =>
           c \in Created /\ before \in Nat /\ before > 1 /\ before <= Len(server[c])
  PROVE  Requested(Call(op, c, before))
BY DEF Requested, Call, CallFields

-----------------------------------------------------------------------------
(* What the server answers.                                                 *)

\* A page is a run of the rows, which ends at the last or before the place it was asked for.
RunOf(c, page, from, last) ==
  /\ from \in Nat \ {0} /\ last \in Nat /\ from <= last /\ last <= Len(server[c])
  /\ page.next = IF from > 1 THEN from ELSE 0
  /\ IsSeq(page.items) /\ Len(page.items) = last - from + 1
  /\ \A i \in 1 .. last - from + 1 :
       from + i - 1 \in 1 .. last /\ page.items[i] = server[c][from + i - 1]

LEMMA PageIsRun ==
  ASSUME NEW c \in Convs, RowsOf(c), server[c] # << >>, NEW before \in Nat,
         before = 0 \/ (before > 1 /\ before <= Len(server[c]))
  PROVE  \E from, last : /\ RunOf(c, MessagePage(c, before), from, last)
                         /\ before # 0 => last = before - 1
<1> DEFINE older == IF before = 0 THEN server[c] ELSE SubSeq(server[c], 1, before - 1)
           from == IF Len(older) > MessageLimit THEN Len(older) - MessageLimit + 1 ELSE 1
           page == MessagePage(c, before)
<1>1. IsSeq(server[c]) /\ Len(server[c]) \in Nat /\ Len(server[c]) > 0
  <2>1. IsSeq(server[c]) /\ Len(server[c]) \in Nat /\ server[c] \in Seq(Elements(server[c]))
    BY SeqIs DEF RowsOf, IsSeq
  <2> QED
    BY <2>1, EmptySeq
<1>2. /\ IsSeq(older) /\ Len(older) \in Nat /\ Len(older) > 0 /\ Len(older) <= Len(server[c])
      /\ before # 0 => Len(older) = before - 1
      /\ \A i \in 1 .. Len(older) : older[i] = server[c][i]
  <2>1. CASE before = 0
    BY <2>1, <1>1
  <2>2. CASE before # 0
    <3>1. before - 1 \in Nat /\ before - 1 >= 1 /\ before - 1 <= Len(server[c])
      BY <2>2, <1>1
    <3>2. /\ IsSeq(SubSeq(server[c], 1, before - 1))
          /\ Len(SubSeq(server[c], 1, before - 1)) = before - 1
          /\ \A i \in 1 .. before - 1 : SubSeq(server[c], 1, before - 1)[i] = server[c][i]
      <4> DEFINE n == before - 1
      <4>1. n \in Nat /\ n >= 1 /\ n <= Len(server[c]) /\ IsSeq(server[c]) /\ 1 \in Nat \ {0}
        BY <3>1, <1>1
      <4> HIDE DEF n
      <4>2. /\ IsSeq(SubSeq(server[c], 1, n))
            /\ Len(SubSeq(server[c], 1, n)) = IF 1 <= n THEN n - 1 + 1 ELSE 0
            /\ \A i \in 1 .. n - 1 + 1 : SubSeq(server[c], 1, n)[i] = server[c][1 + i - 1]
        BY <4>1, SubSeqIs
      <4>3. \A i \in 1 .. n : i \in 1 .. n - 1 + 1 /\ 1 + i - 1 = i
        BY <4>1
      <4>4. Len(SubSeq(server[c], 1, n)) = n
        BY <4>1, <4>2
      <4> QED
        BY <4>2, <4>3, <4>4 DEF n
    <3> QED
      BY <2>2, <3>1, <3>2
  <2> QED
    BY <2>1, <2>2
<1>3. page.items = SubSeq(older, from, Len(older)) /\ page.next = IF from > 1 THEN from ELSE 0
  BY DEF MessagePage
<1> HIDE DEF page, older
<1>4. from \in Nat \ {0} /\ from <= Len(older)
  BY <1>2, ClientAssumption DEF ClientAssumption
<1> HIDE DEF from
<1>5. /\ IsSeq(page.items) /\ Len(page.items) = Len(older) - from + 1
      /\ \A i \in 1 .. Len(older) - from + 1 : page.items[i] = older[from + i - 1]
  <2>1. /\ IsSeq(SubSeq(older, from, Len(older)))
        /\ Len(SubSeq(older, from, Len(older))) = IF from <= Len(older) THEN Len(older) - from + 1 ELSE 0
        /\ \A i \in 1 .. Len(older) - from + 1 :
             SubSeq(older, from, Len(older))[i] = older[from + i - 1]
    BY <1>2, <1>4, SubSeqIs
  <2> QED
    BY <1>3, <1>4, <2>1
<1>6. \A i \in 1 .. Len(older) - from + 1 :
        from + i - 1 \in 1 .. Len(older) /\ page.items[i] = server[c][from + i - 1]
  <2>1. TAKE i \in 1 .. Len(older) - from + 1
  <2>2. from + i - 1 \in 1 .. Len(older)
    BY <1>2, <1>4
  <2> QED
    BY <1>2, <1>5, <2>2
<1>7. RunOf(c, page, from, Len(older))
  BY <1>2, <1>3, <1>4, <1>5, <1>6 DEF RunOf
<1> QED
  BY <1>2, <1>7 DEF page

LEMMA MessagePageIs ==
  ASSUME NEW c \in Convs, RowsOf(c), server[c] # << >>, NEW before \in Nat,
         before = 0 \/ (before > 1 /\ before <= Len(server[c]))
  PROVE  PageOf(c, MessagePage(c, before))
<1>1. PICK page : page = MessagePage(c, before)
  OBVIOUS
<1>2. PICK from, last : RunOf(c, page, from, last)
  BY <1>1, PageIsRun
<1>3. /\ Len(server[c]) \in Nat /\ page.next \in Nat /\ page.next # 1 /\ page.next <= Len(server[c])
      /\ page.next = 0 <=> from = 1
  BY <1>2, SeqIs DEF RowsOf, RunOf
<1>4. IsSeq(page.items) /\ Len(page.items) > 0 /\ Len(page.items) = last - from + 1
  BY <1>2 DEF RunOf
<1>5. ASSUME NEW i \in 1 .. Len(page.items)
      PROVE  /\ from + i - 1 \in 1 .. Len(server[c]) /\ page.items[i] = server[c][from + i - 1]
             /\ from + i - 1 = 1 <=> from = 1 /\ i = 1
  BY <1>2, <1>3, <1>4 DEF RunOf
<1>6. ASSUME page.next = 0 PROVE page.items[1].id = OpenerId(c)
  <2>1. 1 \in 1 .. Len(page.items)
    BY <1>2, <1>4 DEF RunOf
  <2> QED
    BY <1>3, <1>5, <1>6, <2>1 DEF RowsOf
<1>7. ASSUME NEW i \in 1 .. Len(page.items), page.items[i].id.of = "opener"
      PROVE  page.next = 0 /\ page.items[i].id = OpenerId(c)
  <2>1. from + i - 1 = 1 /\ server[c][1].id = OpenerId(c)
    BY <1>5, <1>7 DEF RowsOf
  <2> QED
    BY <1>3, <1>5, <2>1
<1> QED
  BY <1>1, <1>3, <1>4, <1>6, <1>7 DEF PageOf

LEMMA ConversationPagesAre ==
  ASSUME NEW before, NEW page \in ConversationPages(before)
  PROVE  Listed(page.items)
<1> DEFINE older == {c \in Created : before = 0 \/ updated[c] < before}
<1>1. older \subseteq Created /\ Cardinality(older) \in Nat
  <2>1. older \subseteq Convs /\ older \subseteq Created
    BY DEF Created
  <2>2. IsFiniteSet(older)
    BY <2>1, ClientAssumption, FS_Subset DEF ClientAssumption
  <2> QED
    BY <2>1, <2>2, FS_CardinalityType
<1>2. PICK all \in LatestFirst(older) :
        page.items = IF Len(all) > ListLimit THEN SubSeq(all, 1, ListLimit) ELSE all
  <2>1. PICK all \in LatestFirst({c \in Created : before = 0 \/ updated[c] < before}) :
          page = [items |-> IF Len(all) > ListLimit THEN SubSeq(all, 1, ListLimit) ELSE all,
                  next  |-> IF Len(all) > ListLimit THEN updated[all[ListLimit]] ELSE 0]
    BY Zenon DEF ConversationPages
  <2>2. page.items = IF Len(all) > ListLimit THEN SubSeq(all, 1, ListLimit) ELSE all
    BY <2>1, Zenon
  <2> QED
    BY <2>2, Zenon
<1> HIDE DEF older
<1>3. all \in [1 .. Cardinality(older) -> older]
  BY <1>2 DEF LatestFirst
<1>4. all \in Seq(older)
  BY <1>1, <1>3
<1>5. IsSeq(all) /\ Len(all) \in Nat /\ \A i \in 1 .. Len(all) : all[i] \in Created
  BY <1>1, <1>4, SeqHas, ElementOfSeq, LenProperties
<1>6. CASE Len(all) > ListLimit
  <2>1. ListLimit \in Nat \ {0} /\ ListLimit <= Len(all) /\ 1 \in Nat \ {0} /\ ListLimit \in Nat
    BY <1>5, <1>6, ClientAssumption DEF ClientAssumption
  <2>2. /\ IsSeq(SubSeq(all, 1, ListLimit))
        /\ Len(SubSeq(all, 1, ListLimit)) = IF 1 <= ListLimit THEN ListLimit - 1 + 1 ELSE 0
        /\ \A i \in 1 .. ListLimit - 1 + 1 : SubSeq(all, 1, ListLimit)[i] = all[1 + i - 1]
    BY <1>5, <2>1, SubSeqIs
  <2>3. Len(SubSeq(all, 1, ListLimit)) = ListLimit
    BY <2>1, <2>2
  <2>4. \A i \in 1 .. ListLimit : i \in 1 .. ListLimit - 1 + 1 /\ 1 + i - 1 = i /\ i \in 1 .. Len(all)
    BY <1>5, <2>1
  <2> QED
    BY <1>2, <1>5, <1>6, <2>2, <2>3, <2>4 DEF Listed
<1>7. CASE ~(Len(all) > ListLimit)
  BY <1>2, <1>5, <1>7 DEF Listed
<1> QED
  BY <1>6, <1>7

-----------------------------------------------------------------------------
(* The steps of the thread.                                                 *)

LEMMA ClientInvInit == Init => ClientInv
<1> SUFFICES ASSUME Init PROVE ClientInv
  OBVIOUS
<1>1. ASSUME NEW c \in Convs PROVE RowsOf(c)
  <2> DEFINE n == Old[c]
  <2>1. n \in Nat
    BY ClientAssumption DEF ClientAssumption
  <2>2. server[c] = OldRows(c)
    BY DEF Init
  <2>3. server[c] = [i \in 1 .. n |->
          Row(Id(IF i = 1 THEN "opener" ELSE IF i % 2 = 0 THEN "old ask" ELSE "old answer", c, i), << >>)]
    BY <2>2 DEF OldRows
  <2>4. DOMAIN server[c] = 1 .. n
    BY <2>3
  <2>5. server[c] = [i \in 1 .. n |-> server[c][i]]
    BY <2>3
  <2>6. IsSeq(server[c]) /\ Len(server[c]) = n
    BY <2>1, <2>5, FunctionIs
  <2>7. ASSUME NEW i \in 1 .. n
        PROVE  server[c][i].id = Id(IF i = 1 THEN "opener"
                                    ELSE IF i % 2 = 0 THEN "old ask" ELSE "old answer", c, i)
    <3> DEFINE of == IF i = 1 THEN "opener" ELSE IF i % 2 = 0 THEN "old ask" ELSE "old answer"
    <3>1. server[c][i] = Row(Id(of, c, i), << >>)
      BY <2>3
    <3> HIDE DEF of
    <3>2. server[c][i].id = Id(of, c, i)
      BY <3>1 DEF Row, Message
    <3> QED
      BY <3>2 DEF of
  <2> HIDE DEF n
  <2>8. ASSUME NEW i \in 1 .. n
        PROVE  /\ server[c][i].id.of = "opener" <=> i = 1
               /\ i = 1 => server[c][i].id = OpenerId(c)
    <3>1. CASE i = 1
      <4>1. server[c][i].id = Id("opener", c, 1)
        BY <2>7, <3>1
      <4>2. Id("opener", c, 1).of = "opener"
        BY DEF Id
      <4> QED
        BY <3>1, <4>1, <4>2 DEF OpenerId
    <3>2. CASE i # 1
      <4>1. server[c][i].id = Id("old ask", c, i) \/ server[c][i].id = Id("old answer", c, i)
        <5>1. CASE i % 2 = 0
          BY <2>7, <3>2, <5>1
        <5>2. CASE i % 2 # 0
          BY <2>7, <3>2, <5>2
        <5> QED
          BY <5>1, <5>2
      <4>2. Id("old ask", c, i).of = "old ask" /\ Id("old answer", c, i).of = "old answer"
        BY DEF Id
      <4> QED
        BY <3>2, <4>1, <4>2
    <3> QED
      BY <3>1, <3>2
  <2> QED
    BY <2>6, <2>8 DEF RowsOf
<1>2. ASSUME NEW c \in Convs PROVE ThreadOf(c)
  <2>1. messages[c] = << >> /\ cursor[c] = -1 /\ opener[c] = NotKnown
    BY DEF Init
  <2>2. Len(server[c]) \in Nat
    BY <1>1, SeqIs DEF RowsOf
  <2> QED
    BY <2>1, <2>2, EmptyIs DEF ThreadOf
<1>3. Functions
  BY DEF Init, Functions
<1>4. Requests /\ Opened
  BY EmptyIs DEF Init, Requests, Opened, Listed
<1> QED
  BY <1>1, <1>2, <1>3, <1>4 DEF ClientInv, Rows, Known

\* A step that adds no row, and leaves the threads alone.
LEMMA ThreadsStay ==
  ASSUME ClientInv, UNCHANGED <<server, messages, cursor, opener>>
  PROVE  Functions' /\ Rows' /\ Known'
<1>1. Functions'
  BY DEF ClientInv, Functions
<1>2. Rows'
  BY DEF ClientInv, Rows, RowsOf
<1>3. Known'
  BY NothingAdded, ThreadStays DEF ClientInv, Known
<1> QED
  BY <1>1, <1>2, <1>3

\* The lists of conversations and turns stay while rows are added.
LEMMA OpenedStays ==
  ASSUME ClientInv, Grown,
         IsSeq(conversations'), \A i \in 1 .. Len(conversations') : conversations'[i] \in Created',
         activeId' = activeId \/ activeId' \in Created', UNCHANGED turns
  PROVE  Opened'
<1>1. IsSeq(turns) /\ \A n \in 1 .. Len(turns) : DOMAIN turns[n] = TurnFields
                                                  /\ turns[n].conv \in Created'
  BY CreatedStays DEF ClientInv, Opened
<1>2. activeId' \in Created' \union {None}
  BY CreatedStays DEF ClientInv, Opened
<1> QED
  BY <1>1, <1>2 DEF Opened, Listed

LEMMA AskSteps ==
  ASSUME ClientInv,
         \/ Bootstrap \/ NewConversation \/ LoadMoreConversations
         \/ \E c \in Convs : OpenConversation(c) \/ LoadEarlierMessages(c)
  PROVE  ClientInv'
<1>1. UNCHANGED <<server, messages, cursor, opener, conversations, turns>>
  BY DEF Bootstrap, NewConversation, LoadMoreConversations, OpenConversation, LoadEarlierMessages,
         serverVars, listVars, threadVars
<1>2. Grown /\ Functions' /\ Rows' /\ Known'
  BY <1>1, NothingAdded, ThreadsStay
<1>3. /\ IsSeq(conversations')
      /\ \A i \in 1 .. Len(conversations') : conversations'[i] \in Created'
  BY <1>1, <1>2, CreatedStays DEF ClientInv, Opened, Listed
<1>4. CASE Bootstrap \/ NewConversation \/ LoadMoreConversations
  <2>1. activeId' = activeId
    BY <1>4 DEF Bootstrap, NewConversation, LoadMoreConversations
  <2>2. Opened'
    BY <1>1, <1>2, <1>3, <2>1, OpenedStays
  <2>3. PICK op, before : op \in {"list", "create", "more"} /\ Ask(op, None, before)
    BY <1>4 DEF Bootstrap, NewConversation, LoadMoreConversations
  <2>4. Requested(Call(op, None, before))
    BY <2>3, AskedIs
  <2>5. Requests'
    BY <1>2, <2>3, <2>4, AskKeeps DEF ClientInv
  <2> QED
    BY <1>2, <2>2, <2>5 DEF ClientInv
<1>5. ASSUME NEW c \in Convs, OpenConversation(c) PROVE ClientInv'
  <2>1. c \in Created
    <3>1. c \in {conversations[i] : i \in DOMAIN conversations}
      BY <1>5 DEF OpenConversation, ToSet
    <3> QED
      BY <3>1, SeqIs DEF ClientInv, Opened, Listed
  <2>2. activeId' = c /\ c \in Created'
    BY <1>2, <1>5, <2>1, CreatedStays DEF OpenConversation
  <2>3. Opened'
    BY <1>1, <1>2, <1>3, <2>2, OpenedStays
  <2>4. Ask("open", c, 0) /\ Requested(Call("open", c, 0))
    BY <1>5, <2>1, AskedIs DEF OpenConversation
  <2>5. Requests'
    BY <1>2, <2>4, AskKeeps DEF ClientInv
  <2> QED
    BY <1>2, <2>3, <2>5 DEF ClientInv
<1>6. ASSUME NEW c \in Convs, LoadEarlierMessages(c) PROVE ClientInv'
  <2>1. cursor[c] > 0 /\ activeId' = activeId /\ c = activeId /\ Ask("earlier", c, cursor[c])
    BY <1>6 DEF LoadEarlierMessages
  <2>2. Opened'
    BY <1>1, <1>2, <1>3, <2>1, OpenedStays
  <2>3. c \in Created /\ cursor[c] \in Nat /\ cursor[c] > 1 /\ cursor[c] <= Len(server[c])
    BY <2>1, ClientAssumption DEF ClientInv, Known, ThreadOf, Opened, ClientAssumption
  <2>4. Requested(Call("earlier", c, cursor[c]))
    BY <2>3, AskedIs
  <2>5. Requests'
    BY <1>2, <2>1, <2>4, AskKeeps DEF ClientInv
  <2> QED
    BY <1>2, <2>2, <2>5 DEF ClientInv
<1> QED
  BY <1>4, <1>5, <1>6

-----------------------------------------------------------------------------
(* The parts of the invariant that the other steps disturb.                 *)

\* Every request is as it was but one.
LEMMA OneCall ==
  ASSUME Requests, Grown, NEW k \in 1 .. Len(calls), NEW r,
         calls' = [calls EXCEPT ![k] = r], Requested(r)'
  PROVE  Requests'
<1>1. DOMAIN calls = 1 .. Len(calls) /\ Len(calls) \in Nat
  BY SeqIs DEF Requests
<1>2. calls' = [j \in 1 .. Len(calls) |-> IF j = k THEN r ELSE calls[j]]
  BY <1>1
<1>3. calls' = [j \in 1 .. Len(calls) |-> calls'[j]]
  BY <1>2, Zenon
<1>4. IsSeq(calls') /\ Len(calls') = Len(calls)
  BY <1>1, <1>3, FunctionIs
<1>5. ASSUME NEW j \in 1 .. Len(calls) PROVE Requested(calls[j])'
  <2>1. Requested(calls[j])
    BY DEF Requests
  <2>2. PICK q : q = calls[j]
    OBVIOUS
  <2>3. CASE j = k
    <3>1. calls'[j] = r
      BY <1>2, <2>3
    <3> QED
      BY <3>1
  <2>4. CASE j # k
    <3>1. calls'[j] = q /\ Requested(q)
      BY <1>2, <2>1, <2>2, <2>4
    <3>2. Requested(q)'
      BY <3>1, RequestedStays
    <3> QED
      BY <3>1, <3>2
  <2> QED
    BY <2>3, <2>4
<1> QED
  BY <1>4, <1>5 DEF Requests

\* The rows are as they were.
LEMMA RowsStay ==
  ASSUME ClientInv, server' = server
  PROVE  Grown /\ Rows' /\ DOMAIN server' = Convs
BY NothingAdded DEF ClientInv, Functions, Rows, RowsOf

\* One row is added that is not an opener.
LEMMA RowAdded ==
  ASSUME ClientInv, NEW c \in Created, NEW fresh, fresh.id.of # "opener",
         server' = [server EXCEPT ![c] = Append(server[c], fresh)]
  PROVE  Grown /\ Rows' /\ DOMAIN server' = Convs
<1>1. c \in Convs /\ server[c] # << >> /\ DOMAIN server = Convs
  BY DEF Created, ClientInv, Functions
<1>2. server'[c] = Append(server[c], fresh) /\ \A d \in Convs : d # c => server'[d] = server[d]
  BY <1>1
<1>3. \A d \in Convs : RowsOf(d) /\ IsSeq(server[d]) /\ Len(server[d]) \in Nat
  BY SeqIs DEF ClientInv, Rows, RowsOf
<1>4. /\ IsSeq(server'[c]) /\ Len(server'[c]) = Len(server[c]) + 1
      /\ \A i \in 1 .. Len(server[c]) : server'[c][i] = server[c][i]
      /\ server'[c][Len(server[c]) + 1] = fresh
  <2>1. IsSeq(server[c])
    BY <1>1, <1>3
  <2> QED
    BY <1>2, <2>1, AppendIs
<1>5. Len(server[c]) > 0
  <2>1. IsSeq(server[c])
    BY <1>1, <1>3
  <2>2. server[c] \in Seq(Elements(server[c]))
    BY <2>1 DEF IsSeq
  <2> QED
    BY <1>1, <1>3, <2>2, EmptySeq
<1>6. server'[c] # << >>
  BY <1>3, <1>4, EmptyIs
<1>7. Grown
  BY <1>2, <1>3, <1>4, <1>6 DEF Grown
<1>8. ASSUME NEW i \in 1 .. Len(server'[c])
      PROVE  (server'[c][i].id.of = "opener" <=> i = 1) /\ (i = 1 => server'[c][i].id = OpenerId(c))
  <2>1. CASE i \in 1 .. Len(server[c])
    BY <1>1, <1>3, <1>4, <2>1 DEF RowsOf
  <2>2. CASE i = Len(server[c]) + 1
    BY <1>3, <1>4, <1>5, <2>2
  <2> QED
    BY <1>3, <1>4, <2>1, <2>2
<1>9. ASSUME NEW d \in Convs PROVE RowsOf(d)'
  <2>1. CASE d = c
    BY <1>4, <1>8, <2>1 DEF RowsOf
  <2>2. CASE d # c
    BY <1>2, <1>3, <2>2 DEF RowsOf
  <2> QED
    BY <2>1, <2>2
<1> QED
  BY <1>1, <1>7, <1>9 DEF Rows

\* One thread changes.
LEMMA OneThread ==
  ASSUME ClientInv, Grown, NEW c \in Convs, ThreadOf(c)', DOMAIN server' = Convs,
         DOMAIN messages' = Convs, DOMAIN cursor' = Convs, DOMAIN opener' = Convs,
         \A d \in Convs : d # c => /\ messages'[d] = messages[d] /\ cursor'[d] = cursor[d]
                                   /\ opener'[d] = opener[d]
  PROVE  Functions' /\ Known'
<1>1. ASSUME NEW d \in Convs PROVE ThreadOf(d)'
  <2>1. CASE d = c
    BY <2>1
  <2>2. CASE d # c
    BY <2>2, ThreadStays DEF ClientInv, Known
  <2> QED
    BY <2>1, <2>2
<1> QED
  BY <1>1 DEF Functions, Known

\* No thread changes.
LEMMA NoThread ==
  ASSUME ClientInv, Grown, DOMAIN server' = Convs, UNCHANGED <<messages, cursor, opener>>
  PROVE  Functions' /\ Known'
BY ThreadStays DEF ClientInv, Functions, Known

\* Messages of one thread are replaced or added, none of them an opener that was not there.
LEMMA OneShown ==
  ASSUME ClientInv, Grown, DOMAIN server' = Convs, UNCHANGED <<cursor, opener>>,
         NEW c \in Convs, NEW list, messages' = [messages EXCEPT ![c] = list], IsSeq(list),
         \A i \in 1 .. Len(list) : list[i].id.of = "opener" =>
           \E j \in 1 .. Len(messages[c]) : list[i] = messages[c][j]
  PROVE  Functions' /\ Known'
<1>1. /\ DOMAIN messages = Convs /\ DOMAIN cursor = Convs /\ DOMAIN opener = Convs /\ ThreadOf(c)
  BY DEF ClientInv, Functions, Known
<1>2. /\ messages'[c] = list /\ DOMAIN messages' = Convs
      /\ \A d \in Convs : d # c => messages'[d] = messages[d]
  BY <1>1
<1>3. ASSUME NEW i \in 1 .. Len(list), list[i].id.of = "opener"
      PROVE  list[i].id = OpenerId(c) /\ opener[c] # NotKnown
  BY <1>1, <1>3 DEF ThreadOf
<1>4. /\ opener[c] \in {NotKnown, OpenerId(c)} /\ cursor[c] \in Int /\ cursor[c] >= -1
      /\ cursor[c] # 1 /\ cursor[c] <= Len(server'[c]) /\ (cursor[c] = 0 => opener[c] # NotKnown)
  BY <1>1 DEF ThreadOf, Grown
<1>5. ThreadOf(c)'
  BY <1>2, <1>3, <1>4 DEF ThreadOf
<1> QED
  BY <1>1, <1>2, <1>5, OneThread

\* The turns keep their conversations.
TurnsKept ==
  /\ turns' = [n \in 1 .. Len(turns) |-> turns'[n]]
  /\ \A n \in 1 .. Len(turns) :
       DOMAIN turns'[n] = DOMAIN turns[n] /\ turns'[n].conv = turns[n].conv

LEMMA TurnsStay ==
  ASSUME ClientInv, Grown, TurnsKept
  PROVE  IsSeq(turns') /\ \A n \in 1 .. Len(turns') :
                            DOMAIN turns'[n] = TurnFields /\ turns'[n].conv \in Created'
<1>1. /\ Len(turns) \in Nat
      /\ \A n \in 1 .. Len(turns) : DOMAIN turns[n] = TurnFields /\ turns[n].conv \in Created'
  BY SeqIs, CreatedStays DEF ClientInv, Opened
<1>2. IsSeq(turns') /\ Len(turns') = Len(turns)
  BY <1>1, FunctionIs DEF TurnsKept
<1> QED
  BY <1>1, <1>2 DEF TurnsKept

LEMMA OneTurn ==
  ASSUME ClientInv, Grown, TurnsKept, UNCHANGED <<conversations, activeId>>
  PROVE  Opened'
<1>1. IsSeq(turns') /\ \A n \in 1 .. Len(turns') :
                         DOMAIN turns'[n] = TurnFields /\ turns'[n].conv \in Created'
  BY TurnsStay
<1>2. /\ IsSeq(conversations') /\ \A i \in 1 .. Len(conversations') : conversations'[i] \in Created'
      /\ activeId' \in Created' \union {None}
  BY CreatedStays DEF ClientInv, Opened, Listed
<1> QED
  BY <1>1, <1>2 DEF Opened, Listed

\* A thread that is loaded anew.
LEMMA ReloadedIs ==
  ASSUME ClientInv, NEW c, turns' = Reloaded(c)
  PROVE  TurnsKept
<1>1. DOMAIN turns = 1 .. Len(turns)
  BY SeqIs DEF ClientInv, Opened
<1>2. turns' = [n \in 1 .. Len(turns) |->
         IF turns[n].conv = c THEN [turns[n] EXCEPT !.reloaded = TRUE] ELSE turns[n]]
  BY <1>1 DEF Reloaded
<1>3. ASSUME NEW n \in 1 .. Len(turns)
      PROVE  DOMAIN turns'[n] = DOMAIN turns[n] /\ turns'[n].conv = turns[n].conv
  <2>1. DOMAIN turns[n] = TurnFields
    BY DEF ClientInv, Opened
  <2> QED
    BY <1>2, <2>1 DEF TurnFields
<1> QED
  BY <1>2, <1>3, Zenon DEF TurnsKept

-----------------------------------------------------------------------------
(* The server answers.                                                      *)

LEMMA ServeStep ==
  ASSUME ClientInv, NEW k \in DOMAIN calls, Serve(k)
  PROVE  ClientInv'
<1>1. UNCHANGED <<conversations, activeId, messages, cursor, opener, turns>> /\ calls[k].at = "asked"
  BY DEF Serve, listVars, threadVars
<1>2. k \in 1 .. Len(calls) /\ Requested(calls[k]) /\ DOMAIN calls[k] = CallFields
  BY SeqIs DEF ClientInv, Requests, Requested
<1>3. TurnsKept
  BY <1>1, SeqIs DEF TurnsKept, ClientInv, Opened, IsSeq
<1>4. ASSUME NEW c \in Convs \ Created,
             server' = [server EXCEPT ![c] = <<Row(Id("opener", c, 1), << >>)>>],
             calls' = [calls EXCEPT ![k].at = "served", ![k].conv = c]
      PROVE  ClientInv'
  <2> DEFINE fresh == Row(Id("opener", c, 1), << >>)
  <2>1. fresh.id = OpenerId(c) /\ fresh.id.of = "opener"
    BY DEF Row, Message, Id, OpenerId
  <2>2. server' = [server EXCEPT ![c] = <<fresh>>]
    BY <1>4
  <2> HIDE DEF fresh
  <2>3. /\ DOMAIN server = Convs /\ DOMAIN server' = Convs /\ server[c] = << >>
        /\ server'[c] = <<fresh>> /\ \A d \in Convs : d # c => server'[d] = server[d]
    BY <1>4, <2>2 DEF ClientInv, Functions, Created
  <2>4. IsSeq(<<fresh>>) /\ Len(<<fresh>>) = 1 /\ <<fresh>>[1] = fresh /\ <<fresh>> # << >> /\ Len(<< >>) = 0
    BY OneIs, EmptyIs
  <2>5. \A d \in Convs : RowsOf(d) /\ Len(server[d]) \in Nat
    BY SeqIs DEF ClientInv, Rows, RowsOf
  <2>6. Grown
    BY <2>3, <2>4, <2>5 DEF Grown
  <2>7. ASSUME NEW d \in Convs PROVE RowsOf(d)'
    <3>1. CASE d = c
      <4>1. server'[d] = <<fresh>> /\ Len(server'[d]) = 1
        BY <2>3, <2>4, <3>1
      <4>2. ASSUME NEW i \in 1 .. Len(server'[d])
            PROVE  i = 1 /\ server'[d][i] = fresh
        BY <2>4, <4>1
      <4> QED
        BY <2>1, <2>4, <3>1, <4>1, <4>2 DEF RowsOf
    <3>2. CASE d # c
      BY <2>3, <2>5, <3>2 DEF RowsOf
    <3> QED
      BY <3>1, <3>2
  <2>8. Functions' /\ Known'
    BY <1>1, <2>3, <2>6, NoThread
  <2>9. Requests'
    <3>1. PICK r : r = [calls[k] EXCEPT !.at = "served", !.conv = c]
      OBVIOUS
    <3>2. calls' = [calls EXCEPT ![k] = r]
      BY <1>2, <1>4, <3>1
    <3>3. CASE calls[k].op \in {"create", "boot create"}
      <4>1. /\ DOMAIN r = CallFields /\ r.op \in {"create", "boot create"} /\ r.conv = c
            /\ r.op = "create" \/ r.op = "boot create"
        BY <1>2, <3>1, <3>3 DEF CallFields
      <4>2. c \in Created'
        BY <2>3, <2>4 DEF Created
      <4>3. Requested(r)'
        BY <4>1, <4>2 DEF Requested
      <4> QED
        BY <1>2, <2>6, <3>2, <4>3, OneCall DEF ClientInv
    <3>4. CASE calls[k].op \notin {"create", "boot create"}
      <4>1. server' = server
        BY <3>4 DEF Serve, serverVars
      <4> QED
        BY <2>3, <2>4, <4>1
    <3> QED
      BY <3>3, <3>4
  <2>10. Opened'
    BY <1>1, <1>3, <2>6, OneTurn
  <2> QED
    BY <2>7, <2>8, <2>9, <2>10 DEF ClientInv, Rows
<1>5. ASSUME calls[k].op \notin {"create", "boot create"}, server' = server,
             NEW page \in IF calls[k].op \in {"list", "more"} THEN ConversationPages(calls[k].before)
                          ELSE {MessagePage(calls[k].conv, calls[k].before)},
             calls' = [calls EXCEPT ![k].at = "served", ![k].page = page]
      PROVE  ClientInv'
  <2>1. Grown /\ Rows' /\ DOMAIN server' = Convs
    BY <1>5, RowsStay
  <2>2. Functions' /\ Known'
    BY <1>1, <2>1, NoThread
  <2>3. Opened'
    BY <1>1, <1>3, <2>1, OneTurn
  <2>4. PICK r : r = [calls[k] EXCEPT !.at = "served", !.page = page]
    OBVIOUS
  <2>5. calls' = [calls EXCEPT ![k] = r]
    BY <1>2, <1>5, <2>4
  <2>6. /\ DOMAIN r = CallFields /\ r.op = calls[k].op /\ r.conv = calls[k].conv
        /\ r.before = calls[k].before /\ r.page = page
    BY <1>2, <2>4 DEF CallFields
  <2>7. ASSUME calls[k].op \in {"list", "more"} PROVE Listed(page.items)
    <3>1. page \in ConversationPages(calls[k].before)
      BY <1>5, <2>7
    <3> QED
      BY <3>1, ConversationPagesAre
  <2>8. ASSUME calls[k].op \in {"open", "boot open", "earlier"} PROVE PageOf(calls[k].conv, page)
    <3>1. page = MessagePage(calls[k].conv, calls[k].before)
      BY <1>5, <2>8
    <3>2. /\ calls[k].conv \in Created
          /\ \/ calls[k].before = 0
             \/ /\ calls[k].before \in Nat /\ calls[k].before > 1
                /\ calls[k].before <= Len(server[calls[k].conv])
      BY <1>2, <2>8 DEF Requested
    <3>3. PICK c, before : c = calls[k].conv /\ before = calls[k].before
      OBVIOUS
    <3>4. c \in Convs /\ server[c] # << >> /\ before \in Nat /\ RowsOf(c)
          /\ (before = 0 \/ (before > 1 /\ before <= Len(server[c])))
      BY <3>2, <3>3 DEF Created, ClientInv, Rows
    <3>5. PageOf(c, MessagePage(c, before))
      BY <3>4, MessagePageIs
    <3> QED
      BY <3>1, <3>3, <3>5
  <2>9. Requested(r)
    <3>1. /\ r.op \in {"open", "boot open"} => r.conv \in Created /\ r.before = 0
          /\ r.op = "earlier" =>
               r.conv \in Created /\ r.before \in Nat /\ r.before > 1 /\ r.before <= Len(server[r.conv])
      BY <1>2, <2>6 DEF Requested
    <3>2. r.op \notin {"create", "boot create"}
      BY <1>5, <2>6
    <3>3. r.op \in {"open", "boot open", "earlier"} => PageOf(r.conv, r.page)
      BY <2>6, <2>8
    <3>4. r.op \in {"list", "more"} => Listed(r.page.items)
      BY <2>6, <2>7
    <3> QED
      BY <2>6, <3>1, <3>2, <3>3, <3>4 DEF Requested
  <2>10. Requested(r)'
    BY <2>1, <2>9, RequestedStays
  <2>11. Requests'
    BY <1>2, <2>1, <2>5, <2>10, OneCall DEF ClientInv
  <2> QED
    BY <2>1, <2>2, <2>3, <2>11 DEF ClientInv
<1>6. CASE calls[k].op \in {"create", "boot create"}
  <2>1. PICK c \in Convs \ Created :
          /\ server' = [server EXCEPT ![c] = <<Row(Id("opener", c, 1), << >>)>>]
          /\ calls' = [calls EXCEPT ![k].at = "served", ![k].conv = c]
    BY <1>6 DEF Serve
  <2> QED
    BY <1>4, <2>1
<1>7. CASE calls[k].op \notin {"create", "boot create"}
  <2>1. PICK page \in IF calls[k].op \in {"list", "more"} THEN ConversationPages(calls[k].before)
                      ELSE {MessagePage(calls[k].conv, calls[k].before)} :
          calls' = [calls EXCEPT ![k].at = "served", ![k].page = page]
    BY <1>7, Zenon DEF Serve
  <2>2. server' = server
    BY <1>7 DEF Serve, serverVars
  <2> QED
    BY <1>5, <1>7, <2>1, <2>2
<1> QED
  BY <1>6, <1>7

-----------------------------------------------------------------------------
(* Answers land.                                                            *)

\* What a landing finds.
LEMMA LandingIs ==
  ASSUME ClientInv, NEW k \in DOMAIN calls, NEW ops, Landing(k, ops)
  PROVE  /\ k \in 1 .. Len(calls) /\ calls[k].at = "served" /\ calls[k].op \in ops
         /\ Requested(calls[k])
BY SeqIs DEF Landing, ClientInv, Requests

\* A request is over, and nothing is known that was not.
LEMMA OverKeeps ==
  ASSUME ClientInv, NEW k \in 1 .. Len(calls), Grown, calls' = Over(k)
  PROVE  Requests'
<1>1. Requests
  BY DEF ClientInv
<1>2. IsSeq(Over(k)) /\ Len(Over(k)) = Len(calls) /\ \A j \in 1 .. Len(calls) : Requested(Over(k)[j])
  BY <1>1, OverIs
<1>3. IsSeq(calls') /\ \A j \in 1 .. Len(calls') : Requested(calls'[j])
  BY <1>2
<1> QED
  BY <1>3, SoundStay

LEMMA ReplacedKeeps ==
  ASSUME ClientInv, NEW k \in 1 .. Len(calls), NEW c, Grown, calls' = Replaced(k, c)
  PROVE  Requests'
<1>1. Requests
  BY DEF ClientInv
<1>2. /\ IsSeq(Replaced(k, c)) /\ Len(Replaced(k, c)) = Len(calls)
      /\ \A j \in 1 .. Len(calls) : Requested(Replaced(k, c)[j])
  BY <1>1, ReplacedIs
<1>3. IsSeq(calls') /\ \A j \in 1 .. Len(calls') : Requested(calls'[j])
  BY <1>2
<1> QED
  BY <1>3, SoundStay

\* The lists of conversations and what is active, whatever the turns did but keep theirs.
LEMMA ListsAre ==
  ASSUME ClientInv, Grown, TurnsKept, NEW list, conversations' = list, Listed(list),
         activeId' \in Created \union {None}
  PROVE  Opened'
<1>1. IsSeq(turns') /\ \A n \in 1 .. Len(turns') :
                         DOMAIN turns'[n] = TurnFields /\ turns'[n].conv \in Created'
  BY TurnsStay
<1>2. IsSeq(conversations') /\ \A i \in 1 .. Len(conversations') : conversations'[i] \in Created'
  BY CreatedStays DEF Listed
<1>3. activeId' \in Created' \union {None}
  BY CreatedStays
<1> QED
  BY <1>1, <1>2, <1>3 DEF Opened, Listed

LEMMA SameTurns == ASSUME ClientInv, turns' = turns PROVE TurnsKept
BY SeqIs DEF TurnsKept, ClientInv, Opened, IsSeq

LEMMA LandListStep ==
  ASSUME ClientInv, NEW k \in DOMAIN calls, LandList(k)
  PROVE  ClientInv'
<1> DEFINE items == calls[k].page.items
<1>1. UNCHANGED <<server, messages, cursor, opener, turns>> /\ Landing(k, {"list"})
  BY DEF LandList, serverVars, threadVars
<1>2. Grown /\ Rows' /\ DOMAIN server' = Convs /\ Functions' /\ Known' /\ TurnsKept
  BY <1>1, RowsStay, NoThread, SameTurns
<1>3. k \in 1 .. Len(calls) /\ Requested(calls[k]) /\ Listed(items)
  BY <1>1, LandingIs DEF Requested
<1>4. CASE items = << >>
  <2>1. /\ calls' = [calls EXCEPT ![k] = Call("boot create", None, 0)]
        /\ UNCHANGED <<conversations, activeId>>
    BY <1>4 DEF LandList
  <2>2. PICK r : r = Call("boot create", None, 0)
    OBVIOUS
  <2>3. Requested(r)
    BY <2>2, AskedIs
  <2>4. Requested(r)' /\ calls' = [calls EXCEPT ![k] = r]
    BY <1>2, <2>1, <2>2, <2>3, RequestedStays
  <2>5. Requests'
    BY <1>2, <1>3, <2>4, OneCall DEF ClientInv
  <2>6. Opened'
    BY <1>2, <2>1, OneTurn
  <2> QED
    BY <1>2, <2>5, <2>6 DEF ClientInv
<1>5. CASE items # << >>
  <2>1. /\ calls' = [calls EXCEPT ![k] = Call("boot open", Head(items), 0)]
        /\ conversations' = items /\ activeId' = Head(items)
    BY <1>5 DEF LandList
  <2>2. Head(items) = items[1] /\ Len(items) > 0
    <3>1. items \in Seq(Elements(items)) /\ Len(items) \in Nat
      BY <1>3, SeqIs DEF Listed, IsSeq
    <3> QED
      BY <1>5, <3>1, EmptySeq
  <2>3. Head(items) \in Created
    <3>1. Len(items) \in Nat
      BY <1>3, SeqIs DEF Listed
    <3> QED
      BY <1>3, <2>2, <3>1 DEF Listed
  <2>4. PICK r : r = Call("boot open", Head(items), 0)
    OBVIOUS
  <2>5. Requested(r)
    BY <2>3, <2>4, AskedIs
  <2>6. Requested(r)' /\ calls' = [calls EXCEPT ![k] = r]
    BY <1>2, <2>1, <2>4, <2>5, RequestedStays
  <2>7. Requests'
    BY <1>2, <1>3, <2>6, OneCall DEF ClientInv
  <2>8. Opened'
    <3>1. PICK list : list = items
      OBVIOUS
    <3>2. conversations' = list /\ Listed(list) /\ activeId' \in Created \union {None}
      BY <1>3, <2>1, <2>3, <3>1
    <3> QED
      BY <1>2, <3>2, ListsAre
  <2> QED
    BY <1>2, <2>7, <2>8 DEF ClientInv
<1> QED
  BY <1>4, <1>5

LEMMA LandCreateStep ==
  ASSUME ClientInv, NEW k \in DOMAIN calls, LandCreate(k)
  PROVE  ClientInv'
<1>1. Landing(k, {"create", "boot create"})
  BY DEF LandCreate
<1>2. k \in 1 .. Len(calls) /\ calls[k].conv \in Created
  BY <1>1, LandingIs DEF Requested
<1>3. PICK c : c = calls[k].conv
  OBVIOUS
<1>4. /\ calls' = Replaced(k, c) /\ server' = server /\ turns' = Reloaded(c)
      /\ conversations' = IF calls[k].op = "boot create" THEN <<c>> ELSE <<c>> \o conversations
      /\ activeId' = c
      /\ messages' = [messages EXCEPT ![c] = <<Head(server[c])>>]
      /\ cursor' = [cursor EXCEPT ![c] = 0]
      /\ opener' = [opener EXCEPT ![c] = server[c][1].id]
  BY <1>3 DEF LandCreate, serverVars
<1>5. Grown /\ Rows' /\ DOMAIN server' = Convs /\ TurnsKept
  BY <1>4, RowsStay, ReloadedIs
<1>6. Requests'
  BY <1>2, <1>4, <1>5, ReplacedKeeps
<1>7. c \in Convs /\ server[c] # << >> /\ RowsOf(c)
  BY <1>2, <1>3 DEF Created, ClientInv, Rows
<1>8. /\ Len(server[c]) \in Nat /\ Len(server[c]) > 0 /\ Head(server[c]) = server[c][1]
      /\ server[c][1].id = OpenerId(c)
  <2>1. server[c] \in Seq(Elements(server[c])) /\ Len(server[c]) \in Nat
    BY <1>7, SeqIs DEF RowsOf, IsSeq
  <2>2. Len(server[c]) > 0 /\ Head(server[c]) = server[c][1]
    BY <1>7, <2>1, EmptySeq
  <2> QED
    BY <1>7, <2>1, <2>2 DEF RowsOf
<1>9. Functions' /\ Known'
  <2>1. /\ DOMAIN messages = Convs /\ DOMAIN cursor = Convs /\ DOMAIN opener = Convs
    BY DEF ClientInv, Functions
  <2>2. /\ messages'[c] = <<server[c][1]>> /\ cursor'[c] = 0 /\ opener'[c] = OpenerId(c)
        /\ DOMAIN messages' = Convs /\ DOMAIN cursor' = Convs /\ DOMAIN opener' = Convs
        /\ \A d \in Convs : d # c => /\ messages'[d] = messages[d] /\ cursor'[d] = cursor[d]
                                     /\ opener'[d] = opener[d]
    BY <1>4, <1>7, <1>8, <2>1
  <2>3. /\ IsSeq(messages'[c]) /\ Len(messages'[c]) = 1 /\ messages'[c][1].id = OpenerId(c)
    BY <1>8, <2>2, OneIs
  <2>4. OpenerId(c) # NotKnown
    BY DEF OpenerId, Id, NotKnown
  <2>5. \A i \in 1 .. Len(messages'[c]) : messages'[c][i].id = OpenerId(c)
    BY <2>3
  <2>6. Len(server'[c]) \in Nat
    BY <1>4, <1>8
  <2>7. ThreadOf(c)'
    BY <2>2, <2>3, <2>4, <2>5, <2>6 DEF ThreadOf
  <2> QED
    BY <1>5, <1>7, <2>2, <2>7, OneThread
<1>10. Opened'
  <2>1. IsSeq(<<c>>) /\ Len(<<c>>) = 1 /\ <<c>>[1] = c
    BY OneIs
  <2>2. IsSeq(conversations) /\ Len(conversations) \in Nat
        /\ \A i \in 1 .. Len(conversations) : conversations[i] \in Created
    BY SeqIs DEF ClientInv, Opened, Listed
  <2>3. IsSeq(<<c>> \o conversations) /\ Len(<<c>> \o conversations) = Len(<<c>>) + Len(conversations)
        /\ \A i \in 1 .. Len(<<c>>) + Len(conversations) :
             (<<c>> \o conversations)[i] =
                IF i <= Len(<<c>>) THEN <<c>>[i] ELSE conversations[i - Len(<<c>>)]
    BY <2>1, <2>2, ConcatIs
  <2> DEFINE both == <<c>> \o conversations
             one == <<c>>
  <2>4. Listed(one)
    BY <1>2, <1>3, <2>1 DEF Listed
  <2>5. /\ IsSeq(both) /\ Len(both) = Len(one) + Len(conversations) /\ Len(one) = 1 /\ one[1] = c
        /\ \A i \in 1 .. Len(one) + Len(conversations) :
             both[i] = IF i <= Len(one) THEN one[i] ELSE conversations[i - Len(one)]
    BY <2>1, <2>3, Zenon
  <2>6. conversations' = one \/ conversations' = both
    BY <1>4
  <2> HIDE DEF both, one
  <2>7. ASSUME NEW i \in 1 .. Len(both) PROVE both[i] \in Created
    <3>1. both[i] = IF i <= 1 THEN one[i] ELSE conversations[i - 1]
      BY <2>2, <2>5
    <3> QED
      BY <1>2, <1>3, <2>2, <2>5, <3>1
  <2>8. Listed(both)
    BY <2>5, <2>7 DEF Listed
  <2>9. PICK list : list = conversations'
    OBVIOUS
  <2>10. conversations' = list /\ Listed(list) /\ activeId' \in Created \union {None}
    BY <1>2, <1>3, <1>4, <2>4, <2>6, <2>8, <2>9
  <2> QED
    BY <1>5, <2>10, ListsAre
<1> QED
  BY <1>5, <1>6, <1>9, <1>10 DEF ClientInv

\* The opener is learned with the page that reaches back to the start.
LEMMA OpenerOfIs ==
  ASSUME ClientInv, NEW c \in Convs, NEW page, PageOf(c, page), opener' = OpenerOf(c, page)
  PROVE  /\ DOMAIN opener' = Convs /\ \A d \in Convs : d # c => opener'[d] = opener[d]
         /\ opener'[c] = IF page.next = 0 THEN OpenerId(c) ELSE opener[c]
         /\ opener'[c] \in {NotKnown, OpenerId(c)} /\ OpenerId(c) # NotKnown
<1>1. DOMAIN opener = Convs /\ opener[c] \in {NotKnown, OpenerId(c)}
  BY DEF ClientInv, Functions, Known, ThreadOf
<1>2. OpenerId(c) # NotKnown
  BY DEF OpenerId, Id, NotKnown
<1>3. page.items # << >> /\ Head(page.items) = page.items[1]
  <2>1. IsSeq(page.items) /\ Len(page.items) > 0
    BY DEF PageOf
  <2>2. page.items \in Seq(Elements(page.items))
    BY <2>1 DEF IsSeq
  <2> QED
    BY <2>1, <2>2, EmptyIs
<1>4. CASE page.next = 0
  <2>1. opener' = [opener EXCEPT ![c] = OpenerId(c)]
    BY <1>3, <1>4 DEF OpenerOf, PageOf
  <2> QED
    BY <1>1, <1>2, <1>4, <2>1
<1>5. CASE page.next # 0
  <2>1. opener' = opener
    BY <1>5 DEF OpenerOf
  <2> QED
    BY <1>1, <1>2, <1>5, <2>1
<1> QED
  BY <1>4, <1>5

LEMMA LandOpenStep ==
  ASSUME ClientInv, NEW k \in DOMAIN calls, LandOpen(k)
  PROVE  ClientInv'
<1>1. Landing(k, {"open", "boot open"})
  BY DEF LandOpen
<1>2. k \in 1 .. Len(calls) /\ calls[k].conv \in Created /\ PageOf(calls[k].conv, calls[k].page)
  BY <1>1, LandingIs DEF Requested
<1>3. PICK c, page : c = calls[k].conv /\ page = calls[k].page
  OBVIOUS
<1>4. /\ calls' = Replaced(k, c) /\ server' = server /\ turns' = Reloaded(c)
      /\ UNCHANGED <<conversations, activeId>>
      /\ messages' = [messages EXCEPT ![c] = page.items]
      /\ cursor' = [cursor EXCEPT ![c] = page.next]
      /\ opener' = OpenerOf(c, page)
  BY <1>3 DEF LandOpen, serverVars
<1>5. Grown /\ Rows' /\ DOMAIN server' = Convs /\ TurnsKept
  BY <1>4, RowsStay, ReloadedIs
<1>6. Requests'
  BY <1>2, <1>4, <1>5, ReplacedKeeps
<1>7. c \in Convs /\ PageOf(c, page)
  BY <1>2, <1>3 DEF Created
<1>8. Functions' /\ Known'
  <2>1. /\ DOMAIN messages = Convs /\ DOMAIN cursor = Convs
    BY DEF ClientInv, Functions
  <2>2. /\ DOMAIN opener' = Convs /\ \A d \in Convs : d # c => opener'[d] = opener[d]
        /\ opener'[c] = IF page.next = 0 THEN OpenerId(c) ELSE opener[c]
        /\ opener'[c] \in {NotKnown, OpenerId(c)} /\ OpenerId(c) # NotKnown
    BY <1>4, <1>7, OpenerOfIs
  <2>3. /\ messages'[c] = page.items /\ cursor'[c] = page.next
        /\ DOMAIN messages' = Convs /\ DOMAIN cursor' = Convs
        /\ \A d \in Convs : d # c => messages'[d] = messages[d] /\ cursor'[d] = cursor[d]
    BY <1>4, <1>7, <2>1
  <2>4. Len(server'[c]) = Len(server[c])
    BY <1>4
  <2>5. ThreadOf(c)'
    <3>1. /\ cursor'[c] \in Int /\ cursor'[c] >= -1 /\ cursor'[c] # 1
          /\ cursor'[c] <= Len(server'[c]) /\ IsSeq(messages'[c])
      BY <1>7, <2>3, <2>4 DEF PageOf
    <3>2. cursor'[c] = 0 => opener'[c] # NotKnown
      BY <2>2, <2>3
    <3>3. ASSUME NEW i \in 1 .. Len(messages'[c]), messages'[c][i].id.of = "opener"
          PROVE  messages'[c][i].id = OpenerId(c) /\ opener'[c] # NotKnown
      BY <1>7, <2>2, <2>3, <3>3 DEF PageOf
    <3> QED
      BY <2>2, <3>1, <3>2, <3>3 DEF ThreadOf
  <2> QED
    BY <1>5, <1>7, <2>2, <2>3, <2>5, OneThread
<1>9. Opened'
  BY <1>4, <1>5, OneTurn
<1> QED
  BY <1>5, <1>6, <1>8, <1>9 DEF ClientInv

LEMMA LandEarlierStep ==
  ASSUME ClientInv, NEW k \in DOMAIN calls, LandEarlier(k)
  PROVE  ClientInv'
<1>1. Landing(k, {"earlier"})
  BY DEF LandEarlier
<1>2. k \in 1 .. Len(calls) /\ calls[k].conv \in Created /\ PageOf(calls[k].conv, calls[k].page)
  BY <1>1, LandingIs DEF Requested
<1>3. PICK c, page : c = calls[k].conv /\ page = calls[k].page
  OBVIOUS
<1>4. /\ calls' = Over(k) /\ server' = server
      /\ UNCHANGED <<conversations, activeId, turns>>
      /\ messages' = [messages EXCEPT ![c] = page.items \o messages[c]]
      /\ cursor' = [cursor EXCEPT ![c] = page.next]
      /\ opener' = OpenerOf(c, page)
  BY <1>3 DEF LandEarlier, serverVars, listVars
<1>5. Grown /\ Rows' /\ DOMAIN server' = Convs /\ TurnsKept
  BY <1>4, RowsStay, SameTurns
<1>6. Requests'
  BY <1>2, <1>4, <1>5, OverKeeps
<1>7. c \in Convs /\ PageOf(c, page)
  BY <1>2, <1>3 DEF Created
<1>8. Functions' /\ Known'
  <2>1. DOMAIN messages = Convs /\ DOMAIN cursor = Convs /\ ThreadOf(c)
    BY <1>7 DEF ClientInv, Functions, Known
  <2>2. /\ DOMAIN opener' = Convs /\ \A d \in Convs : d # c => opener'[d] = opener[d]
        /\ opener'[c] = IF page.next = 0 THEN OpenerId(c) ELSE opener[c]
        /\ opener'[c] \in {NotKnown, OpenerId(c)} /\ OpenerId(c) # NotKnown
    BY <1>4, <1>7, OpenerOfIs
  <2>3. PICK s, t : s = page.items /\ t = messages[c]
    OBVIOUS
  <2>4. IsSeq(s) /\ IsSeq(t) /\ Len(s) \in Nat /\ Len(t) \in Nat
    BY <1>7, <2>1, <2>3, SeqIs DEF PageOf, ThreadOf
  <2>5. /\ messages'[c] = s \o t /\ cursor'[c] = page.next
        /\ DOMAIN messages' = Convs /\ DOMAIN cursor' = Convs
        /\ \A d \in Convs : d # c => messages'[d] = messages[d] /\ cursor'[d] = cursor[d]
    BY <1>4, <1>7, <2>1, <2>3
  <2>6. /\ IsSeq(s \o t) /\ Len(s \o t) = Len(s) + Len(t)
        /\ \A i \in 1 .. Len(s) + Len(t) :
             (s \o t)[i] = IF i <= Len(s) THEN s[i] ELSE t[i - Len(s)]
    BY <2>4, ConcatIs
  <2>7. Len(server'[c]) = Len(server[c])
    BY <1>4
  <2>8. ThreadOf(c)'
    <3>1. /\ cursor'[c] \in Int /\ cursor'[c] >= -1 /\ cursor'[c] # 1
          /\ cursor'[c] <= Len(server'[c]) /\ IsSeq(messages'[c])
      BY <1>7, <2>5, <2>6, <2>7 DEF PageOf
    <3>2. cursor'[c] = 0 => opener'[c] # NotKnown
      BY <2>2, <2>5
    <3>3. ASSUME NEW i \in 1 .. Len(messages'[c]), messages'[c][i].id.of = "opener"
          PROVE  messages'[c][i].id = OpenerId(c) /\ opener'[c] # NotKnown
      <4>1. i \in 1 .. Len(s) + Len(t)
            /\ messages'[c][i] = IF i <= Len(s) THEN s[i] ELSE t[i - Len(s)]
        BY <2>5, <2>6
      <4>2. CASE i <= Len(s)
        BY <1>7, <2>2, <2>3, <2>4, <3>3, <4>1, <4>2 DEF PageOf
      <4>3. CASE ~(i <= Len(s))
        <5>1. i - Len(s) \in 1 .. Len(t) /\ messages'[c][i] = t[i - Len(s)]
          BY <2>4, <4>1, <4>3
        <5>2. t[i - Len(s)].id = OpenerId(c) /\ opener[c] # NotKnown
          BY <2>1, <2>3, <3>3, <5>1 DEF ThreadOf
        <5> QED
          BY <2>2, <5>1, <5>2
      <4> QED
        BY <4>2, <4>3
    <3> QED
      BY <2>2, <3>1, <3>2, <3>3 DEF ThreadOf
  <2> QED
    BY <1>5, <1>7, <2>2, <2>5, <2>8, OneThread
<1>9. Opened'
  BY <1>4, <1>5, OneTurn
<1> QED
  BY <1>5, <1>6, <1>8, <1>9 DEF ClientInv

LEMMA LandMoreStep ==
  ASSUME ClientInv, NEW k \in DOMAIN calls, LandMore(k)
  PROVE  ClientInv'
<1>1. /\ Landing(k, {"more"}) /\ calls' = Over(k) /\ activeId' = activeId
      /\ UNCHANGED <<server, messages, cursor, opener, turns>>
      /\ conversations' = conversations \o calls[k].page.items
  BY DEF LandMore, serverVars, threadVars
<1>2. k \in 1 .. Len(calls) /\ Listed(calls[k].page.items)
  BY <1>1, LandingIs DEF Requested
<1>3. Grown /\ Rows' /\ DOMAIN server' = Convs /\ Functions' /\ Known' /\ TurnsKept
  BY <1>1, RowsStay, NoThread, SameTurns
<1>4. Requests'
  BY <1>1, <1>2, <1>3, OverKeeps
<1>5. Opened'
  <2>1. PICK s, t, list : s = conversations /\ t = calls[k].page.items /\ list = conversations'
    OBVIOUS
  <2>2. Listed(s) /\ Listed(t) /\ Len(s) \in Nat /\ Len(t) \in Nat /\ IsSeq(s) /\ IsSeq(t)
    BY <1>2, <2>1, SeqIs DEF ClientInv, Opened, Listed
  <2>3. /\ IsSeq(s \o t) /\ Len(s \o t) = Len(s) + Len(t)
        /\ \A i \in 1 .. Len(s) + Len(t) :
             (s \o t)[i] = IF i <= Len(s) THEN s[i] ELSE t[i - Len(s)]
    BY <2>2, ConcatIs
  <2>4. ASSUME NEW i \in 1 .. Len(s) + Len(t) PROVE (s \o t)[i] \in Created
    <3>1. CASE i <= Len(s)
      BY <2>2, <2>3, <3>1 DEF Listed
    <3>2. CASE ~(i <= Len(s))
      <4>1. i - Len(s) \in 1 .. Len(t)
        BY <2>2, <3>2
      <4> QED
        BY <2>2, <2>3, <3>2, <4>1 DEF Listed
    <3> QED
      BY <3>1, <3>2
  <2>5. list = s \o t /\ conversations' = list
    BY <1>1, <2>1
  <2>6. Listed(list)
    BY <2>3, <2>4, <2>5 DEF Listed
  <2>7. activeId' \in Created \union {None}
    BY <1>1 DEF ClientInv, Opened
  <2> QED
    BY <1>3, <2>5, <2>6, <2>7, ListsAre
<1> QED
  BY <1>3, <1>4, <1>5 DEF ClientInv

LEMMA FailStep ==
  ASSUME ClientInv, NEW k \in DOMAIN calls, Fail(k)
  PROVE  ClientInv'
<1>1. /\ calls' = Over(k) /\ UNCHANGED <<server, messages, cursor, opener, conversations, activeId, turns>>
  BY DEF Fail, serverVars
<1>2. k \in 1 .. Len(calls)
  BY SeqIs DEF ClientInv, Requests
<1>3. Grown /\ Rows' /\ DOMAIN server' = Convs /\ Functions' /\ Known' /\ TurnsKept
  BY <1>1, RowsStay, NoThread, SameTurns
<1>4. Requests'
  BY <1>1, <1>2, <1>3, OverKeeps
<1>5. Opened'
  BY <1>1, <1>3, OneTurn
<1> QED
  BY <1>3, <1>4, <1>5 DEF ClientInv

-----------------------------------------------------------------------------
(* The turns.                                                               *)

\* What a step of a turn finds.
LEMMA TurnIs ==
  ASSUME ClientInv, NEW n \in DOMAIN turns
  PROVE  /\ n \in 1 .. Len(turns) /\ DOMAIN turns = 1 .. Len(turns)
         /\ DOMAIN turns[n] = TurnFields /\ turns[n].conv \in Created /\ turns[n].conv \in Convs
BY SeqIs DEF ClientInv, Opened, Created

\* Only other fields of one turn change.
LEMMA OneTurnKept ==
  ASSUME ClientInv, NEW n \in DOMAIN turns, NEW at, NEW script, NEW read, NEW stored,
         \/ turns' = [turns EXCEPT ![n].at = at]
         \/ turns' = [turns EXCEPT ![n].stored = stored]
         \/ turns' = [turns EXCEPT ![n].read = read, ![n].at = at]
         \/ turns' = [turns EXCEPT ![n].at = at, ![n].script = script]
  PROVE  TurnsKept
<1>1. /\ n \in 1 .. Len(turns) /\ DOMAIN turns = 1 .. Len(turns)
      /\ \A m \in 1 .. Len(turns) : DOMAIN turns[m] = TurnFields
  BY TurnIs
<1>2. DOMAIN turns' = 1 .. Len(turns) /\ turns' = [m \in 1 .. Len(turns) |-> turns'[m]]
  BY <1>1
<1>3. ASSUME NEW m \in 1 .. Len(turns)
      PROVE  DOMAIN turns'[m] = DOMAIN turns[m] /\ turns'[m].conv = turns[m].conv
  BY <1>1 DEF TurnFields
<1> QED
  BY <1>2, <1>3 DEF TurnsKept

\* A message appended that is no opener.
LEMMA ShownStep ==
  ASSUME ClientInv, Grown, DOMAIN server' = Convs, UNCHANGED <<cursor, opener>>,
         NEW c \in Convs, NEW m, m.id.of # "opener", messages' = Shown(c, m)
  PROVE  Functions' /\ Known'
<1>1. IsSeq(messages[c]) /\ Len(messages[c]) \in Nat
  BY SeqIs DEF ClientInv, Known, ThreadOf
<1>2. PICK list : list = Append(messages[c], m)
  OBVIOUS
<1>3. messages' = [messages EXCEPT ![c] = list]
  BY <1>2 DEF Shown
<1>4. /\ IsSeq(list) /\ Len(list) = Len(messages[c]) + 1
      /\ \A i \in 1 .. Len(messages[c]) : list[i] = messages[c][i]
      /\ list[Len(messages[c]) + 1] = m
  BY <1>1, <1>2, AppendIs
<1>5. ASSUME NEW i \in 1 .. Len(list), list[i].id.of = "opener"
      PROVE  \E j \in 1 .. Len(messages[c]) : list[i] = messages[c][j]
  <2>1. i # Len(messages[c]) + 1
    BY <1>4, <1>5
  <2>2. i \in 1 .. Len(messages[c])
    BY <1>1, <1>4, <2>1
  <2> QED
    BY <1>4, <2>2
<1> QED
  BY <1>3, <1>4, <1>5, OneShown

LEMMA IdsAre ==
  ASSUME NEW c, NEW n, NEW parts, NEW seq
  PROVE  /\ Message(Id("local ask", c, n), parts, seq).id.of # "opener"
         /\ Message(Id("answer", c, n), parts, seq).id.of # "opener"
         /\ Row(Id("ask", c, n), parts).id.of # "opener"
         /\ Row(Id("answer", c, n), parts).id.of # "opener"
<1>1. /\ Id("local ask", c, n).of = "local ask" /\ Id("answer", c, n).of = "answer"
      /\ Id("ask", c, n).of = "ask"
  BY DEF Id
<1>2. /\ Message(Id("local ask", c, n), parts, seq).id = Id("local ask", c, n)
      /\ Message(Id("answer", c, n), parts, seq).id = Id("answer", c, n)
      /\ Row(Id("ask", c, n), parts).id = Id("ask", c, n)
      /\ Row(Id("answer", c, n), parts).id = Id("answer", c, n)
  BY DEF Message, Row
<1> QED
  BY <1>1, <1>2

LEMMA BubbleIs == ASSUME NEW n PROVE Bubble(n).id.of # "opener"
<1>1. Bubble(n).id = Id("bubble", turns[n].conv, n)
  BY DEF Bubble, Message
<1>2. Id("bubble", turns[n].conv, n).of = "bubble"
  BY DEF Id
<1> QED
  BY <1>1, <1>2

\* A message of the list gives way to one that is no opener, or to none.
LEMMA PutIs ==
  ASSUME NEW s, IsSeq(s), NEW m, m.id.of # "opener",
         NEW list, list = [j \in 1 .. Len(s) |-> list[j]],
         \A j \in 1 .. Len(s) : list[j] = m \/ list[j] = s[j]
  PROVE  /\ IsSeq(list) /\ Len(list) = Len(s)
         /\ \A j \in 1 .. Len(list) : list[j].id.of = "opener" => list[j] = s[j]
<1>1. Len(s) \in Nat
  BY SeqIs
<1>2. IsSeq(list) /\ Len(list) = Len(s)
  BY <1>1, FunctionIs
<1> QED
  BY <1>2

LEMMA WithFrameIs ==
  ASSUME NEW list, IsSeq(list), NEW id, id.of # "opener", NEW frame, NEW seq
  PROVE  /\ IsSeq(WithFrame(list, id, frame, seq))
         /\ \A i \in 1 .. Len(WithFrame(list, id, frame, seq)) :
              WithFrame(list, id, frame, seq)[i].id.of = "opener" =>
                \E j \in 1 .. Len(list) : WithFrame(list, id, frame, seq)[i] = list[j]
<1> DEFINE at == Place(list, id)
           known == IF at # 0 THEN list ELSE Append(list, Message(id, << >>, 0))
           i == IF at # 0 THEN at ELSE Len(known)
           old == known[i]
           new == Message(id, ApplyFrame(old.parts, frame, seq), seq)
           result == WithFrame(list, id, frame, seq)
<1>1. result = list \/ result = [known EXCEPT ![i] = new]
  BY Zenon DEF WithFrame
<1>2. new.id = id /\ Message(id, << >>, 0).id = id
  BY DEF Message
<1>3. known = list \/ known = Append(list, Message(id, << >>, 0))
  OBVIOUS
<1> HIDE DEF at, known, i, old, new, result
<1>4. Len(list) \in Nat
  BY SeqIs
<1>5. /\ IsSeq(known) /\ Len(known) \in Nat
      /\ \A j \in 1 .. Len(known) :
           known[j].id.of = "opener" => j \in 1 .. Len(list) /\ known[j] = list[j]
  <2>1. CASE known = list
    BY <1>4, <2>1
  <2>2. CASE known = Append(list, Message(id, << >>, 0))
    <3>1. PICK added : added = Message(id, << >>, 0)
      OBVIOUS
    <3>2. known = Append(list, added) /\ added.id.of # "opener"
      BY <1>2, <2>2, <3>1
    <3>3. /\ IsSeq(known) /\ Len(known) = Len(list) + 1
          /\ \A j \in 1 .. Len(list) : known[j] = list[j]
          /\ known[Len(list) + 1] = added
      BY <3>2, AppendIs
    <3> QED
      BY <1>4, <3>2, <3>3
  <2> QED
    BY <1>3, <2>1, <2>2
<1>6. CASE result = list
  BY <1>6 DEF result
<1>7. CASE result = [known EXCEPT ![i] = new]
  <2>1. /\ IsSeq(result) /\ Len(result) = Len(known)
        /\ \A j \in 1 .. Len(result) : result[j].id.of = "opener" => result[j] = known[j]
    <3>1. DOMAIN known = 1 .. Len(known)
      BY <1>5, SeqIs
    <3>2. result = [j \in 1 .. Len(known) |-> IF j = i THEN new ELSE known[j]]
      BY <1>7, <3>1
    <3>3. /\ result = [j \in 1 .. Len(known) |-> result[j]]
          /\ \A j \in 1 .. Len(known) : result[j] = new \/ result[j] = known[j]
      BY <3>2, Zenon
    <3> QED
      BY <1>2, <1>5, <3>3, PutIs
  <2>2. ASSUME NEW j \in 1 .. Len(result), result[j].id.of = "opener"
        PROVE  \E l \in 1 .. Len(list) : result[j] = list[l]
    <3>1. j \in 1 .. Len(known) /\ result[j] = known[j] /\ known[j].id.of = "opener"
      BY <2>1, <2>2
    <3>2. j \in 1 .. Len(list) /\ known[j] = list[j]
      BY <1>5, <3>1
    <3> QED
      BY <3>1, <3>2
  <2> QED
    BY <2>1, <2>2 DEF result
<1> QED
  BY <1>1, <1>6, <1>7

LEMMA SendStep ==
  ASSUME ClientInv, SendMessage
  PROVE  ClientInv'
<1> DEFINE n == Len(turns) + 1
           said == Message(Id("local ask", activeId, n), << >>, 0)
<1>1. /\ activeId # None /\ messages' = Shown(activeId, said)
      /\ UNCHANGED <<server, conversations, activeId, cursor, opener, calls>>
  BY DEF SendMessage, serverVars, listVars
<1>2. PICK script :
        turns' = Append(turns, [NoTurn EXCEPT !.conv = activeId, !.at = "posted", !.script = script])
  BY DEF SendMessage
<1>3. PICK c : c = activeId
  OBVIOUS
<1>4. c \in Created /\ c \in Convs
  BY <1>1, <1>3 DEF ClientInv, Opened, Created
<1>5. Grown /\ Rows' /\ DOMAIN server' = Convs
  BY <1>1, RowsStay
<1>6. Functions' /\ Known'
  <2>1. PICK m : m = said
    OBVIOUS
  <2>2. m.id.of # "opener" /\ messages' = Shown(c, m)
    BY <1>1, <1>3, <2>1, IdsAre
  <2> QED
    BY <1>1, <1>4, <1>5, <2>2, ShownStep
<1>7. Requests'
  <2>1. Requests
    BY DEF ClientInv
  <2> QED
    BY <1>1, <1>5, <2>1, SoundStay DEF Requests
<1>8. Opened'
  <2>1. PICK t : t = [NoTurn EXCEPT !.conv = c, !.at = "posted", !.script = script]
    OBVIOUS
  <2>2. DOMAIN t = TurnFields /\ t.conv = c /\ turns' = Append(turns, t)
    BY <1>2, <1>3, <2>1 DEF NoTurn, TurnFields
  <2>3. /\ IsSeq(turns) /\ Len(turns) \in Nat
        /\ \A j \in 1 .. Len(turns) : DOMAIN turns[j] = TurnFields /\ turns[j].conv \in Created'
    BY <1>5, SeqIs, CreatedStays DEF ClientInv, Opened
  <2>4. /\ IsSeq(turns') /\ Len(turns') = Len(turns) + 1
        /\ \A j \in 1 .. Len(turns) : turns'[j] = turns[j]
        /\ turns'[Len(turns) + 1] = t
    BY <2>2, <2>3, AppendIs
  <2>5. ASSUME NEW j \in 1 .. Len(turns')
        PROVE  DOMAIN turns'[j] = TurnFields /\ turns'[j].conv \in Created'
    <3>1. CASE j \in 1 .. Len(turns)
      BY <2>3, <2>4, <3>1
    <3>2. CASE j = Len(turns) + 1
      BY <1>4, <1>5, <2>2, <2>4, <3>2, CreatedStays
    <3> QED
      BY <2>3, <2>4, <3>1, <3>2
  <2>6. /\ IsSeq(conversations') /\ \A i \in 1 .. Len(conversations') : conversations'[i] \in Created'
        /\ activeId' \in Created' \union {None}
    BY <1>1, <1>5, CreatedStays DEF ClientInv, Opened, Listed
  <2> QED
    BY <2>4, <2>5, <2>6 DEF Opened, Listed
<1> QED
  BY <1>5, <1>6, <1>7, <1>8 DEF ClientInv

\* The requests stay when none is touched.
LEMMA CallsStay == ASSUME ClientInv, Grown, UNCHANGED calls PROVE Requests'
<1>1. Requests
  BY DEF ClientInv
<1> QED
  BY <1>1, SoundStay DEF Requests

LEMMA ServerSteps ==
  ASSUME ClientInv, NEW n \in DOMAIN turns, TakeTurn(n) \/ StoreAnswer(n)
  PROVE  ClientInv'
<1> DEFINE c == turns[n].conv
<1>1. /\ UNCHANGED <<conversations, activeId, messages, cursor, opener, calls>>
      /\ \/ /\ server' = [server EXCEPT ![c] = Append(server[c], Row(Id("ask", c, n), << >>))]
            /\ turns' = [turns EXCEPT ![n].at = "streaming"]
         \/ /\ server' = [server EXCEPT ![c] =
                            Append(server[c], Row(Id("answer", c, n), Recorded(turns[n].script)))]
            /\ turns' = [turns EXCEPT ![n].stored = TRUE]
  BY DEF TakeTurn, StoreAnswer, listVars, threadVars
<1>2. c \in Created
  BY TurnIs
<1>3. TurnsKept
  BY <1>1, OneTurnKept
<1>4. PICK fresh : fresh.id.of # "opener" /\ server' = [server EXCEPT ![c] = Append(server[c], fresh)]
  <2>1. PICK ask, answer : /\ ask = Row(Id("ask", c, n), << >>)
                           /\ answer = Row(Id("answer", c, n), Recorded(turns[n].script))
    OBVIOUS
  <2>2. ask.id.of # "opener" /\ answer.id.of # "opener"
    BY <2>1, IdsAre
  <2>3. \/ server' = [server EXCEPT ![c] = Append(server[c], ask)]
        \/ server' = [server EXCEPT ![c] = Append(server[c], answer)]
    BY <1>1, <2>1, Zenon
  <2> QED
    BY <2>2, <2>3, Zenon
<1>5. Grown /\ Rows' /\ DOMAIN server' = Convs
  <2>1. PICK d : d = c
    OBVIOUS
  <2>2. d \in Created /\ server' = [server EXCEPT ![d] = Append(server[d], fresh)]
    BY <1>2, <1>4, <2>1
  <2> QED
    BY <1>4, <2>2, RowAdded
<1> QED
  BY <1>1, <1>3, <1>5, NoThread, CallsStay, OneTurn DEF ClientInv

LEMMA ReadStep ==
  ASSUME ClientInv, NEW n \in DOMAIN turns, ReadFrame(n)
  PROVE  ClientInv'
<1> DEFINE t == turns[n]
           seq == t.read + 1
           id == Id("answer", t.conv, n)
<1>1. /\ UNCHANGED <<server, conversations, activeId, cursor, opener, calls>>
      /\ messages' = [messages EXCEPT ![t.conv] = WithFrame(messages[t.conv], id, t.script[seq], seq)]
      /\ turns' = [turns EXCEPT ![n].read = seq,
                                ![n].at = IF seq = Len(t.script) THEN "over" ELSE turns[n].at]
  BY DEF ReadFrame, serverVars, listVars
<1>2. TurnsKept
  BY <1>1, OneTurnKept
<1>3. Grown /\ Rows' /\ DOMAIN server' = Convs
  BY <1>1, RowsStay
<1>4. Functions' /\ Known'
  <2>1. PICK c, frame, q, i : c = t.conv /\ frame = t.script[seq] /\ q = seq /\ i = id
    OBVIOUS
  <2>2. c \in Convs /\ IsSeq(messages[c])
    BY <2>1, TurnIs DEF ClientInv, Known, ThreadOf
  <2>3. i.of # "opener"
    BY <2>1 DEF Id
  <2>4. PICK list : list = WithFrame(messages[c], i, frame, q)
    OBVIOUS
  <2>5. /\ IsSeq(list)
        /\ \A j \in 1 .. Len(list) : list[j].id.of = "opener" =>
             \E l \in 1 .. Len(messages[c]) : list[j] = messages[c][l]
    BY <2>2, <2>3, <2>4, WithFrameIs
  <2>6. messages' = [messages EXCEPT ![c] = list]
    BY <1>1, <2>1, <2>4
  <2> QED
    BY <1>1, <1>3, <2>2, <2>5, <2>6, OneShown
<1> QED
  BY <1>1, <1>2, <1>3, <1>4, CallsStay, OneTurn DEF ClientInv

LEMMA RefuseStep ==
  ASSUME ClientInv, NEW n \in DOMAIN turns, Refuse(n)
  PROVE  ClientInv'
<1>1. /\ UNCHANGED <<server, conversations, activeId, cursor, opener, calls>>
      /\ messages' = Shown(turns[n].conv, Bubble(n))
      /\ turns' = [turns EXCEPT ![n].at = "over",
                     ![n].script = IF turns[n].at = "posted" THEN << >> ELSE turns[n].script]
  BY DEF Refuse, serverVars, listVars
<1>2. TurnsKept
  BY <1>1, OneTurnKept
<1>3. Grown /\ Rows' /\ DOMAIN server' = Convs
  BY <1>1, RowsStay
<1>4. PICK c, m : c = turns[n].conv /\ m = Bubble(n)
  OBVIOUS
<1>5. c \in Convs /\ m.id.of # "opener" /\ messages' = Shown(c, m)
  BY <1>1, <1>4, TurnIs, BubbleIs
<1>6. Functions' /\ Known'
  BY <1>1, <1>3, <1>5, ShownStep
<1> QED
  BY <1>1, <1>2, <1>3, <1>6, CallsStay, OneTurn DEF ClientInv

LEMMA CutStep ==
  ASSUME ClientInv, NEW n \in DOMAIN turns, Cut(n) \/ EndEarly(n)
  PROVE  ClientInv'
<1>1. /\ UNCHANGED <<server, conversations, activeId, messages, cursor, opener, calls>>
      /\ \E at \in {"cut", "ended"} : turns' = [turns EXCEPT ![n].at = at]
  BY DEF Cut, EndEarly, serverVars, listVars, threadVars
<1> QED
  BY <1>1, OneTurnKept, RowsStay, NoThread, CallsStay, OneTurn DEF ClientInv

LEMMA ReconcileStep ==
  ASSUME ClientInv, NEW n \in DOMAIN turns, NEW ok \in BOOLEAN, Reconcile(n, ok)
  PROVE  ClientInv'
<1> DEFINE t == turns[n]
           recovered == IF ok THEN GetTurn(n) ELSE << >>
           at == Place(messages[t.conv], Id("answer", t.conv, n))
<1>1. /\ UNCHANGED <<server, conversations, activeId, cursor, opener, calls>>
      /\ turns' = [turns EXCEPT ![n].at = "over"]
  BY DEF Reconcile, serverVars, listVars
<1>2. \/ messages' = Shown(t.conv, Bubble(n))
      \/ recovered # << >> /\ messages' = [messages EXCEPT ![t.conv][at] = recovered[1]]
      \/ recovered # << >> /\ messages' = Shown(t.conv, recovered[1])
  BY Zenon DEF Reconcile
<1>3. ASSUME recovered # << >>
      PROVE  recovered[1].id.of # "opener"
  <2>1. recovered = <<Message(Id("answer", t.conv, n), Recorded(t.script), 0)>>
    BY <1>3 DEF GetTurn
  <2>2. recovered[1] = Message(Id("answer", t.conv, n), Recorded(t.script), 0)
    BY <2>1
  <2> QED
    BY <2>2, IdsAre
<1>4. PICK c, m, bubble, i : c = t.conv /\ m = recovered[1] /\ bubble = Bubble(n) /\ i = at
  OBVIOUS
<1>5. /\ c \in Convs /\ bubble.id.of # "opener"
      /\ \/ messages' = Shown(c, bubble)
         \/ m.id.of # "opener" /\ messages' = [messages EXCEPT ![c][i] = m]
         \/ m.id.of # "opener" /\ messages' = Shown(c, m)
  BY <1>2, <1>3, <1>4, TurnIs, BubbleIs
<1> HIDE DEF t, recovered, at
<1>6. TurnsKept
  BY <1>1, OneTurnKept
<1>7. Grown /\ Rows' /\ DOMAIN server' = Convs
  BY <1>1, RowsStay
<1>8. Functions' /\ Known'
  <2>1. CASE messages' = Shown(c, bubble)
    BY <1>1, <1>5, <1>7, <2>1, ShownStep
  <2>2. CASE m.id.of # "opener" /\ messages' = Shown(c, m)
    BY <1>1, <1>5, <1>7, <2>2, ShownStep
  <2>3. CASE m.id.of # "opener" /\ messages' = [messages EXCEPT ![c][i] = m]
    <3>1. PICK s, list : s = messages[c] /\ list = [s EXCEPT ![i] = m]
      OBVIOUS
    <3>2. IsSeq(s) /\ messages' = [messages EXCEPT ![c] = list]
      BY <1>5, <2>3, <3>1 DEF ClientInv, Known, ThreadOf
    <3>3. /\ IsSeq(list) /\ Len(list) = Len(s)
          /\ \A j \in 1 .. Len(list) : list[j].id.of = "opener" => list[j] = s[j]
      <4>1. DOMAIN s = 1 .. Len(s)
        BY <3>2, SeqIs
      <4>2. list = [j \in 1 .. Len(s) |-> IF j = i THEN m ELSE s[j]]
        BY <3>1, <4>1
      <4>3. /\ list = [j \in 1 .. Len(s) |-> list[j]]
            /\ \A j \in 1 .. Len(s) : list[j] = m \/ list[j] = s[j]
        BY <4>2, Zenon
      <4> QED
        BY <2>3, <3>2, <4>3, PutIs
    <3>4. \A j \in 1 .. Len(list) : list[j].id.of = "opener" =>
            \E l \in 1 .. Len(messages[c]) : list[j] = messages[c][l]
      BY <3>1, <3>3
    <3> QED
      BY <1>1, <1>5, <1>7, <3>2, <3>3, <3>4, OneShown
  <2> QED
    BY <1>5, <2>1, <2>2, <2>3
<1> QED
  BY <1>1, <1>6, <1>7, <1>8, CallsStay, OneTurn DEF ClientInv

-----------------------------------------------------------------------------
LEMMA ClientInvNext == ClientInv /\ [Next]_vars => ClientInv'
<1> SUFFICES ASSUME ClientInv, [Next]_vars PROVE ClientInv'
  OBVIOUS
<1>1. CASE UNCHANGED vars
  <2>1. UNCHANGED <<server, conversations, activeId, messages, cursor, opener, calls, turns>>
    BY <1>1 DEF vars, serverVars, listVars, threadVars
  <2> QED
    BY <2>1, SameTurns, RowsStay, NoThread, CallsStay, OneTurn DEF ClientInv
<1>2. CASE \/ Bootstrap \/ NewConversation \/ LoadMoreConversations
           \/ \E c \in Convs : OpenConversation(c) \/ LoadEarlierMessages(c)
  BY <1>2, AskSteps
<1>3. CASE SendMessage
  BY <1>3, SendStep
<1>4. ASSUME NEW k \in DOMAIN calls,
             \/ Serve(k) \/ Fail(k) \/ LandList(k) \/ LandCreate(k) \/ LandOpen(k)
             \/ LandEarlier(k) \/ LandMore(k)
      PROVE  ClientInv'
  BY <1>4, ServeStep, FailStep, LandListStep, LandCreateStep, LandOpenStep, LandEarlierStep,
     LandMoreStep
<1>5. ASSUME NEW n \in DOMAIN turns,
             \/ TakeTurn(n) \/ StoreAnswer(n) \/ ReadFrame(n) \/ Refuse(n) \/ Cut(n)
             \/ EndEarly(n) \/ \E ok \in BOOLEAN : Reconcile(n, ok)
      PROVE  ClientInv'
  BY <1>5, ServerSteps, ReadStep, RefuseStep, CutStep, ReconcileStep
<1> QED
  BY <1>1, <1>2, <1>3, <1>4, <1>5 DEF Next

\* Feedback is offered on every answer of a loaded thread and never on its opener, for any
\* conversations, page sizes and turns, however the requests for their pages overlap and fail.
THEOREM ThumbsAreRight == Spec => []ThumbsFollowTheOpener
<1>1. Init => ClientInv
  BY ClientInvInit
<1>2. ClientInv /\ [Next]_vars => ClientInv'
  BY ClientInvNext
<1>3. ClientInv => ThumbsFollowTheOpener
  BY ThumbsFollow
<1> QED
  BY <1>1, <1>2, <1>3, PTL DEF Spec

-----------------------------------------------------------------------------
(* The chunks of a stream.                                                  *)

ToChunks == INSTANCE FoldFacts WITH Op <- Translate

Types == {"start", "data", "text-start", "text-delta", "text-end", "finish", "error"}
Chunks == [type : Types, id : Nat]
InText == {"text-start", "text-delta"}
OfText == {"text-delta", "text-end"}

\* What ChunksWellFormed says of the chunks but the last one.
Readable(out) ==
  /\ out \in Seq(Chunks)
  /\ \A i \in 1 .. Len(out) :
       /\ out[i].type \in OfText => i > 1 /\ out[i - 1].type \in InText /\ out[i].id = out[i - 1].id
       /\ out[i].type \in InText /\ i < Len(out) => out[i + 1].type \in OfText \union {"error"}
       /\ \A j \in 1 .. Len(out) :
            out[i].type = "text-start" /\ out[j].type = "text-start" /\ i # j => out[i].id # out[j].id
       /\ out[i].type = "finish" => \A j \in i + 1 .. Len(out) : out[j].type = "error"

\* A chunk may follow what was sent.
Fits(out, x) ==
  LET last == out[Len(out)]
  IN  /\ x \in Chunks
      /\ x.type \in OfText => Len(out) > 0 /\ last.type \in InText /\ last.id = x.id
      /\ Len(out) > 0 /\ last.type \in InText => x.type \in OfText \union {"error"}
      /\ x.type = "text-start" =>
           \A i \in 1 .. Len(out) : out[i].type = "text-start" => out[i].id # x.id
      /\ x.type # "error" => \A i \in 1 .. Len(out) : out[i].type # "finish"

LEMMA ReadableGrows ==
  ASSUME NEW out, Readable(out), NEW x, Fits(out, x)
  PROVE  Readable(Append(out, x))
<1> DEFINE n == Len(out)
           more == Append(out, x)
<1>1. /\ n \in Nat /\ more \in Seq(Chunks) /\ Len(more) = n + 1 /\ more[n + 1] = x
      /\ \A i \in 1 .. n : more[i] = out[i]
  BY DEF Readable, Fits
<1>2. Fits(out, x)
  OBVIOUS
<1> HIDE DEF more, n
<1>3. ASSUME NEW i \in 1 .. n + 1
      PROVE  /\ more[i].type \in OfText =>
                  i > 1 /\ more[i - 1].type \in InText /\ more[i].id = more[i - 1].id
             /\ more[i].type \in InText /\ i < n + 1 => more[i + 1].type \in OfText \union {"error"}
             /\ \A j \in 1 .. n + 1 :
                  more[i].type = "text-start" /\ more[j].type = "text-start" /\ i # j =>
                    more[i].id # more[j].id
             /\ more[i].type = "finish" => \A j \in i + 1 .. n + 1 : more[j].type = "error"
  <2>1. CASE i \in 1 .. n
    <3>1. more[i] = out[i] /\ (i > 1 => i - 1 \in 1 .. n /\ more[i - 1] = out[i - 1])
      BY <1>1, <2>1
    <3>2. more[i].type \in OfText =>
            i > 1 /\ more[i - 1].type \in InText /\ more[i].id = more[i - 1].id
      BY <2>1, <3>1 DEF Readable, n
    <3>3. more[i].type \in InText /\ i < n + 1 => more[i + 1].type \in OfText \union {"error"}
      <4>1. CASE i = n
        BY <1>1, <1>2, <2>1, <3>1, <4>1 DEF Fits, n
      <4>2. CASE i < n
        <5>1. i + 1 \in 1 .. n
          BY <1>1, <2>1, <4>2
        <5> QED
          BY <1>1, <2>1, <3>1, <4>2, <5>1 DEF Readable, n
      <4> QED
        BY <1>1, <2>1, <4>1, <4>2
    <3>4. ASSUME NEW j \in 1 .. n + 1, more[i].type = "text-start", more[j].type = "text-start", i # j
          PROVE  more[i].id # more[j].id
      <4>1. CASE j = n + 1
        BY <1>1, <1>2, <2>1, <3>1, <3>4, <4>1 DEF Fits, n
      <4>2. CASE j \in 1 .. n
        BY <1>1, <2>1, <3>1, <3>4, <4>2 DEF Readable, n
      <4> QED
        BY <1>1, <4>1, <4>2
    <3>5. ASSUME more[i].type = "finish", NEW j \in i + 1 .. n + 1 PROVE more[j].type = "error"
      <4>1. CASE j = n + 1
        BY <1>1, <1>2, <2>1, <3>1, <3>5, <4>1 DEF Fits, n
      <4>2. CASE j \in i + 1 .. n
        <5>1. j \in 1 .. n
          BY <1>1, <2>1, <4>2
        <5> QED
          BY <1>1, <2>1, <3>1, <3>5, <4>2, <5>1 DEF Readable, n
      <4> QED
        BY <1>1, <2>1, <4>1, <4>2
    <3> QED
      BY <3>2, <3>3, <3>4, <3>5
  <2>2. CASE i = n + 1
    <3>1. more[i] = x /\ ~(i < n + 1) /\ i + 1 .. n + 1 = {}
      BY <1>1, <2>2
    <3>2. more[i].type \in OfText =>
            i > 1 /\ more[i - 1].type \in InText /\ more[i].id = more[i - 1].id
      BY <1>1, <1>2, <2>2, <3>1 DEF Fits, n
    <3>3. ASSUME NEW j \in 1 .. n + 1, more[i].type = "text-start", more[j].type = "text-start", i # j
          PROVE  more[i].id # more[j].id
      BY <1>1, <1>2, <2>2, <3>1, <3>3 DEF Fits, n
    <3> QED
      BY <3>1, <3>2, <3>3
  <2> QED
    BY <1>1, <2>1, <2>2
<1>4. Readable(more)
  BY <1>1, <1>3 DEF Readable
<1> QED
  BY <1>4 DEF more

\* The state of a translator that has seen no terminal frame: a run is open just when the last
\* chunk is of a run, and the runs are numbered as they are opened.
Translators == [open : Nat, runs : Nat, finished : BOOLEAN, out : Seq(Chunks)]
Telling(tr) ==
  LET n == Len(tr.out)
  IN  /\ tr \in Translators /\ ~tr.finished /\ Readable(tr.out)
      /\ tr.open # 0 <=> n > 0 /\ tr.out[n].type \in InText
      /\ tr.open # 0 => tr.out[n].id = tr.open
      /\ \A i \in 1 .. n : /\ tr.out[i].type \notin {"finish", "error"}
                           /\ tr.out[i].type = "text-start" => tr.out[i].id <= tr.runs

\* What is told stays told with a chunk that fits.
Sent(tr, x, open, runs) == [tr EXCEPT !.open = open, !.runs = runs, !.out = Append(tr.out, x)]
Sendable(tr, x, open, runs) ==
  /\ Fits(tr.out, x) /\ x.type \notin {"finish", "error"}
  /\ open \in Nat /\ runs \in Nat /\ runs >= tr.runs
  /\ open # 0 <=> x.type \in InText
  /\ open # 0 => x.id = open
  /\ x.type = "text-start" => x.id <= runs

LEMMA TellingMore ==
  ASSUME NEW tr, Telling(tr), NEW x, NEW open, NEW runs, Sendable(tr, x, open, runs)
  PROVE  Telling(Sent(tr, x, open, runs))
<1> DEFINE new == Sent(tr, x, open, runs)
           n == Len(tr.out)
<1> USE DEF Sent, Sendable
<1>1. /\ n \in Nat /\ Append(tr.out, x) \in Seq(Chunks) /\ Len(Append(tr.out, x)) = n + 1
      /\ Append(tr.out, x)[n + 1] = x
      /\ \A i \in 1 .. n : Append(tr.out, x)[i] = tr.out[i]
  BY DEF Telling, Translators, Fits
<1>2. /\ new \in Translators /\ new.out = Append(tr.out, x) /\ new.finished = tr.finished
      /\ new.open = open /\ new.runs = runs
  BY <1>1 DEF Telling, Translators
<1>3. Readable(new.out)
  BY <1>2, ReadableGrows DEF Telling
<1> HIDE DEF new
<1>4. ASSUME NEW i \in 1 .. n + 1
      PROVE  /\ new.out[i].type \notin {"finish", "error"}
             /\ new.out[i].type = "text-start" => new.out[i].id <= runs
  <2>1. CASE i = n + 1
    BY <1>1, <1>2, <2>1
  <2>2. CASE i \in 1 .. n
    <3>1. /\ tr.out[i].type \notin {"finish", "error"}
          /\ tr.out[i].type = "text-start" => tr.out[i].id <= tr.runs
      BY <2>2 DEF Telling
    <3>2. tr.out[i].id \in Nat /\ tr.runs \in Nat
      <4>1. tr.out \in Seq(Chunks) /\ tr.runs \in Nat
        BY DEF Telling, Translators
      <4>2. tr.out[i] \in Chunks
        BY <2>2, <4>1
      <4> QED
        BY <4>1, <4>2 DEF Chunks
    <3> QED
      BY <1>1, <1>2, <2>2, <3>1, <3>2
  <2> QED
    BY <1>1, <2>1, <2>2
<1>5. Telling(new)
  BY <1>1, <1>2, <1>3, <1>4 DEF Telling
<1> QED
  BY <1>5 DEF new

LEMMA ChunkIs ==
  ASSUME NEW type \in Types, NEW id \in Nat
  PROVE  Chunk(type, id) \in Chunks /\ Chunk(type, id).type = type /\ Chunk(type, id).id = id
BY DEF Chunk, Chunks

\* With no run open, whatever is not of a run fits; an error fits after anything.
LEMMA OthersFit ==
  ASSUME NEW tr, Telling(tr), NEW x \in Chunks, x.type \notin OfText \union {"text-start"},
         tr.open = 0 \/ x.type = "error"
  PROVE  Fits(tr.out, x)
BY DEF Telling, Fits, OfText

LEMMA CloseTells ==
  ASSUME NEW tr, Telling(tr), NEW name
  PROVE  Telling(CloseText(tr, name)) /\ CloseText(tr, name).open = 0
<1>1. CASE tr.open = 0
  BY <1>1 DEF CloseText
<1>2. CASE tr.open # 0
  <2> DEFINE x == Chunk("text-end", tr.open)
             new == Sent(tr, x, 0, tr.runs)
  <2>1. tr \in Translators /\ tr.open \in Nat /\ tr.runs \in Nat
    BY DEF Telling, Translators
  <2>2. x \in Chunks /\ x.type = "text-end" /\ x.id = tr.open
    BY <2>1, ChunkIs DEF Types
  <2>3. CloseText(tr, name) = new /\ new.open = 0
    BY <1>2, <2>1 DEF CloseText, Translators, Sent
  <2> HIDE DEF x
  <2>4. Fits(tr.out, x)
    BY <1>2, <2>2 DEF Telling, Fits, OfText
  <2>5. Sendable(tr, x, 0, tr.runs)
    BY <2>1, <2>2, <2>4 DEF Sendable, InText
  <2>6. Telling(new)
    BY <2>5, TellingMore
  <2> QED
    BY <2>3, <2>6
<1> QED
  BY <1>1, <1>2

LEMMA TokenTells ==
  ASSUME NEW tr, Telling(tr)
  PROVE  Telling(TranslateToken(tr))
<1>1. tr \in Translators /\ tr.open \in Nat /\ tr.runs \in Nat /\ tr.out \in Seq(Chunks)
  BY DEF Telling, Translators
<1>2. CASE tr.open # 0
  <2> DEFINE x == Chunk("text-delta", tr.open)
             new == Sent(tr, x, tr.open, tr.runs)
  <2>1. x \in Chunks /\ x.type = "text-delta" /\ x.id = tr.open
    BY <1>1, ChunkIs DEF Types
  <2>2. tr.out \o << >> \o <<x>> = Append(tr.out, x)
    BY <1>1, <2>1
  <2>3. TranslateToken(tr) = new
    BY <1>1, <1>2, <2>2 DEF TranslateToken, Translators, Sent
  <2> HIDE DEF x
  <2>4. Fits(tr.out, x)
    BY <1>2, <2>1 DEF Telling, Fits, OfText
  <2>5. Sendable(tr, x, tr.open, tr.runs)
    BY <1>1, <1>2, <2>1, <2>4 DEF Sendable, InText
  <2>6. Telling(new)
    BY <2>5, TellingMore
  <2> QED
    BY <2>3, <2>6
<1>3. CASE tr.open = 0
  <2> DEFINE run == tr.runs + 1
             start == Chunk("text-start", run)
             delta == Chunk("text-delta", run)
             mid == Sent(tr, start, run, run)
             new == Sent(mid, delta, run, run)
  <2>1. /\ run \in Nat /\ run # 0 /\ start \in Chunks /\ start.type = "text-start" /\ start.id = run
        /\ delta \in Chunks /\ delta.type = "text-delta" /\ delta.id = run
    BY <1>1, ChunkIs DEF Types
  <2>2. tr.out \o <<start>> \o <<delta>> = Append(Append(tr.out, start), delta)
    BY <1>1, <2>1
  <2>3. /\ mid.out = Append(tr.out, start) /\ mid.open = run /\ mid.runs = run
        /\ new = [tr EXCEPT !.open = run, !.runs = run, !.out = Append(Append(tr.out, start), delta)]
    BY <1>1 DEF Translators, Sent
  <2>4. TranslateToken(tr) = new
    <3> HIDE DEF new, mid
    <3> QED
      BY <1>1, <1>3, <2>2, <2>3 DEF TranslateToken, Translators
  <2> HIDE DEF run, start, delta
  <2>5. Fits(tr.out, start)
    <3>1. ASSUME NEW i \in 1 .. Len(tr.out), tr.out[i].type = "text-start" PROVE tr.out[i].id # run
      <4>1. tr.out[i] \in Chunks
        BY <1>1
      <4>2. tr.out[i].id \in Nat /\ tr.out[i].id <= tr.runs
        BY <3>1, <4>1 DEF Telling, Chunks
      <4> QED
        BY <1>1, <4>2 DEF run
    <3> QED
      BY <1>3, <2>1, <3>1 DEF Telling, Fits, OfText
  <2>6. Telling(mid)
    <3>1. run >= tr.runs
      BY <1>1 DEF run
    <3>2. Sendable(tr, start, run, run)
      BY <1>1, <2>1, <2>5, <3>1 DEF Sendable, InText
    <3> QED
      BY <3>2, TellingMore
  <2> HIDE DEF mid
  <2>7. Fits(mid.out, delta)
    BY <2>1, <2>3, <2>6 DEF Telling, Fits, OfText
  <2>8. Telling(new)
    <3>1. Sendable(mid, delta, run, run)
      BY <2>1, <2>3, <2>7 DEF Sendable, InText
    <3> QED
      BY <2>6, <3>1, TellingMore
  <2> QED
    BY <2>4, <2>8
<1> QED
  BY <1>2, <1>3

\* A chunk of none of the runs, with no run open.
LEMMA DataTells ==
  ASSUME NEW tr, Telling(tr), tr.open = 0, NEW x \in Chunks, x.type \in {"start", "data"}
  PROVE  Telling([tr EXCEPT !.out = Append(tr.out, x)])
<1>1. tr \in Translators /\ tr.runs \in Nat
  BY DEF Telling, Translators
<1>2. Fits(tr.out, x)
  BY OthersFit DEF OfText
<1>3. Telling(Sent(tr, x, 0, tr.runs))
  <2>1. Sendable(tr, x, 0, tr.runs)
    BY <1>1, <1>2 DEF Sendable, InText
  <2> QED
    BY <2>1, TellingMore
<1>4. Sent(tr, x, 0, tr.runs) =
        [tr EXCEPT !.out = Append(tr.out, x)]
  BY <1>1 DEF Translators, Telling, Sent
<1> QED
  BY <1>3, <1>4

LEMMA FrameTells ==
  ASSUME NEW tr, Telling(tr), NEW frame \in Frames, frame.name \notin Terminals
  PROVE  Telling(Translate(tr, frame))
<1>1. CASE frame.name = "token"
  BY <1>1, TokenTells DEF Translate
<1>2. CASE frame.name # "token"
  <2> DEFINE closed == CloseText(tr, frame.name)
             x == IF frame.name = "accepted" THEN Chunk("start", 0) ELSE Chunk("data", frame.tool)
  <2>1. Telling(closed) /\ closed.open = 0 /\ frame.tool \in Nat
    BY CloseTells DEF Frames
  <2> HIDE DEF closed
  <2>2. closed \in Translators /\ closed.finished = FALSE /\ closed.out \in Seq(Chunks)
    BY <2>1 DEF Telling, Translators
  <2>3. x \in Chunks /\ x.type \in {"start", "data"}
    BY <2>1, ChunkIs DEF Types
  <2>4. closed.out \o <<x>> = Append(closed.out, x)
    BY <2>2, <2>3
  <2>5. Translate(tr, frame) = [closed EXCEPT !.finished = FALSE, !.out = closed.out \o <<x>>]
    BY <1>2, <2>2 DEF Translate, closed, Terminals
  <2> HIDE DEF x
  <2>6. [closed EXCEPT !.finished = FALSE, !.out = closed.out \o <<x>>] =
          [closed EXCEPT !.out = Append(closed.out, x)]
    BY <2>2, <2>4 DEF Translators
  <2> QED
    BY <2>1, <2>3, <2>5, <2>6, DataTells
<1> QED
  BY <1>1, <1>2

\* The terminal frame ends what is told with a finish.
Ended(tr) ==
  /\ tr.finished /\ Readable(tr.out)
  /\ Len(tr.out) > 0 /\ tr.out[Len(tr.out)].type = "finish"

LEMMA TerminalEnds ==
  ASSUME NEW tr, Telling(tr), NEW frame \in Frames, frame.name \in Terminals
  PROVE  Ended(Translate(tr, frame))
<1> DEFINE closed == CloseText(tr, frame.name)
           data == Chunk("data", 0)
           finish == Chunk("finish", 0)
           mid == IF frame.name = "error" THEN [closed EXCEPT !.out = Append(closed.out, data)] ELSE closed
           new == Translate(tr, frame)
<1>1. Telling(closed) /\ closed.open = 0
  BY CloseTells
<1> HIDE DEF closed
<1>2. closed \in Translators /\ closed.finished = FALSE /\ closed.out \in Seq(Chunks)
  BY <1>1 DEF Telling, Translators
<1>3. data \in Chunks /\ finish \in Chunks /\ data.type = "data" /\ finish.type = "finish"
  BY ChunkIs DEF Types
<1> HIDE DEF data, finish
<1>4. Telling(mid) /\ mid.open = 0
  BY <1>1, <1>2, <1>3, DataTells DEF Translators
<1>5. new.finished /\ new.out = Append(mid.out, finish)
  <2>1. CASE frame.name = "done"
    <3>1. new = [closed EXCEPT !.finished = TRUE, !.out = closed.out \o <<finish>>] /\ mid = closed
      BY <1>2, <2>1 DEF Translate, Terminals, closed, finish, Translators
    <3>2. closed.out \o <<finish>> = Append(closed.out, finish)
      BY <1>2, <1>3
    <3> QED
      BY <1>2, <3>1, <3>2 DEF Translators
  <2>2. CASE frame.name = "error"
    <3>1. closed.out \o <<data, finish>> = Append(Append(closed.out, data), finish)
      BY <1>2, <1>3
    <3>2. new = [closed EXCEPT !.finished = TRUE, !.out = closed.out \o <<data, finish>>]
      BY <1>2, <2>2 DEF Translate, Terminals, closed, finish, data, Translators
    <3> QED
      BY <1>2, <2>2, <3>1, <3>2 DEF Translators
  <2> QED
    BY <2>1, <2>2 DEF Terminals
<1> HIDE DEF mid, new
<1>6. Fits(mid.out, finish)
  BY <1>3, <1>4, OthersFit DEF OfText
<1>7. Readable(new.out)
  BY <1>4, <1>5, <1>6, ReadableGrows DEF Telling
<1>8. mid.out \in Seq(Chunks)
  BY <1>4 DEF Telling, Translators
<1>9. Ended(new)
  BY <1>3, <1>5, <1>7, <1>8 DEF Ended
<1> QED
  BY <1>9 DEF new

\* What the route has read is such a fold.
LEMMA ReadIs == \A s : FoldLeft(Translate, Translator, s) = ToChunks!Folded(Translator, s)
BY DEF FoldLeft, MapThenFoldSet, Max,
       ToChunks!Folded, ToChunks!FoldLeft, ToChunks!MapThenFoldSet, ToChunks!Max

\* What a stream without a terminal frame has been turned into.
LEMMA PrefixTells ==
  ASSUME NEW s \in Seq(Frames), \A i \in 1 .. Len(s) : s[i].name \notin Terminals
  PROVE  Telling(FoldLeft(Translate, Translator, s))
<1> DEFINE T == {f \in Frames : f.name \notin Terminals}
           U == {tr \in Translators : Telling(tr)}
<1>1. s \in Seq(T)
  <2>1. \A i \in 1 .. Len(s) : s[i] \in T
    OBVIOUS
  <2> QED
    BY <2>1
<1>2. Translator \in U
  <2>1. Translator.out = << >> /\ Translator.open = 0 /\ Translator.runs = 0 /\ ~Translator.finished
    BY DEF Translator
  <2>2. Translator \in Translators
    BY DEF Translator, Translators
  <2>3. Readable(<< >>)
    BY DEF Readable
  <2> QED
    BY <2>1, <2>2, <2>3 DEF Telling
<1>3. \A tr \in U, f \in T : Translate(tr, f) \in U
  <2> SUFFICES ASSUME NEW tr \in U, NEW f \in T PROVE Translate(tr, f) \in U
    OBVIOUS
  <2>1. Telling(Translate(tr, f))
    BY FrameTells
  <2> QED
    BY <2>1 DEF Telling
<1> HIDE DEF T, U
<1>4. ToChunks!Folded(Translator, s) \in U
  BY <1>1, <1>2, <1>3, ToChunks!FoldedIn
<1>5. FoldLeft(Translate, Translator, s) \in U
  BY <1>4, ReadIs
<1> QED
  BY <1>5 DEF U

\* A stream that is over ends in a finish or an error.
Complete(out) ==
  /\ Readable(out)
  /\ Len(out) > 0 /\ out[Len(out)].type \in {"finish", "error"}

\* ChunksWellFormed, of some chunks.
WellFormed(out) ==
  LET type(i) == out[i].type
      opens(i) == type(i) = "text-start"
  IN  /\ type(Len(out)) \in {"finish", "error"}
      /\ \A i \in DOMAIN out :
           /\ type(i) \in {"text-delta", "text-end"} =>
                i > 1 /\ type(i - 1) \in {"text-start", "text-delta"} /\ out[i].id = out[i - 1].id
           /\ type(i) \in {"text-start", "text-delta"} =>
                i < Len(out) /\ type(i + 1) \in {"text-delta", "text-end", "error"}
           /\ \A j \in DOMAIN out : opens(i) /\ opens(j) /\ i # j => out[i].id # out[j].id
           /\ type(i) = "finish" => \A j \in (i + 1)..Len(out) : type(j) = "error"

LEMMA CompleteIsWell == ASSUME NEW out, Complete(out) PROVE WellFormed(out)
<1>1. out \in Seq(Chunks) /\ DOMAIN out = 1 .. Len(out) /\ Len(out) \in Nat /\ Readable(out)
  BY DEF Complete, Readable
<1>2. ASSUME NEW i \in DOMAIN out
      PROVE  /\ out[i].type \in {"text-delta", "text-end"} =>
                  i > 1 /\ out[i - 1].type \in {"text-start", "text-delta"} /\ out[i].id = out[i - 1].id
             /\ \A j \in DOMAIN out : out[i].type = "text-start" /\ out[j].type = "text-start" /\ i # j =>
                  out[i].id # out[j].id
             /\ out[i].type = "finish" => \A j \in (i + 1)..Len(out) : out[j].type = "error"
  BY <1>1 DEF Readable, OfText, InText
<1>3. ASSUME NEW i \in DOMAIN out, out[i].type \in {"text-start", "text-delta"}
      PROVE  i < Len(out) /\ out[i + 1].type \in {"text-delta", "text-end", "error"}
  <2>1. i # Len(out)
    BY <1>3 DEF Complete
  <2> QED
    BY <1>1, <1>3, <2>1 DEF Readable, OfText, InText
<1>4. out[Len(out)].type \in {"finish", "error"}
  BY DEF Complete
<1> QED
  BY <1>2, <1>3, <1>4 DEF WellFormed

\* An error chunk completes whatever was sent.
LEMMA ErrorCompletes ==
  ASSUME NEW out, Readable(out)
  PROVE  Complete(Append(out, Chunk("error", 0)))
<1> DEFINE x == Chunk("error", 0)
<1>1. x \in Chunks /\ x.type = "error"
  BY ChunkIs DEF Types
<1> HIDE DEF x
<1>2. Fits(out, x)
  BY <1>1 DEF Fits, OfText
<1>3. Readable(Append(out, x))
  BY <1>2, ReadableGrows
<1>4. out \in Seq(Chunks)
  BY DEF Readable
<1>5. Len(Append(out, x)) > 0 /\ Append(out, x)[Len(Append(out, x))] = x
  BY <1>1, <1>4
<1> QED
  BY <1>1, <1>3, <1>5 DEF Complete, x

\* One terminal frame at most, at the end.
Streamable(s) ==
  s \in Seq(Frames) /\ \A i \in 1 .. Len(s) : s[i].name \in Terminals => i = Len(s)

LEMMA RelayCompletes ==
  ASSUME NEW s, Streamable(s), NEW interrupted \in BOOLEAN
  PROVE  Complete(Relay(s, interrupted))
<1> DEFINE read == FoldLeft(Translate, Translator, s)
<1>1. Telling(read) \/ Ended(read)
  <2>1. CASE \A i \in 1 .. Len(s) : s[i].name \notin Terminals
    BY <2>1, PrefixTells DEF Streamable
  <2>2. CASE \E i \in 1 .. Len(s) : s[i].name \in Terminals
    <3>1. s \in Seq(Frames) /\ Len(s) \in Nat /\ Len(s) > 0 /\ s[Len(s)].name \in Terminals
      BY <2>2 DEF Streamable
    <3>2. PICK b \in Seq(Frames) : Len(b) = Len(s) - 1 /\ s = Append(b, s[Len(s)])
      <4>1. PICK n \in Nat : Len(s) = n + 1
        <5>1. Len(s) - 1 \in Nat /\ Len(s) = (Len(s) - 1) + 1
          BY <3>1
        <5> QED
          BY <5>1
      <4>2. \E b \in Seq(Frames) : Len(b) = n /\ s = Append(b, s[n + 1])
        BY <3>1, <4>1, ToChunks!BeginningAndLast
      <4> QED
        BY <4>1, <4>2
    <3>3. PICK f : f = s[Len(s)]
      OBVIOUS
    <3>4. f \in Frames /\ f.name \in Terminals /\ s = Append(b, f)
      BY <3>1, <3>2, <3>3
    <3>5. \A i \in 1 .. Len(b) : b[i].name \notin Terminals
      <4> SUFFICES ASSUME NEW i \in 1 .. Len(b) PROVE b[i].name \notin Terminals
        OBVIOUS
      <4>1. i \in 1 .. Len(s) /\ i # Len(s) /\ s[i] = b[i]
        BY <3>1, <3>2, <3>4
      <4> QED
        BY <4>1 DEF Streamable
    <3>6. Telling(FoldLeft(Translate, Translator, b))
      BY <3>5, PrefixTells
    <3>7. ToChunks!Folded(Translator, Append(b, f)) = Translate(ToChunks!Folded(Translator, b), f)
      BY ToChunks!FoldedMore
    <3>8. read = Translate(FoldLeft(Translate, Translator, b), f)
      BY <3>4, <3>7, ReadIs DEF read
    <3> QED
      BY <3>4, <3>6, <3>8, TerminalEnds
  <2> QED
    BY <2>1, <2>2
<1> HIDE DEF read
<1>2. CASE interrupted
  <2>1. Readable(read.out)
    BY <1>1 DEF Telling, Ended
  <2>2. Relay(s, interrupted) = Append(read.out, Chunk("error", 0))
    BY <1>2 DEF Relay, read
  <2> QED
    BY <2>1, <2>2, ErrorCompletes
<1>3. CASE ~interrupted /\ Ended(read)
  <2>1. Relay(s, interrupted) = read.out
    BY <1>3 DEF Relay, EndOfStream, Ended, read
  <2> QED
    BY <1>3, <2>1 DEF Ended, Complete
<1>4. CASE ~interrupted /\ Telling(read)
  <2> DEFINE closed == CloseText(read, "end")
  <2>1. Telling(closed)
    BY <1>4, CloseTells
  <2>2. closed \in Translators /\ Readable(closed.out) /\ ~read.finished
    BY <1>4, <2>1 DEF Telling
  <2>3. Relay(s, interrupted) = Append(closed.out, Chunk("error", 0))
    <3>1. Relay(s, interrupted) = EndOfStream(read).out
      BY <1>4 DEF Relay, read
    <3>2. EndOfStream(read) = [closed EXCEPT !.finished = TRUE, !.out = Append(closed.out, Chunk("error", 0))]
      BY <2>2 DEF EndOfStream
    <3> HIDE DEF closed
    <3> QED
      BY <2>2, <3>1, <3>2 DEF Translators
  <2> QED
    BY <2>2, <2>3, ErrorCompletes
<1> QED
  BY <1>1, <1>2, <1>3, <1>4

-----------------------------------------------------------------------------
(* The turns and their streams.                                             *)

\* A turn streams one of the scripts, or has been refused before it was taken.
StreamOf(t) ==
  /\ t.script \in Scripts \union {<< >>}
  /\ t.read \in Nat /\ t.read <= Len(t.script)
  /\ t.at = "posted" => t.read = 0

Streams == \A n \in 1 .. Len(turns) : StreamOf(turns[n])

LEMMA ScriptIs ==
  ASSUME NEW s \in Scripts \union {<< >>}
  PROVE  Streamable(s) /\ Len(s) \in Nat
<1>1. CASE s = << >>
  BY <1>1 DEF Streamable
<1>2. CASE s \in Scripts
  BY <1>2, ClientAssumption DEF ClientAssumption, Streamable
<1> QED
  BY <1>1, <1>2

\* A turn that is as it was but for what its stream does not depend on.
LEMMA SameStream ==
  ASSUME NEW t, NEW u, StreamOf(t), u.script = t.script, u.read = t.read,
         u.at = "posted" => t.at = "posted"
  PROVE  StreamOf(u)
BY DEF StreamOf

LEMMA StreamsNext == ClientInv /\ Streams /\ [Next]_vars => Streams'
<1> SUFFICES ASSUME ClientInv, Streams, [Next]_vars PROVE Streams'
  OBVIOUS
<1>1. IsSeq(turns) /\ Len(turns) \in Nat /\ DOMAIN turns = 1 .. Len(turns)
  BY SeqIs DEF ClientInv, Opened
<1>2. ASSUME turns' = turns PROVE Streams'
  BY <1>2 DEF Streams
<1>3. ASSUME NEW c, turns' = Reloaded(c) PROVE Streams'
  <2>1. turns' = [n \in 1 .. Len(turns) |->
          IF turns[n].conv = c THEN [turns[n] EXCEPT !.reloaded = TRUE] ELSE turns[n]]
    BY <1>1, <1>3 DEF Reloaded
  <2>2. IsSeq(turns') /\ Len(turns') = Len(turns)
    BY <1>1, <1>3, <2>1, ReloadedIs, FunctionIs DEF TurnsKept
  <2>3. ASSUME NEW n \in 1 .. Len(turns) PROVE StreamOf(turns'[n])
    <3>1. /\ turns'[n].script = turns[n].script /\ turns'[n].read = turns[n].read
          /\ turns'[n].at = turns[n].at
      BY <2>1
    <3> QED
      BY <3>1, SameStream DEF Streams
  <2> QED
    BY <2>2, <2>3 DEF Streams
<1>4. ASSUME NEW n \in DOMAIN turns, NEW t, turns' = [turns EXCEPT ![n] = t], StreamOf(t)
      PROVE  Streams'
  <2>1. /\ Len(turns') = Len(turns)
        /\ \A j \in 1 .. Len(turns) : turns'[j] = IF j = n THEN t ELSE turns[j]
    BY <1>1, <1>4, ExceptIs
  <2> QED
    BY <1>4, <2>1 DEF Streams
<1>5. CASE SendMessage
  <2>1. PICK script \in Scripts :
          turns' = Append(turns, [NoTurn EXCEPT !.conv = activeId, !.at = "posted", !.script = script])
    BY <1>5 DEF SendMessage
  <2>2. PICK t : t = [NoTurn EXCEPT !.conv = activeId, !.at = "posted", !.script = script]
    OBVIOUS
  <2>3. t.script = script /\ t.read = 0 /\ Len(script) \in Nat
    BY <2>2, ScriptIs DEF NoTurn
  <2>4. StreamOf(t)
    BY <2>3 DEF StreamOf
  <2>5. /\ Len(turns') = Len(turns) + 1 /\ turns'[Len(turns) + 1] = t
        /\ \A j \in 1 .. Len(turns) : turns'[j] = turns[j]
    BY <1>1, <2>1, <2>2, AppendIs
  <2>6. \A j \in 1 .. Len(turns') : j \in 1 .. Len(turns) \/ j = Len(turns) + 1
    BY <1>1, <2>5
  <2> QED
    BY <2>4, <2>5, <2>6 DEF Streams
<1>6. ASSUME NEW n \in DOMAIN turns,
             \/ TakeTurn(n) \/ StoreAnswer(n) \/ ReadFrame(n) \/ Refuse(n) \/ Cut(n)
             \/ EndEarly(n) \/ \E ok \in BOOLEAN : Reconcile(n, ok)
      PROVE  Streams'
  <2> DEFINE t == turns[n]
  <2>1. StreamOf(t) /\ DOMAIN t = TurnFields /\ Len(t.script) \in Nat
    BY TurnIs, ScriptIs DEF Streams, StreamOf
  <2>2. CASE ReadFrame(n)
    <3> DEFINE u == [t EXCEPT !.read = t.read + 1,
                              !.at = IF t.read + 1 = Len(t.script) THEN "over" ELSE t.at]
    <3>1. t.at = "streaming" /\ t.read + 1 <= Len(t.script) /\ turns' = [turns EXCEPT ![n] = u]
      BY <1>1, <2>2 DEF ReadFrame
    <3>2. u.script = t.script /\ u.read = t.read + 1 /\ u.at # "posted"
      BY <2>1, <3>1 DEF TurnFields
    <3> HIDE DEF u
    <3>3. StreamOf(u)
      BY <2>1, <3>1, <3>2 DEF StreamOf
    <3> QED
      BY <1>4, <3>1, <3>3
  <2>3. CASE Refuse(n)
    <3> DEFINE u == [t EXCEPT !.at = "over", !.script = IF t.at = "posted" THEN << >> ELSE t.script]
    <3>1. turns' = [turns EXCEPT ![n] = u]
      BY <1>1, <2>3 DEF Refuse
    <3>2. /\ u.script = (IF t.at = "posted" THEN << >> ELSE t.script)
          /\ u.read = t.read /\ u.at = "over"
      BY <2>1 DEF TurnFields
    <3> HIDE DEF u
    <3>3. StreamOf(u)
      BY <2>1, <3>2 DEF StreamOf
    <3> QED
      BY <1>4, <3>1, <3>3
  <2>4. CASE \/ TakeTurn(n) \/ StoreAnswer(n) \/ Cut(n) \/ EndEarly(n)
             \/ \E ok \in BOOLEAN : Reconcile(n, ok)
    <3>1. PICK u : /\ turns' = [turns EXCEPT ![n] = u]
                   /\ \/ u = [t EXCEPT !.stored = TRUE]
                      \/ \E at \in {"streaming", "cut", "ended", "over"} :
                           u = [t EXCEPT !.at = at]
      BY <2>4 DEF TakeTurn, StoreAnswer, Cut, EndEarly, Reconcile
    <3>2. u.script = t.script /\ u.read = t.read /\ (u.at = "posted" => t.at = "posted")
      BY <2>1, <3>1 DEF TurnFields
    <3> HIDE DEF t
    <3>3. StreamOf(u)
      BY <2>1, <3>2, SameStream
    <3> QED
      BY <1>4, <3>1, <3>3
  <2> QED
    BY <1>6, <2>2, <2>3, <2>4
<1>7. ASSUME NEW k \in DOMAIN calls,
             \/ Serve(k) \/ Fail(k) \/ LandList(k) \/ LandCreate(k) \/ LandOpen(k)
             \/ LandEarlier(k) \/ LandMore(k)
      PROVE  Streams'
  <2>1. turns' = turns \/ \E c : turns' = Reloaded(c)
    BY <1>7 DEF Serve, Fail, LandList, LandCreate, LandOpen, LandEarlier, LandMore
  <2> QED
    BY <1>2, <1>3, <2>1
<1>8. CASE \/ UNCHANGED vars \/ Bootstrap \/ NewConversation \/ LoadMoreConversations
           \/ \E c \in Convs : OpenConversation(c) \/ LoadEarlierMessages(c)
  BY <1>2, <1>8 DEF vars, Bootstrap, NewConversation, LoadMoreConversations, OpenConversation,
     LoadEarlierMessages
<1> QED
  BY <1>5, <1>6, <1>7, <1>8 DEF Next

\* What the Next.js tier makes of the stream of a turn, complete or broken anywhere, is a stream
\* the UI can read, for any turns of one terminal frame: text lies in an open run, a run is opened
\* once and closed before anything else but an error, and nothing follows a finish but an error
\* (createFrameTranslator and the route).
THEOREM ChunksAreReadable == Spec => []ChunksWellFormed
<1>1. Init => ClientInv /\ Streams
  <2> SUFFICES ASSUME Init PROVE ClientInv /\ Streams
    OBVIOUS
  <2>1. turns = << >>
    BY DEF Init
  <2> QED
    BY <2>1, ClientInvInit DEF Streams
<1>2. (ClientInv /\ Streams) /\ [Next]_vars => (ClientInv /\ Streams)'
  BY ClientInvNext, StreamsNext
<1>3. ClientInv /\ Streams => ChunksWellFormed
  <2> SUFFICES ASSUME ClientInv, Streams PROVE ChunksWellFormed
    OBVIOUS
  <2>1. ASSUME NEW n \in DOMAIN turns, NEW interrupted \in BOOLEAN
        PROVE  WellFormed(Relay(SubSeq(turns[n].script, 1, turns[n].read), interrupted))
    <3>1. StreamOf(turns[n])
      BY TurnIs DEF Streams
    <3>2. PICK s, m : s = turns[n].script /\ m = turns[n].read
      OBVIOUS
    <3>3. Streamable(s) /\ m \in Nat /\ m <= Len(s)
      BY <3>1, <3>2, ScriptIs DEF StreamOf
    <3>4. /\ SubSeq(s, 1, m) \in Seq(Frames) /\ Len(SubSeq(s, 1, m)) = m
          /\ \A i \in 1 .. m : SubSeq(s, 1, m)[i] = s[i]
      BY <3>3 DEF Streamable
    <3>5. Streamable(SubSeq(s, 1, m))
      BY <3>3, <3>4 DEF Streamable
    <3> QED
      BY <3>2, <3>5, RelayCompletes, CompleteIsWell
  <2> QED
    BY <2>1 DEF ChunksWellFormed, WellFormed
<1> QED
  BY <1>1, <1>2, <1>3, PTL DEF Spec
-----------------------------------------------------------------------------
(* What a turn leaves on the screen.                                        *)

Recording == INSTANCE FoldFacts WITH Op <- ApplyNumbered

LEMMA RecordedIs == \A s : Recorded(s) = Recording!Folded(<< >>, Numbered(s))
BY DEF Recorded, FoldLeft, MapThenFoldSet, Max,
       Recording!Folded, Recording!FoldLeft, Recording!MapThenFoldSet, Recording!Max

LEMMA RecordedNone == Recorded(<< >>) = << >>
<1>1. Numbered(<< >>) = << >>
  BY DEF Numbered
<1> QED
  BY <1>1, RecordedIs, Recording!FoldedNone

\* One frame more is applied to what the frames before it made.
LEMMA RecordedMore ==
  ASSUME NEW s \in Seq(Frames), NEW r \in Nat, r < Len(s)
  PROVE  Recorded(SubSeq(s, 1, r + 1)) = ApplyFrame(Recorded(SubSeq(s, 1, r)), s[r + 1], r + 1)
<1> DEFINE T == [frame : Frames, n : Nat]
           old == Numbered(SubSeq(s, 1, r))
           x == [frame |-> s[r + 1], n |-> r + 1]
<1>1. /\ SubSeq(s, 1, r) \in Seq(Frames) /\ Len(SubSeq(s, 1, r)) = r
      /\ \A i \in 1 .. r : SubSeq(s, 1, r)[i] = s[i]
      /\ SubSeq(s, 1, r + 1) \in Seq(Frames) /\ Len(SubSeq(s, 1, r + 1)) = r + 1
      /\ \A i \in 1 .. r + 1 : SubSeq(s, 1, r + 1)[i] = s[i]
  OBVIOUS
<1>2. \A i \in 1 .. r + 1 : s[i] \in Frames
  OBVIOUS
<1>3. old = [i \in 1 .. r |-> [frame |-> s[i], n |-> i]]
  BY <1>1 DEF Numbered
<1>4. Numbered(SubSeq(s, 1, r + 1)) = [i \in 1 .. r + 1 |-> [frame |-> s[i], n |-> i]]
  BY <1>1 DEF Numbered
<1>5. old \in Seq(T) /\ Len(old) = r
  <2>1. \A i \in 1 .. r : [frame |-> s[i], n |-> i] \in T
    BY <1>2
  <2>2. \A i \in 1 .. r : old[i] \in T
    BY <1>3, <2>1
  <2>3. old = [i \in 1 .. r |-> old[i]]
    BY <1>3
  <2> HIDE DEF old, T
  <2> QED
    BY <2>2, <2>3
<1>6. Numbered(SubSeq(s, 1, r + 1)) = Append(old, x)
  <2>1. Append(old, x) = [i \in 1 .. r + 1 |-> IF i = r + 1 THEN x ELSE old[i]]
    BY <1>5
  <2>2. \A i \in 1 .. r + 1 : [frame |-> s[i], n |-> i] = IF i = r + 1 THEN x ELSE old[i]
    BY <1>3
  <2> HIDE DEF old, x
  <2> QED
    BY <1>4, <2>1, <2>2
<1> HIDE DEF old, x
<1>7. Recording!Folded(<< >>, Append(old, x)) = ApplyNumbered(Recording!Folded(<< >>, old), x)
  BY <1>5, Recording!FoldedMore
<1>8. Recorded(SubSeq(s, 1, r + 1)) = ApplyNumbered(Recorded(SubSeq(s, 1, r)), x)
  BY <1>6, <1>7, RecordedIs DEF old
<1> QED
  BY <1>8 DEF ApplyNumbered, x

LEMMA PlaceIs ==
  ASSUME NEW list, IsSeq(list), NEW id
  PROVE  \/ Place(list, id) = 0 /\ \A i \in 1 .. Len(list) : list[i].id # id
         \/ Place(list, id) \in 1 .. Len(list) /\ list[Place(list, id)].id = id
<1> DEFINE I == {i \in 1 .. Len(list) : list[i].id = id}
<1>1. Place(list, id) = IF I # {} THEN Min(I) ELSE 0
  BY DEF Place, SelectInSeq
<1>2. CASE I = {}
  BY <1>1, <1>2
<1>3. CASE I # {}
  <2>1. I \in SUBSET Nat
    OBVIOUS
  <2>2. PICK m \in I : \A k \in I : m <= k
    BY <1>3, <2>1, Recording!Least
  <2>3. Min(I) \in I
    BY <2>2 DEF Min
  <2> QED
    BY <1>1, <1>3, <2>3
<1> QED
  BY <1>2, <1>3

-----------------------------------------------------------------------------
(* The invariant.                                                           *)

AnswerId(n) == Id("answer", turns[n].conv, n)
Without(list, id) == \A i \in 1 .. Len(list) : list[i].id # id

\* The answers of a list are of turns that were sent.
Fresh(list) ==
  \A i \in 1 .. Len(list) : list[i].id.of = "answer" => list[i].id.n \in 1 .. Len(turns)

\* A page that ends before a place of the rows has no row with that id.
NotBefore(rows, id, p) ==
  p \in Int /\ p <= Len(rows) /\ \A i \in 1 .. Len(rows) : rows[i].id = id => i >= p

\* A page of earlier messages that has been asked for, or is on its way, goes back from where the
\* thread began then: the answer of a turn sent since is not in it.
Ending(r, rows, id) ==
  /\ r.at = "asked" => NotBefore(rows, id, r.before)
  /\ r.at = "served" => Without(r.page.items, id) /\ NotBefore(rows, id, r.page.next)

Unloaded(n) == n \in 1 .. Len(turns) /\ ~turns[n].reloaded

Timely(r) ==
  /\ r.op \in {"open", "boot open", "earlier"} /\ r.at = "served" => Fresh(r.page.items)
  /\ r.op = "earlier" =>
       \A n \in 1 .. Len(turns) : Unloaded(n) /\ turns[n].conv = r.conv =>
         Ending(r, server[turns[n].conv], AnswerId(n))

\* Until a turn is over, and for good when its stream ended early, its thread has what the frames
\* read so far made, once; then the whole answer, or an error.
Held(t, id, list) ==
  \E i \in 1 .. Len(list) :
    /\ list[i].id = id /\ list[i].parts = Recorded(SubSeq(t.script, 1, t.read))
    /\ list[i].lastSeq \in Nat /\ list[i].lastSeq <= t.read
Whole(t, id, list) ==
  \E i \in 1 .. Len(list) : list[i].id = id /\ list[i].parts = Recorded(t.script)

ShownIn(t, n, list) ==
  LET id == Id("answer", t.conv, n)
  IN  /\ \A i, j \in 1 .. Len(list) : list[i].id = id /\ list[j].id = id => i = j
      /\ t.at # "over" /\ t.read = 0 => Without(list, id)
      /\ t.at # "over" /\ t.read # 0 => Held(t, id, list)
      /\ t.at = "over" => Whole(t, id, list) \/ ~Without(list, Id("bubble", t.conv, n))

AnswersSent == \A c \in Convs : Fresh(server[c]) /\ Fresh(messages[c])
PagesEnd    == \A k \in 1 .. Len(calls) : Timely(calls[k])
TurnsShown  ==
  \A n \in 1 .. Len(turns) : Unloaded(n) =>
    /\ NotBefore(server[turns[n].conv], AnswerId(n), cursor[turns[n].conv])
    /\ ShownIn(turns[n], n, messages[turns[n].conv])

SettledInv == AnswersSent /\ PagesEnd /\ TurnsShown

LEMMA Ids ==
  ASSUME NEW c, NEW d, NEW m, NEW n
  PROVE  /\ Id("answer", c, m).of = "answer" /\ Id("answer", c, m).n = m
         /\ Id("answer", c, m) = Id("answer", d, n) => c = d /\ m = n
         /\ \A of : of # "answer" => Id(of, c, m) # Id("answer", d, n)
         /\ \A of : Id(of, c, m).of = of
BY DEF Id

\* The property is what the invariant says of a turn that is over, or whose stream ended early.
LEMMA ShownSettles == ClientInv /\ SettledInv => SettledShowsTheTurn
<1> SUFFICES ASSUME ClientInv, SettledInv PROVE SettledShowsTheTurn
  OBVIOUS
<1>1. ASSUME NEW n \in DOMAIN turns, ~turns[n].reloaded
      PROVE  /\ turns[n].at = "over" =>
                  Shows(n, turns[n].script) \/ Has(turns[n].conv, "bubble", n)
             /\ turns[n].at = "ended" /\ turns[n].read = 0 => ~Has(turns[n].conv, "answer", n)
             /\ turns[n].at = "ended" /\ turns[n].read # 0 =>
                  Shows(n, SubSeq(turns[n].script, 1, turns[n].read))
  <2>1. n \in 1 .. Len(turns) /\ turns[n].conv \in Convs
    BY TurnIs
  <2>2. ShownIn(turns[n], n, messages[turns[n].conv])
    BY <1>1, <2>1 DEF SettledInv, TurnsShown, Unloaded
  <2>3. DOMAIN messages[turns[n].conv] = 1 .. Len(messages[turns[n].conv])
    BY <2>1, SeqIs DEF ClientInv, Known, ThreadOf
  <2>4. CASE turns[n].at = "over"
    BY <2>2, <2>3, <2>4 DEF ShownIn, Whole, Without, Has, Shows
  <2>5. CASE turns[n].at = "ended" /\ turns[n].read = 0
    BY <2>2, <2>3, <2>5 DEF ShownIn, Without, Has
  <2>6. CASE turns[n].at = "ended" /\ turns[n].read # 0
    BY <2>2, <2>3, <2>6 DEF ShownIn, Held, Shows
  <2> QED
    BY <2>4, <2>5, <2>6
<1> QED
  BY <1>1 DEF SettledShowsTheTurn

-----------------------------------------------------------------------------
(* Lists that keep the message of a turn.                                   *)

\* The new list has the messages of the old one, in their order, with their ids; and those with
\* this id as they were, and no other.
CarriesBy(old, new, id, off) ==
  /\ \A i \in 1 .. Len(old) : /\ i + off \in 1 .. Len(new) /\ new[i + off].id = old[i].id
                              /\ old[i].id = id => new[i + off] = old[i]
  /\ \A j \in 1 .. Len(new) : new[j].id = id => j - off \in 1 .. Len(old)
Carries(old, new, id) == \E off \in Nat : CarriesBy(old, new, id, off)

LEMMA ShownStays ==
  ASSUME NEW t, NEW u, NEW n, NEW old, NEW new, IsSeq(old), IsSeq(new), ShownIn(t, n, old),
         Carries(old, new, Id("answer", t.conv, n)),
         u.conv = t.conv, u.script = t.script, u.read = t.read, u.at = "over" <=> t.at = "over"
  PROVE  ShownIn(u, n, new)
<1> DEFINE id == Id("answer", t.conv, n)
           bubble == Id("bubble", t.conv, n)
<1>1. PICK off \in Nat :
        /\ \A i \in 1 .. Len(old) : /\ i + off \in 1 .. Len(new) /\ new[i + off].id = old[i].id
                                    /\ old[i].id = id => new[i + off] = old[i]
        /\ \A j \in 1 .. Len(new) : new[j].id = id => j - off \in 1 .. Len(old)
  BY DEF Carries, CarriesBy
<1>2. Len(old) \in Nat /\ Len(new) \in Nat
  BY SeqIs
<1>3. /\ \A i, j \in 1 .. Len(old) : old[i].id = id /\ old[j].id = id => i = j
      /\ t.at # "over" /\ t.read = 0 => Without(old, id)
      /\ t.at # "over" /\ t.read # 0 => Held(t, id, old)
      /\ t.at = "over" => Whole(t, id, old) \/ ~Without(old, bubble)
  BY DEF ShownIn
<1> HIDE DEF id, bubble
<1>4. ASSUME NEW j \in 1 .. Len(new), new[j].id = id
      PROVE  j - off \in 1 .. Len(old) /\ old[j - off].id = id
  <2>1. PICK i \in 1 .. Len(old) : i = j - off
    BY <1>1, <1>4
  <2>2. i + off = j
    BY <2>1
  <2>3. new[i + off].id = old[i].id
    BY <1>1
  <2> QED
    BY <1>4, <2>1, <2>2, <2>3
<1>5. ASSUME NEW i \in 1 .. Len(new), NEW j \in 1 .. Len(new), new[i].id = id, new[j].id = id
      PROVE  i = j
  <2>1. i - off = j - off
    BY <1>3, <1>4, <1>5
  <2> QED
    BY <2>1
<1>6. ASSUME t.at # "over", t.read = 0 PROVE Without(new, id)
  BY <1>3, <1>4, <1>6 DEF Without
<1>7. ASSUME t.at # "over", t.read # 0 PROVE Held(u, id, new)
  <2>1. PICK i \in 1 .. Len(old) :
          /\ old[i].id = id /\ old[i].parts = Recorded(SubSeq(t.script, 1, t.read))
          /\ old[i].lastSeq \in Nat /\ old[i].lastSeq <= t.read
    BY <1>3, <1>7 DEF Held
  <2>2. i + off \in 1 .. Len(new) /\ new[i + off] = old[i]
    BY <1>1, <2>1
  <2> QED
    BY <2>1, <2>2 DEF Held
<1>8. ASSUME t.at = "over" PROVE Whole(u, id, new) \/ ~Without(new, bubble)
  <2>1. CASE Whole(t, id, old)
    <3>1. PICK i \in 1 .. Len(old) : old[i].id = id /\ old[i].parts = Recorded(t.script)
      BY <2>1 DEF Whole
    <3>2. i + off \in 1 .. Len(new) /\ new[i + off] = old[i]
      BY <1>1, <3>1
    <3> QED
      BY <3>1, <3>2 DEF Whole
  <2>2. CASE ~Without(old, bubble)
    <3>1. PICK i \in 1 .. Len(old) : old[i].id = bubble
      BY <2>2 DEF Without
    <3>2. i + off \in 1 .. Len(new) /\ new[i + off].id = bubble
      BY <1>1, <3>1
    <3> QED
      BY <3>2 DEF Without
  <2> QED
    BY <1>3, <1>8, <2>1, <2>2
<1> QED
  BY <1>5, <1>6, <1>7, <1>8 DEF ShownIn, id, bubble

LEMMA CarriesSame ==
  ASSUME NEW list, IsSeq(list), NEW id
  PROVE  Carries(list, list, id)
<1>1. Len(list) \in Nat
  BY SeqIs
<1>2. \A i \in 1 .. Len(list) : i + 0 = i /\ i - 0 = i
  BY <1>1
<1> QED
  BY <1>1, <1>2 DEF Carries, CarriesBy

\* Every message stays in its place.
LEMMA CarriesInPlace ==
  ASSUME NEW old, IsSeq(old), NEW new, IsSeq(new), Len(new) >= Len(old), NEW id,
         \A i \in 1 .. Len(old) : new[i].id = old[i].id /\ (old[i].id = id => new[i] = old[i]),
         \A j \in 1 .. Len(new) : new[j].id = id => j <= Len(old)
  PROVE  Carries(old, new, id)
<1>1. Len(old) \in Nat /\ Len(new) \in Nat
  BY SeqIs
<1>2. \A i \in 1 .. Len(old) : /\ i + 0 \in 1 .. Len(new) /\ new[i + 0].id = old[i].id
                              /\ old[i].id = id => new[i + 0] = old[i]
  <2> TAKE i \in 1 .. Len(old)
  <2>1. i + 0 = i /\ i \in 1 .. Len(new)
    BY <1>1
  <2> QED
    BY <2>1
<1>3. \A j \in 1 .. Len(new) : new[j].id = id => j - 0 \in 1 .. Len(old)
  <2> TAKE j \in 1 .. Len(new)
  <2>1. j - 0 = j /\ j \in Nat
    BY <1>1
  <2> QED
    BY <1>1, <2>1
<1>4. CarriesBy(old, new, id, 0)
  BY <1>2, <1>3 DEF CarriesBy
<1> QED
  BY <1>4 DEF Carries

LEMMA CarriesAppended ==
  ASSUME NEW list, IsSeq(list), NEW m, NEW id, m.id # id
  PROVE  Carries(list, Append(list, m), id)
<1>1. /\ IsSeq(Append(list, m)) /\ Len(list) \in Nat /\ Len(Append(list, m)) = Len(list) + 1
      /\ \A i \in 1 .. Len(list) : Append(list, m)[i] = list[i]
      /\ Append(list, m)[Len(list) + 1] = m
  BY SeqIs, AppendIs
<1>2. PICK new : new = Append(list, m)
  OBVIOUS
<1>3. \A j \in 1 .. Len(new) : new[j].id = id => j <= Len(list)
  BY <1>1, <1>2
<1>4. \A i \in 1 .. Len(list) : new[i].id = list[i].id /\ (list[i].id = id => new[i] = list[i])
  BY <1>1, <1>2
<1>5. IsSeq(new) /\ Len(new) >= Len(list)
  BY <1>1, <1>2
<1> QED
  BY <1>2, <1>3, <1>4, <1>5, CarriesInPlace

LEMMA CarriesPut ==
  ASSUME NEW list, IsSeq(list), NEW i \in 1 .. Len(list), NEW m, m.id = list[i].id, NEW id, m.id # id
  PROVE  Carries(list, [list EXCEPT ![i] = m], id)
<1>1. PICK new : new = [list EXCEPT ![i] = m]
  OBVIOUS
<1>2. /\ IsSeq(new) /\ Len(list) \in Nat /\ Len(new) = Len(list)
      /\ \A j \in 1 .. Len(list) : new[j] = IF j = i THEN m ELSE list[j]
  BY <1>1, SeqIs, ExceptIs
<1>3. /\ Len(new) >= Len(list)
      /\ \A j \in 1 .. Len(list) : new[j].id = list[j].id /\ (list[j].id = id => new[j] = list[j])
      /\ \A j \in 1 .. Len(new) : new[j].id = id => j <= Len(list)
  BY <1>2
<1> QED
  BY <1>1, <1>2, <1>3, CarriesInPlace

LEMMA CarriesBefore ==
  ASSUME NEW list, IsSeq(list), NEW items, IsSeq(items), NEW id, Without(items, id)
  PROVE  Carries(list, items \o list, id)
<1>1. /\ Len(list) \in Nat /\ Len(items) \in Nat /\ Len(items \o list) = Len(items) + Len(list)
      /\ \A i \in 1 .. Len(items) + Len(list) :
           (items \o list)[i] = IF i <= Len(items) THEN items[i] ELSE list[i - Len(items)]
  BY SeqIs, ConcatIs
<1> DEFINE new == items \o list
           off == Len(items)
<1> HIDE DEF new
<1>2. ASSUME NEW i \in 1 .. Len(list) PROVE i + off \in 1 .. Len(new) /\ new[i + off] = list[i]
  <2>1. i + off \in 1 .. off + Len(list) /\ ~(i + off <= off) /\ i + off - off = i
    BY <1>1
  <2> QED
    BY <1>1, <2>1 DEF new
<1>3. ASSUME NEW j \in 1 .. Len(new), new[j].id = id PROVE j - off \in 1 .. Len(list)
  <2>1. ~(j <= off)
    BY <1>1, <1>3 DEF Without, new
  <2> QED
    BY <1>1, <2>1 DEF new
<1>4. Carries(list, new, id)
  BY <1>1, <1>2, <1>3 DEF Carries, CarriesBy
<1> QED
  BY <1>4 DEF new

-----------------------------------------------------------------------------
(* The frames of a stream.                                                  *)

Changed(s, r, i, e) ==
  /\ IsSeq(r) /\ Len(r) = Len(s)
  /\ \A j \in 1 .. Len(s) : r[j] = IF j = i THEN e ELSE s[j]

LEMMA ChangedIs ==
  \A s : IsSeq(s) => \A i, e : Changed(s, [s EXCEPT ![i] = e], i, e)
BY ExceptIs DEF Changed

\* What applyEventTo makes of the thread of a turn, and of the threads it shares it with.
LEMMA FrameShown ==
  ASSUME NEW t, NEW u, NEW n, NEW list, IsSeq(list), ShownIn(t, n, list), t.at # "over",
         t.script \in Seq(Frames), t.read \in Nat, t.read < Len(t.script),
         u.conv = t.conv, u.script = t.script, u.read = t.read + 1,
         u.at = "over" => t.read + 1 = Len(t.script),
         NEW id, id = Id("answer", t.conv, n),
         NEW new, new = WithFrame(list, id, t.script[t.read + 1], t.read + 1)
  PROVE  /\ IsSeq(new) /\ ShownIn(u, n, new)
         /\ \A other : other # id => Carries(list, new, other)
<1> DEFINE at == Place(list, id)
           frame == t.script[t.read + 1]
           seq == t.read + 1
           told == Recorded(SubSeq(t.script, 1, t.read))
           more == Recorded(SubSeq(t.script, 1, seq))
<1>1. /\ at = 0 => Without(list, id)
      /\ at # 0 => at \in 1 .. Len(list) /\ list[at].id = id
      /\ Len(list) \in Nat
  BY PlaceIs, SeqIs DEF Without
<1>2. more = ApplyFrame(told, frame, seq)
  BY RecordedMore
<1>3. frame.name = "accepted" => more = told
  BY <1>2 DEF ApplyFrame
<1>4. /\ \A i, j \in 1 .. Len(list) : list[i].id = id /\ list[j].id = id => i = j
      /\ t.read = 0 => Without(list, id)
      /\ t.read # 0 => Held(t, id, list)
  BY DEF ShownIn
<1>5. seq \in Nat /\ seq # 0
  OBVIOUS
<1>6. u.at = "over" => SubSeq(t.script, 1, seq) = t.script
  <2>1. SubSeq(t.script, 1, Len(t.script)) = t.script
    OBVIOUS
  <2> QED
    BY <2>1
\* What is enough: the message with the id, once, with what the frames so far made.
<1>7. ASSUME NEW list1, IsSeq(list1), NEW k \in 1 .. Len(list1), list1[k].id = id,
             list1[k].parts = more, list1[k].lastSeq \in Nat, list1[k].lastSeq <= seq,
             \A i \in 1 .. Len(list1) : list1[i].id = id => i = k
      PROVE  ShownIn(u, n, list1)
  <2>1. Held(u, id, list1)
    BY <1>7 DEF Held
  <2>2. u.at = "over" => Whole(u, id, list1)
    BY <1>6, <1>7 DEF Whole
  <2> QED
    BY <1>5, <1>7, <2>1, <2>2 DEF ShownIn
<1>8. CASE at = 0
  <2> DEFINE empty == Message(id, << >>, 0)
             m == Message(id, ApplyFrame(<< >>, frame, seq), seq)
  <2>1. t.read = 0 /\ Without(list, id)
    <3>1. ~Held(t, id, list)
      BY <1>1, <1>8 DEF Held, Without
    <3> QED
      BY <1>1, <1>4, <1>8, <3>1
  <2>2. told = << >>
    <3>1. SubSeq(t.script, 1, 0) = << >>
      OBVIOUS
    <3> QED
      BY <2>1, <3>1, RecordedNone
  <2>3. empty.id = id /\ empty.parts = << >> /\ m.id = id /\ m.lastSeq = seq /\ m.parts = more
    BY <1>2, <2>2 DEF Message
  <2>4. new = [Append(list, empty) EXCEPT ![Len(Append(list, empty))] = m]
    <3>1. Append(list, empty)[Len(Append(list, empty))] = empty
      BY AppendIs
    <3> HIDE DEF empty
    <3> QED
      BY <1>8, <2>3, <3>1 DEF WithFrame, empty
  <2> HIDE DEF empty, m
  <2>5. /\ IsSeq(Append(list, empty)) /\ Len(Append(list, empty)) = Len(list) + 1
        /\ \A i \in 1 .. Len(list) : Append(list, empty)[i] = list[i]
    BY AppendIs
  <2>6. /\ IsSeq(new) /\ Len(new) = Len(list) + 1 /\ new[Len(list) + 1] = m
        /\ \A i \in 1 .. Len(list) : new[i] = list[i]
    <3>1. PICK longer, p : longer = Append(list, empty) /\ p = Len(list) + 1
      OBVIOUS
    <3>2. /\ IsSeq(longer) /\ Len(longer) = p /\ new = [longer EXCEPT ![p] = m]
      BY <2>4, <2>5, <3>1
    <3>3. PICK x : x = m
      OBVIOUS
    <3>4. Changed(longer, [longer EXCEPT ![p] = x], p, x)
      BY <3>2, ChangedIs
    <3>5. Changed(longer, new, p, m)
      BY <3>2, <3>3, <3>4
    <3> QED
      BY <1>1, <2>5, <3>1, <3>2, <3>5 DEF Changed
  <2>7. ShownIn(u, n, new)
    <3>1. PICK p : p = Len(list) + 1
      OBVIOUS
    <3>2. \A i \in 1 .. Len(new) : new[i].id = id => i = p
      BY <1>1, <2>1, <2>6, <3>1 DEF Without
    <3>3. p \in 1 .. Len(new) /\ new[p] = m
      BY <1>1, <2>6, <3>1
    <3>4. new[p].id = id /\ new[p].parts = more /\ new[p].lastSeq \in Nat /\ new[p].lastSeq <= seq
      BY <1>5, <2>3, <3>3
    <3> QED
      BY <1>7, <2>6, <3>2, <3>3, <3>4
  <2>8. ASSUME NEW other, other # id PROVE Carries(list, new, other)
    <3>1. \A j \in 1 .. Len(new) : new[j].id = other => j <= Len(list)
      BY <1>1, <2>3, <2>6, <2>8
    <3>2. \A i \in 1 .. Len(list) : new[i].id = list[i].id /\ (list[i].id = other => new[i] = list[i])
      BY <2>6
    <3>3. Len(new) >= Len(list)
      BY <1>1, <2>6
    <3> QED
      BY <2>6, <3>1, <3>2, <3>3, CarriesInPlace
  <2> QED
    BY <2>6, <2>7, <2>8
<1>9. CASE at # 0
  <2> DEFINE old == list[at]
             m == Message(id, ApplyFrame(old.parts, frame, seq), seq)
  <2>1. t.read # 0 /\ Held(t, id, list)
    BY <1>1, <1>4, <1>9 DEF Without
  <2>2. /\ at \in 1 .. Len(list) /\ old.id = id /\ old.parts = told
        /\ old.lastSeq \in Nat /\ old.lastSeq <= t.read
    <3>1. PICK i \in 1 .. Len(list) : /\ list[i].id = id /\ list[i].parts = told
                                    /\ list[i].lastSeq \in Nat /\ list[i].lastSeq <= t.read
      BY <2>1 DEF Held
    <3>2. i = at
      BY <1>1, <1>4, <1>9, <3>1
    <3> QED
      BY <1>1, <1>9, <3>1, <3>2
  <2>3. m.id = id /\ m.lastSeq = seq /\ m.parts = more
    BY <1>2, <2>2 DEF Message
  <2>4. new = IF frame.name = "accepted" \/ seq <= old.lastSeq THEN list ELSE [list EXCEPT ![at] = m]
    BY <1>9 DEF WithFrame
  <2>5. ~(seq <= old.lastSeq)
    BY <2>2
  <2>6. \A i \in 1 .. Len(list) : list[i].id = id => i = at
    BY <1>4, <2>2
  <2> HIDE DEF m, at
  <2>7. CASE frame.name = "accepted"
    <3>1. new = list /\ old.lastSeq <= seq
      BY <2>2, <2>4, <2>7
    <3>2. ShownIn(u, n, list)
      BY <1>3, <1>7, <2>2, <2>6, <2>7, <3>1
    <3> QED
      BY <3>1, <3>2, CarriesSame
  <2>8. CASE frame.name # "accepted"
    <3>1. new = [list EXCEPT ![at] = m]
      BY <2>4, <2>5, <2>8
    <3>2. /\ IsSeq(new) /\ Len(new) = Len(list)
          /\ \A j \in 1 .. Len(list) : new[j] = IF j = at THEN m ELSE list[j]
      <4>1. PICK x, k : x = m /\ k = at
        OBVIOUS
      <4>2. Changed(list, [list EXCEPT ![k] = x], k, x)
        BY ChangedIs
      <4>3. Changed(list, new, at, m)
        BY <3>1, <4>1, <4>2
      <4> QED
        BY <4>3 DEF Changed
    <3>3. \A i \in 1 .. Len(new) : new[i].id = id => i = at
      BY <2>6, <3>2
    <3>4. ShownIn(u, n, new)
      BY <1>5, <1>7, <2>2, <2>3, <3>2, <3>3
    <3>5. ASSUME NEW other, other # id PROVE Carries(list, new, other)
      BY <2>2, <2>3, <3>1, <3>5, CarriesPut
    <3> QED
      BY <3>2, <3>4, <3>5
  <2> QED
    BY <2>7, <2>8
<1> QED
  BY <1>8, <1>9
-----------------------------------------------------------------------------
(* What a step leaves of the pages and the turns.                           *)

\* The turns keep their threads, and one that was loaded anew stays so.
TurnsOn ==
  /\ Len(turns') = Len(turns)
  /\ \A n \in 1 .. Len(turns) :
       turns'[n].conv = turns[n].conv /\ (turns[n].reloaded => turns'[n].reloaded)

\* Rows are added at the end.
RowsGrow ==
  \A c \in Convs : \/ server'[c] = server[c]
                   \/ \E x : /\ server'[c] = Append(server[c], x)
                             /\ x.id.of = "answer" => x.id.n \in 1 .. Len(turns)

LEMMA NotBeforeGrows ==
  ASSUME NEW rows, IsSeq(rows), NEW x, NEW id, NEW p, NotBefore(rows, id, p)
  PROVE  NotBefore(Append(rows, x), id, p)
<1>1. /\ Len(rows) \in Nat /\ Len(Append(rows, x)) = Len(rows) + 1
      /\ \A i \in 1 .. Len(rows) : Append(rows, x)[i] = rows[i]
  BY SeqIs, AppendIs
<1>2. PICK more : more = Append(rows, x)
  OBVIOUS
<1>3. ASSUME NEW i \in 1 .. Len(more), more[i].id = id PROVE i >= p
  <2>1. i \in 1 .. Len(rows) \/ i = Len(rows) + 1
    BY <1>1, <1>2
  <2> QED
    BY <1>1, <1>2, <1>3, <2>1 DEF NotBefore
<1>4. NotBefore(more, id, p)
  BY <1>1, <1>2, <1>3 DEF NotBefore
<1> QED
  BY <1>2, <1>4

LEMMA EndStays ==
  ASSUME ClientInv, RowsGrow, NEW c \in Convs, NEW id, NEW p, NotBefore(server[c], id, p)
  PROVE  NotBefore(server'[c], id, p)
<1>1. IsSeq(server[c])
  BY DEF ClientInv, Rows, RowsOf
<1> QED
  BY <1>1, NotBeforeGrows DEF RowsGrow

LEMMA SentStay ==
  ASSUME ClientInv, RowsGrow, NEW c \in Convs, Fresh(server[c])
  PROVE  Fresh(server'[c])
<1>1. IsSeq(server[c]) /\ Len(server[c]) \in Nat
  BY SeqIs DEF ClientInv, Rows, RowsOf
<1>2. CASE server'[c] = server[c]
  BY <1>2
<1>3. ASSUME NEW x, server'[c] = Append(server[c], x), x.id.of = "answer" => x.id.n \in 1 .. Len(turns)
      PROVE  Fresh(server'[c])
  <2>1. /\ Len(server'[c]) = Len(server[c]) + 1 /\ server'[c][Len(server[c]) + 1] = x
        /\ \A i \in 1 .. Len(server[c]) : server'[c][i] = server[c][i]
    BY <1>1, <1>3, AppendIs
  <2>2. \A i \in 1 .. Len(server'[c]) : i \in 1 .. Len(server[c]) \/ i = Len(server[c]) + 1
    BY <1>1, <2>1
  <2> QED
    BY <1>3, <2>1, <2>2 DEF Fresh
<1> QED
  BY <1>2, <1>3 DEF RowsGrow

LEMMA TimelyStays ==
  ASSUME ClientInv, TurnsOn, RowsGrow, NEW r, Timely(r)
  PROVE  Timely(r)'
<1>1. ASSUME r.op \in {"open", "boot open", "earlier"}, r.at = "served" PROVE Fresh(r.page.items)'
  BY <1>1 DEF Timely, Fresh, TurnsOn
<1>2. ASSUME r.op = "earlier", NEW n \in 1 .. Len(turns'), Unloaded(n)', turns'[n].conv = r.conv
      PROVE  Ending(r, server'[turns'[n].conv], AnswerId(n)')
  <2>1. n \in 1 .. Len(turns) /\ Unloaded(n) /\ turns[n].conv = r.conv /\ AnswerId(n)' = AnswerId(n)
    BY <1>2 DEF TurnsOn, Unloaded, AnswerId
  <2>2. turns[n].conv \in Convs /\ turns'[n].conv = turns[n].conv
    BY <2>1, SeqIs, TurnIs DEF TurnsOn, ClientInv, Opened
  <2>3. Ending(r, server[turns[n].conv], AnswerId(n))
    BY <1>2, <2>1 DEF Timely
  <2>4. PICK c \in Convs : c = turns[n].conv
    BY <2>2
  <2>5. PICK id : id = AnswerId(n)
    OBVIOUS
  <2>6. \A p : NotBefore(server[c], id, p) => NotBefore(server'[c], id, p)
    BY EndStays
  <2>7. Ending(r, server'[c], id)
    BY <2>3, <2>4, <2>5, <2>6 DEF Ending
  <2> QED
    BY <2>1, <2>2, <2>4, <2>5, <2>7
<1> QED
  BY <1>1, <1>2 DEF Timely

LEMMA StepSettles ==
  ASSUME ClientInv, SettledInv, TurnsOn, RowsGrow,
         \A c \in Convs : Fresh(messages'[c]),
         \A k \in 1 .. Len(calls') : Timely(calls'[k]),
         \A n \in 1 .. Len(turns) : Unloaded(n) /\ ~turns'[n].reloaded =>
           /\ NotBefore(server[turns[n].conv], AnswerId(n), cursor'[turns[n].conv])
           /\ ShownIn(turns'[n], n, messages'[turns[n].conv])
  PROVE  SettledInv'
<1>1. AnswersSent'
  <2>1. ASSUME NEW c \in Convs PROVE Fresh(server'[c]) /\ Fresh(messages'[c])
    BY SentStay DEF SettledInv, AnswersSent
  <2> QED
    BY <2>1 DEF AnswersSent, Fresh, TurnsOn
<1>2. PagesEnd'
  BY TimelyStays DEF PagesEnd
<1>3. TurnsShown'
  <2> SUFFICES ASSUME NEW n \in 1 .. Len(turns'), Unloaded(n)'
               PROVE  /\ NotBefore(server'[turns'[n].conv], AnswerId(n)', cursor'[turns'[n].conv])
                      /\ ShownIn(turns'[n], n, messages'[turns'[n].conv])
    BY DEF TurnsShown
  <2>1. /\ n \in 1 .. Len(turns) /\ Unloaded(n) /\ ~turns'[n].reloaded
        /\ AnswerId(n)' = AnswerId(n) /\ turns'[n].conv = turns[n].conv
    BY DEF TurnsOn, Unloaded, AnswerId
  <2>2. turns[n].conv \in Convs
    BY <2>1, SeqIs, TurnIs DEF ClientInv, Opened
  <2>3. /\ NotBefore(server[turns[n].conv], AnswerId(n), cursor'[turns[n].conv])
        /\ ShownIn(turns'[n], n, messages'[turns[n].conv])
    BY <2>1
  <2>4. NotBefore(server'[turns[n].conv], AnswerId(n), cursor'[turns[n].conv])
    BY <2>2, <2>3, EndStays
  <2> QED
    BY <2>1, <2>3, <2>4
<1> QED
  BY <1>1, <1>2, <1>3 DEF SettledInv

\* A step of the requests only.
LEMMA QuietSettles ==
  ASSUME ClientInv, SettledInv, UNCHANGED <<server, messages, cursor, turns>>,
         \A k \in 1 .. Len(calls') : Timely(calls'[k])
  PROVE  SettledInv'
<1>1. TurnsOn /\ RowsGrow
  BY DEF TurnsOn, RowsGrow
<1>2. \A c \in Convs : Fresh(messages'[c])
  BY DEF SettledInv, AnswersSent
<1>3. \A n \in 1 .. Len(turns) : Unloaded(n) /\ ~turns'[n].reloaded =>
        /\ NotBefore(server[turns[n].conv], AnswerId(n), cursor'[turns[n].conv])
        /\ ShownIn(turns'[n], n, messages'[turns[n].conv])
  BY DEF SettledInv, TurnsShown
<1> QED
  BY <1>1, <1>2, <1>3, StepSettles

LEMMA ClosedTimely ==
  ASSUME NEW r, Requested(r), Timely(r)
  PROVE  Timely(Closed(r)) /\ Timely(Passed(r))
<1>1. /\ Closed(r).op = r.op /\ Closed(r).at = "over"
      /\ Passed(r).op = r.op /\ Passed(r).at = r.at /\ Passed(r).conv = r.conv
      /\ Passed(r).before = r.before /\ Passed(r).page = r.page
  BY DEF Closed, Passed, Requested, CallFields
<1> QED
  BY <1>1 DEF Timely, Ending

LEMMA RestTimely ==
  ASSUME ClientInv, SettledInv, NEW k \in 1 .. Len(calls)
  PROVE  /\ Len(Over(k)) = Len(calls) /\ \A j \in 1 .. Len(calls) : Timely(Over(k)[j])
         /\ \A c : /\ Len(Replaced(k, c)) = Len(calls)
                   /\ \A j \in 1 .. Len(calls) : Timely(Replaced(k, c)[j])
<1>1. DOMAIN calls = 1 .. Len(calls) /\ Len(calls) \in Nat /\ Requests
  BY SeqIs DEF Requests, ClientInv
<1>2. ASSUME NEW j \in 1 .. Len(calls)
      PROVE  Timely(calls[j]) /\ Timely(Closed(calls[j])) /\ Timely(Passed(calls[j]))
  BY <1>1, ClosedTimely DEF Requests, SettledInv, PagesEnd
<1>3. /\ Over(k) = [calls EXCEPT ![k] = Closed(calls[k])] /\ Len(Over(k)) = Len(calls)
  BY <1>1, OverIs
<1>4. ASSUME NEW j \in 1 .. Len(calls) PROVE Timely(Over(k)[j])
  <2>1. Over(k)[j] = IF j = k THEN Closed(calls[k]) ELSE calls[j]
    BY <1>1, <1>3
  <2> QED
    BY <1>2, <2>1
<1>5. ASSUME NEW c
      PROVE  Len(Replaced(k, c)) = Len(calls) /\ \A j \in 1 .. Len(calls) : Timely(Replaced(k, c)[j])
  <2>1. Len(Replaced(k, c)) = Len(calls)
    BY <1>1, ReplacedIs
  <2>2. Replaced(k, c) = [j \in 1 .. Len(calls) |->
           IF calls[j].op = "earlier" /\ calls[j].at # "over" /\ calls[j].conv = c
           THEN Passed(calls[j]) ELSE Over(k)[j]]
    BY <1>1 DEF Replaced, Passed
  <2> QED
    BY <1>2, <1>4, <2>1, <2>2
<1> QED
  BY <1>3, <1>4, <1>5

LEMMA AskedTimely ==
  ASSUME ClientInv, SettledInv, NEW op, NEW c, NEW before, Ask(op, c, before),
         op = "earlier" => before = cursor[c]
  PROVE  \A k \in 1 .. Len(calls') : Timely(calls'[k])
<1> DEFINE r == Call(op, c, before)
<1>1. r.op = op /\ r.conv = c /\ r.before = before /\ r.at = "asked"
  BY DEF Call
<1>2. calls' = Append(calls, r)
  BY DEF Ask
<1> HIDE DEF r
<1>3. Timely(r)
  BY <1>1 DEF Timely, Ending, SettledInv, TurnsShown
<1>4. /\ Len(calls') = Len(calls) + 1 /\ calls'[Len(calls) + 1] = r /\ Len(calls) \in Nat
      /\ \A j \in 1 .. Len(calls) : calls'[j] = calls[j]
  BY <1>2, AppendIs, SeqIs DEF ClientInv, Requests
<1>5. \A j \in 1 .. Len(calls') : j \in 1 .. Len(calls) \/ j = Len(calls) + 1
  BY <1>4
<1> QED
  BY <1>3, <1>4, <1>5 DEF SettledInv, PagesEnd

LEMMA AskSettles ==
  ASSUME ClientInv, SettledInv,
         \/ Bootstrap \/ NewConversation \/ LoadMoreConversations
         \/ \E c \in Convs : OpenConversation(c) \/ LoadEarlierMessages(c)
  PROVE  SettledInv'
<1>1. UNCHANGED <<server, messages, cursor, turns>>
  BY DEF Bootstrap, NewConversation, LoadMoreConversations, OpenConversation, LoadEarlierMessages,
         serverVars, listVars, threadVars
<1>2. PICK op, c, before : Ask(op, c, before) /\ (op = "earlier" => before = cursor[c])
  BY DEF Bootstrap, NewConversation, LoadMoreConversations, OpenConversation, LoadEarlierMessages
<1> QED
  BY <1>1, <1>2, AskedTimely, QuietSettles
-----------------------------------------------------------------------------
(* The requests are served and land.                                        *)

LEMMA OneTimely ==
  ASSUME ClientInv, SettledInv, NEW k \in DOMAIN calls, NEW r, calls' = [calls EXCEPT ![k] = r],
         Timely(r)
  PROVE  \A j \in 1 .. Len(calls') : Timely(calls'[j])
<1>1. IsSeq(calls) /\ k \in 1 .. Len(calls) /\ DOMAIN calls = 1 .. Len(calls)
  BY SeqIs DEF ClientInv, Requests
<1>2. /\ Len(calls') = Len(calls)
      /\ \A j \in 1 .. Len(calls) : calls'[j] = IF j = k THEN r ELSE calls[j]
  BY <1>1, ExceptIs
<1> QED
  BY <1>2 DEF SettledInv, PagesEnd

\* The rows of a page are rows of the server, and those of an earlier one end before its place.
LEMMA PageTimely ==
  ASSUME ClientInv, SettledInv, NEW c \in Created, NEW before \in Nat,
         before = 0 \/ (before > 1 /\ before <= Len(server[c])),
         NEW page, page = MessagePage(c, before)
  PROVE  /\ Fresh(page.items)
         /\ \A id : before # 0 /\ NotBefore(server[c], id, before) =>
              Without(page.items, id) /\ NotBefore(server[c], id, page.next)
<1>1. /\ c \in Convs /\ RowsOf(c) /\ server[c] # << >> /\ Len(server[c]) \in Nat
      /\ Fresh(server[c])
  BY SeqIs DEF Created, ClientInv, Rows, RowsOf, SettledInv, AnswersSent
<1>2. PICK from, last : RunOf(c, page, from, last) /\ (before # 0 => last = before - 1)
  BY <1>1, PageIsRun
<1>3. ASSUME NEW i \in 1 .. Len(page.items)
      PROVE  /\ from + i - 1 \in 1 .. Len(server[c]) /\ from + i - 1 \in 1 .. last
             /\ page.items[i] = server[c][from + i - 1]
  <2>1. i \in 1 .. last - from + 1
    BY <1>2 DEF RunOf
  <2>2. from + i - 1 \in 1 .. last /\ page.items[i] = server[c][from + i - 1]
    BY <1>2, <2>1 DEF RunOf
  <2>3. last \in Nat /\ last <= Len(server[c])
    BY <1>2 DEF RunOf
  <2> QED
    BY <1>1, <2>2, <2>3
<1>4. Fresh(page.items)
  BY <1>1, <1>3 DEF Fresh
<1>5. ASSUME NEW id, before # 0, NotBefore(server[c], id, before)
      PROVE  Without(page.items, id) /\ NotBefore(server[c], id, page.next)
  <2>1. last = before - 1 /\ from \in Nat /\ from <= last /\ last <= Len(server[c]) /\ last \in Nat
    BY <1>2, <1>5 DEF RunOf
  <2>2. ASSUME NEW i \in 1 .. Len(page.items) PROVE page.items[i].id # id
    <3>1. PICK j : j = from + i - 1
      OBVIOUS
    <3>2. j \in 1 .. Len(server[c]) /\ j \in 1 .. last /\ page.items[i] = server[c][j]
      BY <1>3, <3>1
    <3>3. ~(j >= before)
      BY <2>1, <3>2
    <3> QED
      BY <1>5, <3>2, <3>3 DEF NotBefore
  <2>3. page.next \in Int /\ page.next <= before
    BY <1>2, <2>1 DEF RunOf
  <2> QED
    BY <1>5, <2>2, <2>3 DEF Without, NotBefore
<1> QED
  BY <1>4, <1>5

LEMMA ServeSettles ==
  ASSUME ClientInv, SettledInv, NEW k \in DOMAIN calls, Serve(k)
  PROVE  SettledInv'
<1>1. UNCHANGED <<messages, cursor, turns>> /\ calls[k].at = "asked"
  BY DEF Serve, listVars, threadVars
<1>2. k \in 1 .. Len(calls) /\ Requested(calls[k]) /\ Timely(calls[k]) /\ DOMAIN calls[k] = CallFields
  BY SeqIs DEF ClientInv, Requests, Requested, SettledInv, PagesEnd
<1>3. CASE calls[k].op \in {"create", "boot create"}
  <2>1. PICK c \in Convs \ Created :
          /\ server' = [server EXCEPT ![c] = <<Row(Id("opener", c, 1), << >>)>>]
          /\ calls' = [calls EXCEPT ![k].at = "served", ![k].conv = c]
    BY <1>3 DEF Serve
  <2>2. PICK r : r = [calls[k] EXCEPT !.at = "served", !.conv = c]
    OBVIOUS
  <2>3. calls' = [calls EXCEPT ![k] = r] /\ r.op = calls[k].op
    BY <1>2, <2>1, <2>2 DEF CallFields
  <2>4. Timely(r)
    BY <1>3, <2>3 DEF Timely
  <2>5. \A j \in 1 .. Len(calls') : Timely(calls'[j])
    BY <2>3, <2>4, OneTimely
  <2>6. PICK x : x = Row(Id("opener", c, 1), << >>)
    OBVIOUS
  <2>7. x.id.of # "answer" /\ server' = [server EXCEPT ![c] = <<x>>]
    BY <2>1, <2>6 DEF Row, Message, Id
  <2>8. RowsGrow
    <3>1. server'[c] = <<x>> /\ server[c] = << >> /\ \A d \in Convs : d # c => server'[d] = server[d]
      BY <2>1, <2>7 DEF Created, ClientInv, Functions
    <3>2. server'[c] = Append(server[c], x)
      BY <3>1
    <3> QED
      BY <2>7, <3>1, <3>2 DEF RowsGrow
  <2>9. TurnsOn
    BY <1>1 DEF TurnsOn
  <2>10. \A d \in Convs : Fresh(messages'[d])
    BY <1>1 DEF SettledInv, AnswersSent
  <2>11. \A n \in 1 .. Len(turns) : Unloaded(n) /\ ~turns'[n].reloaded =>
           /\ NotBefore(server[turns[n].conv], AnswerId(n), cursor'[turns[n].conv])
           /\ ShownIn(turns'[n], n, messages'[turns[n].conv])
    BY <1>1 DEF SettledInv, TurnsShown
  <2> QED
    BY <2>5, <2>8, <2>9, <2>10, <2>11, StepSettles
<1>4. CASE calls[k].op \notin {"create", "boot create"}
  <2>1. PICK page \in IF calls[k].op \in {"list", "more"} THEN ConversationPages(calls[k].before)
                      ELSE {MessagePage(calls[k].conv, calls[k].before)} :
          calls' = [calls EXCEPT ![k].at = "served", ![k].page = page]
    BY <1>4, Zenon DEF Serve
  <2>2. server' = server
    BY <1>4 DEF Serve, serverVars
  <2>3. PICK r : r = [calls[k] EXCEPT !.at = "served", !.page = page]
    OBVIOUS
  <2>4. calls' = [calls EXCEPT ![k] = r]
    BY <1>2, <2>1, <2>3
  <2>5. /\ r.op = calls[k].op /\ r.conv = calls[k].conv /\ r.before = calls[k].before
        /\ r.page = page /\ r.at = "served"
    BY <1>2, <2>3 DEF CallFields
  <2>6. Timely(r)
    <3>1. CASE r.op \notin {"open", "boot open", "earlier"}
      BY <3>1 DEF Timely
    <3>2. CASE r.op \in {"open", "boot open", "earlier"}
      <4>1. PICK c, before : c = r.conv /\ before = r.before
        OBVIOUS
      <4>2. page = MessagePage(c, before)
        BY <2>1, <2>5, <3>2, <4>1
      <4>3. /\ c \in Created /\ before \in Nat
            /\ (before = 0 \/ (before > 1 /\ before <= Len(server[c])))
            /\ r.op = "earlier" => before # 0
        <5>1. Requested(calls[k]) /\ c = calls[k].conv /\ before = calls[k].before
          BY <1>2, <2>5, <4>1
        <5>2. CASE calls[k].op = "earlier"
          BY <5>1, <5>2 DEF Requested
        <5>3. CASE calls[k].op # "earlier"
          <6>1. calls[k].op \in {"open", "boot open"} /\ r.op # "earlier"
            BY <2>5, <3>2, <5>3
          <6>2. calls[k].conv \in Created /\ calls[k].before = 0
            BY <5>1, <6>1 DEF Requested
          <6>3. before = 0 /\ c \in Created
            BY <5>1, <6>2
          <6> QED
            BY <6>1, <6>3
        <5> QED
          BY <5>2, <5>3
      <4>4. /\ Fresh(page.items)
            /\ \A id : before # 0 /\ NotBefore(server[c], id, before) =>
                 Without(page.items, id) /\ NotBefore(server[c], id, page.next)
        BY <4>2, <4>3, PageTimely
      <4>5. ASSUME r.op = "earlier", NEW n \in 1 .. Len(turns), Unloaded(n), turns[n].conv = r.conv
            PROVE  Ending(r, server[turns[n].conv], AnswerId(n))
        <5>1. NotBefore(server[c], AnswerId(n), before)
          BY <1>1, <1>2, <2>5, <4>1, <4>5 DEF Timely, Ending
        <5> QED
          BY <2>5, <4>1, <4>3, <4>4, <4>5, <5>1 DEF Ending
      <4> QED
        BY <2>5, <4>4, <4>5 DEF Timely
    <3> QED
      BY <3>1, <3>2
  <2> QED
    BY <1>1, <2>2, <2>4, <2>6, OneTimely, QuietSettles
<1> QED
  BY <1>3, <1>4

\* The lists of conversations, and requests that fail.
LEMMA ListSettles ==
  ASSUME ClientInv, SettledInv, NEW k \in DOMAIN calls, LandList(k) \/ LandMore(k) \/ Fail(k)
  PROVE  SettledInv'
<1>1. UNCHANGED <<server, messages, cursor, turns>> /\ k \in 1 .. Len(calls)
  BY SeqIs DEF LandList, LandMore, Fail, serverVars, threadVars, ClientInv, Requests
<1>2. CASE LandList(k)
  <2>1. PICK r : /\ calls' = [calls EXCEPT ![k] = r]
                 /\ r = Call("boot create", None, 0) \/ \E first : r = Call("boot open", first, 0)
    BY <1>2 DEF LandList
  <2>2. r.op \in {"boot create", "boot open"} /\ r.at = "asked"
    <3>1. \A first : /\ Call("boot open", first, 0).op = "boot open"
                     /\ Call("boot open", first, 0).at = "asked"
      BY DEF Call
    <3>2. Call("boot create", None, 0).op = "boot create" /\ Call("boot create", None, 0).at = "asked"
      BY DEF Call
    <3> QED
      BY <2>1, <3>1, <3>2
  <2>3. Timely(r)
    BY <2>2 DEF Timely
  <2> QED
    BY <1>1, <2>1, <2>3, OneTimely, QuietSettles
<1>3. CASE LandMore(k) \/ Fail(k)
  <2>1. calls' = Over(k)
    BY <1>3 DEF LandMore, Fail
  <2>2. \A j \in 1 .. Len(calls') : Timely(calls'[j])
    BY <1>1, <2>1, RestTimely
  <2> QED
    BY <1>1, <2>2, QuietSettles
<1> QED
  BY <1>2, <1>3

\* A thread that is replaced by a page: its turns count as loaded anew, and no other is touched.
LEMMA ReplacedSettles ==
  ASSUME ClientInv, SettledInv, NEW k \in DOMAIN calls, NEW c \in Convs, NEW list, NEW next,
         calls' = Replaced(k, c), turns' = Reloaded(c), server' = server,
         messages' = [messages EXCEPT ![c] = list], cursor' = [cursor EXCEPT ![c] = next],
         Fresh(list)
  PROVE  SettledInv'
<1>1. k \in 1 .. Len(calls) /\ DOMAIN turns = 1 .. Len(turns) /\ Len(turns) \in Nat
  BY SeqIs DEF ClientInv, Requests, Opened
<1>2. turns' = [n \in 1 .. Len(turns) |->
         IF turns[n].conv = c THEN [turns[n] EXCEPT !.reloaded = TRUE] ELSE turns[n]]
  BY <1>1 DEF Reloaded
<1>3. ASSUME NEW n \in 1 .. Len(turns)
      PROVE  /\ turns'[n].conv = turns[n].conv /\ (turns[n].reloaded => turns'[n].reloaded)
             /\ IF turns[n].conv = c THEN turns'[n].reloaded ELSE turns'[n] = turns[n]
  <2>1. DOMAIN turns[n] = TurnFields
    BY DEF ClientInv, Opened
  <2> QED
    BY <1>2, <2>1 DEF TurnFields
<1>4. Len(turns') = Len(turns)
  BY <1>1, ReloadedIs, FunctionIs DEF TurnsKept
<1>5. TurnsOn /\ RowsGrow
  BY <1>3, <1>4 DEF TurnsOn, RowsGrow
<1>6. \A j \in 1 .. Len(calls') : Timely(calls'[j])
  BY <1>1, RestTimely
<1>7. /\ messages'[c] = list
      /\ \A d \in Convs : d # c => messages'[d] = messages[d] /\ cursor'[d] = cursor[d]
  BY DEF ClientInv, Functions
<1>8. \A d \in Convs : Fresh(messages'[d])
  BY <1>7 DEF SettledInv, AnswersSent
<1>9. ASSUME NEW n \in 1 .. Len(turns), Unloaded(n) /\ ~turns'[n].reloaded
      PROVE  /\ NotBefore(server[turns[n].conv], AnswerId(n), cursor'[turns[n].conv])
             /\ ShownIn(turns'[n], n, messages'[turns[n].conv])
  <2>1. turns[n].conv # c /\ turns[n].conv \in Convs /\ turns'[n] = turns[n]
    BY <1>1, <1>3, <1>9, TurnIs
  <2>2. /\ messages'[turns[n].conv] = messages[turns[n].conv]
        /\ cursor'[turns[n].conv] = cursor[turns[n].conv]
    BY <1>7, <2>1
  <2> QED
    BY <1>9, <2>1, <2>2 DEF SettledInv, TurnsShown
<1> QED
  BY <1>5, <1>6, <1>8, <1>9, StepSettles

LEMMA LandCreateSettles ==
  ASSUME ClientInv, SettledInv, NEW k \in DOMAIN calls, LandCreate(k)
  PROVE  SettledInv'
<1>1. PICK c, m : c = calls[k].conv /\ m = Head(server[c])
  OBVIOUS
<1>2. /\ calls' = Replaced(k, c) /\ server' = server /\ turns' = Reloaded(c)
      /\ messages' = [messages EXCEPT ![c] = <<m>>] /\ cursor' = [cursor EXCEPT ![c] = 0]
  BY <1>1 DEF LandCreate, serverVars
<1>3. c \in Convs /\ server[c] # << >> /\ RowsOf(c) /\ Fresh(server[c])
  <2>1. Landing(k, {"create", "boot create"})
    BY DEF LandCreate
  <2> QED
    BY <1>1, <2>1, LandingIs DEF Requested, Created, ClientInv, Rows, SettledInv, AnswersSent
<1>4. 1 \in 1 .. Len(server[c]) /\ m = server[c][1]
  <2>1. server[c] \in Seq(Elements(server[c])) /\ Len(server[c]) \in Nat
    BY <1>3, SeqIs DEF RowsOf, IsSeq
  <2> QED
    BY <1>1, <1>3, <2>1, EmptySeq
<1>5. PICK list : list = <<m>>
  OBVIOUS
<1>6. Fresh(list)
  <2>1. Len(list) = 1 /\ list[1] = m
    BY <1>5, OneIs
  <2> QED
    BY <1>3, <1>4, <2>1 DEF Fresh
<1> QED
  BY <1>2, <1>3, <1>5, <1>6, ReplacedSettles

LEMMA LandOpenSettles ==
  ASSUME ClientInv, SettledInv, NEW k \in DOMAIN calls, LandOpen(k)
  PROVE  SettledInv'
<1>1. PICK c, list, next : c = calls[k].conv /\ list = calls[k].page.items /\ next = calls[k].page.next
  OBVIOUS
<1>2. /\ calls' = Replaced(k, c) /\ server' = server /\ turns' = Reloaded(c)
      /\ messages' = [messages EXCEPT ![c] = list] /\ cursor' = [cursor EXCEPT ![c] = next]
  BY <1>1 DEF LandOpen, serverVars
<1>3. /\ k \in 1 .. Len(calls) /\ calls[k].at = "served" /\ calls[k].op \in {"open", "boot open"}
      /\ Requested(calls[k])
  BY LandingIs DEF LandOpen
<1>4. c \in Convs /\ Fresh(list)
  BY <1>1, <1>3 DEF Requested, Created, SettledInv, PagesEnd, Timely
<1> QED
  BY <1>2, <1>4, ReplacedSettles

LEMMA LandEarlierSettles ==
  ASSUME ClientInv, SettledInv, NEW k \in DOMAIN calls, LandEarlier(k)
  PROVE  SettledInv'
<1>1. PICK c, items, next, list :
        /\ c = calls[k].conv /\ items = calls[k].page.items /\ next = calls[k].page.next
        /\ list = messages[c]
  OBVIOUS
<1>2. /\ calls' = Over(k) /\ server' = server /\ turns' = turns
      /\ messages' = [messages EXCEPT ![c] = items \o list] /\ cursor' = [cursor EXCEPT ![c] = next]
  BY <1>1 DEF LandEarlier, serverVars
<1>3. /\ k \in 1 .. Len(calls) /\ calls[k].at = "served" /\ calls[k].op = "earlier"
      /\ Requested(calls[k]) /\ Timely(calls[k])
  BY LandingIs DEF LandEarlier, SettledInv, PagesEnd
<1>4. c \in Convs /\ Fresh(items) /\ IsSeq(items) /\ IsSeq(list) /\ Fresh(list)
  BY <1>1, <1>3 DEF Requested, Created, Timely, PageOf, ClientInv, Known, ThreadOf, SettledInv,
     AnswersSent
<1>5. /\ messages'[c] = items \o list /\ cursor'[c] = next
      /\ \A d \in Convs : d # c => messages'[d] = messages[d] /\ cursor'[d] = cursor[d]
  BY <1>2, <1>4 DEF ClientInv, Functions
<1>6. /\ IsSeq(items \o list) /\ Len(items \o list) = Len(items) + Len(list)
      /\ \A i \in 1 .. Len(items) + Len(list) :
           (items \o list)[i] = IF i <= Len(items) THEN items[i] ELSE list[i - Len(items)]
  BY <1>4, ConcatIs
<1>7. Fresh(items \o list)
  <2>1. Len(items) \in Nat /\ Len(list) \in Nat
    BY <1>4, SeqIs
  <2>2. PICK both : both = items \o list
    OBVIOUS
  <2>3. ASSUME NEW i \in 1 .. Len(both)
        PROVE  \/ i \in 1 .. Len(items) /\ both[i] = items[i]
               \/ i - Len(items) \in 1 .. Len(list) /\ both[i] = list[i - Len(items)]
    BY <1>6, <2>1, <2>2
  <2>4. Fresh(both)
    BY <1>4, <2>3 DEF Fresh
  <2> QED
    BY <2>2, <2>4
<1>8. TurnsOn /\ RowsGrow
  BY <1>2 DEF TurnsOn, RowsGrow
<1>9. \A d \in Convs : Fresh(messages'[d])
  BY <1>5, <1>7 DEF SettledInv, AnswersSent
<1>10. \A j \in 1 .. Len(calls') : Timely(calls'[j])
  BY <1>2, <1>3, RestTimely
<1>11. ASSUME NEW n \in 1 .. Len(turns), Unloaded(n)
       PROVE  /\ NotBefore(server[turns[n].conv], AnswerId(n), cursor'[turns[n].conv])
              /\ ShownIn(turns'[n], n, messages'[turns[n].conv])
  <2>1. /\ NotBefore(server[turns[n].conv], AnswerId(n), cursor[turns[n].conv])
        /\ ShownIn(turns[n], n, messages[turns[n].conv])
        /\ turns[n].conv \in Convs
    BY <1>11, SeqIs, TurnIs DEF SettledInv, TurnsShown, ClientInv, Opened
  <2>2. CASE turns[n].conv # c
    BY <1>2, <1>5, <2>1, <2>2
  <2>3. CASE turns[n].conv = c
    <3>1. Ending(calls[k], server[turns[n].conv], AnswerId(n))
      BY <1>1, <1>3, <1>11, <2>3 DEF Timely
    <3>2. Without(items, AnswerId(n)) /\ NotBefore(server[turns[n].conv], AnswerId(n), next)
      BY <1>1, <1>3, <3>1 DEF Ending
    <3>3. PICK t, id, both : t = turns[n] /\ id = AnswerId(n) /\ both = items \o list
      OBVIOUS
    <3>4. Carries(list, both, id) /\ IsSeq(both)
      BY <1>4, <1>6, <3>2, <3>3, CarriesBefore
    <3>5. ShownIn(t, n, list) /\ id = Id("answer", t.conv, n)
      BY <1>1, <2>1, <2>3, <3>3 DEF AnswerId
    <3>6. ShownIn(t, n, both)
      BY <1>4, <3>4, <3>5, ShownStays
    <3> QED
      BY <1>2, <1>5, <2>3, <3>2, <3>3, <3>6
  <2> QED
    BY <2>2, <2>3
<1> QED
  BY <1>8, <1>9, <1>10, <1>11, StepSettles
-----------------------------------------------------------------------------
(* The turns.                                                               *)

\* One message with this id is put in or added, or none; the others are as they were.
Follows(old, new, id) ==
  /\ IsSeq(new)
  /\ \A i \in 1 .. Len(new) : new[i].id = id \/ \E j \in 1 .. Len(old) : new[i].id = old[j].id
  /\ \A other : other # id => Carries(old, new, other)

LEMMA FollowsSame ==
  ASSUME NEW list, IsSeq(list), NEW id
  PROVE  Follows(list, list, id)
BY CarriesSame DEF Follows

LEMMA FollowsAppended ==
  ASSUME NEW list, IsSeq(list), NEW m, NEW id, m.id = id
  PROVE  Follows(list, Append(list, m), id)
<1>1. PICK new : new = Append(list, m)
  OBVIOUS
<1>2. /\ IsSeq(new) /\ Len(list) \in Nat /\ Len(new) = Len(list) + 1
      /\ \A i \in 1 .. Len(list) : new[i] = list[i]
      /\ new[Len(list) + 1] = m
  BY <1>1, SeqIs, AppendIs
<1>3. \A i \in 1 .. Len(new) : i \in 1 .. Len(list) \/ i = Len(list) + 1
  BY <1>2
<1>4. \A i \in 1 .. Len(new) : new[i].id = id \/ \E j \in 1 .. Len(list) : new[i].id = list[j].id
  BY <1>2, <1>3
<1>5. \A other : other # id => Carries(list, new, other)
  BY <1>1, CarriesAppended
<1> QED
  BY <1>1, <1>2, <1>4, <1>5 DEF Follows

LEMMA FollowsPut ==
  ASSUME NEW list, IsSeq(list), NEW p \in 1 .. Len(list), NEW m, NEW id, m.id = id, list[p].id = id
  PROVE  Follows(list, [list EXCEPT ![p] = m], id)
<1>1. PICK new : new = [list EXCEPT ![p] = m]
  OBVIOUS
<1>2. Changed(list, new, p, m)
  BY <1>1, ChangedIs
<1>3. IsSeq(new) /\ \A i \in 1 .. Len(new) : new[i].id = id \/ \E j \in 1 .. Len(list) : new[i].id = list[j].id
  BY <1>2 DEF Changed
<1>4. \A other : other # id => Carries(list, new, other)
  BY <1>1, CarriesPut
<1> QED
  BY <1>1, <1>3, <1>4 DEF Follows

LEMMA PutLast ==
  ASSUME NEW list, IsSeq(list), NEW e, NEW m
  PROVE  [Append(list, e) EXCEPT ![Len(Append(list, e))] = m] = Append(list, m)
<1>1. PICK longer, p, new, more :
        /\ longer = Append(list, e) /\ p = Len(list) + 1
        /\ new = [longer EXCEPT ![p] = m] /\ more = Append(list, m)
  OBVIOUS
<1>2. /\ IsSeq(longer) /\ Len(longer) = p /\ IsSeq(more) /\ Len(more) = p /\ Len(list) \in Nat
      /\ \A i \in 1 .. Len(list) : longer[i] = list[i] /\ more[i] = list[i]
      /\ more[p] = m
  BY <1>1, AppendIs, SeqIs
<1>3. Changed(longer, new, p, m)
  BY <1>1, <1>2, ChangedIs
<1>4. IsSeq(new) /\ Len(new) = p /\ \A i \in 1 .. p : new[i] = more[i]
  <2>1. \A i \in 1 .. p : i = p \/ i \in 1 .. Len(list)
    BY <1>1, <1>2
  <2> QED
    BY <1>2, <1>3, <2>1 DEF Changed
<1>5. DOMAIN new = 1 .. p /\ DOMAIN more = 1 .. p /\ new = [i \in 1 .. p |-> new[i]]
      /\ more = [i \in 1 .. p |-> more[i]]
  BY <1>2, <1>4, SeqIs DEF IsSeq
<1>6. new = more
  BY <1>4, <1>5
<1> QED
  BY <1>1, <1>2, <1>6

LEMMA FrameFollows ==
  ASSUME NEW list, IsSeq(list), NEW id, NEW frame, NEW seq,
         NEW new, new = WithFrame(list, id, frame, seq)
  PROVE  Follows(list, new, id)
<1> DEFINE at == Place(list, id)
           known == IF at # 0 THEN list ELSE Append(list, Message(id, << >>, 0))
           i == IF at # 0 THEN at ELSE Len(known)
           m == Message(id, ApplyFrame(known[i].parts, frame, seq), seq)
<1>1. at # 0 => at \in 1 .. Len(list) /\ list[at].id = id
  BY PlaceIs
<1>2. m.id = id
  BY DEF Message
<1>3. \/ new = list
      \/ at # 0 /\ new = [list EXCEPT ![at] = m]
      \/ new = [Append(list, Message(id, << >>, 0)) EXCEPT ![Len(Append(list, Message(id, << >>, 0)))] = m]
  BY DEF WithFrame
<1>4. PICK p, empty, x : p = at /\ empty = Message(id, << >>, 0) /\ x = m
  OBVIOUS
<1>5. \/ new = list
      \/ p \in 1 .. Len(list) /\ list[p].id = id /\ new = [list EXCEPT ![p] = x]
      \/ new = Append(list, x)
  <2>1. [Append(list, empty) EXCEPT ![Len(Append(list, empty))] = x] = Append(list, x)
    BY PutLast
  <2> HIDE DEF m, at
  <2> QED
    BY <1>1, <1>3, <1>4, <2>1
<1>6. x.id = id
  BY <1>2, <1>4
<1> HIDE DEF at, known, i, m
<1>7. CASE new = list
  BY <1>7, FollowsSame
<1>8. CASE p \in 1 .. Len(list) /\ list[p].id = id /\ new = [list EXCEPT ![p] = x]
  <2>1. Follows(list, [list EXCEPT ![p] = x], id)
    BY <1>6, <1>8, FollowsPut, Zenon
  <2> QED
    BY <1>8, <2>1
<1>9. CASE new = Append(list, x)
  BY <1>6, <1>9, FollowsAppended
<1> QED
  BY <1>5, <1>7, <1>8, <1>9

\* A step of one turn, on its own thread.
TurnStep(n, u, c, id) ==
  /\ turns' = [turns EXCEPT ![n] = u] /\ u.conv = turns[n].conv /\ u.reloaded = turns[n].reloaded
  /\ UNCHANGED <<calls, cursor>> /\ RowsGrow
  /\ c = turns[n].conv /\ (id = AnswerId(n) \/ id.of # "answer")
  /\ Follows(messages[c], messages'[c], id)
  /\ \A d \in Convs : d # c => messages'[d] = messages[d]
  /\ ShownIn(turns[n], n, messages[c]) => ShownIn(u, n, messages'[c])

LEMMA TurnSettles ==
  ASSUME ClientInv, SettledInv, NEW n \in DOMAIN turns, NEW u, NEW c, NEW id, TurnStep(n, u, c, id)
  PROVE  SettledInv'
<1> USE DEF TurnStep
<1>1. /\ n \in 1 .. Len(turns) /\ c \in Convs /\ IsSeq(turns)
      /\ \A m \in 1 .. Len(turns) : turns[m].conv \in Convs
  BY TurnIs, SeqIs DEF ClientInv, Opened
<1>2. /\ Len(turns') = Len(turns)
      /\ \A m \in 1 .. Len(turns) : turns'[m] = IF m = n THEN u ELSE turns[m]
  BY <1>1, ExceptIs
<1>3. TurnsOn
  BY <1>2 DEF TurnsOn
<1>4. ASSUME NEW d \in Convs PROVE Fresh(messages'[d])
  <2>1. Fresh(messages[d]) /\ Fresh(messages[c])
    BY <1>1 DEF SettledInv, AnswersSent
  <2>2. id.of = "answer" => id.n \in 1 .. Len(turns)
    BY <1>1, Ids DEF AnswerId
  <2>3. Fresh(messages'[c])
    BY <2>1, <2>2 DEF Follows, Fresh
  <2> QED
    BY <2>1, <2>3
<1>5. \A k \in 1 .. Len(calls') : Timely(calls'[k])
  BY DEF SettledInv, PagesEnd
<1>6. ASSUME NEW m \in 1 .. Len(turns), Unloaded(m)
      PROVE  /\ NotBefore(server[turns[m].conv], AnswerId(m), cursor'[turns[m].conv])
             /\ ShownIn(turns'[m], m, messages'[turns[m].conv])
  <2>1. /\ NotBefore(server[turns[m].conv], AnswerId(m), cursor[turns[m].conv])
        /\ ShownIn(turns[m], m, messages[turns[m].conv])
    BY <1>6 DEF SettledInv, TurnsShown
  <2>2. CASE m = n
    BY <1>2, <2>1, <2>2
  <2>3. CASE m # n
    <3>1. turns'[m] = turns[m]
      BY <1>2, <2>3
    <3>2. CASE turns[m].conv # c
      BY <1>1, <2>1, <3>1, <3>2
    <3>3. CASE turns[m].conv = c
      <4>1. AnswerId(m) # id
        BY <2>3, Ids DEF AnswerId
      <4>2. PICK t, old, new : t = turns[m] /\ old = messages[c] /\ new = messages'[c]
        OBVIOUS
      <4>3. Carries(old, new, Id("answer", t.conv, m)) /\ IsSeq(old) /\ IsSeq(new)
        BY <1>1, <4>1, <4>2 DEF Follows, AnswerId, ClientInv, Known, ThreadOf
      <4>4. ShownIn(t, m, old)
        BY <2>1, <3>3, <4>2
      <4>5. ShownIn(t, m, new)
        BY <4>3, <4>4, ShownStays
      <4> QED
        BY <2>1, <3>1, <3>3, <4>2, <4>5
    <3> QED
      BY <3>2, <3>3
  <2> QED
    BY <2>2, <2>3
<1> QED
  BY <1>3, <1>4, <1>5, <1>6, StepSettles

\* A turn ends: with an error at the end, or with its whole answer in the place it has or there.
Concluded(t, u, n, list, m, new) ==
  LET at == Place(list, Id("answer", t.conv, n))
  IN  /\ u.conv = t.conv /\ u.at = "over"
      /\ \/ new = Append(list, m) /\ m.id = Id("bubble", t.conv, n)
         \/ /\ m.id = Id("answer", t.conv, n) /\ m.parts = Recorded(u.script)
            /\ new = IF at = 0 THEN Append(list, m) ELSE [list EXCEPT ![at] = m]

LEMMA OverShown ==
  ASSUME NEW t, NEW u, NEW n, NEW list, IsSeq(list), ShownIn(t, n, list), NEW m, NEW new,
         Concluded(t, u, n, list, m, new)
  PROVE  ShownIn(u, n, new)
<1> DEFINE id == Id("answer", t.conv, n)
<1>0. PICK p : p = Place(list, id)
  OBVIOUS
<1> USE <1>0 DEF Concluded
<1>1. /\ p = 0 => Without(list, id)
      /\ p # 0 => p \in 1 .. Len(list) /\ list[p].id = id
      /\ Len(list) \in Nat
  BY PlaceIs, SeqIs DEF Without
<1>2. \A i, j \in 1 .. Len(list) : list[i].id = id /\ list[j].id = id => i = j
  BY DEF ShownIn
<1>3. Id("bubble", t.conv, n) # id
  BY Ids
<1> HIDE DEF id
<1>4. ASSUME new = Append(list, m), m.id # id \/ Without(list, id)
      PROVE  /\ Len(new) = Len(list) + 1 /\ new[Len(list) + 1] = m
             /\ \A i, j \in 1 .. Len(new) : new[i].id = id /\ new[j].id = id => i = j
  <2>1. /\ Len(new) = Len(list) + 1 /\ new[Len(list) + 1] = m
        /\ \A i \in 1 .. Len(list) : new[i] = list[i]
    BY <1>4, AppendIs
  <2>2. \A i \in 1 .. Len(new) : i \in 1 .. Len(list) \/ i = Len(list) + 1
    BY <1>1, <2>1
  <2> QED
    BY <1>2, <1>4, <2>1, <2>2 DEF Without
<1>5. CASE new = Append(list, m) /\ m.id = Id("bubble", t.conv, n)
  <2>1. Len(list) + 1 \in 1 .. Len(new) /\ new[Len(list) + 1].id = Id("bubble", t.conv, n)
    BY <1>1, <1>3, <1>4, <1>5
  <2>2. ~Without(new, Id("bubble", t.conv, n))
    BY <2>1 DEF Without
  <2> QED
    BY <1>3, <1>4, <1>5, <2>2 DEF ShownIn, id
<1>6. CASE m.id = id /\ m.parts = Recorded(u.script) /\ p = 0 /\ new = Append(list, m)
  <2>1. Len(list) + 1 \in 1 .. Len(new) /\ new[Len(list) + 1] = m
    BY <1>1, <1>4, <1>6
  <2>2. Whole(u, id, new)
    BY <1>6, <2>1 DEF Whole
  <2> QED
    BY <1>1, <1>4, <1>6, <2>2 DEF ShownIn, id
<1>7. CASE m.id = id /\ m.parts = Recorded(u.script) /\ p # 0 /\ new = [list EXCEPT ![p] = m]
  <2>1. Changed(list, new, p, m)
    BY <1>7, ChangedIs
  <2>2. p \in 1 .. Len(new) /\ new[p] = m
    BY <1>1, <1>7, <2>1 DEF Changed
  <2>3. Whole(u, id, new)
    BY <1>7, <2>2 DEF Whole
  <2>4. \A i, j \in 1 .. Len(new) : new[i].id = id /\ new[j].id = id => i = j
    <3>1. Len(new) = Len(list) /\ \A i \in 1 .. Len(list) : new[i].id = list[i].id
      BY <1>1, <1>7, <2>1 DEF Changed
    <3> QED
      BY <1>2, <3>1
  <2> QED
    BY <2>3, <2>4 DEF ShownIn, id
<1> QED
  BY <1>5, <1>6, <1>7 DEF id
-----------------------------------------------------------------------------
\* The rows of the server and the threads stay.
LEMMA ServerSettles ==
  ASSUME ClientInv, SettledInv, NEW n \in DOMAIN turns,
         TakeTurn(n) \/ StoreAnswer(n) \/ Cut(n) \/ EndEarly(n)
  PROVE  SettledInv'
<1> DEFINE c == turns[n].conv
<1>1. /\ UNCHANGED <<messages, cursor, calls>>
      /\ \/ /\ server' = [server EXCEPT ![c] = Append(server[c], Row(Id("ask", c, n), << >>))]
            /\ turns[n].at = "posted" /\ turns' = [turns EXCEPT ![n].at = "streaming"]
         \/ /\ server' = [server EXCEPT ![c] =
                            Append(server[c], Row(Id("answer", c, n), Recorded(turns[n].script)))]
            /\ turns' = [turns EXCEPT ![n].stored = TRUE]
         \/ /\ server' = server
            /\ turns[n].at = "streaming"
            /\ \E at \in {"cut", "ended"} : turns' = [turns EXCEPT ![n].at = at]
  BY DEF TakeTurn, StoreAnswer, Cut, EndEarly, serverVars, listVars, threadVars
<1>2. /\ n \in 1 .. Len(turns) /\ DOMAIN turns[n] = TurnFields /\ c \in Convs
      /\ IsSeq(messages[c]) /\ DOMAIN server = Convs
  BY TurnIs DEF ClientInv, Known, ThreadOf, Functions
<1>3. PICK u : /\ turns' = [turns EXCEPT ![n] = u]
               /\ \/ /\ turns[n].at \in {"posted", "streaming"}
                     /\ \E at \in {"streaming", "cut", "ended"} : u = [turns[n] EXCEPT !.at = at]
                  \/ u = [turns[n] EXCEPT !.stored = TRUE]
  BY <1>1
<1>4. /\ u.conv = turns[n].conv /\ u.script = turns[n].script /\ u.read = turns[n].read
      /\ u.reloaded = turns[n].reloaded /\ (u.at = "over" <=> turns[n].at = "over")
  BY <1>2, <1>3 DEF TurnFields
<1>5. RowsGrow
  <2>1. PICK ask, answer : /\ ask = Row(Id("ask", c, n), << >>)
                           /\ answer = Row(Id("answer", c, n), Recorded(turns[n].script))
    OBVIOUS
  <2>2. ask.id.of # "answer" /\ answer.id.n = n
    BY <2>1 DEF Row, Message, Id
  <2>3. \/ server' = [server EXCEPT ![c] = Append(server[c], ask)]
        \/ server' = [server EXCEPT ![c] = Append(server[c], answer)]
        \/ server' = server
    BY <1>1, <2>1, Zenon
  <2>4. PICK x : /\ x.id.of = "answer" => x.id.n \in 1 .. Len(turns)
                 /\ server' = [server EXCEPT ![c] = Append(server[c], x)] \/ server' = server
    BY <1>2, <2>2, <2>3
  <2>5. ASSUME NEW d \in Convs PROVE server'[d] = server[d] \/ server'[d] = Append(server[d], x)
    BY <1>2, <2>4, <2>5
  <2> QED
    BY <2>4, <2>5 DEF RowsGrow
<1>6. Follows(messages[c], messages'[c], AnswerId(n))
  BY <1>1, <1>2, FollowsSame
<1>7. ASSUME ShownIn(turns[n], n, messages[c]) PROVE ShownIn(u, n, messages'[c])
  <2>1. PICK t, list : t = turns[n] /\ list = messages[c]
    OBVIOUS
  <2>2. Carries(list, list, Id("answer", t.conv, n))
    BY <1>2, <2>1, CarriesSame
  <2>3. ShownIn(u, n, list)
    BY <1>2, <1>4, <1>7, <2>1, <2>2, ShownStays
  <2> QED
    BY <1>1, <2>1, <2>3
<1>8. TurnStep(n, u, c, AnswerId(n))
  BY <1>1, <1>3, <1>4, <1>5, <1>6, <1>7 DEF TurnStep
<1> QED
  BY <1>8, TurnSettles

LEMMA ReadSettles ==
  ASSUME ClientInv, Streams, SettledInv, NEW n \in DOMAIN turns, ReadFrame(n)
  PROVE  SettledInv'
<1>1. PICK t, c, seq, frame, id, old, new :
        /\ t = turns[n] /\ c = t.conv /\ seq = t.read + 1 /\ frame = t.script[t.read + 1]
        /\ id = Id("answer", t.conv, n) /\ old = messages[c] /\ new = WithFrame(old, id, frame, seq)
  OBVIOUS
<1>2. /\ t.at = "streaming" /\ seq <= Len(t.script)
      /\ messages' = [messages EXCEPT ![c] = new]
      /\ turns' = [turns EXCEPT ![n].read = seq,
                                ![n].at = IF seq = Len(t.script) THEN "over" ELSE turns[n].at]
      /\ UNCHANGED <<server, cursor, calls>>
  BY <1>1 DEF ReadFrame, serverVars, listVars
<1>3. /\ n \in 1 .. Len(turns) /\ DOMAIN t = TurnFields /\ c \in Convs /\ IsSeq(old)
      /\ DOMAIN messages = Convs
  BY <1>1, TurnIs DEF ClientInv, Known, ThreadOf, Functions
<1>4. PICK u : u = [t EXCEPT !.read = seq, !.at = IF seq = Len(t.script) THEN "over" ELSE t.at]
  OBVIOUS
<1>5. turns' = [turns EXCEPT ![n] = u]
  BY <1>1, <1>2, <1>3, <1>4
<1>6. /\ u.conv = t.conv /\ u.script = t.script /\ u.read = seq /\ u.reloaded = t.reloaded
      /\ u.at = "over" => seq = Len(t.script)
  BY <1>2, <1>3, <1>4 DEF TurnFields
<1>7. t.script \in Seq(Frames) /\ t.read \in Nat /\ t.read < Len(t.script)
  <2>1. StreamOf(t)
    BY <1>1, <1>3 DEF Streams
  <2>2. t.script \in Seq(Frames) /\ Len(t.script) \in Nat
    BY <2>1, ScriptIs DEF StreamOf, Streamable
  <2> QED
    BY <1>1, <1>2, <2>1, <2>2 DEF StreamOf
<1>8. Follows(old, new, id)
  BY <1>1, <1>3, FrameFollows
<1>9. ASSUME ShownIn(t, n, old) PROVE ShownIn(u, n, new)
  BY <1>1, <1>2, <1>3, <1>6, <1>7, <1>9, FrameShown
<1>10. messages'[c] = new /\ \A d \in Convs : d # c => messages'[d] = messages[d]
  BY <1>2, <1>3
<1>11. RowsGrow /\ id = AnswerId(n)
  BY <1>1, <1>2 DEF RowsGrow, AnswerId
<1>12. /\ Follows(messages[c], messages'[c], id)
       /\ ShownIn(turns[n], n, messages[c]) => ShownIn(u, n, messages'[c])
       /\ c = turns[n].conv /\ u.conv = turns[n].conv /\ u.reloaded = turns[n].reloaded
  BY <1>1, <1>6, <1>8, <1>9, <1>10
<1>13. \A d \in Convs : d # c => messages'[d] = messages[d]
  BY <1>10
<1>14. UNCHANGED <<calls, cursor>> /\ RowsGrow /\ (id = AnswerId(n) \/ id.of # "answer")
  BY <1>2, <1>11
<1> QED
  BY <1>5, <1>12, <1>13, <1>14, TurnSettles DEF TurnStep

\* A turn that ends without its last frame.
EndStep(n, u, m, new) ==
  LET c == turns[n].conv
  IN  /\ UNCHANGED <<server, cursor, calls>> /\ turns' = [turns EXCEPT ![n] = u]
      /\ u.reloaded = turns[n].reloaded /\ messages' = [messages EXCEPT ![c] = new]
      /\ Concluded(turns[n], u, n, messages[c], m, new)

LEMMA EndSettles ==
  ASSUME ClientInv, SettledInv, NEW n \in DOMAIN turns, NEW u, NEW m, NEW new, EndStep(n, u, m, new)
  PROVE  SettledInv'
<1>1. PICK t, c, old, id : t = turns[n] /\ c = t.conv /\ old = messages[c] /\ id = m.id
  OBVIOUS
<1>2. /\ UNCHANGED <<server, cursor, calls>> /\ turns' = [turns EXCEPT ![n] = u]
      /\ u.reloaded = t.reloaded /\ messages' = [messages EXCEPT ![c] = new]
      /\ Concluded(t, u, n, old, m, new)
  BY <1>1 DEF EndStep
<1>3. c \in Convs /\ IsSeq(old) /\ DOMAIN messages = Convs
  BY <1>1, TurnIs DEF ClientInv, Known, ThreadOf, Functions
<1>4. messages'[c] = new /\ \A d \in Convs : d # c => messages'[d] = messages[d]
  BY <1>2, <1>3
<1>5. PICK p : p = Place(old, Id("answer", t.conv, n))
  OBVIOUS
<1>6. /\ p # 0 => p \in 1 .. Len(old) /\ old[p].id = Id("answer", t.conv, n)
      /\ \/ new = Append(old, m)
         \/ id = Id("answer", t.conv, n) /\ p # 0 /\ new = [old EXCEPT ![p] = m]
  BY <1>1, <1>2, <1>3, <1>5, PlaceIs DEF Concluded
<1>7. Follows(old, new, id)
  <2>1. CASE new = Append(old, m)
    BY <1>1, <1>3, <2>1, FollowsAppended
  <2>2. CASE id = Id("answer", t.conv, n) /\ p # 0 /\ new = [old EXCEPT ![p] = m]
    <3>1. Follows(old, [old EXCEPT ![p] = m], id)
      BY <1>1, <1>3, <1>6, <2>2, FollowsPut, Zenon
    <3> QED
      BY <2>2, <3>1
  <2> QED
    BY <1>6, <2>1, <2>2
<1>8. id = AnswerId(n) \/ id.of # "answer"
  BY <1>1, <1>2 DEF Concluded, AnswerId, Id
<1>9. ShownIn(t, n, old) => ShownIn(u, n, new)
  BY <1>2, <1>3, OverShown
<1>10. RowsGrow /\ u.conv = t.conv
  BY <1>2 DEF RowsGrow, Concluded
<1>11. TurnStep(n, u, c, id)
  BY <1>1, <1>2, <1>4, <1>7, <1>8, <1>9, <1>10 DEF TurnStep
<1> QED
  BY <1>11, TurnSettles

LEMMA RefuseSettles ==
  ASSUME ClientInv, SettledInv, NEW n \in DOMAIN turns, Refuse(n)
  PROVE  SettledInv'
<1>1. PICK t, c, old, m, new, p :
        /\ t = turns[n] /\ c = t.conv /\ old = messages[c] /\ m = Bubble(n) /\ new = Append(old, m)
        /\ p = Place(old, Id("answer", c, n))
  OBVIOUS
<1>2. PICK u : u = [t EXCEPT !.at = "over", !.script = IF t.at = "posted" THEN << >> ELSE t.script]
  OBVIOUS
<1>3. DOMAIN t = TurnFields /\ DOMAIN turns = 1 .. Len(turns) /\ n \in 1 .. Len(turns)
  BY <1>1, TurnIs
<1>4. /\ turns' = [turns EXCEPT ![n] = u] /\ messages' = [messages EXCEPT ![c] = new]
      /\ UNCHANGED <<server, cursor, calls>>
  BY <1>1, <1>2, <1>3 DEF Refuse, Shown, serverVars, listVars
<1>5. u.conv = c /\ u.reloaded = t.reloaded /\ u.at = "over"
  BY <1>1, <1>2, <1>3 DEF TurnFields
<1>6. m.id = Id("bubble", c, n)
  BY <1>1 DEF Bubble, Message
<1> QED
  BY <1>1, <1>4, <1>5, <1>6, EndSettles DEF EndStep, Concluded

LEMMA ReconcileSettles ==
  ASSUME ClientInv, SettledInv, NEW n \in DOMAIN turns, NEW ok \in BOOLEAN, Reconcile(n, ok)
  PROVE  SettledInv'
<1>1. PICK t, c, old, p :
        /\ t = turns[n] /\ c = t.conv /\ old = messages[c] /\ p = Place(old, Id("answer", c, n))
  OBVIOUS
<1>2. PICK u, bubble, answer, recovered :
        /\ u = [t EXCEPT !.at = "over"] /\ bubble = Bubble(n)
        /\ answer = Message(Id("answer", c, n), Recorded(t.script), 0)
        /\ recovered = IF ok THEN GetTurn(n) ELSE << >>
  OBVIOUS
<1>3. DOMAIN t = TurnFields /\ DOMAIN turns = 1 .. Len(turns) /\ n \in 1 .. Len(turns)
      /\ c \in Convs /\ DOMAIN messages = Convs
  BY <1>1, TurnIs DEF ClientInv, Functions
<1>4. turns' = [turns EXCEPT ![n] = u] /\ UNCHANGED <<server, cursor, calls>>
  BY <1>1, <1>2, <1>3 DEF Reconcile, serverVars, listVars
<1>5. /\ u.conv = c /\ u.reloaded = t.reloaded /\ u.at = "over" /\ u.script = t.script
  BY <1>1, <1>2, <1>3 DEF TurnFields
<1>6. /\ bubble.id = Id("bubble", c, n)
      /\ answer.id = Id("answer", c, n) /\ answer.parts = Recorded(u.script)
  BY <1>1, <1>2, <1>5 DEF Bubble, Message
<1>7. recovered = << >> \/ (recovered # << >> /\ recovered[1] = answer)
  BY <1>1, <1>2 DEF GetTurn
<1>8. messages' = CASE recovered = << >> -> Shown(c, bubble)
                    [] recovered # << >> /\ p # 0 -> [messages EXCEPT ![c][p] = recovered[1]]
                    [] OTHER -> Shown(c, recovered[1])
  BY <1>1, <1>2 DEF Reconcile
<1>9. CASE recovered = << >>
  <2>1. PICK new : new = Append(old, bubble)
    OBVIOUS
  <2>2. messages' = [messages EXCEPT ![c] = new]
    BY <1>1, <1>8, <1>9, <2>1 DEF Shown
  <2> QED
    BY <1>1, <1>4, <1>5, <1>6, <2>1, <2>2, EndSettles DEF EndStep, Concluded
<1>10. CASE recovered # << >>
  <2>1. PICK new : new = IF p = 0 THEN Append(old, answer) ELSE [old EXCEPT ![p] = answer]
    OBVIOUS
  <2>2. messages' = [messages EXCEPT ![c] = new]
    BY <1>1, <1>7, <1>8, <1>10, <2>1 DEF Shown
  <2> QED
    BY <1>1, <1>4, <1>5, <1>6, <2>1, <2>2, EndSettles DEF EndStep, Concluded
<1> QED
  BY <1>9, <1>10

-----------------------------------------------------------------------------
\* What is there has no answer of a turn that is yet to be sent.
LEMMA NoneYet ==
  ASSUME NEW list, Fresh(list), IsSeq(turns), NEW c
  PROVE  Without(list, Id("answer", c, Len(turns) + 1))
<1>1. Len(turns) \in Nat /\ Len(turns) + 1 \notin 1 .. Len(turns)
  BY SeqIs
<1>2. PICK n : n = Len(turns) + 1
  OBVIOUS
<1>3. Id("answer", c, n).of = "answer" /\ Id("answer", c, n).n = n
  BY Ids
<1> QED
  BY <1>1, <1>2, <1>3 DEF Without, Fresh

LEMMA SendSettles ==
  ASSUME ClientInv, SettledInv, SendMessage
  PROVE  SettledInv'
<1>1. PICK n, c, list, m, new :
        /\ n = Len(turns) + 1 /\ c = activeId /\ list = messages[c]
        /\ m = Message(Id("local ask", c, n), << >>, 0) /\ new = Append(list, m)
  OBVIOUS
<1>2. PICK script :
        turns' = Append(turns, [NoTurn EXCEPT !.conv = activeId, !.at = "posted", !.script = script])
  BY DEF SendMessage
<1>3. PICK t : t = [NoTurn EXCEPT !.conv = c, !.at = "posted", !.script = script]
  OBVIOUS
<1>4. /\ UNCHANGED <<server, cursor, calls>> /\ messages' = [messages EXCEPT ![c] = new]
      /\ turns' = Append(turns, t) /\ activeId # None
  BY <1>1, <1>2, <1>3 DEF SendMessage, Shown, serverVars, listVars
<1>5. c \in Convs /\ IsSeq(list) /\ IsSeq(turns) /\ DOMAIN messages = Convs /\ Len(turns) \in Nat
  BY <1>1, <1>4, SeqIs DEF ClientInv, Opened, Created, Known, ThreadOf, Functions
<1>6. /\ Len(turns') = n /\ turns'[n] = t
      /\ \A j \in 1 .. Len(turns) : turns'[j] = turns[j]
      /\ \A j \in 1 .. Len(turns') : j \in 1 .. Len(turns) \/ j = n
      /\ \A j \in 1 .. Len(turns) : j \in 1 .. n /\ j # n
  <2>1. /\ Len(turns') = Len(turns) + 1 /\ turns'[Len(turns) + 1] = t
        /\ \A j \in 1 .. Len(turns) : turns'[j] = turns[j]
    BY <1>4, <1>5, AppendIs
  <2>2. n = Len(turns) + 1
    BY <1>1
  <2> QED
    BY <1>5, <2>1, <2>2
<1>7. t.conv = c /\ t.at = "posted" /\ t.read = 0
  BY <1>3 DEF NoTurn
<1>8. /\ messages'[c] = new /\ \A d \in Convs : d # c => messages'[d] = messages[d]
      /\ m.id.of = "local ask"
  <2>1. messages'[c] = new /\ \A d \in Convs : d # c => messages'[d] = messages[d]
    BY <1>4, <1>5
  <2>2. m.id.of = "local ask"
    BY <1>1 DEF Message, Id
  <2> QED
    BY <2>1, <2>2
<1>9. Follows(list, new, m.id) /\ IsSeq(new)
  <2>1. new = Append(list, m) /\ IsSeq(list)
    BY <1>1, <1>5
  <2>2. PICK x : x = m.id
    OBVIOUS
  <2>3. Follows(list, new, x)
    BY <2>1, <2>2, FollowsAppended
  <2> QED
    BY <2>2, <2>3 DEF Follows
<1>10. \A s : Fresh(s) => Fresh(s)'
  <2> TAKE s
  <2> HAVE Fresh(s)
  <2> QED
    BY <1>6 DEF Fresh
<1>11. \A d \in Convs : Fresh(server[d]) /\ Fresh(messages[d])
  BY DEF SettledInv, AnswersSent
<1>12. Fresh(new)
  <2>1. Fresh(list)
    BY <1>1, <1>5, <1>11
  <2>2. \A i \in 1 .. Len(new) : new[i].id = m.id \/ \E j \in 1 .. Len(list) : new[i].id = list[j].id
    BY <1>9 DEF Follows
  <2>3. ASSUME NEW i \in 1 .. Len(new), new[i].id.of = "answer"
        PROVE  new[i].id.n \in 1 .. Len(turns)
    <3>1. PICK j \in 1 .. Len(list) : new[i].id = list[j].id
      BY <1>8, <2>2, <2>3
    <3> QED
      BY <2>1, <2>3, <3>1 DEF Fresh
  <2> QED
    BY <2>3 DEF Fresh
<1>13. AnswersSent'
  BY <1>4, <1>8, <1>10, <1>11, <1>12 DEF AnswersSent
<1>14. PICK id : id = Id("answer", c, n)
  OBVIOUS
<1>15. AnswerId(n)' = id /\ \A j \in 1 .. Len(turns) : AnswerId(j)' = AnswerId(j)
  BY <1>6, <1>7, <1>14 DEF AnswerId
<1>16. \A s : Fresh(s) => Without(s, id)
  BY <1>1, <1>5, <1>14, NoneYet
<1>17. ASSUME NEW p \in Int, p <= Len(server[c]) PROVE NotBefore(server[c], id, p)
  BY <1>5, <1>11, <1>16, <1>17 DEF NotBefore, Without
<1>18. ASSUME NEW k \in 1 .. Len(calls) PROVE Timely(calls[k])'
  <2>1. Timely(calls[k]) /\ Requested(calls[k])
    BY DEF SettledInv, PagesEnd, ClientInv, Requests
  <2>2. PICK r : r = calls[k]
    OBVIOUS
  <2>3. ASSUME r.op = "earlier", NEW j \in 1 .. Len(turns'), Unloaded(j)', turns'[j].conv = r.conv
        PROVE  Ending(r, server[turns'[j].conv], AnswerId(j)')
    <3>1. CASE j = n
      <4>1. r.conv = c /\ r.before \in Int /\ r.before <= Len(server[c])
        BY <1>6, <1>7, <2>1, <2>2, <2>3, <3>1 DEF Requested
      <4>2. r.at = "served" => /\ Fresh(r.page.items) /\ r.page.next \in Int
                               /\ r.page.next <= Len(server[c])
        BY <2>1, <2>2, <2>3, <4>1 DEF Requested, Timely, PageOf
      <4>3. Ending(r, server[c], id)
        BY <1>16, <1>17, <4>1, <4>2 DEF Ending
      <4> QED
        BY <1>6, <1>7, <1>15, <3>1, <4>3
    <3>2. CASE j # n
      <4>1. j \in 1 .. Len(turns) /\ Unloaded(j) /\ turns[j].conv = r.conv /\ turns'[j] = turns[j]
        BY <1>6, <2>3, <3>2 DEF Unloaded
      <4>2. Ending(r, server[turns[j].conv], AnswerId(j))
        BY <2>1, <2>2, <2>3, <4>1 DEF Timely
      <4> QED
        BY <1>15, <4>1, <4>2
    <3> QED
      BY <3>1, <3>2
  <2>4. r.op \in {"open", "boot open", "earlier"} /\ r.at = "served" => Fresh(r.page.items)'
    BY <1>10, <2>1, <2>2 DEF Timely
  <2>5. Timely(r)'
    BY <1>4, <2>3, <2>4 DEF Timely
  <2> QED
    BY <1>4, <2>2, <2>5
<1>19. PagesEnd'
  BY <1>4, <1>18 DEF PagesEnd
<1>20. ASSUME NEW j \in 1 .. Len(turns'), Unloaded(j)'
       PROVE  /\ NotBefore(server'[turns'[j].conv], AnswerId(j)', cursor'[turns'[j].conv])
              /\ ShownIn(turns'[j], j, messages'[turns'[j].conv])
  <2>1. CASE j = n
    <3>1. cursor[c] \in Int /\ cursor[c] <= Len(server[c])
      BY <1>5 DEF ClientInv, Known, ThreadOf
    <3>2. NotBefore(server[c], id, cursor[c])
      BY <1>17, <3>1
    <3>3. Without(new, id)
      BY <1>12, <1>16
    <3>4. ShownIn(t, n, new)
      BY <1>7, <1>14, <3>3 DEF ShownIn, Without
    <3> QED
      BY <1>4, <1>6, <1>7, <1>8, <1>15, <2>1, <3>2, <3>4
  <2>2. CASE j # n
    <3>1. j \in 1 .. Len(turns) /\ Unloaded(j) /\ turns'[j] = turns[j]
      BY <1>6, <1>20, <2>2 DEF Unloaded
    <3>2. /\ NotBefore(server[turns[j].conv], AnswerId(j), cursor[turns[j].conv])
          /\ ShownIn(turns[j], j, messages[turns[j].conv]) /\ turns[j].conv \in Convs
      BY <1>5, <3>1, SeqIs, TurnIs DEF SettledInv, TurnsShown
    <3>3. ShownIn(turns[j], j, messages'[turns[j].conv])
      <4>1. CASE turns[j].conv # c
        BY <1>8, <3>2, <4>1
      <4>2. CASE turns[j].conv = c
        <5>1. PICK s, other : s = turns[j] /\ other = Id("answer", s.conv, j)
          OBVIOUS
        <5>2. other.of = "answer"
          BY <5>1, Ids
        <5>3. Carries(list, new, other)
          BY <1>8, <1>9, <5>2 DEF Follows
        <5>4. ShownIn(s, j, list)
          BY <1>1, <3>2, <4>2, <5>1
        <5>5. ShownIn(s, j, new)
          BY <1>5, <1>9, <5>1, <5>3, <5>4, ShownStays
        <5> QED
          BY <1>8, <4>2, <5>1, <5>5
      <4> QED
        BY <4>1, <4>2
    <3> QED
      BY <1>4, <1>15, <3>1, <3>2, <3>3
  <2> QED
    BY <2>1, <2>2
<1>21. TurnsShown'
  BY <1>20 DEF TurnsShown
<1> QED
  BY <1>13, <1>19, <1>21 DEF SettledInv

-----------------------------------------------------------------------------
LEMMA SettledInit == Init => SettledInv
<1> SUFFICES ASSUME Init PROVE SettledInv
  OBVIOUS
<1>1. Len(calls) = 0 /\ Len(turns) = 0
  BY EmptyIs DEF Init
<1>2. ASSUME NEW c \in Convs PROVE Fresh(server[c]) /\ Fresh(messages[c])
  <2>1. Fresh(messages[c])
    BY <1>2, EmptyIs DEF Init, Fresh
  <2>2. ASSUME NEW i \in 1 .. Len(server[c]) PROVE server[c][i].id.of # "answer"
    <3>1. IsSeq(server[c]) /\ i \in DOMAIN server[c] /\ server[c] = OldRows(c)
      BY ClientInvInit, SeqIs DEF Init, ClientInv, Rows, RowsOf
    <3> DEFINE of == IF i = 1 THEN "opener" ELSE IF i % 2 = 0 THEN "old ask" ELSE "old answer"
    <3>2. server[c][i] = Row(Id(of, c, i), << >>)
      BY <3>1 DEF OldRows
    <3>3. of # "answer"
      <4>1. of = "opener" \/ of = "old ask" \/ of = "old answer"
        BY Zenon
      <4> HIDE DEF of
      <4> QED
        BY <4>1
    <3> HIDE DEF of
    <3>4. server[c][i].id.of = of
      BY <3>2 DEF Row, Message, Id
    <3> QED
      BY <3>3, <3>4
  <2> QED
    BY <2>1, <2>2 DEF Fresh
<1> QED
  BY <1>1, <1>2 DEF SettledInv, AnswersSent, PagesEnd, TurnsShown

LEMMA SettledNext == ClientInv /\ Streams /\ SettledInv /\ [Next]_vars => SettledInv'
<1> SUFFICES ASSUME ClientInv, Streams, SettledInv, [Next]_vars PROVE SettledInv'
  OBVIOUS
<1>1. CASE UNCHANGED vars
  <2>1. UNCHANGED <<server, messages, cursor, turns, calls>>
    BY <1>1 DEF vars, serverVars, threadVars
  <2>2. \A k \in 1 .. Len(calls') : Timely(calls'[k])
    BY <2>1 DEF SettledInv, PagesEnd
  <2> QED
    BY <2>1, <2>2, QuietSettles
<1>2. CASE \/ Bootstrap \/ NewConversation \/ LoadMoreConversations
           \/ \E c \in Convs : OpenConversation(c) \/ LoadEarlierMessages(c)
  BY <1>2, AskSettles
<1>3. CASE SendMessage
  BY <1>3, SendSettles
<1>4. ASSUME NEW k \in DOMAIN calls,
             \/ Serve(k) \/ Fail(k) \/ LandList(k) \/ LandCreate(k) \/ LandOpen(k)
             \/ LandEarlier(k) \/ LandMore(k)
      PROVE  SettledInv'
  BY <1>4, ServeSettles, ListSettles, LandCreateSettles, LandOpenSettles, LandEarlierSettles
<1>5. ASSUME NEW n \in DOMAIN turns,
             \/ TakeTurn(n) \/ StoreAnswer(n) \/ ReadFrame(n) \/ Refuse(n) \/ Cut(n)
             \/ EndEarly(n) \/ \E ok \in BOOLEAN : Reconcile(n, ok)
      PROVE  SettledInv'
  BY <1>5, ServerSettles, ReadSettles, RefuseSettles, ReconcileSettles
<1> QED
  BY <1>1, <1>2, <1>3, <1>4, <1>5 DEF Next

\* A turn that is over leaves its whole answer on the screen or says that it failed, and one whose
\* stream ended early in good order exactly what the frames it read make, unless its thread was
\* loaded anew meanwhile: for any conversations, page sizes and streams of one terminal frame,
\* however pages, drops, early ends and recoveries overlap (applyEventTo, sendMessage, streamTurn).
THEOREM TurnsAreShown == Spec => []SettledShowsTheTurn
<1>1. Init => ClientInv /\ Streams /\ SettledInv
  <2> SUFFICES ASSUME Init PROVE ClientInv /\ Streams /\ SettledInv
    OBVIOUS
  <2>1. turns = << >>
    BY DEF Init
  <2> QED
    BY <2>1, ClientInvInit, SettledInit DEF Streams
<1>2. (ClientInv /\ Streams /\ SettledInv) /\ [Next]_vars => (ClientInv /\ Streams /\ SettledInv)'
  BY ClientInvNext, StreamsNext, SettledNext
<1>3. ClientInv /\ Streams /\ SettledInv => SettledShowsTheTurn
  BY ShownSettles
<1> QED
  BY <1>1, <1>2, <1>3, PTL DEF Spec

-----------------------------------------------------------------------------
(* The rate limiter.                                                        *)

\* A reading reaches the lock within MaxDelay ticks.
ReadingsAreRecent ==
  \A t \in Threads :
    reading[t] # Idle => reading[t].now <= clock /\ clock - reading[t].now <= MaxDelay

\* A bucket was last refilled in the past, and readings that came out of order have taken no
\* more than a delay's tokens from it.
Sound(bucket) ==
  bucket # Absent => /\ bucket.lastRefill <= clock
                     /\ bucket.lastRefill - bucket.tokens <= clock
                     /\ bucket.tokens >= -MaxDelay

\* What was let through since the i-th check and what is left in the bucket come to a full
\* bucket and what was refilled since; a bucket that is forgotten may come back full for any
\* reading not older than a delay.
Leeway(gift, checks, i) == gift - checks[i].early - checks[i].at
Within(bucket, gift, checks) ==
  \A i \in DOMAIN checks :
    IF bucket = Absent THEN Len(checks) - i + 1 <= clock - MaxDelay + Leeway(gift, checks, i)
    ELSE Len(checks) - i + 1 + bucket.tokens <= Capacity + bucket.lastRefill + Leeway(gift, checks, i)

LimiterInv ==
  /\ LimiterTypeOK
  /\ ReadingsAreRecent
  /\ \A k \in Keys : Sound(buckets[k]) /\ Within(buckets[k], early[k], admitted[k])
  /\ AdmittedWithinRate

\* The parts of a check: its key, its reading, and the bucket it leaves before the sweep.
Key(t) == reading[t].key
Reading(t) == reading[t].now
Mine(t) ==
  LET tokens == Refilled(buckets[Key(t)], Reading(t))
  IN  [tokens |-> IF tokens >= 1 THEN tokens - 1 ELSE tokens, lastRefill |-> Reading(t)]
Passes(t) == Refilled(buckets[Key(t)], Reading(t)) >= 1
Spent(t) == [buckets EXCEPT ![Key(t)] = Mine(t)]
Checks(t) == IF Passes(t) THEN [admitted EXCEPT ![Key(t)] = Append(@, [at |-> Reading(t), early |-> early[Key(t)]])]
             ELSE admitted

\* A check works on a known key with a recent reading.
LEMMA CheckReads ==
  ASSUME LimiterInv, NEW t \in Threads, Check(t)
  PROVE  /\ Key(t) \in Keys /\ Reading(t) \in Nat
         /\ Reading(t) <= clock /\ clock - Reading(t) <= MaxDelay
<1>1. reading[t] \in {Idle} \union [key : Keys, now : Nat] /\ reading[t] # Idle
  BY DEF LimiterInv, LimiterTypeOK, Check
<1>2. reading[t] \in [key : Keys, now : Nat]
  BY <1>1
<1> QED
  BY <1>1, <1>2 DEF LimiterInv, ReadingsAreRecent, Key, Reading

\* The bucket a check finds gives it at most a full one, at most what was left and refilled
\* since, and at least all of that or a full one.
LEMMA RefillBounds ==
  ASSUME NEW bucket \in {Absent} \union [tokens : Int, lastRefill : Nat], NEW now \in Nat
  PROVE  /\ Refilled(bucket, now) \in Int
         /\ Refilled(bucket, now) <= Capacity
         /\ bucket = Absent => Refilled(bucket, now) = Capacity
         /\ bucket # Absent =>
              /\ Refilled(bucket, now) <= bucket.tokens + (now - bucket.lastRefill)
              /\ Refilled(bucket, now) = Capacity
                   \/ Refilled(bucket, now) = bucket.tokens + (now - bucket.lastRefill)
<1>1. Capacity \in Int
  BY LimiterAssumption
<1>2. CASE bucket = Absent
  BY <1>1, <1>2 DEF Refilled
<1>3. CASE bucket # Absent
  <2>1. bucket.tokens \in Int /\ bucket.lastRefill \in Int
    BY <1>3
  <2> DEFINE level == bucket.tokens + (now - bucket.lastRefill)
  <2>2. level \in Int
    BY <2>1
  <2>3. Refilled(bucket, now) = IF level < Capacity THEN level ELSE Capacity
    BY <1>3 DEF Refilled
  <2> HIDE DEF level
  <2>4. /\ Refilled(bucket, now) \in Int
        /\ Refilled(bucket, now) <= Capacity
        /\ Refilled(bucket, now) <= level
        /\ Refilled(bucket, now) = Capacity \/ Refilled(bucket, now) = level
    BY <1>1, <2>2, <2>3
  <2> QED
    BY <1>3, <2>4 DEF level
<1> QED
  BY <1>2, <1>3

\* What a check makes of the variables, the sweep taken apart key by key.
LEMMA CheckSteps ==
  ASSUME LimiterInv, NEW t \in Threads, Check(t)
  PROVE  /\ clock' = clock /\ admitted' = Checks(t)
         /\ reading' = [reading EXCEPT ![t] = Idle]
         /\ sinceSweep' \in Nat
         /\ \A k \in Keys :
              \/ buckets'[k] = Spent(t)[k] /\ early'[k] = early[k]
              \/ /\ Spent(t)[k] # Absent /\ Reading(t) - Spent(t)[k].lastRefill > Capacity
                 /\ buckets'[k] = Absent /\ early'[k] = early[k] + 2 * MaxDelay
<1>1. /\ clock' = clock /\ reading' = [reading EXCEPT ![t] = Idle]
      /\ sinceSweep' = IF sinceSweep + 1 >= EvictEvery THEN 0 ELSE sinceSweep + 1
  BY DEF Check
<1>2. admitted' = Checks(t)
  BY DEF Check, Checks, Passes, Key, Reading
<1>3. /\ buckets' = IF sinceSweep + 1 >= EvictEvery THEN [j \in Keys |-> Kept(Spent(t)[j], Reading(t))] ELSE Spent(t)
      /\ early' = EarlyAfter(Spent(t), buckets')
  BY DEF Check, Spent, Mine, Key, Reading
<1>4. sinceSweep' \in Nat
  BY <1>1 DEF LimiterInv, LimiterTypeOK
<1>5. ASSUME NEW k \in Keys
      PROVE  \/ buckets'[k] = Spent(t)[k] /\ early'[k] = early[k]
             \/ /\ Spent(t)[k] # Absent /\ Reading(t) - Spent(t)[k].lastRefill > Capacity
                /\ buckets'[k] = Absent /\ early'[k] = early[k] + 2 * MaxDelay
  <2> DEFINE old == Spent(t)[k]
  <2>1. early'[k] = IF old # Absent /\ buckets'[k] = Absent THEN early[k] + 2 * MaxDelay ELSE early[k]
    BY <1>3 DEF EarlyAfter
  <2>2. buckets'[k] = old \/ (buckets'[k] = Absent /\ Reading(t) - old.lastRefill > Capacity)
    BY <1>3 DEF Kept
  <2> HIDE DEF old
  <2>3. \/ buckets'[k] = old /\ early'[k] = early[k]
        \/ /\ old # Absent /\ Reading(t) - old.lastRefill > Capacity
           /\ buckets'[k] = Absent /\ early'[k] = early[k] + 2 * MaxDelay
    BY <2>1, <2>2
  <2> QED
    BY <2>3 DEF old
<1> QED
  BY <1>1, <1>2, <1>4, <1>5

\* The types of what a check leaves before the sweep.
LEMMA SpentTyped ==
  ASSUME LimiterInv, NEW t \in Threads, Check(t)
  PROVE  /\ Refilled(buckets[Key(t)], Reading(t)) \in Int
         /\ Mine(t) \in [tokens : Int, lastRefill : Nat]
         /\ Mine(t).lastRefill = Reading(t) /\ Mine(t) # Absent
         /\ Mine(t).tokens = IF Passes(t) THEN Refilled(buckets[Key(t)], Reading(t)) - 1
                             ELSE Refilled(buckets[Key(t)], Reading(t))
         /\ Spent(t)[Key(t)] = Mine(t)
         /\ \A k \in Keys \ {Key(t)} : Spent(t)[k] = buckets[k]
         /\ \A k \in Keys : Spent(t)[k] \in {Absent} \union [tokens : Int, lastRefill : Nat]
<1>1. Key(t) \in Keys /\ Reading(t) \in Nat
  BY CheckReads
<1>2. buckets \in [Keys -> {Absent} \union [tokens : Int, lastRefill : Nat]]
  BY DEF LimiterInv, LimiterTypeOK
<1>3. buckets[Key(t)] \in {Absent} \union [tokens : Int, lastRefill : Nat]
  BY <1>1, <1>2
<1>4. Refilled(buckets[Key(t)], Reading(t)) \in Int
  BY <1>1, <1>3, RefillBounds
<1>5. Mine(t) = [tokens |-> IF Passes(t) THEN Refilled(buckets[Key(t)], Reading(t)) - 1
                            ELSE Refilled(buckets[Key(t)], Reading(t)),
                 lastRefill |-> Reading(t)]
  BY DEF Mine, Passes
<1>6. /\ Mine(t) \in [tokens : Int, lastRefill : Nat]
      /\ Mine(t).lastRefill = Reading(t)
      /\ Mine(t).tokens = IF Passes(t) THEN Refilled(buckets[Key(t)], Reading(t)) - 1
                          ELSE Refilled(buckets[Key(t)], Reading(t))
  BY <1>1, <1>4, <1>5
<1>7. Mine(t) # Absent
  <2>1. Absent.lastRefill = -1
    BY DEF Absent
  <2> QED
    BY <1>1, <1>6, <2>1
<1>8. /\ Spent(t)[Key(t)] = Mine(t)
      /\ \A k \in Keys \ {Key(t)} : Spent(t)[k] = buckets[k]
  BY <1>1, <1>2 DEF Spent
<1>9. ASSUME NEW k \in Keys PROVE Spent(t)[k] \in {Absent} \union [tokens : Int, lastRefill : Nat]
  BY <1>2, <1>6, <1>8
<1> QED
  BY <1>4, <1>6, <1>7, <1>8, <1>9

\* A bucket is sound after its check.
LEMMA SpentIsSound ==
  ASSUME LimiterInv, NEW t \in Threads, Check(t), NEW k \in Keys
  PROVE  Sound(Spent(t)[k])
<1> DEFINE T == Refilled(buckets[Key(t)], Reading(t))
<1>1. /\ Key(t) \in Keys /\ Reading(t) \in Nat /\ Reading(t) <= clock /\ clock - Reading(t) <= MaxDelay
      /\ clock \in Nat /\ MaxDelay \in Nat /\ Capacity \in Nat \ {0}
  BY CheckReads, LimiterAssumption DEF LimiterInv, LimiterTypeOK
<1>2. buckets[Key(t)] \in {Absent} \union [tokens : Int, lastRefill : Nat]
  BY <1>1 DEF LimiterInv, LimiterTypeOK
<1>3. /\ T \in Int
      /\ buckets[Key(t)] = Absent => T = Capacity
      /\ buckets[Key(t)] # Absent =>
           T = Capacity \/ T = buckets[Key(t)].tokens + (Reading(t) - buckets[Key(t)].lastRefill)
  BY <1>1, <1>2, RefillBounds
<1>4. /\ Mine(t).lastRefill = Reading(t) /\ Mine(t).tokens = IF Passes(t) THEN T - 1 ELSE T
      /\ Passes(t) <=> T >= 1
      /\ Spent(t)[Key(t)] = Mine(t) /\ \A j \in Keys \ {Key(t)} : Spent(t)[j] = buckets[j]
  BY SpentTyped DEF Passes
<1>5. Sound(Mine(t))
  <2>1. CASE T >= 1
    <3> HIDE DEF T
    <3>1. Mine(t).tokens = T - 1
      BY <1>4, <2>1
    <3> QED
      BY <1>1, <1>3, <1>4, <2>1, <3>1 DEF Sound
  <2>2. CASE ~(T >= 1)
    <3>1. Mine(t).tokens = T
      BY <1>4, <2>2
    <3>2. buckets[Key(t)] # Absent
      BY <1>1, <1>3, <2>2
    <3>3. buckets[Key(t)].lastRefill - buckets[Key(t)].tokens <= clock
      BY <1>1, <3>2 DEF LimiterInv, Sound
    <3>4. T = buckets[Key(t)].tokens + (Reading(t) - buckets[Key(t)].lastRefill)
      BY <1>1, <1>3, <2>2, <3>2
    <3>5. buckets[Key(t)].tokens \in Int /\ buckets[Key(t)].lastRefill \in Int
      BY <1>2, <3>2
    <3> HIDE DEF T
    <3>6. /\ Reading(t) - T <= clock /\ T >= -MaxDelay
      BY <1>1, <3>3, <3>4, <3>5
    <3> QED
      BY <1>1, <1>4, <3>1, <3>6 DEF Sound
  <2> QED
    BY <2>1, <2>2
<1> QED
  BY <1>4, <1>5 DEF LimiterInv

\* The checks let through after a check.
LEMMA ChecksAre ==
  ASSUME LimiterInv, NEW t \in Threads, Check(t)
  PROVE  /\ Checks(t) \in [Keys -> Seq([at : Nat, early : Nat])]
         /\ \A k \in Keys \ {Key(t)} : Checks(t)[k] = admitted[k]
         /\ ~Passes(t) => Checks(t)[Key(t)] = admitted[Key(t)]
         /\ Passes(t) =>
              /\ Len(Checks(t)[Key(t)]) = Len(admitted[Key(t)]) + 1
              /\ \A i \in DOMAIN admitted[Key(t)] : Checks(t)[Key(t)][i] = admitted[Key(t)][i]
              /\ Checks(t)[Key(t)][Len(admitted[Key(t)]) + 1].at = Reading(t)
              /\ Checks(t)[Key(t)][Len(admitted[Key(t)]) + 1].early = early[Key(t)]
<1> DEFINE new == [at |-> Reading(t), early |-> early[Key(t)]]
<1>1. Key(t) \in Keys /\ Reading(t) \in Nat
  BY CheckReads
<1>2. admitted \in [Keys -> Seq([at : Nat, early : Nat])] /\ early \in [Keys -> Nat]
  BY DEF LimiterInv, LimiterTypeOK
<1>3. new \in [at : Nat, early : Nat] /\ new.at = Reading(t) /\ new.early = early[Key(t)]
  BY <1>1, <1>2
<1>4. Checks(t) = IF Passes(t) THEN [admitted EXCEPT ![Key(t)] = Append(admitted[Key(t)], new)] ELSE admitted
  BY DEF Checks
<1> HIDE DEF new
<1>5. /\ Append(admitted[Key(t)], new) \in Seq([at : Nat, early : Nat])
      /\ Len(Append(admitted[Key(t)], new)) = Len(admitted[Key(t)]) + 1
      /\ \A i \in DOMAIN admitted[Key(t)] : Append(admitted[Key(t)], new)[i] = admitted[Key(t)][i]
      /\ Append(admitted[Key(t)], new)[Len(admitted[Key(t)]) + 1] = new
  <2>1. admitted[Key(t)] \in Seq([at : Nat, early : Nat])
    BY <1>1, <1>2
  <2> QED
    BY <1>3, <2>1, AppendProperties
<1>6. CASE Passes(t)
  <2>1. /\ Checks(t) \in [Keys -> Seq([at : Nat, early : Nat])]
        /\ Checks(t)[Key(t)] = Append(admitted[Key(t)], new)
        /\ \A k \in Keys \ {Key(t)} : Checks(t)[k] = admitted[k]
    BY <1>1, <1>2, <1>4, <1>5, <1>6
  <2> QED
    BY <1>3, <1>5, <1>6, <2>1
<1>7. CASE ~Passes(t)
  BY <1>2, <1>4, <1>7
<1> QED
  BY <1>6, <1>7

\* A check takes a token for what it lets through.
LEMMA SpentIsWithin ==
  ASSUME LimiterInv, NEW t \in Threads, Check(t), NEW k \in Keys
  PROVE  Within(Spent(t)[k], early[k], Checks(t)[k])
<1> DEFINE key == Key(t)
           T == Refilled(buckets[key], Reading(t))
           n == Len(admitted[key])
<1>1. /\ key \in Keys /\ Reading(t) \in Nat /\ Reading(t) <= clock /\ clock - Reading(t) <= MaxDelay
      /\ clock \in Nat /\ MaxDelay \in Nat /\ Capacity \in Nat \ {0}
  BY CheckReads, LimiterAssumption DEF LimiterInv, LimiterTypeOK
<1>2. /\ buckets[key] \in {Absent} \union [tokens : Int, lastRefill : Nat]
      /\ admitted[key] \in Seq([at : Nat, early : Nat]) /\ early[key] \in Nat
      /\ n \in Nat /\ DOMAIN admitted[key] = 1 .. n
  BY <1>1 DEF LimiterInv, LimiterTypeOK
<1>3. /\ T \in Int /\ T <= Capacity
      /\ buckets[key] # Absent => T <= buckets[key].tokens + (Reading(t) - buckets[key].lastRefill)
      /\ buckets[key] = Absent => T = Capacity
  BY <1>1, <1>2, RefillBounds
<1>4. /\ Mine(t).lastRefill = Reading(t) /\ Mine(t) # Absent
      /\ Mine(t).tokens = IF Passes(t) THEN T - 1 ELSE T
      /\ Spent(t)[key] = Mine(t) /\ \A j \in Keys \ {key} : Spent(t)[j] = buckets[j]
  BY SpentTyped
<1>a. n \in Int /\ T \in Int /\ Capacity \in Int /\ Reading(t) \in Int /\ clock \in Int /\ MaxDelay \in Int
  BY <1>1, <1>2, <1>3
<1>b. ASSUME NEW i \in DOMAIN admitted[key]
      PROVE  i \in 1 .. n /\ admitted[key][i].at \in Int /\ admitted[key][i].early \in Int
  <2>1. i \in 1 .. n
    BY <1>2
  <2>2. admitted[key][i] \in [at : Nat, early : Nat]
    BY <1>2, <2>1, ElementOfSeq
  <2> QED
    BY <2>1, <2>2
<1>5. ASSUME NEW i \in DOMAIN admitted[key]
      PROVE  n - i + 1 + T <= Capacity + Reading(t) + Leeway(early[key], admitted[key], i)
  <2>1. i \in Int /\ admitted[key][i].at \in Int /\ admitted[key][i].early \in Int
    BY <1>b
  <2>2. Leeway(early[key], admitted[key], i) \in Int
    <3>1. early[key] \in Int
      BY <1>2
    <3> HIDE DEF key
    <3> QED
      BY <2>1, <3>1 DEF Leeway
  <2>3. Within(buckets[key], early[key], admitted[key])
    BY <1>1 DEF LimiterInv
  <2>4. CASE buckets[key] = Absent
    <3>1. n - i + 1 <= clock - MaxDelay + Leeway(early[key], admitted[key], i)
      BY <2>3, <2>4 DEF Within
    <3>2. T = Capacity /\ clock - Reading(t) <= MaxDelay
      BY <1>1, <1>3, <2>4
    <3> HIDE DEF T, n
    <3> QED
      BY <1>a, <2>1, <2>2, <3>1, <3>2
  <2>5. CASE buckets[key] # Absent
    <3>1. n - i + 1 + buckets[key].tokens <= Capacity + buckets[key].lastRefill + Leeway(early[key], admitted[key], i)
      BY <2>3, <2>5 DEF Within
    <3>2. buckets[key].tokens \in Int /\ buckets[key].lastRefill \in Int
      BY <1>2, <2>5
    <3>3. T <= buckets[key].tokens + (Reading(t) - buckets[key].lastRefill)
      BY <1>3, <2>5
    <3> HIDE DEF T, n
    <3> QED
      BY <1>a, <2>1, <2>2, <3>1, <3>2, <3>3
  <2> QED
    BY <2>4, <2>5
<1>6. CASE k # key
  <2>1. Checks(t)[k] = admitted[k] /\ Spent(t)[k] = buckets[k]
    BY <1>4, <1>6, ChecksAre
  <2> QED
    BY <2>1 DEF LimiterInv
<1>7. CASE k = key /\ ~Passes(t)
  <2>1. Checks(t)[key] = admitted[key] /\ Mine(t).tokens = T
    BY <1>4, <1>7, ChecksAre
  <2>2. Within(Mine(t), early[key], admitted[key])
    <3> HIDE DEF T
    <3> QED
      BY <1>4, <1>5, <2>1 DEF Within
  <2> QED
    BY <1>4, <1>7, <2>1, <2>2
<1>8. CASE k = key /\ Passes(t)
  <2> DEFINE after == Checks(t)[key]
  <2>1. /\ after \in Seq([at : Nat, early : Nat]) /\ Len(after) = n + 1
        /\ \A i \in DOMAIN admitted[key] : after[i] = admitted[key][i]
        /\ after[n + 1].at = Reading(t) /\ after[n + 1].early = early[key]
    BY <1>1, <1>8, ChecksAre
  <2>2. Mine(t).tokens = T - 1
    BY <1>4, <1>8
  <2>6. ASSUME NEW i \in DOMAIN after
        PROVE  n + 1 - i + 1 + (T - 1) <= Capacity + Reading(t) + Leeway(early[key], after, i)
    <3>1. i \in 1 .. (n + 1)
      BY <1>2, <2>1
    <3>2. CASE i = n + 1
      <4>1. Leeway(early[key], after, i) = early[key] - early[key] - Reading(t)
        BY <2>1, <3>2 DEF Leeway
      <4>2. early[key] \in Int /\ T <= Capacity
        BY <1>2, <1>3
      <4> DEFINE L == Leeway(early[key], after, i)
      <4> HIDE DEF T, n, after
      <4>3. L = -Reading(t)
        BY <1>a, <4>1, <4>2
      <4> HIDE DEF L
      <4>4. n + 1 - i + 1 + (T - 1) <= Capacity + Reading(t) + L
        BY <1>a, <3>2, <4>2, <4>3
      <4> QED
        BY <4>4 DEF L
    <3>3. CASE i # n + 1
      <4>1. i \in DOMAIN admitted[key]
        BY <1>2, <3>1, <3>3
      <4>2. Leeway(early[key], after, i) = Leeway(early[key], admitted[key], i)
        BY <2>1, <4>1 DEF Leeway
      <4>3. n - i + 1 + T <= Capacity + Reading(t) + Leeway(early[key], admitted[key], i)
        BY <1>5, <4>1
      <4>4. i \in Int
        BY <3>1
      <4> HIDE DEF T, n, after
      <4>5. n + 1 - i + 1 + (T - 1) = n - i + 1 + T
        BY <1>a, <4>4
      <4> QED
        BY <4>2, <4>3, <4>5
    <3> QED
      BY <3>2, <3>3
  <2>7. Within(Mine(t), early[key], after)
    <3>1. ASSUME NEW i \in DOMAIN after
          PROVE  Len(after) - i + 1 + Mine(t).tokens
                   <= Capacity + Mine(t).lastRefill + Leeway(early[key], after, i)
      BY <1>4, <2>1, <2>2, <2>6
    <3> HIDE DEF after
    <3> QED
      BY <1>4, <3>1 DEF Within
  <2> QED
    BY <1>4, <1>8, <2>7
<1> QED
  BY <1>6, <1>7, <1>8

\* A bucket a sweep forgets may come back full for any reading not older than a delay: nothing
\* is lost but the delay of the reading that set it back, and of the one that brings it back.
LEMMA SweepKeepsWithin ==
  ASSUME LimiterInv, NEW t \in Threads, Check(t), NEW k \in Keys
  PROVE  (Sound(buckets[k]) /\ Within(buckets[k], early[k], admitted[k]))'
<1> DEFINE old == Spent(t)[k]
           checks == Checks(t)[k]
<1>1. clock' = clock /\ admitted'[k] = checks
  BY CheckSteps
<1>2. Sound(old) /\ Within(old, early[k], checks)
  BY SpentIsSound, SpentIsWithin
<1>3. old \in {Absent} \union [tokens : Int, lastRefill : Nat]
  BY SpentTyped
<1>4. checks \in Seq([at : Nat, early : Nat])
  BY ChecksAre
<1>5. \/ buckets'[k] = old /\ early'[k] = early[k]
      \/ /\ old # Absent /\ Reading(t) - old.lastRefill > Capacity
         /\ buckets'[k] = Absent /\ early'[k] = early[k] + 2 * MaxDelay
  BY CheckSteps
<1>6. /\ Reading(t) \in Int /\ Reading(t) <= clock /\ clock \in Int /\ MaxDelay \in Int /\ Capacity \in Int
      /\ early[k] \in Int
  BY CheckReads, LimiterAssumption DEF LimiterInv, LimiterTypeOK
<1> HIDE DEF old, checks
<1>7. CASE buckets'[k] = old /\ early'[k] = early[k]
  <2>1. (Sound(buckets[k]))'
    BY <1>1, <1>2, <1>7 DEF Sound
  <2>2. (Within(buckets[k], early[k], admitted[k]))'
    BY <1>1, <1>2, <1>7 DEF Within, Leeway
  <2> QED
    BY <2>1, <2>2
<1>8. CASE /\ old # Absent /\ Reading(t) - old.lastRefill > Capacity
           /\ buckets'[k] = Absent /\ early'[k] = early[k] + 2 * MaxDelay
  <2>1. (Sound(buckets[k]))'
    BY <1>8 DEF Sound
  <2>2. old.tokens \in Int /\ old.lastRefill \in Int /\ old.tokens >= -MaxDelay
    BY <1>2, <1>3, <1>8 DEF Sound
  <2>3. ASSUME NEW i \in DOMAIN checks
        PROVE  Len(checks) - i + 1 <= clock - MaxDelay + Leeway(early[k] + 2 * MaxDelay, checks, i)
    <3>1. i \in Int /\ Len(checks) \in Int /\ checks[i].early \in Int /\ checks[i].at \in Int
      <4>1. i \in 1 .. Len(checks) /\ Len(checks) \in Nat
        BY <1>4, <2>3
      <4>2. checks[i] \in [at : Nat, early : Nat]
        BY <1>4, <4>1, ElementOfSeq
      <4> QED
        BY <4>1, <4>2
    <3>2. Len(checks) - i + 1 + old.tokens <= Capacity + old.lastRefill + Leeway(early[k], checks, i)
      BY <1>2, <1>8, <2>3 DEF Within
    <3>3. Leeway(early[k] + 2 * MaxDelay, checks, i) = Leeway(early[k], checks, i) + 2 * MaxDelay
      BY <1>6, <3>1 DEF Leeway
    <3>4. Leeway(early[k], checks, i) \in Int
      BY <1>6, <3>1 DEF Leeway
    <3> DEFINE L == Leeway(early[k], checks, i)
               tokens == old.tokens
               last == old.lastRefill
               n == Len(checks)
    <3> HIDE DEF L, tokens, last, n
    <3>5. n - i + 1 + tokens <= Capacity + last + L /\ L \in Int /\ n \in Int
      BY <3>1, <3>2, <3>4 DEF L, tokens, last, n
    <3>6. tokens \in Int /\ last \in Int /\ tokens >= -MaxDelay /\ Reading(t) - last > Capacity
      BY <1>8, <2>2 DEF tokens, last
    <3>7. n - i + 1 <= clock - MaxDelay + (L + 2 * MaxDelay)
      BY <1>6, <3>1, <3>5, <3>6
    <3> QED
      BY <3>3, <3>7 DEF L, n
  <2>4. (Within(buckets[k], early[k], admitted[k]))'
    BY <1>1, <1>8, <2>3 DEF Within, Leeway
  <2> QED
    BY <2>1, <2>4
<1> QED
  BY <1>5, <1>7, <1>8

\* Nothing is let through that the bucket did not hold.
LEMMA CheckKeepsRate ==
  ASSUME LimiterInv, NEW t \in Threads, Check(t)
  PROVE  AdmittedWithinRate'
<1> SUFFICES ASSUME NEW k \in Keys, NEW i \in DOMAIN Checks(t)[k], NEW j \in DOMAIN Checks(t)[k], i <= j
             PROVE  j - i + 1 <= Capacity + (Checks(t)[k][j].at - Checks(t)[k][i].at)
                                   + (Checks(t)[k][j].early - Checks(t)[k][i].early)
  <2>1. admitted' = Checks(t)
    BY CheckSteps
  <2> QED
    BY <2>1 DEF AdmittedWithinRate
<1> DEFINE key == Key(t)
           checks == Checks(t)[k]
           n == Len(admitted[k])
<1>1. checks \in Seq([at : Nat, early : Nat]) /\ admitted[k] \in Seq([at : Nat, early : Nat]) /\ n \in Nat
  BY ChecksAre DEF LimiterInv, LimiterTypeOK
<1>2. CASE checks = admitted[k]
  BY <1>2 DEF LimiterInv, AdmittedWithinRate
<1>3. CASE checks # admitted[k]
  <2>1. k = key /\ Passes(t)
    BY <1>3, ChecksAre
  <2>2. /\ Len(checks) = n + 1 /\ \A m \in DOMAIN admitted[k] : checks[m] = admitted[k][m]
        /\ checks[n + 1].at = Reading(t) /\ checks[n + 1].early = early[k]
    BY <2>1, ChecksAre
  <2>a. DOMAIN admitted[k] = 1 .. n
    BY <1>1
  <2> HIDE DEF checks, n
  <2>3. i \in 1 .. (n + 1) /\ j \in 1 .. (n + 1)
    BY <1>1, <2>2 DEF checks
  <2>4. CASE j # n + 1
    <3>1. i \in DOMAIN admitted[k] /\ j \in DOMAIN admitted[k]
      BY <1>1, <2>a, <2>3, <2>4
    <3>2. checks[i] = admitted[k][i] /\ checks[j] = admitted[k][j]
      BY <2>2, <3>1
    <3>3. j - i + 1 <= Capacity + (admitted[k][j].at - admitted[k][i].at)
                         + (admitted[k][j].early - admitted[k][i].early)
      BY <3>1 DEF LimiterInv, AdmittedWithinRate
    <3> QED
      BY <3>2, <3>3 DEF checks
  <2>5. CASE j = n + 1
    <3>1. Within(Mine(t), early[k], checks)
      BY <2>1, SpentIsWithin, SpentTyped DEF checks
    <3>2. /\ Mine(t) # Absent /\ Mine(t).lastRefill = Reading(t) /\ Mine(t).tokens \in Int
          /\ Mine(t).tokens >= 0
      <4>1. /\ Mine(t) # Absent /\ Mine(t).lastRefill = Reading(t)
            /\ Refilled(buckets[Key(t)], Reading(t)) \in Int
            /\ Mine(t).tokens = IF Passes(t) THEN Refilled(buckets[Key(t)], Reading(t)) - 1
                                ELSE Refilled(buckets[Key(t)], Reading(t))
        BY SpentTyped
      <4>2. Refilled(buckets[Key(t)], Reading(t)) >= 1
        BY <2>1 DEF Passes
      <4> QED
        BY <2>1, <4>1, <4>2
    <3>3. Len(checks) - i + 1 + Mine(t).tokens <= Capacity + Mine(t).lastRefill + Leeway(early[k], checks, i)
      BY <3>1, <3>2 DEF Within, checks
    <3>4. checks[i].at \in Int /\ checks[i].early \in Int
      <4>1. checks[i] \in [at : Nat, early : Nat]
        BY <1>1, <2>2, <2>3, ElementOfSeq DEF checks
      <4> QED
        BY <4>1
    <3>5. /\ Reading(t) \in Int /\ Capacity \in Int /\ early[k] \in Int /\ n \in Int /\ i \in Int
      BY <1>1, <2>3, CheckReads, LimiterAssumption DEF LimiterInv, LimiterTypeOK
    <3>6. n + 1 - i + 1 <= Capacity + (Reading(t) - checks[i].at) + (early[k] - checks[i].early)
      <4> DEFINE tokens == Mine(t).tokens
                 at == checks[i].at
                 gift == checks[i].early
      <4>a. Leeway(early[k], checks, i) = early[k] - gift - at
        BY DEF Leeway
      <4>1. n + 1 - i + 1 + tokens <= Capacity + Reading(t) + (early[k] - gift - at)
        <5>1. n + 1 - i + 1 + Mine(t).tokens <= Capacity + Reading(t) + Leeway(early[k], checks, i)
          <6>1. Len(checks) = n + 1 /\ Mine(t).lastRefill = Reading(t)
            BY <2>2, <3>2
          <6>2. /\ Mine(t).tokens \in Int /\ Leeway(early[k], checks, i) \in Int
            BY <3>2, <3>4, <3>5, <4>a
          <6> QED
            BY <3>3, <3>5, <6>1, <6>2
        <5> QED
          BY <4>a, <5>1
      <4>2. tokens \in Int /\ tokens >= 0 /\ at \in Int /\ gift \in Int
        BY <3>2, <3>4
      <4> HIDE DEF tokens, at, gift
      <4>3. n + 1 - i + 1 <= Capacity + (Reading(t) - at) + (early[k] - gift)
        BY <3>5, <4>1, <4>2
      <4> QED
        BY <4>3 DEF at, gift
    <3>7. checks[j].at = Reading(t) /\ checks[j].early = early[k]
      BY <2>2, <2>5
    <3>8. j - i + 1 <= Capacity + (checks[j].at - checks[i].at) + (checks[j].early - checks[i].early)
      <4> DEFINE at == checks[i].at
                 gift == checks[i].early
      <4>1. n + 1 - i + 1 <= Capacity + (Reading(t) - at) + (early[k] - gift)
        BY <3>6
      <4>3. at \in Int /\ gift \in Int
        BY <3>4
      <4> HIDE DEF at, gift
      <4>2. j - i + 1 <= Capacity + (checks[j].at - at) + (checks[j].early - gift)
        BY <2>5, <3>5, <3>7, <4>1, <4>3
      <4> QED
        BY <4>2 DEF at, gift
    <3> QED
      BY <3>8 DEF checks
  <2> QED
    BY <2>4, <2>5
<1> QED
  BY <1>2, <1>3

LEMMA CheckKeepsInv ==
  ASSUME LimiterInv, NEW t \in Threads, Check(t)
  PROVE  LimiterInv'
<1>1. /\ clock' = clock /\ admitted' = Checks(t) /\ reading' = [reading EXCEPT ![t] = Idle]
      /\ sinceSweep' \in Nat
      /\ \A k \in Keys :
           \/ buckets'[k] = Spent(t)[k] /\ early'[k] = early[k]
           \/ buckets'[k] = Absent /\ early'[k] = early[k] + 2 * MaxDelay
  BY CheckSteps
<1>2. LimiterTypeOK'
  <2>1. /\ clock \in Nat /\ early \in [Keys -> Nat] /\ MaxDelay \in Nat
        /\ buckets \in [Keys -> {Absent} \union [tokens : Int, lastRefill : Nat]]
        /\ reading \in [Threads -> {Idle} \union [key : Keys, now : Nat]]
    BY LimiterAssumption DEF LimiterInv, LimiterTypeOK
  <2>2. reading' \in [Threads -> {Idle} \union [key : Keys, now : Nat]]
    BY <1>1, <2>1
  <2>3. DOMAIN buckets' = Keys /\ buckets' = [k \in Keys |-> buckets'[k]]
    <3>1. /\ buckets' = IF sinceSweep + 1 >= EvictEvery THEN [j \in Keys |-> Kept(Spent(t)[j], Reading(t))] ELSE Spent(t)
      BY DEF Check, Spent, Mine, Key, Reading
    <3>2. Spent(t) = [k \in Keys |-> Spent(t)[k]]
      BY <2>1 DEF Spent
    <3> QED
      BY <3>1, <3>2
  <2>4. early' = [k \in Keys |-> early'[k]]
    BY DEF Check, EarlyAfter
  <2>5. \A k \in Keys : Spent(t)[k] \in {Absent} \union [tokens : Int, lastRefill : Nat]
    BY SpentTyped
  <2>6. \A k \in Keys : buckets'[k] \in {Absent} \union [tokens : Int, lastRefill : Nat]
    BY <1>1, <2>5
  <2>7. \A k \in Keys : early'[k] \in Nat
    BY <1>1, <2>1
  <2>8. Checks(t) \in [Keys -> Seq([at : Nat, early : Nat])]
    BY ChecksAre
  <2>9. /\ buckets' \in [Keys -> {Absent} \union [tokens : Int, lastRefill : Nat]]
        /\ early' \in [Keys -> Nat]
    BY <2>3, <2>4, <2>6, <2>7
  <2> QED
    BY <1>1, <2>1, <2>2, <2>8, <2>9 DEF LimiterTypeOK
<1>3. ReadingsAreRecent'
  <2>1. reading \in [Threads -> {Idle} \union [key : Keys, now : Nat]]
    BY DEF LimiterInv, LimiterTypeOK
  <2>2. \A u \in Threads : reading'[u] = Idle \/ reading'[u] = reading[u]
    BY <1>1, <2>1
  <2> QED
    BY <1>1, <2>2 DEF LimiterInv, ReadingsAreRecent
<1>4. (\A k \in Keys : Sound(buckets[k]) /\ Within(buckets[k], early[k], admitted[k]))'
  BY SweepKeepsWithin
<1>5. AdmittedWithinRate'
  BY CheckKeepsRate
<1> QED
  BY <1>2, <1>3, <1>4, <1>5 DEF LimiterInv

\* As time passes, less is let through of what may be.
LEMMA TickKeepsInv ==
  ASSUME LimiterInv, Tick
  PROVE  LimiterInv'
<1>1. /\ clock \in Nat /\ clock' = clock + 1 /\ MaxDelay \in Nat
      /\ reading' = reading /\ buckets' = buckets /\ sinceSweep' = sinceSweep
      /\ admitted' = admitted /\ early' = early
      /\ \A t \in Threads : reading[t] # Idle => clock - reading[t].now < MaxDelay
  BY LimiterAssumption DEF LimiterInv, LimiterTypeOK, Tick
<1>2. LimiterTypeOK'
  BY <1>1 DEF LimiterInv, LimiterTypeOK
<1>3. ReadingsAreRecent'
  <2>1. ASSUME NEW t \in Threads, reading[t] # Idle
        PROVE  reading[t].now \in Int /\ reading[t].now <= clock /\ clock - reading[t].now < MaxDelay
    <3>1. reading[t] \in [key : Keys, now : Nat]
      BY <2>1 DEF LimiterInv, LimiterTypeOK
    <3> QED
      BY <1>1, <2>1, <3>1 DEF LimiterInv, ReadingsAreRecent
  <2>2. ASSUME NEW t \in Threads, reading[t] # Idle
        PROVE  reading[t].now <= clock + 1 /\ clock + 1 - reading[t].now <= MaxDelay
    <3> DEFINE now == reading[t].now
    <3>1. now \in Int /\ now <= clock /\ clock - now < MaxDelay
      BY <2>1, <2>2
    <3> HIDE DEF now
    <3>2. now <= clock + 1 /\ clock + 1 - now <= MaxDelay
      BY <1>1, <3>1
    <3> QED
      BY <3>2 DEF now
  <2>3. \A t \in Threads : reading[t] # Idle =>
          /\ reading[t].now \in Int
          /\ reading[t].now <= clock + 1 /\ clock + 1 - reading[t].now <= MaxDelay
    BY <2>1, <2>2
  <2> QED
    BY <1>1, <2>3 DEF ReadingsAreRecent
<1>4. ASSUME NEW k \in Keys
      PROVE  (Sound(buckets[k]) /\ Within(buckets[k], early[k], admitted[k]))'
  <2>1. Sound(buckets[k]) /\ Within(buckets[k], early[k], admitted[k])
    BY <1>4 DEF LimiterInv
  <2>2. /\ buckets[k] \in {Absent} \union [tokens : Int, lastRefill : Nat] /\ early[k] \in Nat
        /\ admitted[k] \in Seq([at : Nat, early : Nat])
    BY <1>4 DEF LimiterInv, LimiterTypeOK
  <2>3. (Sound(buckets[k]))'
    <3>1. CASE buckets[k] = Absent
      BY <1>1, <3>1 DEF Sound
    <3>2. CASE buckets[k] # Absent
      <4> DEFINE tokens == buckets[k].tokens
                 last == buckets[k].lastRefill
      <4>1. tokens \in Int /\ last \in Int
        BY <2>2, <3>2
      <4>2. last <= clock /\ last - tokens <= clock /\ tokens >= -MaxDelay
        BY <2>1, <3>2 DEF Sound
      <4> HIDE DEF tokens, last
      <4>3. last <= clock + 1 /\ last - tokens <= clock + 1 /\ tokens >= -MaxDelay
        BY <1>1, <4>1, <4>2
      <4> QED
        BY <1>1, <4>3 DEF Sound, tokens, last
    <3> QED
      BY <3>1, <3>2
  <2>4. (Within(buckets[k], early[k], admitted[k]))'
    <3>1. CASE buckets[k] # Absent
      BY <1>1, <2>1, <3>1 DEF Within, Leeway
    <3>2. CASE buckets[k] = Absent
      <4>1. ASSUME NEW i \in DOMAIN admitted[k]
            PROVE  Len(admitted[k]) - i + 1 <= (clock + 1) - MaxDelay + Leeway(early[k], admitted[k], i)
        <5>1. i \in Int /\ Len(admitted[k]) \in Int
          BY <2>2
        <5>2. admitted[k][i] \in [at : Nat, early : Nat]
          <6>1. i \in 1 .. Len(admitted[k])
            BY <2>2, <4>1
          <6> QED
            BY <2>2, <6>1, ElementOfSeq
        <5>3. Leeway(early[k], admitted[k], i) \in Int
          BY <2>2, <5>2 DEF Leeway
        <5>4. Len(admitted[k]) - i + 1 <= clock - MaxDelay + Leeway(early[k], admitted[k], i)
          BY <2>1, <3>2, <4>1 DEF Within
        <5> DEFINE L == Leeway(early[k], admitted[k], i)
                   n == Len(admitted[k])
        <5> HIDE DEF L, n
        <5>5. L \in Int /\ n \in Int /\ n - i + 1 <= clock - MaxDelay + L
          BY <5>1, <5>3, <5>4 DEF L, n
        <5>6. n - i + 1 <= (clock + 1) - MaxDelay + L
          BY <1>1, <5>1, <5>5
        <5> QED
          BY <5>6 DEF L, n
      <4> QED
        BY <1>1, <3>2, <4>1 DEF Within, Leeway
    <3> QED
      BY <3>1, <3>2
  <2> QED
    BY <2>3, <2>4
<1>5. AdmittedWithinRate'
  BY <1>1 DEF LimiterInv, AdmittedWithinRate
<1> QED
  BY <1>2, <1>3, <1>4, <1>5 DEF LimiterInv

LEMMA ReadClockKeepsInv ==
  ASSUME LimiterInv, NEW t \in Threads, NEW k \in Keys, ReadClock(t, k)
  PROVE  LimiterInv'
<1> DEFINE taken == [key |-> k, now |-> clock]
<1>1. /\ clock \in Nat /\ MaxDelay \in Nat
      /\ reading \in [Threads -> {Idle} \union [key : Keys, now : Nat]]
      /\ reading' = [reading EXCEPT ![t] = taken]
      /\ clock' = clock /\ buckets' = buckets /\ sinceSweep' = sinceSweep
      /\ admitted' = admitted /\ early' = early
  BY LimiterAssumption DEF LimiterInv, LimiterTypeOK, ReadClock
<1>2. taken \in [key : Keys, now : Nat] /\ taken.now = clock
  BY <1>1
<1> HIDE DEF taken
<1>3. /\ reading' \in [Threads -> {Idle} \union [key : Keys, now : Nat]]
      /\ \A u \in Threads : reading'[u] = taken \/ reading'[u] = reading[u]
  BY <1>1, <1>2
<1>4. LimiterTypeOK'
  BY <1>1, <1>3 DEF LimiterInv, LimiterTypeOK
<1>5. ReadingsAreRecent'
  BY <1>1, <1>2, <1>3 DEF LimiterInv, ReadingsAreRecent
<1>6. (\A j \in Keys : Sound(buckets[j]) /\ Within(buckets[j], early[j], admitted[j]))'
  BY <1>1 DEF LimiterInv, Sound, Within, Leeway
<1>7. AdmittedWithinRate'
  BY <1>1 DEF LimiterInv, AdmittedWithinRate
<1> QED
  BY <1>4, <1>5, <1>6, <1>7 DEF LimiterInv

LEMMA LimiterInvHolds == LimiterSpec => []LimiterInv
<1>1. LimiterInit => LimiterInv
  <2> SUFFICES ASSUME LimiterInit PROVE LimiterInv
    OBVIOUS
  <2>1. \A k \in Keys : buckets[k] = Absent /\ admitted[k] = << >> /\ early[k] = 0
    BY DEF LimiterInit
  <2>2. LimiterTypeOK
    BY DEF LimiterInit, LimiterTypeOK
  <2>3. ReadingsAreRecent
    BY DEF LimiterInit, ReadingsAreRecent
  <2>4. \A k \in Keys : DOMAIN admitted[k] = {}
    BY <2>1
  <2> QED
    BY <2>1, <2>2, <2>3, <2>4 DEF LimiterInv, Sound, Within, AdmittedWithinRate
<1>2. LimiterInv /\ [LimiterNext]_limiterVars => LimiterInv'
  <2> SUFFICES ASSUME LimiterInv, [LimiterNext]_limiterVars PROVE LimiterInv'
    OBVIOUS
  <2>1. CASE Tick
    BY <2>1, TickKeepsInv
  <2>2. ASSUME NEW t \in Threads, Check(t) PROVE LimiterInv'
    BY <2>2, CheckKeepsInv
  <2>3. ASSUME NEW t \in Threads, NEW k \in Keys, ReadClock(t, k) PROVE LimiterInv'
    BY <2>3, ReadClockKeepsInv
  <2>4. CASE UNCHANGED limiterVars
    BY <2>4 DEF limiterVars, LimiterInv, LimiterTypeOK, ReadingsAreRecent, Sound, Within, Leeway,
                AdmittedWithinRate
  <2> QED
    BY <2>1, <2>2, <2>3, <2>4 DEF LimiterNext
<1> QED
  BY <1>1, <1>2, PTL DEF LimiterSpec

\* For any callers, threads, capacity and delay, and any number of checks and sweeps: a caller is
\* let through no more often than a full bucket, the time that passed and the delays of the
\* sweeps allow (ChatRateLimiter.check and _evict_idle_buckets).
THEOREM RateIsKept == LimiterSpec => []AdmittedWithinRate
<1>1. LimiterInv => AdmittedWithinRate
  BY DEF LimiterInv
<1> QED
  BY <1>1, LimiterInvHolds, PTL

-----------------------------------------------------------------------------
(* The votes.                                                               *)

\* What a tab's only request shows of the vote that is recorded: a vote on its way is on the
\* screen and what it would give way to is recorded, one that was taken is the recorded one, and
\* a GET finds the screen empty or right.
Following(t, k) ==
  LET a == asks[k]
  IN  /\ \A j \in Waiting(t) : j = k
      /\ a.kind = "post" =>
           /\ feedback[t] = a.vote
           /\ a.at = "answered" /\ a.ok => a.vote = RecordedVote
           /\ ~(a.at = "answered" /\ a.ok) => a.prev = RecordedVote
      /\ a.kind = "get" =>
           /\ feedback[t] \in {NoVote, RecordedVote}
           /\ a.at = "answered" => RecordedVote = IF a.ok THEN a.vote ELSE NoVote

InStep(t) ==
  visible /\ clear[t] => /\ Waiting(t) = {} => feedback[t] = RecordedVote
                         /\ \A k \in Waiting(t) : Following(t, k)

VotesInv == VotesTypeOK /\ \A t \in Tabs : InStep(t)

Asking == [tab : Tabs \union {NoOne}, kind : {"post", "get"}, vote : Votes,
        prev : Votes, at : {"asked", "answered"}, ok : BOOLEAN]

LEMMA VotesShape ==
  /\ NoVote \in Votes
  /\ \A c \in Comments : Vote("down", c) \in Votes
  /\ Vote("up", NoComment) \in Votes
  /\ \A v \in Votes : v = [verdict |-> v.verdict, comment |-> v.comment]
  /\ \A v \in Votes : v.verdict \in {"up", "down", "none"} /\ (v.verdict = "none" => v = NoVote)
<1>1. NoVote \in Votes /\ Vote("up", NoComment) \in Votes /\ \A c \in Comments : Vote("down", c) \in Votes
  BY DEF Votes
<1>2. ASSUME NEW v \in Votes
      PROVE  /\ v = [verdict |-> v.verdict, comment |-> v.comment]
             /\ v.verdict \in {"up", "down", "none"}
             /\ v.verdict = "none" => v = NoVote
  <2>1. CASE v = NoVote
    BY <2>1 DEF NoVote, Vote
  <2>2. CASE v = Vote("up", NoComment)
    BY <2>2 DEF Vote
  <2>3. ASSUME NEW c \in Comments, v = Vote("down", c)
        PROVE  v = [verdict |-> v.verdict, comment |-> v.comment] /\ v.verdict = "down"
    BY <2>3 DEF Vote
  <2> QED
    BY <1>2, <2>1, <2>2, <2>3 DEF Votes
<1> QED
  BY <1>1, <1>2

\* The row written for a vote shows that vote, and is filed under the run of the answer.
LEMMA UpsertShows ==
  ASSUME VotesTypeOK, NEW vote \in Votes
  PROVE  \E v \in Votes : /\ Upsert(vote) = [verdict |-> v.verdict, comment |-> v.comment, run |-> Answer]
                          /\ v = vote
<1>1. (IF row = NoRow THEN Answer ELSE row.run) = Answer
  BY DEF VotesTypeOK
<1>2. (IF vote.verdict = "none" THEN NoComment ELSE vote.comment) = vote.comment
  BY VotesShape DEF NoVote, Vote
<1>3. Upsert(vote) = [verdict |-> vote.verdict, comment |-> vote.comment, run |-> Answer]
  BY <1>1, <1>2 DEF Upsert
<1> QED
  BY <1>3

\* A request that is waited for is an Ask of that tab.
LEMMA WaitingIsAsk ==
  ASSUME VotesTypeOK, NEW t \in Tabs, NEW k \in Waiting(t)
  PROVE  k \in DOMAIN asks /\ asks[k] \in Asking /\ asks[k].tab = t /\ asks[k] # Landed
<1>1. k \in DOMAIN asks /\ asks[k].tab = t
  BY DEF Waiting
<1>2. Landed.tab = NoOne
  BY DEF Landed, VoteAsk
<1>3. asks[k] # Landed
  BY <1>1, <1>2, VoteAssumption
<1>4. asks[k] \in {Landed} \union Asking
  <2>1. k \in 1 .. Len(asks)
    BY <1>1 DEF VotesTypeOK
  <2> QED
    BY <2>1, ElementOfSeq DEF VotesTypeOK, Asking
<1> QED
  BY <1>1, <1>3, <1>4

\* A tab whose entry, requests and recorded vote stay is in step as before.
LEMMA StaysInStep ==
  ASSUME VotesInv, NEW t \in Tabs,
         visible' => visible, clear'[t] => clear[t], feedback'[t] = feedback[t],
         RecordedVote' = RecordedVote, Waiting(t)' = Waiting(t),
         \A k \in Waiting(t) : asks'[k] = asks[k]
  PROVE  InStep(t)'
<1> SUFFICES ASSUME visible', clear'[t] PROVE /\ (Waiting(t) = {} => feedback[t] = RecordedVote)'
                                               /\ (\A k \in Waiting(t) : Following(t, k))'
  BY DEF InStep
<1>1. InStep(t) /\ visible /\ clear[t]
  BY DEF VotesInv
<1>2. (Waiting(t) = {} => feedback[t] = RecordedVote)'
  BY <1>1 DEF InStep
<1>3. ASSUME NEW k \in Waiting(t)' PROVE Following(t, k)'
  <2>1. Following(t, k) /\ asks'[k] = asks[k]
    BY <1>1, <1>3 DEF InStep
  <2> QED
    BY <2>1 DEF Following
<1> QED
  BY <1>2, <1>3

\* A request is added to those of its tab and to no other's.
LEMMA AppendedWaits ==
  ASSUME VotesTypeOK, NEW a \in Asking, asks' = Append(asks, a)
  PROVE  /\ asks' \in Seq({Landed} \union Asking)
         /\ \A k \in DOMAIN asks : asks'[k] = asks[k]
         /\ asks'[Len(asks) + 1] = a
         /\ \A t \in Tabs : Waiting(t)' = IF t = a.tab THEN Waiting(t) \union {Len(asks) + 1} ELSE Waiting(t)
<1>1. asks \in Seq({Landed} \union Asking) /\ a \in {Landed} \union Asking
  BY DEF VotesTypeOK, Asking
<1>2. /\ asks' \in Seq({Landed} \union Asking) /\ Len(asks') = Len(asks) + 1 /\ Len(asks) \in Nat
      /\ DOMAIN asks = 1 .. Len(asks) /\ DOMAIN asks' = 1 .. (Len(asks) + 1)
      /\ \A k \in 1 .. Len(asks) : asks'[k] = asks[k]
      /\ asks'[Len(asks) + 1] = a
  BY <1>1, AppendProperties, LenProperties
<1>3. DOMAIN asks' = DOMAIN asks \union {Len(asks) + 1}
  BY <1>2
<1>4. ASSUME NEW t \in Tabs
      PROVE  Waiting(t)' = IF t = a.tab THEN Waiting(t) \union {Len(asks) + 1} ELSE Waiting(t)
  <2>1. Waiting(t)' = {k \in DOMAIN asks \union {Len(asks) + 1} : asks'[k].tab = t}
    BY <1>3 DEF Waiting
  <2> QED
    BY <1>2, <2>1 DEF Waiting
<1> QED
  BY <1>2, <1>4

\* A request that is answered, lost or landed.
LEMMA ChangedWaits ==
  ASSUME VotesTypeOK, NEW k \in DOMAIN asks, NEW a \in {Landed} \union Asking, asks' = [asks EXCEPT ![k] = a]
  PROVE  /\ asks' \in Seq({Landed} \union Asking)
         /\ \A j \in DOMAIN asks \ {k} : asks'[j] = asks[j]
         /\ asks'[k] = a /\ DOMAIN asks' = DOMAIN asks
         /\ a.tab = asks[k].tab => \A t \in Tabs : Waiting(t)' = Waiting(t)
<1>1. asks \in Seq({Landed} \union Asking)
  BY DEF VotesTypeOK, Asking
<1>2. /\ DOMAIN asks' = DOMAIN asks /\ asks'[k] = a
      /\ \A j \in DOMAIN asks \ {k} : asks'[j] = asks[j]
  BY <1>1
<1>3. asks' \in Seq({Landed} \union Asking)
  BY <1>1, ExceptSeq
<1>4. ASSUME a.tab = asks[k].tab, NEW t \in Tabs PROVE Waiting(t)' = Waiting(t)
  BY <1>2, <1>4 DEF Waiting
<1> QED
  BY <1>2, <1>3, <1>4

LEMMA RecordedOfRow ==
  ASSUME VotesTypeOK PROVE RecordedVote \in Votes
<1>1. CASE visible /\ row.verdict \in {"up", "down"}
  <2>1. RecordedVote = [verdict |-> row.verdict, comment |-> row.comment]
    BY <1>1 DEF RecordedVote, Vote
  <2>a. NoRow.verdict = "no row"
    BY DEF NoRow
  <2>2. row # NoRow
    BY <1>1, <2>a
  <2> QED
    BY <2>1, <2>2, VotesShape DEF VotesTypeOK
<1>2. CASE ~(visible /\ row.verdict \in {"up", "down"})
  BY <1>2, VotesShape DEF RecordedVote
<1> QED
  BY <1>1, <1>2

\* The vote a row stands for.
LEMMA RowIsRecorded ==
  ASSUME visible', NEW v \in Votes, row' = [verdict |-> v.verdict, comment |-> v.comment, run |-> Answer]
  PROVE  RecordedVote' = v
<1>1. row'.verdict = v.verdict /\ row'.comment = v.comment
  OBVIOUS
<1>2. /\ v.verdict \in {"up", "down", "none"} /\ (v.verdict = "none" => v = NoVote)
      /\ v = Vote(v.verdict, v.comment)
  BY VotesShape DEF Vote
<1>3. RecordedVote' = IF row'.verdict \in {"up", "down"} THEN Vote(row'.verdict, row'.comment) ELSE NoVote
  BY DEF RecordedVote
<1> QED
  BY <1>1, <1>2, <1>3

-----------------------------------------------------------------------------
(* The steps.                                                               *)

\* A vote that is asked for: the screen shows it, and what it replaced was recorded.
LEMMA SubmitKeeps ==
  ASSUME VotesInv, NEW t \in Tabs, NEW vote \in Votes, Submit(t, vote), prompting' \in [Tabs -> BOOLEAN]
  PROVE  VotesInv'
<1> DEFINE a == VoteAsk(t, "post", vote, feedback[t])
<1>1. /\ visible' = visible /\ row' = row /\ feedback' = [feedback EXCEPT ![t] = vote]
      /\ asks' = Append(asks, a)
      /\ clear' = [clear EXCEPT ![a.tab] = clear[a.tab] /\ Waiting(a.tab) = {}]
  BY DEF Submit, Asked
<1>2. VotesTypeOK /\ feedback \in [Tabs -> Votes] /\ clear \in [Tabs -> BOOLEAN] /\ asks \in Seq({Landed} \union Asking)
  BY DEF VotesInv, VotesTypeOK, Asking
<1>3. /\ a \in Asking /\ a.tab = t /\ a.kind = "post" /\ a.vote = vote /\ a.prev = feedback[t]
      /\ a.at = "asked" /\ a.ok = FALSE
  BY <1>2 DEF VoteAsk, Asking
<1> HIDE DEF a
<1>4. /\ asks' \in Seq({Landed} \union Asking)
      /\ \A k \in DOMAIN asks : asks'[k] = asks[k]
      /\ asks'[Len(asks) + 1] = a
      /\ \A u \in Tabs : Waiting(u)' = IF u = t THEN Waiting(u) \union {Len(asks) + 1} ELSE Waiting(u)
  BY <1>1, <1>2, <1>3, AppendedWaits
<1>5. clear' = [clear EXCEPT ![t] = clear[t] /\ Waiting(t) = {}]
  BY <1>1, <1>3
<1>6. VotesTypeOK'
  <2>1. feedback' \in [Tabs -> Votes] /\ clear' \in [Tabs -> BOOLEAN]
    BY <1>1, <1>2, <1>5
  <2> QED
    BY <1>1, <1>2, <1>4, <2>1 DEF VotesTypeOK, Asking
<1>7. RecordedVote' = RecordedVote
  BY <1>1 DEF RecordedVote
<1>8. ASSUME NEW u \in Tabs PROVE InStep(u)'
  <2>1. CASE u # t
    <3>1. Waiting(u)' = Waiting(u) /\ \A k \in Waiting(u) : asks'[k] = asks[k]
      BY <1>4, <2>1 DEF Waiting
    <3>2. clear'[u] = clear[u] /\ feedback'[u] = feedback[u]
      BY <1>1, <1>2, <1>5, <2>1
    <3> QED
      BY <1>1, <1>7, <3>1, <3>2, StaysInStep
  <2>2. CASE u = t
    <3> SUFFICES ASSUME visible', clear'[t]
                 PROVE  /\ (Waiting(t) = {} => feedback[t] = RecordedVote)'
                        /\ (\A k \in Waiting(t) : Following(t, k))'
      BY <2>2 DEF InStep
    <3>1. clear[t] /\ Waiting(t) = {} /\ visible
      BY <1>1, <1>2, <1>5
    <3>2. feedback[t] = RecordedVote
      BY <3>1 DEF VotesInv, InStep
    <3>3. Waiting(t)' = {Len(asks) + 1}
      BY <1>4, <3>1
    <3>4. feedback'[t] = vote
      BY <1>1, <1>2
    <3>5. (\A k \in Waiting(t) : Following(t, k))'
      BY <1>3, <1>4, <1>7, <3>2, <3>3, <3>4 DEF Following
    <3> QED
      BY <3>3, <3>5
  <2> QED
    BY <2>1, <2>2
<1> QED
  BY <1>6, <1>8 DEF VotesInv

LEMMA HydrateKeeps ==
  ASSUME VotesInv, NEW t \in Tabs, HydrateFeedback(t)
  PROVE  VotesInv'
<1> DEFINE a == VoteAsk(t, "get", NoVote, NoVote)
<1>1. /\ visible' = visible /\ row' = row /\ feedback' = feedback /\ prompting' = prompting
      /\ asks' = Append(asks, a)
      /\ clear' = [clear EXCEPT ![a.tab] = clear[a.tab] /\ Waiting(a.tab) = {}]
  BY DEF HydrateFeedback, Asked
<1>2. VotesTypeOK /\ clear \in [Tabs -> BOOLEAN] /\ asks \in Seq({Landed} \union Asking)
  BY DEF VotesInv, VotesTypeOK, Asking
<1>3. a \in Asking /\ a.tab = t /\ a.kind = "get" /\ a.at = "asked"
  BY VotesShape DEF VoteAsk, Asking
<1> HIDE DEF a
<1>4. /\ asks' \in Seq({Landed} \union Asking)
      /\ \A k \in DOMAIN asks : asks'[k] = asks[k]
      /\ asks'[Len(asks) + 1] = a
      /\ \A u \in Tabs : Waiting(u)' = IF u = t THEN Waiting(u) \union {Len(asks) + 1} ELSE Waiting(u)
  BY <1>1, <1>2, <1>3, AppendedWaits
<1>5. clear' = [clear EXCEPT ![t] = clear[t] /\ Waiting(t) = {}]
  BY <1>1, <1>3
<1>6. VotesTypeOK'
  <2>1. clear' \in [Tabs -> BOOLEAN]
    BY <1>2, <1>5
  <2> QED
    BY <1>1, <1>2, <1>4, <2>1 DEF VotesTypeOK, Asking
<1>7. RecordedVote' = RecordedVote
  BY <1>1 DEF RecordedVote
<1>8. ASSUME NEW u \in Tabs PROVE InStep(u)'
  <2>1. CASE u # t
    <3>1. Waiting(u)' = Waiting(u) /\ \A k \in Waiting(u) : asks'[k] = asks[k]
      BY <1>4, <2>1 DEF Waiting
    <3>2. clear'[u] = clear[u] /\ feedback'[u] = feedback[u]
      BY <1>1, <1>2, <1>5, <2>1
    <3> QED
      BY <1>1, <1>7, <3>1, <3>2, StaysInStep
  <2>2. CASE u = t
    <3> SUFFICES ASSUME visible', clear'[t]
                 PROVE  /\ (Waiting(t) = {} => feedback[t] = RecordedVote)'
                        /\ (\A k \in Waiting(t) : Following(t, k))'
      BY <2>2 DEF InStep
    <3>1. clear[t] /\ Waiting(t) = {} /\ visible
      BY <1>1, <1>2, <1>5
    <3>2. feedback[t] = RecordedVote
      BY <3>1 DEF VotesInv, InStep
    <3>3. Waiting(t)' = {Len(asks) + 1}
      BY <1>4, <3>1
    <3>4. (\A k \in Waiting(t) : Following(t, k))'
      BY <1>1, <1>3, <1>4, <1>7, <3>2, <3>3 DEF Following
    <3> QED
      BY <3>3, <3>4
  <2> QED
    BY <2>1, <2>2
<1> QED
  BY <1>6, <1>8 DEF VotesInv

\* A page that is loaded shows nothing, and has asked for the vote.
LEMMA OpenTabKeeps ==
  ASSUME VotesInv, NEW t \in Tabs, OpenTab(t)
  PROVE  VotesInv'
<1> DEFINE a == VoteAsk(t, "get", NoVote, NoVote)
           orphaned == [k \in DOMAIN asks |-> IF asks[k].tab = t THEN [asks[k] EXCEPT !.tab = NoOne] ELSE asks[k]]
<1>1. /\ visible' = visible /\ row' = row /\ feedback' = [feedback EXCEPT ![t] = NoVote]
      /\ prompting' = [prompting EXCEPT ![t] = FALSE] /\ clear' = [clear EXCEPT ![t] = TRUE]
      /\ asks' = Append(orphaned, a)
  BY DEF OpenTab
<1>2. /\ VotesTypeOK /\ clear \in [Tabs -> BOOLEAN] /\ prompting \in [Tabs -> BOOLEAN]
      /\ feedback \in [Tabs -> Votes] /\ asks \in Seq({Landed} \union Asking)
  BY DEF VotesInv, VotesTypeOK, Asking
<1>3. a \in Asking /\ a.tab = t /\ a.kind = "get" /\ a.at = "asked"
  BY VotesShape DEF VoteAsk, Asking
<1>4. ASSUME NEW k \in DOMAIN asks
      PROVE  orphaned[k] \in {Landed} \union Asking /\ (orphaned[k].tab = t => FALSE)
             /\ (asks[k].tab # t => orphaned[k] = asks[k])
             /\ (orphaned[k].tab # NoOne => orphaned[k] = asks[k])
  <2>1. asks[k] \in {Landed} \union Asking
    <3>1. k \in 1 .. Len(asks)
      BY <1>2
    <3> QED
      BY <1>2, <3>1, ElementOfSeq
  <2>2. CASE asks[k].tab # t
    <3>1. orphaned[k] = asks[k]
      BY <2>2
    <3> HIDE DEF orphaned
    <3> QED
      BY <2>1, <2>2, <3>1
  <2>3. CASE asks[k].tab = t
    <3>1. asks[k] \in Asking
      BY <2>1, <2>3, VoteAssumption DEF Landed, VoteAsk
    <3>2. orphaned[k] = [asks[k] EXCEPT !.tab = NoOne]
      BY <2>3
    <3> HIDE DEF orphaned
    <3>3. orphaned[k] \in Asking /\ orphaned[k].tab = NoOne
      BY <3>1, <3>2 DEF Asking
    <3> QED
      BY <2>3, <3>3, VoteAssumption
  <2> QED
    BY <2>2, <2>3
<1>5. orphaned \in Seq({Landed} \union Asking) /\ Len(orphaned) = Len(asks) /\ DOMAIN orphaned = DOMAIN asks
  <2>1. DOMAIN asks = 1 .. Len(asks) /\ Len(asks) \in Nat
    BY <1>2
  <2>2. orphaned \in [1 .. Len(asks) -> {Landed} \union Asking]
    BY <1>4, <2>1
  <2> HIDE DEF orphaned
  <2> QED
    BY <2>1, <2>2
<1> HIDE DEF a, orphaned
<1>6. /\ asks' \in Seq({Landed} \union Asking)
      /\ DOMAIN asks' = DOMAIN asks \union {Len(asks) + 1}
      /\ \A k \in DOMAIN asks : asks'[k] = orphaned[k]
      /\ asks'[Len(asks) + 1] = a
  <2>1. a \in {Landed} \union Asking /\ Len(asks) \in Nat /\ DOMAIN asks = 1 .. Len(asks)
    BY <1>2, <1>3
  <2>2. /\ asks' \in Seq({Landed} \union Asking) /\ Len(asks') = Len(asks) + 1
        /\ \A k \in 1 .. Len(asks) : asks'[k] = orphaned[k]
        /\ asks'[Len(asks) + 1] = a
    BY <1>1, <1>5, <2>1, AppendProperties
  <2>3. DOMAIN asks' = 1 .. (Len(asks) + 1)
    BY <2>2
  <2> QED
    BY <2>1, <2>2, <2>3
<1>7. VotesTypeOK'
  <2>1. feedback' \in [Tabs -> Votes] /\ clear' \in [Tabs -> BOOLEAN] /\ prompting' \in [Tabs -> BOOLEAN]
    BY <1>1, <1>2, VotesShape
  <2> QED
    BY <1>1, <1>2, <1>6, <2>1 DEF VotesTypeOK, Asking
<1>8. RecordedVote' = RecordedVote
  BY <1>1 DEF RecordedVote
<1>9. ASSUME NEW u \in Tabs PROVE InStep(u)'
  <2>1. CASE u # t
    <3>1. u # NoOne
      BY VoteAssumption
    <3>2. \A k \in DOMAIN asks : (asks'[k].tab = u <=> asks[k].tab = u) /\ (asks[k].tab = u => asks'[k] = asks[k])
      BY <1>4, <1>6, <2>1, <3>1
    <3>3. Waiting(u)' = Waiting(u) /\ \A k \in Waiting(u) : asks'[k] = asks[k]
      BY <1>3, <1>6, <2>1, <3>2 DEF Waiting
    <3>4. clear'[u] = clear[u] /\ feedback'[u] = feedback[u]
      BY <1>1, <1>2, <2>1
    <3> QED
      BY <1>1, <1>8, <3>3, <3>4, StaysInStep
  <2>2. CASE u = t
    <3>1. Waiting(t)' = {Len(asks) + 1}
      BY <1>3, <1>4, <1>6 DEF Waiting
    <3>2. feedback'[t] = NoVote
      BY <1>1, <1>2
    <3>3. (\A k \in Waiting(t) : Following(t, k))'
      BY <1>3, <1>6, <3>1, <3>2 DEF Following
    <3> QED
      BY <2>2, <3>1, <3>3 DEF InStep
  <2> QED
    BY <2>1, <2>2
<1> QED
  BY <1>7, <1>9 DEF VotesInv

\* A request with its answer.
Answered(a, ok, vote) == [a EXCEPT !.at = "answered", !.ok = ok, !.vote = vote]

\* What an answer leaves alone.
LEMMA AnsweredAsk ==
  ASSUME VotesInv, NEW k \in DOMAIN asks, asks[k] # Landed,
         NEW ok \in BOOLEAN, NEW vote \in Votes,
         asks' = [asks EXCEPT ![k] = Answered(asks[k], ok, vote)]
  PROVE  /\ asks' \in Seq({Landed} \union Asking) /\ asks[k] \in Asking
         /\ \A j \in DOMAIN asks \ {k} : asks'[j] = asks[j]
         /\ asks'[k].tab = asks[k].tab /\ asks'[k].kind = asks[k].kind /\ asks'[k].prev = asks[k].prev
         /\ asks'[k].at = "answered" /\ asks'[k].ok = ok /\ asks'[k].vote = vote
         /\ \A t \in Tabs : Waiting(t)' = Waiting(t)
<1> DEFINE a == Answered(asks[k], ok, vote)
<1>1. asks[k] \in Asking
  <2>1. asks \in Seq({Landed} \union Asking)
    BY DEF VotesInv, VotesTypeOK, Asking
  <2>2. k \in 1 .. Len(asks)
    BY <2>1
  <2>3. asks[k] \in {Landed} \union Asking
    BY <2>1, <2>2, ElementOfSeq
  <2> QED
    BY <2>3
<1>2. /\ a \in Asking /\ a.tab = asks[k].tab /\ a.kind = asks[k].kind /\ a.prev = asks[k].prev
      /\ a.at = "answered" /\ a.ok = ok /\ a.vote = vote
  BY <1>1 DEF Asking, Answered
<1>3. asks' = [asks EXCEPT ![k] = a]
  OBVIOUS
<1> HIDE DEF a
<1>4. /\ asks' \in Seq({Landed} \union Asking)
      /\ \A j \in DOMAIN asks \ {k} : asks'[j] = asks[j]
      /\ asks'[k] = a
      /\ \A t \in Tabs : Waiting(t)' = Waiting(t)
  BY <1>2, <1>3, ChangedWaits DEF VotesInv
<1> QED
  BY <1>1, <1>2, <1>4

\* A vote that is taken is the recorded one; every other tab may show another.
LEMMA PostKeeps ==
  ASSUME VotesInv, NEW k \in DOMAIN asks, PostFeedback(k)
  PROVE  VotesInv'
<1>1. /\ asks[k].kind = "post" /\ asks[k].at = "asked"
      /\ asks' = [asks EXCEPT ![k].at = "answered", ![k].ok = visible]
      /\ row' = IF visible THEN Upsert(asks[k].vote) ELSE row
      /\ clear' = SpoiledFor(Tabs \ {asks[k].tab})
      /\ visible' = visible /\ feedback' = feedback /\ prompting' = prompting
  BY DEF PostFeedback
<1>2. VotesTypeOK /\ clear \in [Tabs -> BOOLEAN] /\ visible \in BOOLEAN
  BY DEF VotesInv, VotesTypeOK
<1>3. asks[k] # Landed
  BY <1>1 DEF Landed, VoteAsk
<1>4. asks[k] \in Asking
  <2>1. asks \in Seq({Landed} \union Asking)
    BY DEF VotesInv, VotesTypeOK, Asking
  <2>2. k \in 1 .. Len(asks)
    BY <2>1
  <2>3. asks[k] \in {Landed} \union Asking
    BY <2>1, <2>2, ElementOfSeq
  <2> QED
    BY <1>3, <2>3
<1>5. asks[k].vote \in Votes
  BY <1>4 DEF Asking
<1>6. asks' = [asks EXCEPT ![k] = Answered(asks[k], visible, asks[k].vote)]
  <2>1. [asks[k] EXCEPT !.at = "answered", !.ok = visible] =
          Answered(asks[k], visible, asks[k].vote)
    BY <1>4 DEF Asking, Answered
  <2>2. asks' = [asks EXCEPT ![k] = [asks[k] EXCEPT !.at = "answered", !.ok = visible]]
    BY <1>1
  <2> QED
    BY <2>1, <2>2
<1>7. /\ asks' \in Seq({Landed} \union Asking)
      /\ \A j \in DOMAIN asks \ {k} : asks'[j] = asks[j]
      /\ asks'[k].tab = asks[k].tab /\ asks'[k].kind = "post" /\ asks'[k].prev = asks[k].prev
      /\ asks'[k].at = "answered" /\ asks'[k].ok = visible /\ asks'[k].vote = asks[k].vote
      /\ \A t \in Tabs : Waiting(t)' = Waiting(t)
  <2>1. PICK ok \in BOOLEAN : ok = visible
    BY <1>2
  <2>2. asks' = [asks EXCEPT ![k] = Answered(asks[k], ok, asks[k].vote)]
    BY <1>6, <2>1, Zenon
  <2>3. /\ asks' \in Seq({Landed} \union Asking)
        /\ \A j \in DOMAIN asks \ {k} : asks'[j] = asks[j]
        /\ asks'[k].tab = asks[k].tab /\ asks'[k].kind = asks[k].kind /\ asks'[k].prev = asks[k].prev
        /\ asks'[k].at = "answered" /\ asks'[k].ok = ok /\ asks'[k].vote = asks[k].vote
        /\ \A t \in Tabs : Waiting(t)' = Waiting(t)
    BY <1>3, <1>5, <2>2, AnsweredAsk, Zenon
  <2> QED
    BY <1>1, <2>1, <2>3, Zenon
<1>8. clear' \in [Tabs -> BOOLEAN] /\ \A t \in Tabs : clear'[t] => clear[t] /\ t = asks[k].tab
  BY <1>1, <1>2 DEF SpoiledFor
<1>9. VotesTypeOK'
  <2>1. (row = NoRow \/ \E v \in Votes : row = [verdict |-> v.verdict, comment |-> v.comment, run |-> Answer])'
    BY <1>1, <1>2, <1>5, UpsertShows DEF VotesTypeOK
  <2> QED
    BY <1>1, <1>2, <1>7, <1>8, <2>1 DEF VotesTypeOK, Asking
<1>10. ASSUME NEW t \in Tabs PROVE InStep(t)'
  <2> SUFFICES ASSUME visible', clear'[t]
               PROVE  /\ (Waiting(t) = {} => feedback[t] = RecordedVote)'
                      /\ (\A j \in Waiting(t) : Following(t, j))'
    BY DEF InStep
  <2>1. visible /\ clear[t] /\ asks[k].tab = t
    BY <1>1, <1>8
  <2>2. k \in Waiting(t)
    BY <2>1 DEF Waiting
  <2>3. Following(t, k)
    BY <2>1, <2>2 DEF VotesInv, InStep
  <2>4. Waiting(t) = {k} /\ Waiting(t)' = {k} /\ feedback[t] = asks[k].vote
    BY <1>1, <1>7, <2>2, <2>3 DEF Following
  <2>5. RecordedVote' = asks[k].vote
    <3>1. \E v \in Votes : row' = [verdict |-> v.verdict, comment |-> v.comment, run |-> Answer] /\ v = asks[k].vote
      BY <1>1, <1>2, <1>5, <2>1, UpsertShows
    <3> QED
      BY <1>5, <3>1, RowIsRecorded
  <2>6. Following(t, k)'
    BY <1>1, <1>7, <2>1, <2>4, <2>5 DEF Following
  <2> QED
    BY <2>4, <2>6
<1> QED
  BY <1>9, <1>10 DEF VotesInv

\* What a GET brings is what is recorded now.
LEMMA GetKeeps ==
  ASSUME VotesInv, NEW k \in DOMAIN asks, GetFeedback(k)
  PROVE  VotesInv'
<1> DEFINE found == RecordedVote # NoVote
<1>1. /\ asks[k].kind = "get" /\ asks[k].at = "asked"
      /\ asks' = [asks EXCEPT ![k].at = "answered", ![k].ok = found, ![k].vote = RecordedVote]
      /\ row' = row /\ clear' = clear
      /\ visible' = visible /\ feedback' = feedback /\ prompting' = prompting
  BY DEF GetFeedback
<1>2. VotesTypeOK /\ RecordedVote \in Votes /\ found \in BOOLEAN
  BY RecordedOfRow DEF VotesInv
<1>3. asks[k] # Landed
  BY <1>1 DEF Landed, VoteAsk
<1>4. asks' = [asks EXCEPT ![k] = Answered(asks[k], found, RecordedVote)]
  BY <1>1 DEF Answered
<1>5. /\ asks' \in Seq({Landed} \union Asking)
      /\ \A j \in DOMAIN asks \ {k} : asks'[j] = asks[j]
      /\ asks'[k].kind = "get" /\ asks'[k].tab = asks[k].tab
      /\ asks'[k].at = "answered" /\ asks'[k].ok = found /\ asks'[k].vote = RecordedVote
      /\ \A t \in Tabs : Waiting(t)' = Waiting(t)
  <2> HIDE DEF found
  <2>1. /\ asks' \in Seq({Landed} \union Asking)
        /\ \A j \in DOMAIN asks \ {k} : asks'[j] = asks[j]
        /\ asks'[k].tab = asks[k].tab /\ asks'[k].kind = asks[k].kind /\ asks'[k].prev = asks[k].prev
        /\ asks'[k].at = "answered" /\ asks'[k].ok = found /\ asks'[k].vote = RecordedVote
        /\ \A t \in Tabs : Waiting(t)' = Waiting(t)
    BY <1>2, <1>3, <1>4, AnsweredAsk, Zenon
  <2> QED
    BY <1>1, <2>1, Zenon
<1>6. VotesTypeOK'
  BY <1>1, <1>2, <1>5 DEF VotesTypeOK, Asking
<1>7. RecordedVote' = RecordedVote
  BY <1>1 DEF RecordedVote
<1>8. ASSUME NEW t \in Tabs PROVE InStep(t)'
  <2>1. CASE asks[k].tab # t
    <3>1. \A j \in Waiting(t) : asks'[j] = asks[j]
      BY <1>5, <2>1 DEF Waiting
    <3> QED
      BY <1>1, <1>5, <1>7, <3>1, StaysInStep
  <2>2. CASE asks[k].tab = t
    <3> SUFFICES ASSUME visible', clear'[t]
                 PROVE  /\ (Waiting(t) = {} => feedback[t] = RecordedVote)'
                        /\ (\A j \in Waiting(t) : Following(t, j))'
      BY DEF InStep
    <3>1. k \in Waiting(t)
      BY <2>2 DEF Waiting
    <3>2. Following(t, k)
      BY <1>1, <3>1 DEF VotesInv, InStep
    <3>3. Waiting(t)' = {k} /\ feedback[t] \in {NoVote, RecordedVote}
      BY <1>1, <1>5, <3>1, <3>2 DEF Following
    <3>4. Following(t, k)'
      BY <1>1, <1>5, <1>7, <3>3 DEF Following
    <3> QED
      BY <3>3, <3>4
  <2> QED
    BY <2>1, <2>2
<1> QED
  BY <1>6, <1>8 DEF VotesInv

\* A vote that never reached the server is as if it was refused; after anything else that is
\* lost the tab cannot know.
LEMMA LoseKeeps ==
  ASSUME VotesInv, NEW k \in DOMAIN asks, Lose(k)
  PROVE  VotesInv'
<1>1. /\ asks[k] # Landed /\ (asks[k].at = "asked" \/ asks[k].at = "answered")
      /\ asks' = [asks EXCEPT ![k].at = "answered", ![k].ok = FALSE]
      /\ clear' = IF asks[k].at = "answered" \/ asks[k].kind = "get" THEN SpoiledFor({asks[k].tab}) ELSE clear
      /\ visible' = visible /\ row' = row /\ feedback' = feedback /\ prompting' = prompting
  BY DEF Lose
<1>2. VotesTypeOK /\ clear \in [Tabs -> BOOLEAN]
  BY DEF VotesInv, VotesTypeOK
<1>3. asks[k] \in Asking
  <2>1. asks \in Seq({Landed} \union Asking)
    BY DEF VotesInv, VotesTypeOK, Asking
  <2>2. k \in 1 .. Len(asks)
    BY <2>1
  <2>3. asks[k] \in {Landed} \union Asking
    BY <2>1, <2>2, ElementOfSeq
  <2> QED
    BY <1>1, <2>3
<1>4. asks[k].vote \in Votes /\ asks[k].kind \in {"post", "get"}
  BY <1>3 DEF Asking
<1>5. asks' = [asks EXCEPT ![k] = Answered(asks[k], FALSE, asks[k].vote)]
  <2>1. [asks[k] EXCEPT !.at = "answered", !.ok = FALSE] =
          Answered(asks[k], FALSE, asks[k].vote)
    BY <1>3 DEF Asking, Answered
  <2>2. asks' = [asks EXCEPT ![k] = [asks[k] EXCEPT !.at = "answered", !.ok = FALSE]]
    BY <1>1
  <2> QED
    BY <2>1, <2>2
<1>6. /\ asks' \in Seq({Landed} \union Asking)
      /\ \A j \in DOMAIN asks \ {k} : asks'[j] = asks[j]
      /\ asks'[k].kind = asks[k].kind /\ asks'[k].tab = asks[k].tab /\ asks'[k].prev = asks[k].prev
      /\ asks'[k].at = "answered" /\ asks'[k].ok = FALSE /\ asks'[k].vote = asks[k].vote
      /\ \A t \in Tabs : Waiting(t)' = Waiting(t)
  <2>1. PICK ok \in BOOLEAN, vote \in Votes : ok = FALSE /\ vote = asks[k].vote
    BY <1>4
  <2>2. asks[k] # Landed /\ asks' = [asks EXCEPT ![k] = Answered(asks[k], ok, vote)]
    BY <1>1, <1>5, <2>1
  <2> QED
    BY <2>1, <2>2, AnsweredAsk, Zenon
<1>7. /\ clear' \in [Tabs -> BOOLEAN]
      /\ \A t \in Tabs : clear'[t] =>
           clear[t] /\ (t = asks[k].tab => asks[k].at = "asked" /\ asks[k].kind = "post")
  <2>1. CASE asks[k].at = "answered" \/ asks[k].kind = "get"
    BY <1>1, <1>2, <2>1 DEF SpoiledFor
  <2>2. CASE ~(asks[k].at = "answered" \/ asks[k].kind = "get")
    BY <1>1, <1>2, <1>4, <2>2
  <2> QED
    BY <2>1, <2>2
<1>8. VotesTypeOK'
  BY <1>1, <1>2, <1>6, <1>7 DEF VotesTypeOK, Asking
<1>9. RecordedVote' = RecordedVote
  BY <1>1 DEF RecordedVote
<1>10. ASSUME NEW t \in Tabs PROVE InStep(t)'
  <2>1. CASE asks[k].tab # t
    <3>1. \A j \in Waiting(t) : asks'[j] = asks[j]
      BY <1>6, <2>1 DEF Waiting
    <3> QED
      BY <1>1, <1>6, <1>7, <1>9, <3>1, StaysInStep
  <2>2. CASE asks[k].tab = t
    <3> SUFFICES ASSUME visible', clear'[t]
                 PROVE  /\ (Waiting(t) = {} => feedback[t] = RecordedVote)'
                        /\ (\A j \in Waiting(t) : Following(t, j))'
      BY DEF InStep
    <3>1. k \in Waiting(t) /\ visible /\ clear[t] /\ asks[k].at = "asked" /\ asks[k].kind = "post"
      BY <1>1, <1>7, <2>2 DEF Waiting
    <3>2. Following(t, k)
      BY <3>1 DEF VotesInv, InStep
    <3>3. Waiting(t)' = {k} /\ feedback[t] = asks[k].vote /\ asks[k].prev = RecordedVote
      BY <1>6, <3>1, <3>2 DEF Following
    <3>4. Following(t, k)'
      BY <1>1, <1>6, <1>9, <3>1, <3>3 DEF Following
    <3> QED
      BY <3>3, <3>4
  <2> QED
    BY <2>1, <2>2
<1> QED
  BY <1>8, <1>10 DEF VotesInv

\* An answer that lands leaves the recorded vote on the screen of a tab in step.
LEMMA LandKeeps ==
  ASSUME VotesInv, NEW k \in DOMAIN asks, Land(k)
  PROVE  VotesInv'
<1>1. /\ asks[k].at = "answered" /\ asks' = [asks EXCEPT ![k] = Landed]
      /\ feedback' = [t \in Tabs |-> IF t = asks[k].tab THEN Settled(asks[k], feedback[t]) ELSE feedback[t]]
      /\ visible' = visible /\ row' = row /\ prompting' = prompting /\ clear' = clear
  BY DEF Land
<1>2. VotesTypeOK /\ feedback \in [Tabs -> Votes]
  BY DEF VotesInv, VotesTypeOK
<1>3. /\ asks' \in Seq({Landed} \union Asking)
      /\ \A j \in DOMAIN asks \ {k} : asks'[j] = asks[j]
      /\ asks'[k] = Landed /\ DOMAIN asks' = DOMAIN asks
  <2>1. Landed \in {Landed} \union Asking
    OBVIOUS
  <2> QED
    BY <1>1, <1>2, <2>1, ChangedWaits
<1>4. Landed.tab = NoOne
  BY DEF Landed, VoteAsk
<1>5. \A t \in Tabs : Waiting(t)' = Waiting(t) \ {k}
  BY <1>3, <1>4, VoteAssumption DEF Waiting
<1>6. ASSUME NEW t \in Tabs, t = asks[k].tab PROVE asks[k] \in Asking
  BY <1>2, <1>6, WaitingIsAsk DEF Waiting
<1>7. feedback' \in [Tabs -> Votes]
  <2>1. ASSUME NEW t \in Tabs, t = asks[k].tab PROVE Settled(asks[k], feedback[t]) \in Votes
    <3>1. asks[k].vote \in Votes /\ asks[k].prev \in Votes /\ feedback[t] \in Votes
      BY <1>2, <1>6, <2>1 DEF Asking
    <3> QED
      BY <3>1 DEF Settled, Rollback
  <2> QED
    BY <1>1, <1>2, <2>1
<1>8. VotesTypeOK'
  BY <1>1, <1>2, <1>3, <1>7 DEF VotesTypeOK, Asking
<1>9. RecordedVote' = RecordedVote
  BY <1>1 DEF RecordedVote
<1>10. ASSUME NEW t \in Tabs PROVE InStep(t)'
  <2>1. CASE asks[k].tab # t
    <3>1. Waiting(t)' = Waiting(t) /\ \A j \in Waiting(t) : asks'[j] = asks[j]
      BY <1>3, <1>5, <2>1 DEF Waiting
    <3>2. feedback'[t] = feedback[t]
      BY <1>1, <2>1
    <3> QED
      BY <1>1, <1>9, <3>1, <3>2, StaysInStep
  <2>2. CASE asks[k].tab = t
    <3> SUFFICES ASSUME visible', clear'[t]
                 PROVE  /\ (Waiting(t) = {} => feedback[t] = RecordedVote)'
                        /\ (\A j \in Waiting(t) : Following(t, j))'
      BY DEF InStep
    <3>1. k \in Waiting(t)
      BY <2>2 DEF Waiting
    <3>2. Following(t, k)
      BY <1>1, <3>1 DEF VotesInv, InStep
    <3>3. Waiting(t)' = {}
      BY <1>5, <3>2 DEF Following
    <3>4. feedback'[t] = Settled(asks[k], feedback[t])
      BY <1>1, <2>2
    <3>5. asks[k].kind \in {"post", "get"} /\ asks[k].ok \in BOOLEAN
      BY <1>6, <2>2 DEF Asking
    <3>6. Settled(asks[k], feedback[t]) = RecordedVote
      <4>1. CASE asks[k].kind = "post" /\ asks[k].ok
        BY <1>1, <3>2, <4>1 DEF Settled, Following
      <4>2. CASE asks[k].kind = "post" /\ ~asks[k].ok
        BY <1>1, <3>2, <4>2 DEF Settled, Rollback, Following
      <4>3. CASE asks[k].kind = "get" /\ asks[k].ok
        BY <1>1, <3>2, <4>3 DEF Settled, Following
      <4>4. CASE asks[k].kind = "get" /\ ~asks[k].ok
        BY <1>1, <3>2, <4>4 DEF Settled, Following
      <4> QED
        BY <3>5, <4>1, <4>2, <4>3, <4>4
    <3> QED
      BY <1>9, <3>3, <3>4, <3>6
  <2> QED
    BY <2>1, <2>2
<1> QED
  BY <1>8, <1>10 DEF VotesInv

\* The steps that touch neither the requests nor the votes of a message that is there.
LEMMA OtherVoteSteps ==
  ASSUME VotesInv, asks' = asks, feedback' = feedback, clear' = clear,
         prompting' \in [Tabs -> BOOLEAN],
         visible' \in BOOLEAN, visible' => visible,
         \/ row' = row /\ visible' = visible
         \/ row' = NoRow /\ ~visible'
  PROVE  VotesInv'
<1>1. VotesTypeOK'
  BY DEF VotesInv, VotesTypeOK
<1>2. ASSUME NEW t \in Tabs PROVE InStep(t)'
  <2>1. CASE ~visible'
    BY <2>1 DEF InStep
  <2>2. CASE visible'
    <3>1. RecordedVote' = RecordedVote /\ Waiting(t)' = Waiting(t)
      BY <2>2 DEF RecordedVote, Waiting
    <3> QED
      BY <3>1, StaysInStep
  <2> QED
    BY <2>1, <2>2
<1> QED
  BY <1>1, <1>2 DEF VotesInv

LEMMA TabKeeps ==
  ASSUME VotesInv, NEW t \in Tabs,
         ClickUp(t) \/ ClickDown(t) \/ SubmitDown(t) \/ CancelPrompt(t)
  PROVE  VotesInv'
<1>1. prompting \in [Tabs -> BOOLEAN] /\ visible \in BOOLEAN
  BY DEF VotesInv, VotesTypeOK
<1>2. CASE ClickUp(t)
  <2> DEFINE vote == IF feedback[t].verdict = "up" THEN NoVote ELSE Vote("up", NoComment)
  <2>1. Submit(t, vote) /\ prompting' = [prompting EXCEPT ![t] = FALSE]
    BY <1>2 DEF ClickUp
  <2>2. vote \in Votes
    BY VotesShape
  <2> HIDE DEF vote
  <2>3. prompting' \in [Tabs -> BOOLEAN]
    BY <1>1, <2>1
  <2> QED
    BY <2>1, <2>2, <2>3, SubmitKeeps
<1>3. CASE ClickDown(t)
  <2>1. CASE feedback[t].verdict = "down"
    <3>1. Submit(t, NoVote) /\ prompting' = prompting
      BY <1>3, <2>1 DEF ClickDown
    <3> QED
      BY <1>1, <3>1, VotesShape, SubmitKeeps
  <2>2. CASE feedback[t].verdict # "down"
    <3>1. /\ prompting' = [prompting EXCEPT ![t] = TRUE]
          /\ visible' = visible /\ row' = row /\ feedback' = feedback /\ asks' = asks /\ clear' = clear
      BY <1>3, <2>2 DEF ClickDown
    <3>2. prompting' \in [Tabs -> BOOLEAN]
      BY <1>1, <3>1
    <3> QED
      BY <1>1, <3>1, <3>2, OtherVoteSteps
  <2> QED
    BY <2>1, <2>2
<1>4. CASE SubmitDown(t)
  <2>1. PICK c \in Comments : Submit(t, Vote("down", c))
    BY <1>4 DEF SubmitDown
  <2>2. prompting' \in [Tabs -> BOOLEAN]
    BY <1>1, <1>4 DEF SubmitDown
  <2>3. Vote("down", c) \in Votes
    BY VotesShape
  <2> QED
    BY <2>1, <2>2, <2>3, SubmitKeeps
<1>5. CASE CancelPrompt(t)
  <2>1. /\ prompting' = [prompting EXCEPT ![t] = FALSE]
        /\ visible' = visible /\ row' = row /\ feedback' = feedback /\ asks' = asks /\ clear' = clear
    BY <1>5 DEF CancelPrompt
  <2>2. prompting' \in [Tabs -> BOOLEAN]
    BY <1>1, <2>1
  <2> QED
    BY <1>1, <2>1, <2>2, OtherVoteSteps
<1> QED
  BY <1>2, <1>3, <1>4, <1>5

LEMMA VotesInvHolds == VotesSpec => []VotesInv
<1>1. VotesInit => VotesInv
  <2> SUFFICES ASSUME VotesInit PROVE VotesInv
    OBVIOUS
  <2>1. /\ visible = TRUE /\ asks = << >>
        /\ feedback = [t \in Tabs |-> NoVote] /\ prompting = [t \in Tabs |-> FALSE]
        /\ clear = [t \in Tabs |-> FALSE]
    BY DEF VotesInit
  <2>2. row = NoRow \/ \E v \in Votes : row = [verdict |-> v.verdict, comment |-> v.comment, run |-> Answer]
    <3>1. CASE row = NoRow
      BY <3>1
    <3>2. ASSUME NEW verdict \in {"up", "down"},
                 row = [verdict |-> verdict, comment |-> NoComment, run |-> Answer]
          PROVE  \E v \in Votes : row = [verdict |-> v.verdict, comment |-> v.comment, run |-> Answer]
      <4>1. Vote(verdict, NoComment) \in Votes
        BY VotesShape, VoteAssumption
      <4>2. row = [verdict |-> Vote(verdict, NoComment).verdict, comment |-> Vote(verdict, NoComment).comment,
                   run |-> Answer]
        BY <3>2 DEF Vote
      <4> QED
        BY <4>1, <4>2
    <3> QED
      BY <3>1, <3>2 DEF VotesInit
  <2>3. << >> \in Seq({Landed} \union Asking)
    OBVIOUS
  <2>4. VotesTypeOK
    BY <2>1, <2>2, <2>3, VotesShape DEF VotesTypeOK, Asking
  <2> QED
    BY <2>1, <2>4 DEF VotesInv, InStep
<1>2. VotesInv /\ [VotesNext]_voteVars => VotesInv'
  <2> SUFFICES ASSUME VotesInv, [VotesNext]_voteVars PROVE VotesInv'
    OBVIOUS
  <2>1. ASSUME NEW t \in Tabs, ClickUp(t) \/ ClickDown(t) \/ SubmitDown(t) \/ CancelPrompt(t) PROVE VotesInv'
    BY <2>1, TabKeeps
  <2>2. ASSUME NEW t \in Tabs, OpenTab(t) PROVE VotesInv'
    BY <2>2, OpenTabKeeps
  <2>3. ASSUME NEW t \in Tabs, HydrateFeedback(t) PROVE VotesInv'
    BY <2>3, HydrateKeeps
  <2>4. ASSUME NEW k \in DOMAIN asks, PostFeedback(k) PROVE VotesInv'
    BY <2>4, PostKeeps
  <2>5. ASSUME NEW k \in DOMAIN asks, GetFeedback(k) PROVE VotesInv'
    BY <2>5, GetKeeps
  <2>6. ASSUME NEW k \in DOMAIN asks, Lose(k) PROVE VotesInv'
    BY <2>6, LoseKeeps
  <2>7. ASSUME NEW k \in DOMAIN asks, Land(k) PROVE VotesInv'
    BY <2>7, LandKeeps
  <2>8. CASE DeleteConversation
    <3>1. prompting \in [Tabs -> BOOLEAN]
      BY DEF VotesInv, VotesTypeOK
    <3> QED
      BY <2>8, <3>1, OtherVoteSteps DEF DeleteConversation
  <2>9. CASE UNCHANGED voteVars
    <3>1. prompting \in [Tabs -> BOOLEAN] /\ visible \in BOOLEAN
      BY DEF VotesInv, VotesTypeOK
    <3> QED
      BY <2>9, <3>1, OtherVoteSteps DEF voteVars
  <2> QED
    BY <2>1, <2>2, <2>3, <2>4, <2>5, <2>6, <2>7, <2>8, <2>9 DEF VotesNext
<1> QED
  BY <1>1, <1>2, PTL DEF VotesSpec

\* For any tabs, comments and number of requests: a tab whose requests are over shows the vote
\* that is recorded, unless its requests overlapped, another page voted or an answer was lost;
\* and a row keeps neither a stray comment nor another run (live_chat.py, feedback.py, the store's
\* submitFeedback and hydrateFeedback).
THEOREM SettledVotesShow == VotesSpec => []SettledVoteIsRecorded
<1>1. VotesInv => SettledVoteIsRecorded
  <2> SUFFICES ASSUME VotesInv PROVE SettledVoteIsRecorded
    OBVIOUS
  <2>1. \A t \in Tabs : visible /\ clear[t] /\ Waiting(t) = {} => feedback[t] = RecordedVote
    BY DEF VotesInv, InStep
  <2>2. row # NoRow => row.run = Answer /\ (row.verdict = "none" => row.comment = NoComment)
    <3>1. NoVote.comment = NoComment
      BY DEF NoVote, Vote
    <3> QED
      BY <3>1, VotesShape DEF VotesInv, VotesTypeOK
  <2> QED
    BY <2>1, <2>2 DEF SettledVoteIsRecorded
<1> QED
  BY <1>1, VotesInvHolds, PTL
=============================================================================
