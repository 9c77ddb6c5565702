---------------------------- MODULE ChatTurnProofs ----------------------------
(* ChatTurn, for any number of requests, conversations, keys, faults and       *)
(* restarts: what a client is shown, what the run log says of it, what a retry *)
(* under the same key can do and what the deletion of a conversation leaves.   *)
(* The invariant says of every thread what its frames, its row and its message *)
(* are at each point of the turn, and of every two threads what they share.    *)
EXTENDS ChatTurn, FiniteSetTheorems, SequenceTheorems, TLAPS

\* The words of a stream: chatter, then one last word, then its end.
Chatter(f) == \A i \in DOMAIN f : f[i] \in {"accepted", "body"}
Concluded(f) ==
  /\ Len(f) >= 1 /\ f[Len(f)] \in {"done", "error"}
  /\ \A i \in 1 .. Len(f) - 1 : f[i] \in {"accepted", "body"}
Closed(f) ==
  /\ Len(f) >= 2 /\ f[Len(f)] = "end" /\ f[Len(f) - 1] \in {"done", "error"}
  /\ \A i \in 1 .. Len(f) - 2 : f[i] \in {"accepted", "body"}

\* The terminal frame has left; what it said.
Told(r) ==
  \/ pc[r] \in {"burying", "closing", "ended"}
  \/ pc[r] \in {"recording", "finalizing"} /\ ending[r] = "error"
LastWord(r) == frames[r][IF pc[r] = "ended" THEN Len(frames[r]) - 1 ELSE Len(frames[r])]

Streams(r) ==
  /\ ~Told(r) => Chatter(frames[r])
  /\ Told(r) /\ pc[r] # "ended" => Concluded(frames[r])
  /\ pc[r] = "ended" => Closed(frames[r])

\* Where the turn's row has got to.
Logs(r) ==
  /\ pc[r] \in {"new", "rejected", "stored", "indexed", "conflict", "refusing"} => ~Logged(r)
  /\ pc[r] \in {"recording", "finalizing"} => Logged(r) /\ ending[r] # "none"
  /\ pc[r] = "failing" => ending[r] = "error"
  /\ pc[r] = "putting" => ending[r] \in {"ok", "clarify"}
  /\ pc[r] \in {"putting", "titling", "flushing"} /\ Logged(r) /\ r \notin unlogged =>
       runs[r].status \in {"ok", "clarify"}
  /\ pc[r] \in {"burying", "recording", "finalizing"} /\ Told(r) => LastWord(r) = "error"
  /\ pc[r] \in {"closing", "ended"} /\ Logged(r) /\ r \notin unlogged =>
       runs[r].status # "running" /\ (runs[r].status = "error" <=> LastWord(r) = "error")

\* An answered row is final: the thread has nothing left that could change it, unless it
\* broke down in what it still had to write.
Settles(r) ==
  /\ runs[r].status = "ok" =>
       /\ \/ pc[r] \in {"putting", "titling", "flushing", "closing", "ended", "dead"}
          \/ pc[r] \in {"crashing", "burying"} /\ r \in broke
       /\ pc[r] = "putting" => ending[r] = "ok"
  /\ r \in broke => pc[r] \in {"crashing", "burying", "closing", "ended", "dead"}

\* When the message is stored, and that it is before the last word.
Stores(r) ==
  /\ message[r].stored => r \in persisted \/ pc[r] \in {"ended", "dead"}
  /\ r \in persisted =>
       pc[r] \in {"failing", "refusing", "crashing", "flushing"} \/ (Told(r) /\ pc[r] # "ended")
  /\ Told(r) => r \in persisted \/ pc[r] = "ended"
  /\ r \in persisted \/ pc[r] = "ended" => message[r].stored \/ ~Present(r) \/ r \in lost

Replays(r) ==
  outcome[r].replayed =>
    /\ pc[r] \in {"flushing", "closing", "ended"} /\ outcome[r].run \in Requests
    /\ pc[r] = "flushing" => r \in held
    /\ message[r].stored => message[r].turn = outcome[r].run /\ message[r].answerOf = outcome[r].run

\* Which threads have run the pipeline, and which may title.
Counts(r) ==
  /\ pc[r] \in {"new", "rejected", "stored"} => index[r] = 0
  /\ r \in executed =>
       pc[r] \notin {"new", "rejected", "stored", "indexed", "conflict", "running", "refusing"}
  /\ pc[r] \in {"failing", "recording", "finalizing", "putting", "titling"} => r \in executed
  /\ pc[r] = "titling" => index[r] = 1

\* What deleting the conversation leaves.
Deletes(r) ==
  /\ r \in AtWork \ racing => Present(r)
  /\ ~Present(r) /\ r \notin racing => ~Content(r)
  /\ runs[r].redacted => ~Present(r)
  /\ ~Logged(r) => runs[r] = NoRun

Thread(r) ==
  Streams(r) /\ Logs(r) /\ Settles(r) /\ Stores(r) /\ Replays(r) /\ Counts(r) /\ Deletes(r)

\* Between the threads: one row per key, a replay's row was answered, and a conversation has
\* one first turn.
KeysAreUnique ==
  \A r, q \in Requests :
    r # q /\ key[r] = key[q] /\ key[r] # NoKey => ~Logged(r) \/ ~Logged(q)
Answered(q) == runs[q].status = "ok" \/ (runs[q].status = "error" /\ q \in broke)
SourcesAreAnswered == \A r \in Requests : outcome[r].replayed => Answered(outcome[r].run)

IsFirst(r, c) == r \in titled[c] \/ (cid[r] = c /\ index[r] = 1)
FirstTurns ==
  \A c \in Conversations :
    /\ \A r \in Requests : IsFirst(r, c) => turnIndex[c] >= 1
    /\ \A r, q \in Requests : IsFirst(r, c) /\ IsFirst(q, c) => r = q
    /\ \A r \in titled[c] : r \in executed /\ cid[r] = c

TurnInv ==
  /\ TypeOK
  /\ \A r \in Requests : Thread(r)
  /\ KeysAreUnique /\ SourcesAreAnswered /\ FirstTurns

-----------------------------------------------------------------------------
(* The words of a stream.                                                   *)

LEMMA MoreChatter ==
  ASSUME NEW f \in Seq(Frame), Chatter(f), NEW x \in {"accepted", "body"}
  PROVE  Chatter(f \o <<x>>)
<1>1. /\ Len(f \o <<x>>) = Len(f) + 1 /\ (f \o <<x>>)[Len(f) + 1] = x
      /\ \A i \in 1 .. Len(f) : (f \o <<x>>)[i] = f[i]
  BY DEF Frame
<1>2. DOMAIN f = 1 .. Len(f) /\ DOMAIN (f \o <<x>>) = 1 .. Len(f) + 1 /\ Len(f) \in Nat
  BY DEF Frame
<1>3. QED
  BY <1>1, <1>2 DEF Chatter

LEMMA Conclusion ==
  ASSUME NEW f \in Seq(Frame), Chatter(f), NEW x \in {"done", "error"}
  PROVE  Concluded(f \o <<x>>) /\ (f \o <<x>>)[Len(f \o <<x>>)] = x
<1>1. /\ Len(f \o <<x>>) = Len(f) + 1 /\ (f \o <<x>>)[Len(f) + 1] = x
      /\ \A i \in 1 .. Len(f) : (f \o <<x>>)[i] = f[i]
  BY DEF Frame
<1>2. DOMAIN f = 1 .. Len(f) /\ Len(f) \in Nat
  BY DEF Frame
<1>3. QED
  BY <1>1, <1>2 DEF Chatter, Concluded

LEMMA Closing ==
  ASSUME NEW f \in Seq(Frame), Concluded(f)
  PROVE  Closed(f \o <<"end">>) /\ (f \o <<"end">>)[Len(f \o <<"end">>) - 1] = f[Len(f)]
<1>1. /\ Len(f \o <<"end">>) = Len(f) + 1 /\ (f \o <<"end">>)[Len(f) + 1] = "end"
      /\ \A i \in 1 .. Len(f) : (f \o <<"end">>)[i] = f[i]
  BY DEF Frame
<1>2. Len(f) \in Nat
  BY DEF Frame
<1>3. QED
  BY <1>1, <1>2 DEF Concluded, Closed

\* What the three forms say of the terminal frames.
LEMMA TerminalsOf ==
  ASSUME TypeOK, NEW r \in Requests, Streams(r)
  PROVE  /\ OneTerminalFrame(r)
         /\ Terminal(r) # {} => Told(r)
         /\ pc[r] = "ended" => Terminal(r) = {Len(frames[r]) - 1}
<1> DEFINE f == frames[r]
<1>1. f \in Seq(Frame) /\ DOMAIN f = 1 .. Len(f) /\ Len(f) \in Nat
  BY DEF TypeOK
<1>2. CASE ~Told(r)
  <2>1. Terminal(r) = {}
    BY <1>2 DEF Streams, Chatter, Terminal
  <2>2. QED
    BY <1>2, <2>1 DEF OneTerminalFrame, Told
<1>3. CASE Told(r) /\ pc[r] # "ended"
  <2>1. Concluded(f)
    BY <1>3 DEF Streams
  <2>2. \A i \in Terminal(r) : i = Len(f)
    BY <1>1, <2>1 DEF Concluded, Terminal
  <2>3. \A i \in Terminal(r) : i + 1 .. Len(f) = {}
    BY <1>1, <2>2
  <2>4. QED
    BY <1>3, <2>3 DEF OneTerminalFrame
<1>4. CASE pc[r] = "ended"
  <2>1. Closed(f)
    BY <1>4 DEF Streams
  <2>2. Terminal(r) = {Len(f) - 1}
    BY <1>1, <2>1 DEF Closed, Terminal
  <2>3. \A j \in (Len(f) - 1) + 1 .. Len(f) : j = Len(f)
    BY <1>1
  <2>4. QED
    BY <1>4, <2>1, <2>2, <2>3 DEF OneTerminalFrame, Closed, Told
<1>5. QED
  BY <1>2, <1>3, <1>4

-----------------------------------------------------------------------------
(* The initial state, and the types.                                        *)

LEMMA TurnInvInit == Init => TurnInv
<1> SUFFICES ASSUME Init PROVE TurnInv
  OBVIOUS
<1>1. TypeOK
  <2>1. /\ gone \subseteq Conversations /\ turnIndex \in [Conversations -> Nat]
        /\ titled \in [Conversations -> SUBSET Requests] /\ runs \in [Requests -> Run]
    BY DEF Init, Run, NoRun, RunStatus
  <2>2. message \in [Requests -> Message] /\ outcome \in [Requests -> Outcome]
    BY DEF Init, Message, NoMessage, Outcome, NoOutcome
  <2>3. /\ cid \in [Requests -> Conversations] /\ key \in [Requests -> Keys \union {NoKey}]
        /\ pc \in [Requests -> Place] /\ ending \in [Requests -> {"none", "ok", "clarify", "error"}]
    BY ChatAssumption DEF Init, Place
  <2>4. frames \in [Requests -> Seq(Frame)] /\ index \in [Requests -> Nat]
    BY DEF Init
  <2>5. /\ held \subseteq Requests /\ persisted \subseteq Requests /\ faults \in Nat
        /\ restarts \in Nat /\ executed \subseteq Requests /\ unlogged \subseteq Requests
        /\ lost \subseteq Requests /\ broke \subseteq Requests /\ racing \subseteq Requests
    BY DEF Init
  <2>6. QED
    BY <2>1, <2>2, <2>3, <2>4, <2>5 DEF TypeOK
<1>2. ASSUME NEW r \in Requests PROVE Thread(r)
  <2>1. /\ pc[r] = "new" /\ frames[r] = <<>> /\ runs[r] = NoRun /\ message[r].stored = FALSE
        /\ outcome[r].replayed = FALSE /\ index[r] = 0 /\ r \notin persisted /\ r \notin executed
        /\ Present(r) /\ r \notin broke
    BY DEF Init, NoMessage, NoOutcome, Present
  <2>2. Streams(r)
    BY <2>1 DEF Streams, Told, Chatter
  <2>3. Logs(r) /\ Settles(r)
    BY <2>1 DEF Logs, Settles, Logged, NoRun
  <2>4. Stores(r) /\ Replays(r) /\ Counts(r)
    BY <2>1 DEF Stores, Replays, Counts, Told
  <2>5. Deletes(r)
    BY <2>1 DEF Deletes, NoRun
  <2>6. QED
    BY <2>2, <2>3, <2>4, <2>5 DEF Thread
<1>3. KeysAreUnique /\ SourcesAreAnswered
  BY DEF Init, KeysAreUnique, SourcesAreAnswered, NoOutcome, Logged, NoRun
<1>4. FirstTurns
  BY DEF Init, FirstTurns, IsFirst
<1>5. QED
  BY <1>1, <1>2, <1>3, <1>4 DEF TurnInv

\* The forms in which the steps assign the variables with structure.
LEMMA Sent ==
  ASSUME TypeOK, NEW r \in Requests, NEW x \in Frame, Send(r, <<x>>)
  PROVE  /\ frames' \in [Requests -> Seq(Frame)] /\ frames'[r] = frames[r] \o <<x>>
         /\ \A q \in Requests \ {r} : frames'[q] = frames[q]
<1>1. frames \in [Requests -> Seq(Frame)] /\ frames[r] \in Seq(Frame)
  BY DEF TypeOK
<1>2. frames[r] \o <<x>> \in Seq(Frame)
  BY <1>1
<1>3. frames' = [frames EXCEPT ![r] = frames[r] \o <<x>>]
  BY DEF Send
<1>4. QED
  BY <1>1, <1>2, <1>3

LEMMA Went ==
  ASSUME TypeOK, NEW r \in Requests, NEW place \in Place, Goto(r, place)
  PROVE  /\ pc' \in [Requests -> Place] /\ pc'[r] = place
         /\ \A q \in Requests \ {r} : pc'[q] = pc[q]
BY DEF TypeOK, Goto

LEMMA WasReturned ==
  ASSUME TypeOK, NEW r \in Requests, NEW o \in Outcome, NEW holds \in BOOLEAN,
         Returned(r, o, holds)
  PROVE  /\ outcome' \in [Requests -> Outcome] /\ outcome'[r] = o
         /\ \A q \in Requests \ {r} : outcome'[q] = outcome[q] /\ pc'[q] = pc[q]
         /\ pc' \in [Requests -> Place]
         /\ pc'[r] = (IF ~holds THEN "closing"
                      ELSE IF TitleDue(r, o) THEN "titling" ELSE "flushing")
<1>1. outcome' = [outcome EXCEPT ![r] = o]
  BY DEF Returned
<1>2. /\ outcome' \in [Requests -> Outcome] /\ outcome'[r] = o
      /\ \A q \in Requests \ {r} : outcome'[q] = outcome[q]
  BY <1>1 DEF TypeOK
<1> DEFINE to == IF ~holds THEN "closing" ELSE IF TitleDue(r, o) THEN "titling" ELSE "flushing"
<1>3. Goto(r, to)
  BY DEF Returned
<1>4. to \in Place
  BY DEF Place
<1> HIDE DEF to
<1>5. /\ pc' \in [Requests -> Place] /\ pc'[r] = to
      /\ \A q \in Requests \ {r} : pc'[q] = pc[q]
  BY <1>3, <1>4, Went
<1>6. QED
  BY <1>2, <1>5 DEF to

LEMMA OwnIsOutcome ==
  ASSUME TypeOK, NEW r \in Requests
  PROVE  OwnOutcome(r) \in Outcome /\ ~OwnOutcome(r).replayed
BY DEF TypeOK, OwnOutcome, Outcome

\* A row that a step of its thread rewrites.
LEMMA Rewritten ==
  ASSUME TypeOK, NEW r \in Requests, NEW run \in Run, runs' = [runs EXCEPT ![r] = run]
  PROVE  /\ runs' \in [Requests -> Run] /\ runs'[r] = run
         /\ \A q \in Requests \ {r} : runs'[q] = runs[q]
BY DEF TypeOK

-----------------------------------------------------------------------------
(* A step of one thread.                                                    *)

\* The other threads keep all they have.
OthersStay(r) ==
  \A q \in Requests \ {r} :
    /\ pc'[q] = pc[q] /\ cid'[q] = cid[q] /\ key'[q] = key[q] /\ runs'[q] = runs[q]
    /\ message'[q] = message[q] /\ ending'[q] = ending[q] /\ frames'[q] = frames[q]
    /\ outcome'[q] = outcome[q] /\ index'[q] = index[q]
    /\ q \in held' <=> q \in held
    /\ q \in persisted' <=> q \in persisted
    /\ q \in executed' <=> q \in executed
    /\ q \in unlogged' <=> q \in unlogged
    /\ q \in lost' <=> q \in lost
    /\ q \in broke' <=> q \in broke

LEMMA OtherThreads ==
  ASSUME TurnInv, NEW r \in Requests, OthersStay(r), UNCHANGED <<gone, racing>>,
         NEW q \in Requests \ {r}
  PROVE  Thread(q)'
<1>1. Thread(q)
  BY DEF TurnInv
<1>2. (Told(q) <=> Told(q)') /\ LastWord(q)' = LastWord(q)
  BY DEF OthersStay, Told, LastWord
<1>3. (Logged(q) <=> Logged(q)') /\ (Present(q) <=> Present(q)')
  BY DEF OthersStay, Logged, Present
<1>4. Streams(q)'
  BY <1>1, <1>2 DEF Thread, Streams, OthersStay
<1>5. Logs(q)'
  BY <1>1, <1>2, <1>3 DEF Thread, Logs, OthersStay
<1>6. Settles(q)'
  BY <1>1 DEF Thread, Settles, OthersStay
<1>7. Stores(q)'
  BY <1>1, <1>2, <1>3 DEF Thread, Stores, OthersStay
<1>8. Replays(q)' /\ Counts(q)'
  BY <1>1 DEF Thread, Replays, Counts, OthersStay
<1>9. Deletes(q)'
  <2>1. (q \in AtWork <=> q \in AtWork') /\ (Content(q) <=> Content(q)')
    BY DEF OthersStay, AtWork, Content
  <2>2. QED
    BY <1>1, <1>3, <2>1 DEF Thread, Deletes, OthersStay
<1>10. QED
  BY <1>4, <1>5, <1>6, <1>7, <1>8, <1>9 DEF Thread

\* What a step has to show for the thread that takes it, and for what threads share.
LEMMA ThreadSteps ==
  ASSUME TurnInv, TypeOK', NEW r \in Requests, OthersStay(r), UNCHANGED <<gone, racing>>,
         Thread(r)',
         Logged(r)' => key'[r] = key[r] /\ (Logged(r) \/ Earlier(r) = {}),
         Answered(r) => Answered(r)',
         outcome'[r].replayed => outcome'[r].run \in Requests /\ Answered(outcome'[r].run),
         FirstTurns'
  PROVE  TurnInv'
<1>1. \A q \in Requests : Thread(q)'
  BY OtherThreads
<1>2. KeysAreUnique'
  <2>1. \A q \in Requests \ {r} : Logged(q)' => Logged(q) /\ key'[q] = key[q]
    BY DEF OthersStay, Logged
  <2>2. \A q, s \in Requests \ {r} :
          q # s /\ key'[q] = key'[s] /\ key'[q] # NoKey => ~Logged(q)' \/ ~Logged(s)'
    BY <2>1 DEF TurnInv, KeysAreUnique
  <2>3. ASSUME NEW q \in Requests \ {r}, key'[q] = key'[r], key'[r] # NoKey, Logged(q)', Logged(r)'
        PROVE  FALSE
    <3>1. key[q] = key[r] /\ key[r] # NoKey /\ Logged(q)
      BY <2>1, <2>3
    <3>2. q \in Earlier(r)
      BY <3>1 DEF Earlier, Logged
    <3>3. Logged(r)
      BY <2>3, <3>2
    <3>4. QED
      BY <3>1, <3>3 DEF TurnInv, KeysAreUnique
  <2>4. QED
    BY <2>2, <2>3 DEF KeysAreUnique
<1>3. SourcesAreAnswered'
  <2>1. \A q \in Requests : Answered(q) => Answered(q)'
    BY DEF OthersStay, Answered
  <2>2. \A q \in Requests \ {r} :
          outcome'[q].replayed => outcome'[q].run \in Requests /\ Answered(outcome'[q].run)
    BY DEF OthersStay, TurnInv, Thread, Replays, SourcesAreAnswered
  <2>3. QED
    BY <2>1, <2>2 DEF SourcesAreAnswered
<1>4. QED
  BY <1>1, <1>2, <1>3 DEF TurnInv

\* First turns change only where an index is given or a title is set.
LEMMA FirstTurnsStay ==
  ASSUME TurnInv, UNCHANGED <<turnIndex, titled>>, executed \subseteq executed',
         \A q \in Requests :
           \/ cid'[q] = cid[q] /\ (index'[q] = index[q] \/ index'[q] = 0)
           \/ index'[q] = 0 /\ q \notin executed
  PROVE  FirstTurns'
<1>1. ASSUME NEW c \in Conversations, NEW q \in Requests, IsFirst(q, c)' PROVE IsFirst(q, c)
  BY <1>1 DEF IsFirst
<1>2. ASSUME NEW c \in Conversations, NEW q \in titled'[c] PROVE q \in executed' /\ cid'[q] = c
  <2>1. q \in executed /\ cid[q] = c /\ q \in Requests
    BY DEF TurnInv, TypeOK, FirstTurns
  <2>2. QED
    BY <2>1
<1>3. QED
  BY <1>1, <1>2 DEF TurnInv, FirstTurns

-----------------------------------------------------------------------------
(* Up to the pipeline.                                                      *)

LEMMA PostKeeps ==
  ASSUME TurnInv, NEW r \in Requests, NEW c \in Conversations, NEW k \in Keys \union {NoKey},
         Post(r, c, k)
  PROVE  TurnInv'
<1> DEFINE place == IF c \notin gone THEN "stored" ELSE "rejected"
<1>1. /\ pc[r] = "new" /\ cid' = [cid EXCEPT ![r] = c] /\ key' = [key EXCEPT ![r] = k]
      /\ Goto(r, place) /\ place \in Place
      /\ UNCHANGED <<gone, turnIndex, titled, runs, message, ending, frames, held, persisted,
                     outcome, index, faults, restarts, executed, unlogged, lost, broke, racing>>
  BY DEF Post, dbVars, historyVars, Place
<1>2. /\ pc' \in [Requests -> Place] /\ pc'[r] = place
      /\ \A q \in Requests \ {r} : pc'[q] = pc[q]
  BY <1>1, Went DEF TurnInv
<1>3. TypeOK'
  BY <1>1, <1>2 DEF TurnInv, TypeOK
<1>4. OthersStay(r) /\ cid'[r] = c
  BY <1>1, <1>2 DEF OthersStay, TurnInv, TypeOK
<1>5. /\ ~Logged(r) /\ index[r] = 0 /\ r \notin executed /\ r \notin persisted
      /\ ~message[r].stored /\ ~outcome[r].replayed /\ Chatter(frames[r]) /\ runs[r] = NoRun
      /\ r \notin broke
  BY <1>1 DEF TurnInv, Thread, Streams, Logs, Settles, Stores, Replays, Counts, Deletes, Told
<1>6. Thread(r)'
  <2>1. pc'[r] \in {"stored", "rejected"}
    BY <1>2
  <2>2. Streams(r)' /\ Logs(r)' /\ Settles(r)'
    BY <1>1, <1>5, <2>1 DEF Streams, Told, Logs, Logged, Settles, NoRun
  <2>3. Stores(r)' /\ Replays(r)' /\ Counts(r)'
    BY <1>1, <1>5, <2>1 DEF Stores, Told, Replays, Counts
  <2>4. ~Content(r)' /\ ~runs'[r].redacted /\ runs'[r] = NoRun
    BY <1>1, <1>5 DEF Content, NoRun
  <2>5. pc'[r] = "stored" => Present(r)'
    BY <1>1, <1>2, <1>4 DEF Present
  <2>6. Deletes(r)'
    BY <2>1, <2>4, <2>5 DEF Deletes, AtWork
  <2>7. QED
    BY <2>2, <2>3, <2>6 DEF Thread
<1>7. FirstTurns'
  <2>1. index'[r] = 0 /\ r \notin executed
    BY <1>1, <1>5
  <2>2. \A q \in Requests \ {r} : cid'[q] = cid[q] /\ index'[q] = index[q]
    BY <1>1, <1>4 DEF OthersStay
  <2>3. QED
    BY <1>1, <2>1, <2>2, FirstTurnsStay
<1>8. QED
  <2>1. ~Logged(r)' /\ runs'[r].status = runs[r].status /\ ~outcome'[r].replayed
    BY <1>1, <1>5 DEF Logged
  <2>2. UNCHANGED <<gone, racing>>
    BY <1>1
  <2>3. ~Answered(r)
    BY <1>5 DEF NoRun, Answered
  <2>4. QED
    BY <1>3, <1>4, <1>6, <1>7, <2>1, <2>2, <2>3, ThreadSteps

\* A step of a thread that leaves the conversations, the keys and the indices alone.
LEMMA PlainSteps ==
  ASSUME TurnInv, TypeOK', NEW r \in Requests, OthersStay(r),
         UNCHANGED <<asked, gone, turnIndex, titled, index, racing>>, executed \subseteq executed',
         Thread(r)',
         Logged(r)' => (Logged(r) \/ Earlier(r) = {}),
         Answered(r) => Answered(r)',
         outcome'[r].replayed => outcome'[r].run \in Requests /\ Answered(outcome'[r].run)
  PROVE  TurnInv'
<1>1. FirstTurns'
  BY FirstTurnsStay DEF asked
<1>2. UNCHANGED <<gone, racing>> /\ key'[r] = key[r]
  BY DEF asked
<1>3. QED
  BY <1>1, <1>2, ThreadSteps

LEMMA TakeTurnIndexKeeps == ASSUME TurnInv, NEW r \in Requests, TakeTurnIndex(r) PROVE TurnInv'
<1> DEFINE c == cid[r]
<1>1. /\ pc[r] = "stored" /\ c \in Conversations
      /\ UNCHANGED <<cid, key, gone, titled, runs, message, ending, frames, held, persisted,
                     outcome, faults, restarts, executed, unlogged, lost, broke, racing>>
      /\ \/ /\ Present(r) /\ turnIndex' = [turnIndex EXCEPT ![c] = @ + 1]
            /\ index' = [index EXCEPT ![r] = turnIndex[c] + 1] /\ Goto(r, "indexed")
         \/ UNCHANGED <<turnIndex, index>> /\ Goto(r, "crashing")
  BY DEF TakeTurnIndex, asked, historyVars, TurnInv, TypeOK
<1>2. /\ pc' \in [Requests -> Place] /\ pc'[r] \in {"indexed", "crashing"}
      /\ \A q \in Requests \ {r} : pc'[q] = pc[q]
  <2>1. "indexed" \in Place /\ "crashing" \in Place
    BY DEF Place
  <2>2. QED
    BY <1>1, <2>1, Went DEF TurnInv
<1>3. /\ turnIndex' \in [Conversations -> Nat] /\ index' \in [Requests -> Nat]
      /\ \A q \in Requests \ {r} : index'[q] = index[q]
  <2>1. turnIndex \in [Conversations -> Nat] /\ index \in [Requests -> Nat]
    BY DEF TurnInv, TypeOK
  <2>2. turnIndex[c] + 1 \in Nat
    BY <1>1, <2>1
  <2>3. CASE UNCHANGED <<turnIndex, index>>
    BY <2>1, <2>3
  <2>4. CASE /\ turnIndex' = [turnIndex EXCEPT ![c] = turnIndex[c] + 1]
             /\ index' = [index EXCEPT ![r] = turnIndex[c] + 1]
    BY <1>1, <2>1, <2>2, <2>4
  <2>5. QED
    BY <1>1, <2>3, <2>4
<1>4. TypeOK'
  BY <1>1, <1>2, <1>3 DEF TurnInv, TypeOK
<1>5. OthersStay(r)
  BY <1>1, <1>2, <1>3 DEF OthersStay
<1>6. /\ ~Logged(r) /\ index[r] = 0 /\ r \notin executed /\ r \notin persisted
      /\ ~message[r].stored /\ ~outcome[r].replayed /\ Chatter(frames[r]) /\ runs[r] = NoRun
      /\ r \in AtWork /\ r \notin broke
  BY <1>1
     DEF TurnInv, Thread, Streams, Logs, Settles, Stores, Replays, Counts, Deletes, Told, AtWork
<1>7. Thread(r)'
  <2>1. Streams(r)' /\ Logs(r)' /\ Settles(r)'
    BY <1>1, <1>2, <1>6 DEF Streams, Told, Logs, Logged, Settles, NoRun
  <2>2. Stores(r)' /\ Replays(r)' /\ Counts(r)'
    BY <1>1, <1>2, <1>6 DEF Stores, Told, Replays, Counts
  <2>3. Deletes(r)'
    BY <1>1, <1>6 DEF TurnInv, Thread, Deletes, AtWork, Content, Present, Logged
  <2>4. QED
    BY <2>1, <2>2, <2>3 DEF Thread
<1>8. FirstTurns'
  <2>1. CASE UNCHANGED <<turnIndex, index>>
    BY <1>1, <2>1, FirstTurnsStay
  <2>2. CASE /\ turnIndex' = [turnIndex EXCEPT ![c] = @ + 1]
             /\ index' = [index EXCEPT ![r] = turnIndex[c] + 1]
    <3>1. /\ turnIndex'[c] = turnIndex[c] + 1 /\ index'[r] = turnIndex[c] + 1
          /\ turnIndex[c] \in Nat /\ \A d \in Conversations \ {c} : turnIndex'[d] = turnIndex[d]
      BY <1>1, <2>2 DEF TurnInv, TypeOK
    <3>2. \A d \in Conversations : r \notin titled[d]
      BY <1>6 DEF TurnInv, FirstTurns
    <3>3. \A d \in Conversations, q \in Requests \ {r} : IsFirst(q, d)' <=> IsFirst(q, d)
      BY <1>1, <1>3 DEF IsFirst
    <3>4. \A d \in Conversations : IsFirst(r, d)' => d = c /\ turnIndex[c] = 0
      BY <1>1, <3>1, <3>2 DEF IsFirst
    <3>5. turnIndex[c] = 0 => \A q \in Requests : ~IsFirst(q, c)
      BY <1>1 DEF TurnInv, FirstTurns
    <3>6. ASSUME NEW d \in Conversations
          PROVE  /\ \A q \in Requests : IsFirst(q, d)' => turnIndex'[d] >= 1
                 /\ \A q, s \in Requests : IsFirst(q, d)' /\ IsFirst(s, d)' => q = s
      <4>1. CASE IsFirst(r, d)'
        <5>1. d = c /\ turnIndex[c] = 0 /\ \A q \in Requests \ {r} : ~IsFirst(q, d)'
          BY <3>3, <3>4, <3>5, <4>1
        <5>2. QED
          BY <3>1, <5>1
      <4>2. CASE ~IsFirst(r, d)'
        <5>1. \A q \in Requests : IsFirst(q, d)' => q # r /\ IsFirst(q, d)
          BY <3>3, <4>2
        <5>2. \A q \in Requests : IsFirst(q, d)' => turnIndex[d] >= 1
          BY <5>1 DEF TurnInv, FirstTurns
        <5>3. turnIndex[d] >= 1 => turnIndex'[d] >= 1
          BY <3>1
        <5>4. \A q, s \in Requests : IsFirst(q, d)' /\ IsFirst(s, d)' => q = s
          BY <5>1 DEF TurnInv, FirstTurns
        <5>5. QED
          BY <5>2, <5>3, <5>4
      <4>3. QED
        BY <4>1, <4>2
    <3>7. \A d \in Conversations : \A q \in titled'[d] : q \in executed' /\ cid'[q] = d
      BY <1>1 DEF TurnInv, FirstTurns
    <3>8. QED
      BY <3>6, <3>7 DEF FirstTurns
  <2>3. QED
    BY <1>1, <2>1, <2>2
<1>9. QED
  <2>1. ~Logged(r)' /\ runs'[r].status = runs[r].status /\ ~outcome'[r].replayed
    BY <1>1, <1>6 DEF Logged
  <2>2. UNCHANGED <<gone, racing>>
    BY <1>1
  <2>3. ~Answered(r)
    BY <1>6 DEF NoRun, Answered
  <2>4. QED
    BY <1>4, <1>5, <1>7, <1>8, <2>1, <2>2, <2>3, ThreadSteps

\* Deletion has its own say only on threads that are not at work.
LEMMA DeletesStay ==
  ASSUME TurnInv, NEW r \in Requests, r \in AtWork, UNCHANGED <<asked, gone, racing>>,
         \/ runs'[r] = runs[r]
         \/ runs'[r].status # "absent" /\ (runs'[r].redacted => runs[r].redacted)
  PROVE  Deletes(r)'
<1>1. /\ r \notin racing => Present(r)
      /\ runs[r].redacted => ~Present(r)
      /\ runs[r].status = "absent" => runs[r] = NoRun
  BY DEF TurnInv, Thread, Deletes, Logged
<1>2. Present(r)' <=> Present(r)
  BY DEF asked, Present
<1>3. /\ r \in AtWork' \ racing' => Present(r)'
      /\ ~Present(r)' /\ r \notin racing' => ~Content(r)'
  BY <1>1, <1>2
<1>4. /\ runs'[r].redacted => ~Present(r)'
      /\ ~Logged(r)' => runs'[r] = NoRun
  BY <1>1, <1>2 DEF Logged
<1>5. QED
  BY <1>3, <1>4 DEF Deletes

\* What holds before a thread has a row, a message or an outcome.
LEMMA Unstarted ==
  ASSUME TurnInv, NEW r \in Requests, pc[r] \in {"indexed", "conflict"}
  PROVE  /\ ~Logged(r) /\ runs[r] = NoRun /\ r \notin executed /\ r \notin persisted
         /\ ~message[r].stored /\ ~outcome[r].replayed /\ Chatter(frames[r]) /\ r \in AtWork
         /\ frames[r] \in Seq(Frame) /\ ~Answered(r) /\ r \notin broke
BY DEF TurnInv, TypeOK, Thread, Streams, Logs, Settles, Stores, Replays, Counts, Deletes, Told,
       AtWork, Answered, NoRun

\* The three outcomes of start_turn.
LEMMA StartTurnKeeps ==
  ASSUME TurnInv, NEW r \in Requests, StartTurn(r) \/ StartTurnUnlogged(r)
  PROVE  TurnInv'
<1> DEFINE row == [NoRun EXCEPT !.status = "running", !.question = TRUE]
<1>1. /\ pc[r] = "indexed" /\ Send(r, <<"accepted">>)
      /\ \/ Goto(r, "running") /\ runs' = [runs EXCEPT ![r] = row] /\ Earlier(r) = {}
            /\ UNCHANGED <<faults, unlogged>>
         \/ Goto(r, "conflict") /\ UNCHANGED <<runs, faults, unlogged>>
         \/ /\ Goto(r, "running") /\ UNCHANGED runs /\ faults' = faults + 1
            /\ unlogged' = unlogged \union {r}
      /\ UNCHANGED <<asked, gone, turnIndex, titled, message, ending, held, persisted, outcome,
                     index, restarts, executed, lost, broke, racing>>
  BY DEF StartTurn, StartTurnUnlogged, Begun, Fault, dbVars, historyVars
<1>2. /\ pc' \in [Requests -> Place] /\ pc'[r] \in {"running", "conflict"}
      /\ \A q \in Requests \ {r} : pc'[q] = pc[q]
  <2>1. "running" \in Place /\ "conflict" \in Place
    BY DEF Place
  <2>2. QED
    BY <1>1, <2>1, Went DEF TurnInv
<1>3. /\ frames' \in [Requests -> Seq(Frame)] /\ frames'[r] = frames[r] \o <<"accepted">>
      /\ \A q \in Requests \ {r} : frames'[q] = frames[q]
  <2>1. "accepted" \in Frame
    BY DEF Frame
  <2>2. QED
    BY <1>1, <2>1, Sent DEF TurnInv
<1>4. /\ runs' \in [Requests -> Run] /\ \A q \in Requests \ {r} : runs'[q] = runs[q]
      /\ \/ runs'[r] = row /\ pc'[r] = "running" /\ Earlier(r) = {} /\ unlogged' = unlogged
         \/ runs'[r] = runs[r] /\ (pc'[r] = "running" => r \in unlogged')
      /\ \A q \in Requests \ {r} : q \in unlogged' <=> q \in unlogged
  <2>1. row \in Run
    BY DEF Run, RunStatus, NoRun
  <2>2. CASE Goto(r, "running") /\ runs' = [runs EXCEPT ![r] = row] /\ Earlier(r) = {}
             /\ UNCHANGED <<faults, unlogged>>
    BY <1>2, <2>1, <2>2, Rewritten DEF TurnInv, TypeOK, Goto
  <2>3. CASE Goto(r, "conflict") /\ UNCHANGED <<runs, faults, unlogged>>
    BY <2>3 DEF TurnInv, TypeOK, Goto
  <2>4. CASE UNCHANGED runs /\ unlogged' = unlogged \union {r}
    BY <2>4 DEF TurnInv, TypeOK
  <2>5. QED
    BY <1>1, <2>2, <2>3, <2>4
<1>5. row.status = "running" /\ ~row.redacted
  BY DEF NoRun
<1> HIDE DEF row
<1>6. TypeOK'
  BY <1>1, <1>2, <1>3, <1>4 DEF TurnInv, TypeOK, asked
<1>7. OthersStay(r)
  BY <1>1, <1>2, <1>3, <1>4 DEF OthersStay, asked
<1>8. /\ ~Logged(r) /\ runs[r] = NoRun /\ r \notin executed /\ r \notin persisted
      /\ ~message[r].stored /\ ~outcome[r].replayed /\ Chatter(frames[r]) /\ r \in AtWork
      /\ frames[r] \in Seq(Frame) /\ ~Answered(r) /\ r \notin broke
  BY <1>1, Unstarted
<1>9. Thread(r)'
  <2>1. Streams(r)'
    BY <1>2, <1>3, <1>8, MoreChatter DEF Streams, Told
  <2>2. Logs(r)' /\ Settles(r)'
    BY <1>1, <1>2, <1>4, <1>5, <1>8 DEF Logs, Settles, Logged, NoRun
  <2>3. Stores(r)' /\ Replays(r)' /\ Counts(r)'
    BY <1>1, <1>2, <1>8 DEF Stores, Told, Replays, Counts
  <2>4. Deletes(r)'
    BY <1>1, <1>4, <1>5, <1>8, DeletesStay
  <2>5. QED
    BY <2>1, <2>2, <2>3, <2>4 DEF Thread
<1>10. QED
  <2>1. /\ Logged(r)' => Logged(r) \/ Earlier(r) = {}
        /\ ~Answered(r) /\ ~outcome'[r].replayed /\ executed \subseteq executed'
    BY <1>1, <1>4, <1>8 DEF Logged, NoRun
  <2>2. QED
    BY <1>1, <1>6, <1>7, <1>9, <2>1, PlainSteps

\* A replay takes what an answered row offers; a refusal takes nothing.
LEMMA ReplayKeeps == ASSUME TurnInv, NEW r \in Requests, Replay(r) PROVE TurnInv'
<1>1. /\ pc[r] = "conflict" /\ (faults' = faults \/ faults' = faults + 1)
      /\ UNCHANGED <<asked, dbVars, ending, persisted, index, restarts, historyVars>>
  BY DEF Replay, Fault
<1>2. PICK q \in Earlier(r) :
        \/ /\ ReadForReplay(q) = [status |-> "ok", parts |-> TRUE]
           /\ Send(r, <<"body">>) /\ held' = held \union {r}
           /\ Returned(r, [status |-> "ok", run |-> q, replayed |-> TRUE], TRUE)
        \/ Goto(r, "refusing") /\ UNCHANGED <<frames, held, outcome>>
  BY DEF Replay
<1>3. /\ ~Logged(r) /\ runs[r] = NoRun /\ r \notin executed /\ r \notin persisted
      /\ ~message[r].stored /\ ~outcome[r].replayed /\ Chatter(frames[r]) /\ r \in AtWork
      /\ frames[r] \in Seq(Frame) /\ ~Answered(r) /\ r \notin broke
  BY <1>1, Unstarted
<1>4. q \in Requests
  BY DEF Earlier
<1>5. CASE Goto(r, "refusing") /\ UNCHANGED <<frames, held, outcome>>
  <2>1. /\ pc' \in [Requests -> Place] /\ pc'[r] = "refusing"
        /\ \A s \in Requests \ {r} : pc'[s] = pc[s]
    <3>1. "refusing" \in Place
      BY DEF Place
    <3>2. QED
      BY <1>5, <3>1, Went DEF TurnInv
  <2>2. TypeOK' /\ OthersStay(r)
    BY <1>1, <1>5, <2>1 DEF TurnInv, TypeOK, OthersStay, asked, dbVars, historyVars
  <2>3. Streams(r)' /\ Logs(r)' /\ Settles(r)'
    BY <1>1, <1>3, <1>5, <2>1 DEF Streams, Told, Logs, Logged, Settles, NoRun, dbVars,
                                       historyVars
  <2>4. Stores(r)' /\ Replays(r)' /\ Counts(r)'
    BY <1>1, <1>3, <1>5, <2>1 DEF Stores, Told, Replays, Counts, dbVars, historyVars
  <2>5. Deletes(r)'
    BY <1>1, <1>3, DeletesStay DEF dbVars, historyVars
  <2>6. QED
    BY <1>1, <1>3, <1>5, <2>2, <2>3, <2>4, <2>5, PlainSteps
       DEF Thread, Logged, NoRun, dbVars, historyVars
<1>6. CASE /\ ReadForReplay(q) = [status |-> "ok", parts |-> TRUE]
           /\ Send(r, <<"body">>) /\ held' = held \union {r}
           /\ Returned(r, [status |-> "ok", run |-> q, replayed |-> TRUE], TRUE)
  <2> DEFINE o == [status |-> "ok", run |-> q, replayed |-> TRUE]
  <2>1. Answered(q)
    BY <1>6 DEF ReadForReplay, Answered
  <2>2. o \in Outcome /\ ~TitleDue(r, o) /\ o.run = q
    BY <1>4 DEF Outcome, TitleDue
  <2>3. /\ outcome' \in [Requests -> Outcome] /\ outcome'[r] = o
        /\ \A s \in Requests \ {r} : outcome'[s] = outcome[s] /\ pc'[s] = pc[s]
        /\ pc' \in [Requests -> Place] /\ pc'[r] = "flushing"
    BY <1>6, <2>2, WasReturned DEF TurnInv
  <2> HIDE DEF o
  <2>4. /\ frames' \in [Requests -> Seq(Frame)] /\ frames'[r] = frames[r] \o <<"body">>
        /\ \A s \in Requests \ {r} : frames'[s] = frames[s]
    <3>1. "body" \in Frame
      BY DEF Frame
    <3>2. QED
      BY <1>6, <3>1, Sent DEF TurnInv
  <2>5. TypeOK'
    <3>1. held' \subseteq Requests /\ faults' \in Nat
      BY <1>1, <1>6 DEF TurnInv, TypeOK
    <3>2. UNCHANGED <<cid, key, gone, turnIndex, titled, runs, message, ending, persisted, index,
                      restarts, executed, unlogged, lost, broke, racing>>
      BY <1>1 DEF asked, dbVars, historyVars
    <3>3. QED
      BY <2>3, <2>4, <3>1, <3>2 DEF TurnInv, TypeOK
  <2>6. OthersStay(r)
    BY <1>1, <1>6, <2>3, <2>4 DEF OthersStay, asked, dbVars, historyVars
  <2>7. Streams(r)'
    BY <1>3, <2>3, <2>4, MoreChatter DEF Streams, Told
  <2>8. Logs(r)' /\ Settles(r)'
    BY <1>1, <1>3, <2>3 DEF Logs, Logged, Settles, NoRun, dbVars, historyVars
  <2>9. Stores(r)' /\ Counts(r)'
    BY <1>1, <1>3, <2>3 DEF Stores, Told, Counts, dbVars, historyVars
  <2>10. Replays(r)'
    BY <1>1, <1>3, <1>4, <1>6, <2>2, <2>3 DEF Replays, dbVars
  <2>11. Deletes(r)'
    BY <1>1, <1>3, DeletesStay DEF dbVars, historyVars
  <2>12. Thread(r)'
    BY <2>7, <2>8, <2>9, <2>10, <2>11 DEF Thread
  <2>13. /\ UNCHANGED <<gone, turnIndex, titled, racing, executed>> /\ ~Logged(r)'
         /\ ~Answered(r) /\ outcome'[r].run = q
    BY <1>1, <1>3, <2>2, <2>3 DEF dbVars, historyVars, Logged, NoRun
  <2>14. QED
    BY <1>1, <1>4, <2>1, <2>5, <2>6, <2>12, <2>13, PlainSteps
<1>7. QED
  BY <1>2, <1>5, <1>6

-----------------------------------------------------------------------------
(* The pipeline.                                                            *)

\* What holds while the pipeline runs, and before.
LEMMA Unanswered ==
  ASSUME TurnInv, NEW r \in Requests, pc[r] \in {"stored", "running"}
  PROVE  /\ ~Answered(r) /\ r \notin broke /\ r \notin persisted /\ ~message[r].stored
         /\ ~outcome[r].replayed /\ Chatter(frames[r]) /\ r \in AtWork /\ frames[r] \in Seq(Frame)
BY DEF TurnInv, TypeOK, Thread, Streams, Settles, Stores, Replays, Told, AtWork, Answered

LEMMA AnswerKeeps == ASSUME TurnInv, NEW r \in Requests, Answer(r) PROVE TurnInv'
<1>1. /\ pc[r] = "running" /\ Send(r, <<"body">>) /\ held' = held \union {r}
      /\ executed' = executed \union {r}
      /\ UNCHANGED <<asked, dbVars, persisted, outcome, index, faults, restarts,
                     unlogged, lost, broke, racing>>
  BY DEF Answer
<1>2. PICK status \in {"ok", "clarify"} :
        /\ ending' = [ending EXCEPT ![r] = status]
        /\ Goto(r, CASE ~Logged(r) -> "putting"
                     [] Logged(r) /\ status = "ok" -> "recording"
                     [] OTHER -> "finalizing")
  BY DEF Answer
<1>3. /\ pc' \in [Requests -> Place] /\ \A q \in Requests \ {r} : pc'[q] = pc[q]
      /\ \/ pc'[r] = "putting" /\ ~Logged(r)
         \/ pc'[r] \in {"recording", "finalizing"} /\ Logged(r)
  <2>1. /\ "putting" \in Place /\ "recording" \in Place /\ "finalizing" \in Place
    BY DEF Place
  <2>2. \/ Goto(r, "putting") /\ ~Logged(r)
        \/ Goto(r, "recording") /\ Logged(r)
        \/ Goto(r, "finalizing") /\ Logged(r)
    BY <1>2
  <2>3. QED
    BY <2>1, <2>2, Went DEF TurnInv
<1>4. /\ frames' \in [Requests -> Seq(Frame)] /\ frames'[r] = frames[r] \o <<"body">>
      /\ \A q \in Requests \ {r} : frames'[q] = frames[q]
  <2>1. "body" \in Frame
    BY DEF Frame
  <2>2. QED
    BY <1>1, <2>1, Sent DEF TurnInv
<1>5. /\ ending' \in [Requests -> {"none", "ok", "clarify", "error"}] /\ ending'[r] = status
      /\ \A q \in Requests \ {r} : ending'[q] = ending[q]
  BY <1>2 DEF TurnInv, TypeOK
<1>6. TypeOK'
  BY <1>1, <1>3, <1>4, <1>5 DEF TurnInv, TypeOK, asked, dbVars
<1>7. OthersStay(r)
  BY <1>1, <1>3, <1>4, <1>5 DEF OthersStay, asked, dbVars
<1>8. /\ ~Answered(r) /\ r \notin broke /\ r \notin persisted /\ ~message[r].stored
      /\ ~outcome[r].replayed /\ Chatter(frames[r]) /\ r \in AtWork /\ frames[r] \in Seq(Frame)
  BY <1>1, Unanswered
<1>9. runs'[r] = runs[r] /\ message'[r] = message[r] /\ UNCHANGED <<gone, racing>>
  BY <1>1 DEF dbVars
<1>10. Thread(r)'
  <2>1. ~Told(r)'
    BY <1>3, <1>5 DEF Told
  <2>2. Streams(r)'
    BY <1>4, <1>8, <2>1, MoreChatter DEF Streams, Told
  <2>3. Logs(r)' /\ Settles(r)'
    BY <1>1, <1>3, <1>5, <1>8, <1>9, <2>1 DEF Logs, Logged, Settles, Answered
  <2>4. Stores(r)' /\ Replays(r)' /\ Counts(r)'
    BY <1>1, <1>3, <1>8, <1>9, <2>1 DEF Stores, Replays, Counts
  <2>5. Deletes(r)'
    BY <1>1, <1>8, <1>9, DeletesStay
  <2>6. QED
    BY <2>2, <2>3, <2>4, <2>5 DEF Thread
<1>11. QED
  <2>1. /\ UNCHANGED <<asked, gone, turnIndex, titled, index, racing>>
        /\ executed \subseteq executed' /\ ~outcome'[r].replayed /\ (Logged(r)' => Logged(r))
    BY <1>1, <1>8, <1>9 DEF dbVars, Logged
  <2>2. QED
    BY <1>6, <1>7, <1>8, <1>10, <2>1, PlainSteps

LEMMA BreakdownKeeps == ASSUME TurnInv, NEW r \in Requests, Fail(r) \/ Crash(r) PROVE TurnInv'
<1>1. /\ pc[r] \in {"stored", "running"}
      /\ UNCHANGED <<asked, dbVars, frames, held, persisted, outcome, index, restarts,
                     unlogged, lost, broke, racing>>
      /\ \/ /\ pc[r] = "running" /\ Goto(r, "failing") /\ ending' = [ending EXCEPT ![r] = "error"]
            /\ executed' = executed \union {r} /\ UNCHANGED faults
         \/ /\ Goto(r, "crashing") /\ UNCHANGED ending /\ faults' = faults + 1
            /\ \/ pc[r] = "running" /\ executed' = executed \union {r}
               \/ pc[r] = "stored" /\ executed' = executed
  BY DEF Fail, Crash, Fault
<1>2. /\ pc' \in [Requests -> Place] /\ \A q \in Requests \ {r} : pc'[q] = pc[q]
      /\ \/ pc'[r] = "failing" /\ ending'[r] = "error" /\ r \in executed'
         \/ pc'[r] = "crashing"
  <2>1. "failing" \in Place /\ "crashing" \in Place
    BY DEF Place
  <2>2. ending \in [Requests -> {"none", "ok", "clarify", "error"}]
    BY DEF TurnInv, TypeOK
  <2>3. QED
    BY <1>1, <2>1, <2>2, Went DEF TurnInv
<1>3. /\ ending' \in [Requests -> {"none", "ok", "clarify", "error"}]
      /\ \A q \in Requests \ {r} : ending'[q] = ending[q]
      /\ executed \subseteq executed' /\ executed' \subseteq executed \union {r}
  BY <1>1 DEF TurnInv, TypeOK
<1>4. TypeOK'
  BY <1>1, <1>2, <1>3 DEF TurnInv, TypeOK, asked, dbVars
<1>5. OthersStay(r)
  BY <1>1, <1>2, <1>3 DEF OthersStay, asked, dbVars
<1>6. /\ ~Answered(r) /\ r \notin broke /\ r \notin persisted /\ ~message[r].stored
      /\ ~outcome[r].replayed /\ Chatter(frames[r]) /\ r \in AtWork /\ frames[r] \in Seq(Frame)
  BY <1>1, Unanswered
<1>7. runs'[r] = runs[r] /\ message'[r] = message[r] /\ UNCHANGED <<gone, racing>>
  BY <1>1 DEF dbVars
<1>8. Thread(r)'
  <2>1. ~Told(r)'
    BY <1>2 DEF Told
  <2>2. Streams(r)'
    BY <1>1, <1>2, <1>6, <2>1 DEF Streams
  <2>3. Logs(r)' /\ Settles(r)'
    BY <1>1, <1>2, <1>6, <1>7, <2>1 DEF Logs, Logged, Settles, Answered
  <2>4. Stores(r)' /\ Replays(r)' /\ Counts(r)'
    BY <1>1, <1>2, <1>6, <1>7, <2>1 DEF Stores, Replays, Counts
  <2>5. Deletes(r)'
    BY <1>1, <1>6, <1>7, DeletesStay
  <2>6. QED
    BY <2>2, <2>3, <2>4, <2>5 DEF Thread
<1>9. QED
  <2>1. /\ UNCHANGED <<asked, gone, turnIndex, titled, index, racing>>
        /\ ~outcome'[r].replayed /\ (Logged(r)' => Logged(r))
    BY <1>1, <1>6, <1>7 DEF dbVars, Logged
  <2>2. QED
    BY <1>3, <1>4, <1>5, <1>6, <1>8, <2>1, PlainSteps

\* What holds of a row that is being written.
LEMMA BeingLogged ==
  ASSUME TurnInv, NEW r \in Requests, pc[r] \in {"recording", "finalizing"}
  PROVE  /\ Logged(r) /\ ending[r] \in {"ok", "clarify", "error"} /\ ~Answered(r) /\ r \notin broke
         /\ ~outcome[r].replayed /\ r \in AtWork /\ r \in executed /\ runs[r] \in Run
         /\ ending[r] # "error" => Chatter(frames[r]) /\ r \notin persisted
         /\ ending[r] = "error" => Concluded(frames[r]) /\ r \in persisted /\ Told(r)
         /\ ending[r] = "error" => frames[r][Len(frames[r])] = "error"
         /\ r \in persisted => message[r].stored \/ ~Present(r) \/ r \in lost
         /\ message[r].stored => r \in persisted
<1>1. Logged(r) /\ ending[r] \in {"ok", "clarify", "error"} /\ runs[r] \in Run
  BY DEF TurnInv, TypeOK, Thread, Logs
<1>2. /\ ~Answered(r) /\ r \notin broke
      /\ ~outcome[r].replayed /\ r \in AtWork /\ r \in executed
  BY DEF TurnInv, Thread, Settles, Replays, AtWork, Counts, Answered
<1>3. ending[r] # "error" => Chatter(frames[r]) /\ r \notin persisted
  BY DEF TurnInv, Thread, Streams, Stores, Told
<1>4. ending[r] = "error" => Concluded(frames[r]) /\ r \in persisted /\ Told(r)
  BY DEF TurnInv, Thread, Streams, Stores, Told
<1>5. ending[r] = "error" => frames[r][Len(frames[r])] = "error"
  BY <1>4 DEF TurnInv, Thread, Logs, LastWord
<1>6. /\ r \in persisted => message[r].stored \/ ~Present(r) \/ r \in lost
      /\ message[r].stored => r \in persisted
  BY DEF TurnInv, Thread, Stores
<1>7. QED
  BY <1>1, <1>2, <1>3, <1>4, <1>5, <1>6

LEMMA AppendRecordsKeeps == ASSUME TurnInv, NEW r \in Requests, AppendRecords(r) PROVE TurnInv'
<1>1. /\ pc[r] = "recording" /\ Goto(r, "finalizing")
      /\ runs' = [runs EXCEPT ![r] = [runs[r] EXCEPT !.args = TRUE]]
      /\ UNCHANGED <<asked, gone, turnIndex, titled, message, ending, frames, held, persisted,
                     outcome, index, faults, restarts, executed, unlogged, lost, broke, racing>>
  BY DEF AppendRecords, WithToolCall, historyVars
<1>2. /\ pc' \in [Requests -> Place] /\ pc'[r] = "finalizing"
      /\ \A q \in Requests \ {r} : pc'[q] = pc[q]
  <2>1. "finalizing" \in Place
    BY DEF Place
  <2>2. QED
    BY <1>1, <2>1, Went DEF TurnInv
<1>3. /\ runs' \in [Requests -> Run] /\ \A q \in Requests \ {r} : runs'[q] = runs[q]
      /\ runs'[r].status = runs[r].status /\ runs'[r].redacted = runs[r].redacted
  <2>1. runs[r] \in Run
    BY DEF TurnInv, TypeOK
  <2>2. [runs[r] EXCEPT !.args = TRUE] \in Run
    BY <2>1 DEF Run
  <2>3. runs'[r] = [runs[r] EXCEPT !.args = TRUE]
    BY <1>1, <2>2, Rewritten DEF TurnInv
  <2>4. runs'[r].status = runs[r].status /\ runs'[r].redacted = runs[r].redacted
    BY <2>1, <2>3 DEF Run
  <2>5. QED
    BY <1>1, <2>2, <2>4, Rewritten DEF TurnInv
<1>4. TypeOK' /\ OthersStay(r)
  BY <1>1, <1>2, <1>3 DEF TurnInv, TypeOK, OthersStay, asked
<1>5. /\ Logged(r) /\ ending[r] \in {"ok", "clarify", "error"} /\ ~Answered(r) /\ r \notin broke
      /\ ~outcome[r].replayed /\ r \in AtWork /\ r \in executed
      /\ ending[r] # "error" => Chatter(frames[r]) /\ r \notin persisted
      /\ ending[r] = "error" => Concluded(frames[r]) /\ r \in persisted /\ Told(r)
      /\ ending[r] = "error" => frames[r][Len(frames[r])] = "error"
      /\ r \in persisted => message[r].stored \/ ~Present(r) \/ r \in lost
      /\ message[r].stored => r \in persisted
  BY <1>1, BeingLogged
<1>6. Logged(r)' /\ (Present(r)' <=> Present(r)) /\ (Told(r)' <=> ending[r] = "error")
  BY <1>1, <1>2, <1>3, <1>5 DEF Logged, Present, asked, Told
<1>7. Thread(r)'
  <2>1. Streams(r)'
    BY <1>1, <1>2, <1>5, <1>6 DEF Streams
  <2>2. Logs(r)' /\ Settles(r)'
    BY <1>1, <1>2, <1>3, <1>5, <1>6 DEF Logs, Settles, LastWord, Answered
  <2>3. Stores(r)'
    BY <1>1, <1>2, <1>5, <1>6 DEF Stores
  <2>4. Replays(r)' /\ Counts(r)'
    BY <1>1, <1>2, <1>5 DEF Replays, Counts
  <2>5. Deletes(r)'
    BY <1>1, <1>3, <1>5, DeletesStay DEF Logged
  <2>6. QED
    BY <2>1, <2>2, <2>3, <2>4, <2>5 DEF Thread
<1>8. QED
  BY <1>1, <1>3, <1>4, <1>5, <1>7, PlainSteps

LEMMA FinalizeKeeps ==
  ASSUME TurnInv, NEW r \in Requests, Finalize(r) \/ FinalizeUnlogged(r) PROVE TurnInv'
<1> DEFINE row == [runs[r] EXCEPT !.status = ending[r], !.answer = (ending[r] # "error")]
<1>1. /\ pc[r] = "finalizing" /\ AfterFinalize(r)
      /\ \/ runs' = [runs EXCEPT ![r] = row] /\ UNCHANGED <<faults, unlogged>>
         \/ UNCHANGED runs /\ unlogged' = unlogged \union {r} /\ faults' = faults + 1
      /\ UNCHANGED <<asked, gone, turnIndex, titled, message, ending, frames, held, persisted,
                     index, restarts, executed, lost, broke, racing>>
  BY DEF Finalize, FinalizeUnlogged, Fault, dbVars, historyVars
<1>2. /\ Logged(r) /\ ending[r] \in {"ok", "clarify", "error"} /\ ~Answered(r) /\ r \notin broke
      /\ ~outcome[r].replayed /\ r \in AtWork /\ r \in executed /\ runs[r] \in Run
      /\ ending[r] # "error" => Chatter(frames[r]) /\ r \notin persisted
      /\ ending[r] = "error" => Concluded(frames[r]) /\ r \in persisted /\ Told(r)
      /\ ending[r] = "error" => frames[r][Len(frames[r])] = "error"
      /\ r \in persisted => message[r].stored \/ ~Present(r) \/ r \in lost
      /\ message[r].stored => r \in persisted
  BY <1>1, BeingLogged
<1>3. /\ runs' \in [Requests -> Run] /\ \A q \in Requests \ {r} : runs'[q] = runs[q]
      /\ runs'[r].status # "absent" /\ runs'[r].redacted = runs[r].redacted
      /\ \/ runs'[r].status = ending[r] /\ unlogged' = unlogged
         \/ runs'[r] = runs[r] /\ unlogged' = unlogged \union {r}
  <2>1. row \in Run /\ row.status = ending[r] /\ row.redacted = runs[r].redacted
    BY <1>2 DEF Run, RunStatus
  <2>2. CASE runs' = [runs EXCEPT ![r] = row] /\ UNCHANGED <<faults, unlogged>>
    <3>1. /\ runs' \in [Requests -> Run] /\ runs'[r] = row
          /\ \A q \in Requests \ {r} : runs'[q] = runs[q]
      BY <2>1, <2>2, Rewritten DEF TurnInv
    <3>2. row.status # "absent"
      BY <1>2, <2>1
    <3> HIDE DEF row
    <3>3. QED
      BY <2>1, <2>2, <3>1, <3>2
  <2>3. CASE UNCHANGED runs /\ unlogged' = unlogged \union {r}
    BY <1>2, <2>3 DEF TurnInv, TypeOK, Logged
  <2>4. QED
    BY <1>1, <2>2, <2>3
<1> HIDE DEF row
<1>4. /\ pc' \in [Requests -> Place] /\ outcome' \in [Requests -> Outcome]
      /\ \A q \in Requests \ {r} : pc'[q] = pc[q] /\ outcome'[q] = outcome[q]
      /\ ~outcome'[r].replayed
      /\ pc'[r] = (IF ending[r] = "error" THEN "closing" ELSE "putting")
  <2>1. CASE ending[r] = "error"
    <3>1. Returned(r, OwnOutcome(r), FALSE)
      BY <1>1, <2>1 DEF AfterFinalize
    <3>2. OwnOutcome(r) \in Outcome /\ ~OwnOutcome(r).replayed
      BY OwnIsOutcome DEF TurnInv
    <3>3. QED
      BY <2>1, <3>1, <3>2, WasReturned DEF TurnInv
  <2>2. CASE ending[r] # "error"
    <3>1. Goto(r, "putting") /\ UNCHANGED outcome
      BY <1>1, <2>2 DEF AfterFinalize
    <3>2. "putting" \in Place
      BY DEF Place
    <3>3. outcome \in [Requests -> Outcome]
      BY DEF TurnInv, TypeOK
    <3>4. QED
      BY <1>2, <2>2, <3>1, <3>2, <3>3, Went DEF TurnInv
  <2>3. QED
    BY <2>1, <2>2
<1>5. unlogged' \subseteq Requests /\ faults' \in Nat
  BY <1>1 DEF TurnInv, TypeOK
<1>6. TypeOK'
  BY <1>1, <1>3, <1>4, <1>5 DEF TurnInv, TypeOK, asked
<1>7. OthersStay(r)
  BY <1>1, <1>3, <1>4 DEF OthersStay, asked
<1>8. Logged(r)' /\ (Present(r)' <=> Present(r)) /\ (Told(r)' <=> ending[r] = "error")
  BY <1>1, <1>2, <1>3, <1>4 DEF Logged, Present, asked, Told
<1>9. Thread(r)'
  <2>1. Streams(r)'
    BY <1>1, <1>2, <1>4, <1>8 DEF Streams
  <2>2. Logs(r)'
    <3>1. CASE ending[r] = "error"
      BY <1>1, <1>2, <1>3, <1>4, <1>8, <3>1 DEF Logs, LastWord
    <3>2. CASE ending[r] # "error"
      BY <1>1, <1>2, <1>3, <1>4, <1>8, <3>2 DEF Logs
    <3>3. QED
      BY <3>1, <3>2
  <2>3. Settles(r)'
    BY <1>1, <1>2, <1>3, <1>4 DEF Settles, Answered
  <2>4. Stores(r)'
    BY <1>1, <1>2, <1>4, <1>8 DEF Stores
  <2>5. Replays(r)' /\ Counts(r)'
    BY <1>1, <1>2, <1>4 DEF Replays, Counts
  <2>6. Deletes(r)'
    BY <1>1, <1>2, <1>3, DeletesStay
  <2>7. QED
    BY <2>1, <2>2, <2>3, <2>4, <2>5, <2>6 DEF Thread
<1>10. QED
  BY <1>1, <1>2, <1>4, <1>6, <1>7, <1>9, PlainSteps

LEMMA PutStateKeeps == ASSUME TurnInv, NEW r \in Requests, PutState(r) PROVE TurnInv'
<1>1. /\ pc[r] = "putting" /\ (faults' = faults \/ faults' = faults + 1)
      /\ UNCHANGED <<asked, dbVars, ending, frames, held, persisted, index, restarts, executed,
                     unlogged, lost, racing>>
      /\ \/ Returned(r, OwnOutcome(r), TRUE) /\ UNCHANGED broke
         \/ Goto(r, "crashing") /\ UNCHANGED outcome /\ broke' = broke \union {r}
  BY DEF PutState, Fault
<1>2. /\ ~outcome[r].replayed /\ r \in AtWork /\ r \in executed /\ r \notin persisted
      /\ ~message[r].stored /\ Chatter(frames[r]) /\ r \notin broke
      /\ Logged(r) /\ r \notin unlogged => runs[r].status \in {"ok", "clarify"}
  BY <1>1 DEF TurnInv, Thread, Replays, AtWork, Counts, Stores, Streams, Told, Settles, Logs
<1>3. /\ pc' \in [Requests -> Place] /\ outcome' \in [Requests -> Outcome]
      /\ \A q \in Requests \ {r} : pc'[q] = pc[q] /\ outcome'[q] = outcome[q]
      /\ ~outcome'[r].replayed
      /\ \/ pc'[r] = "titling" /\ index[r] = 1 /\ broke' = broke
         \/ pc'[r] = "flushing" /\ broke' = broke
         \/ pc'[r] = "crashing" /\ broke' = broke \union {r}
  <2>1. CASE Returned(r, OwnOutcome(r), TRUE) /\ UNCHANGED broke
    <3>1. OwnOutcome(r) \in Outcome /\ ~OwnOutcome(r).replayed
      BY OwnIsOutcome DEF TurnInv
    <3>2. pc'[r] = IF TitleDue(r, OwnOutcome(r)) THEN "titling" ELSE "flushing"
      BY <2>1, <3>1, WasReturned DEF TurnInv
    <3>3. TitleDue(r, OwnOutcome(r)) => index[r] = 1
      BY DEF TitleDue
    <3>4. QED
      BY <2>1, <3>1, <3>2, <3>3, WasReturned DEF TurnInv
  <2>2. CASE Goto(r, "crashing") /\ UNCHANGED outcome /\ broke' = broke \union {r}
    <3>1. "crashing" \in Place
      BY DEF Place
    <3>2. outcome \in [Requests -> Outcome]
      BY DEF TurnInv, TypeOK
    <3>3. QED
      BY <1>2, <2>2, <3>1, <3>2, Went DEF TurnInv
  <2>3. QED
    BY <1>1, <2>1, <2>2
<1>4. TypeOK' /\ OthersStay(r)
  BY <1>1, <1>3 DEF TurnInv, TypeOK, OthersStay, asked, dbVars
<1>5. /\ runs' = runs /\ message' = message /\ index' = index /\ executed' = executed
      /\ unlogged' = unlogged /\ UNCHANGED <<asked, gone, turnIndex, titled, racing>>
  BY <1>1 DEF dbVars
<1>6. ~Told(r)' /\ (Logged(r)' <=> Logged(r))
  BY <1>3, <1>5 DEF Told, Logged
<1>7. Thread(r)'
  <2>1. Streams(r)'
    BY <1>1, <1>2, <1>3, <1>6 DEF Streams
  <2>2. Logs(r)' /\ Settles(r)'
    BY <1>1, <1>2, <1>3, <1>5, <1>6 DEF Logs, Settles
  <2>3. Stores(r)' /\ Replays(r)' /\ Counts(r)'
    BY <1>1, <1>2, <1>3, <1>5, <1>6 DEF Stores, Replays, Counts
  <2>4. Deletes(r)'
    BY <1>2, <1>5, DeletesStay
  <2>5. QED
    BY <2>1, <2>2, <2>3, <2>4 DEF Thread
<1>8. Answered(r) => Answered(r)'
  BY <1>3, <1>5 DEF Answered
<1>9. QED
  BY <1>3, <1>4, <1>5, <1>6, <1>7, <1>8, PlainSteps

-----------------------------------------------------------------------------
(* Around the pipeline.                                                     *)

\* The message that is stored for a replay is the replayed turn's.
LEMMA PersistKeeps == ASSUME TurnInv, NEW r \in Requests, Persist(r) PROVE TurnInv'
<1> DEFINE m == [stored |-> TRUE, turn |-> PersistedTurn(r), answerOf |-> Shown(r)]
<1>1. /\ pc[r] \in {"failing", "refusing", "crashing", "flushing", "closing"} /\ r \notin persisted
      /\ persisted' = persisted \union {r}
      /\ \/ message' = [message EXCEPT ![r] = m] /\ UNCHANGED <<faults, lost>>
         \/ ~Present(r) /\ UNCHANGED <<message, faults, lost>>
         \/ faults' = faults + 1 /\ lost' = lost \union {r} /\ UNCHANGED message
      /\ UNCHANGED <<asked, gone, turnIndex, titled, runs, pc, ending, frames, held, outcome, index,
                     restarts, executed, unlogged, broke, racing>>
  BY DEF Persist, Fault
<1>2. /\ pc[r] \in {"failing", "refusing", "crashing", "flushing"} /\ r \in AtWork /\ ~Told(r)
      /\ ~message[r].stored
  BY <1>1 DEF TurnInv, Thread, Stores, Told, AtWork
<1>3. m \in Message
  <2>1. outcome[r].run \in Requests \union {NoOne}
    BY DEF TurnInv, TypeOK, Outcome
  <2>2. PersistedTurn(r) \in Requests
    BY <2>1 DEF PersistedTurn
  <2>3. Shown(r) \in Requests \union {NoOne}
    BY <2>1 DEF Shown
  <2>4. QED
    BY <2>2, <2>3 DEF Message
<1>4. outcome[r].replayed => m.turn = outcome[r].run /\ m.answerOf = outcome[r].run
  <2> SUFFICES ASSUME outcome[r].replayed
               PROVE  m.turn = outcome[r].run /\ m.answerOf = outcome[r].run
    OBVIOUS
  <2>1. outcome[r].run \in Requests /\ pc[r] = "flushing" /\ r \in held
    BY <1>2 DEF TurnInv, Thread, Replays
  <2>2. outcome[r].run # NoOne
    BY <2>1, ChatAssumption
  <2>3. PersistedTurn(r) = outcome[r].run
    BY <2>2 DEF PersistedTurn
  <2>4. Shown(r) = outcome[r].run
    BY <2>1 DEF Shown
  <2>5. QED
    BY <2>3, <2>4
<1>5. /\ message' \in [Requests -> Message] /\ lost' \subseteq Requests /\ faults' \in Nat
      /\ \A q \in Requests \ {r} : message'[q] = message[q] /\ (q \in lost' <=> q \in lost)
      /\ \/ message'[r] = m
         \/ message'[r] = message[r] /\ (~Present(r) \/ r \in lost')
  <2>1. message \in [Requests -> Message] /\ lost \subseteq Requests /\ faults \in Nat
    BY DEF TurnInv, TypeOK
  <2> HIDE DEF m
  <2>2. CASE message' = [message EXCEPT ![r] = m] /\ UNCHANGED <<faults, lost>>
    BY <1>3, <2>1, <2>2
  <2>3. CASE ~Present(r) /\ UNCHANGED <<message, faults, lost>>
    BY <2>1, <2>3
  <2>4. CASE faults' = faults + 1 /\ lost' = lost \union {r} /\ UNCHANGED message
    BY <2>1, <2>4
  <2>5. QED
    BY <1>1, <2>2, <2>3, <2>4
<1>6. m.stored
  OBVIOUS
<1> HIDE DEF m
<1>7. TypeOK'
  <2>1. persisted' \subseteq Requests
    BY <1>1 DEF TurnInv, TypeOK
  <2>2. QED
    BY <1>1, <1>5, <2>1 DEF TurnInv, TypeOK, asked
<1>8. OthersStay(r)
  BY <1>1, <1>5 DEF OthersStay, asked
<1>9. Thread(r)'
  <2>1. (Told(r)' <=> Told(r)) /\ LastWord(r)' = LastWord(r) /\ (Logged(r)' <=> Logged(r))
    BY <1>1 DEF Told, LastWord, Logged
  <2>2. Streams(r)'
    BY <1>1, <2>1 DEF TurnInv, Thread, Streams
  <2>3. Logs(r)' /\ Settles(r)' /\ Counts(r)'
    BY <1>1, <2>1 DEF TurnInv, Thread, Logs, Settles, Counts
  <2>4. Stores(r)'
    <3>1. Present(r)' <=> Present(r)
      BY <1>1 DEF Present, asked
    <3>2. QED
      BY <1>1, <1>2, <1>5, <1>6, <2>1, <3>1 DEF Stores
  <2>5. Replays(r)'
    BY <1>1, <1>2, <1>4, <1>5 DEF TurnInv, Thread, Replays
  <2>6. Deletes(r)'
    BY <1>1, <1>2, DeletesStay
  <2>7. QED
    BY <2>2, <2>3, <2>4, <2>5, <2>6 DEF Thread
<1>10. QED
  <2>1. outcome'[r].replayed => outcome'[r].run \in Requests /\ Answered(outcome'[r].run)
    BY <1>1 DEF TurnInv, Thread, Replays, SourcesAreAnswered
  <2>2. (Logged(r)' <=> Logged(r)) /\ (Answered(r) => Answered(r)')
    BY <1>1 DEF Logged, Answered
  <2>3. QED
    BY <1>1, <1>7, <1>8, <1>9, <2>1, <2>2, PlainSteps

\* The error frame leaves after the message; the thread that sent it goes on.
LEMMA SendErrorKeeps == ASSUME TurnInv, NEW r \in Requests, SendError(r) PROVE TurnInv'
<1>1. /\ pc[r] \in {"failing", "refusing", "crashing"} /\ r \in persisted /\ Send(r, <<"error">>)
      /\ UNCHANGED <<asked, dbVars, ending, held, persisted, index, faults, restarts, historyVars>>
  BY DEF SendError
<1>2. /\ ~outcome[r].replayed /\ Chatter(frames[r]) /\ frames[r] \in Seq(Frame) /\ r \in AtWork
      /\ (runs[r].status = "ok" => pc[r] = "crashing" /\ r \in broke)
      /\ (r \in broke => pc[r] = "crashing") /\ (message[r].stored \/ ~Present(r) \/ r \in lost)
      /\ pc[r] = "failing" => ending[r] = "error" /\ r \in executed
      /\ pc[r] = "refusing" => ~Logged(r)
  BY <1>1
     DEF TurnInv, TypeOK, Thread, Replays, Streams, Told, AtWork, Settles, Stores, Logs, Counts
<1>3. /\ pc' \in [Requests -> Place] /\ outcome' \in [Requests -> Outcome]
      /\ \A q \in Requests \ {r} : pc'[q] = pc[q] /\ outcome'[q] = outcome[q]
      /\ ~outcome'[r].replayed
      /\ \/ pc'[r] = "burying" /\ pc[r] = "crashing"
         \/ pc'[r] = "recording" /\ pc[r] = "failing" /\ Logged(r)
         \/ pc'[r] = "closing" /\ ~Logged(r)
  <2>1. "burying" \in Place /\ "recording" \in Place /\ outcome \in [Requests -> Outcome]
    BY DEF Place, TurnInv, TypeOK
  <2>2. CASE pc[r] = "crashing" /\ Goto(r, "burying") /\ UNCHANGED outcome
    BY <1>2, <2>1, <2>2, Went DEF TurnInv
  <2>3. CASE pc[r] = "failing" /\ Logged(r) /\ Goto(r, "recording") /\ UNCHANGED outcome
    BY <1>2, <2>1, <2>3, Went DEF TurnInv
  <2>4. CASE pc[r] = "failing" /\ ~Logged(r) /\ Returned(r, OwnOutcome(r), FALSE)
    <3>1. OwnOutcome(r) \in Outcome /\ ~OwnOutcome(r).replayed
      BY OwnIsOutcome DEF TurnInv
    <3>2. QED
      BY <2>4, <3>1, WasReturned DEF TurnInv
  <2>5. ASSUME pc[r] = "refusing", NEW q \in Earlier(r),
               Returned(r, [status |-> "error", run |-> q, replayed |-> FALSE], FALSE)
        PROVE  /\ pc' \in [Requests -> Place] /\ outcome' \in [Requests -> Outcome]
               /\ \A s \in Requests \ {r} : pc'[s] = pc[s] /\ outcome'[s] = outcome[s]
               /\ ~outcome'[r].replayed /\ pc'[r] = "closing" /\ ~Logged(r)
    <3> DEFINE o == [status |-> "error", run |-> q, replayed |-> FALSE]
    <3>1. o \in Outcome /\ ~o.replayed
      BY DEF Earlier, Outcome
    <3>2. Returned(r, o, FALSE)
      BY <2>5
    <3> HIDE DEF o
    <3>3. QED
      BY <1>2, <2>5, <3>1, <3>2, WasReturned DEF TurnInv
  <2>6. QED
    BY <2>2, <2>3, <2>4, <2>5 DEF SendError
<1>4. /\ frames' \in [Requests -> Seq(Frame)] /\ frames'[r] = frames[r] \o <<"error">>
      /\ \A q \in Requests \ {r} : frames'[q] = frames[q]
  <2>1. "error" \in Frame
    BY DEF Frame
  <2>2. QED
    BY <1>1, <2>1, Sent DEF TurnInv
<1>5. Concluded(frames'[r]) /\ frames'[r][Len(frames'[r])] = "error"
  BY <1>2, <1>4, Conclusion
<1>6. TypeOK' /\ OthersStay(r)
  <2>1. TypeOK'
    BY <1>1, <1>3, <1>4 DEF TurnInv, TypeOK, asked, dbVars, historyVars
  <2>2. OthersStay(r)
    BY <1>1, <1>3, <1>4 DEF OthersStay, asked, dbVars, historyVars
  <2>3. QED
    BY <2>1, <2>2
<1>7. /\ runs' = runs /\ message' = message /\ index' = index /\ executed' = executed
      /\ ending' = ending /\ lost' = lost /\ persisted' = persisted
      /\ unlogged' = unlogged /\ broke' = broke /\ UNCHANGED <<asked, gone, turnIndex, titled, racing>>
  BY <1>1 DEF dbVars, historyVars
<1>8. /\ Told(r)' /\ pc'[r] # "ended" /\ LastWord(r)' = "error" /\ (Logged(r)' <=> Logged(r))
      /\ Present(r)' <=> Present(r)
  BY <1>2, <1>3, <1>5, <1>7 DEF Told, LastWord, Logged, Present, asked
<1>9. Thread(r)'
  <2>1. Streams(r)'
    BY <1>5, <1>8 DEF Streams
  <2>2. Logs(r)' /\ Settles(r)'
    BY <1>2, <1>3, <1>7, <1>8 DEF Logs, Settles
  <2>3. Stores(r)'
    BY <1>1, <1>2, <1>7, <1>8 DEF Stores
  <2>4. Replays(r)' /\ Counts(r)'
    BY <1>2, <1>3, <1>7 DEF Replays, Counts
  <2>5. Deletes(r)'
    BY <1>2, <1>7, DeletesStay
  <2>6. QED
    BY <2>1, <2>2, <2>3, <2>4, <2>5 DEF Thread
<1>10. Answered(r) => Answered(r)'
  BY <1>7 DEF Answered
<1>11. QED
  BY <1>3, <1>6, <1>7, <1>8, <1>9, <1>10, PlainSteps

LEMMA BuryKeeps == ASSUME TurnInv, NEW r \in Requests, Bury(r) PROVE TurnInv'
<1> DEFINE row == [runs[r] EXCEPT !.status = "error", !.answer = FALSE]
<1>1. /\ pc[r] = "burying" /\ Goto(r, "closing") /\ (faults' = faults \/ faults' = faults + 1)
      /\ \/ Logged(r) /\ runs' = [runs EXCEPT ![r] = row] /\ UNCHANGED unlogged
         \/ ~Logged(r) /\ UNCHANGED <<runs, unlogged>>
         \/ UNCHANGED runs /\ unlogged' = unlogged \union {r}
      /\ UNCHANGED <<asked, gone, turnIndex, titled, message, ending, frames, held, persisted,
                     outcome, index, restarts, executed, lost, broke, racing>>
  BY DEF Bury, Fault
<1>2. /\ pc' \in [Requests -> Place] /\ pc'[r] = "closing"
      /\ \A q \in Requests \ {r} : pc'[q] = pc[q]
  <2>1. "closing" \in Place
    BY DEF Place
  <2>2. QED
    BY <1>1, <2>1, Went DEF TurnInv
<1>3. /\ ~outcome[r].replayed /\ Concluded(frames[r]) /\ r \in AtWork /\ (runs[r].status = "ok" => r \in broke)
      /\ LastWord(r) = "error" /\ r \in persisted /\ runs[r] \in Run
      /\ message[r].stored \/ ~Present(r) \/ r \in lost
  BY <1>1 DEF TurnInv, TypeOK, Thread, Replays, Streams, Told, AtWork, Settles, Stores, Logs
<1>4. /\ runs' \in [Requests -> Run] /\ \A q \in Requests \ {r} : runs'[q] = runs[q]
      /\ \/ runs'[r].status = "error" /\ runs'[r].redacted = runs[r].redacted /\ Logged(r)
         \/ runs'[r] = runs[r] /\ (~Logged(r) \/ r \in unlogged')
  <2>1. row \in Run /\ row.status = "error" /\ row.redacted = runs[r].redacted
    BY <1>3 DEF Run, RunStatus
  <2> HIDE DEF row
  <2>2. CASE Logged(r) /\ runs' = [runs EXCEPT ![r] = row]
    <3>1. /\ runs' \in [Requests -> Run] /\ runs'[r] = row
          /\ \A q \in Requests \ {r} : runs'[q] = runs[q]
      BY <2>1, <2>2, Rewritten DEF TurnInv
    <3>2. QED
      BY <2>1, <2>2, <3>1
  <2>3. CASE UNCHANGED runs /\ (~Logged(r) \/ r \in unlogged')
    BY <2>3 DEF TurnInv, TypeOK
  <2>4. QED
    BY <1>1, <2>2, <2>3
<1>5. /\ unlogged' \subseteq Requests /\ faults' \in Nat
      /\ \A q \in Requests \ {r} : q \in unlogged' <=> q \in unlogged
  BY <1>1 DEF TurnInv, TypeOK
<1>6. TypeOK'
  BY <1>1, <1>2, <1>4, <1>5 DEF TurnInv, TypeOK, asked
<1>7. OthersStay(r)
  BY <1>1, <1>2, <1>4, <1>5 DEF OthersStay, asked
<1>8. /\ Told(r)' /\ LastWord(r)' = "error" /\ (Logged(r)' <=> Logged(r))
      /\ Present(r)' <=> Present(r)
  BY <1>1, <1>2, <1>3, <1>4 DEF Told, LastWord, Logged, Present, asked
<1>9. Thread(r)'
  <2>1. Streams(r)'
    BY <1>1, <1>2, <1>3, <1>8 DEF Streams
  <2>2. Logs(r)' /\ Settles(r)'
    BY <1>1, <1>2, <1>3, <1>4, <1>8 DEF Logs, Settles
  <2>3. Stores(r)'
    BY <1>1, <1>2, <1>3, <1>8 DEF Stores
  <2>4. Replays(r)'
    BY <1>1, <1>3 DEF Replays
  <2>5. Counts(r)'
    BY <1>1, <1>2 DEF Counts
  <2>6. Deletes(r)'
    BY <1>1, <1>3, <1>4, DeletesStay
  <2>7. QED
    BY <2>1, <2>2, <2>3, <2>4, <2>5, <2>6 DEF Thread
<1>10. Answered(r) => Answered(r)'
  BY <1>1, <1>3, <1>4 DEF Answered
<1>11. QED
  BY <1>1, <1>3, <1>6, <1>7, <1>8, <1>9, <1>10, PlainSteps

LEMMA SetTitleKeeps == ASSUME TurnInv, NEW r \in Requests, SetTitle(r) PROVE TurnInv'
<1> DEFINE c == cid[r]
<1>1. /\ pc[r] = "titling" /\ Goto(r, "flushing") /\ c \in Conversations
      /\ \/ titled' = [titled EXCEPT ![c] = @ \union {r}]
         \/ UNCHANGED titled
      /\ UNCHANGED <<cid, key, gone, turnIndex, runs, message, ending, frames, held, persisted,
                     outcome, index, faults, restarts, executed, unlogged, lost, broke, racing>>
  BY DEF SetTitle, asked, historyVars, TurnInv, TypeOK
<1>2. /\ pc' \in [Requests -> Place] /\ pc'[r] = "flushing"
      /\ \A q \in Requests \ {r} : pc'[q] = pc[q]
  <2>1. "flushing" \in Place
    BY DEF Place
  <2>2. QED
    BY <1>1, <2>1, Went DEF TurnInv
<1>3. /\ ~outcome[r].replayed /\ Chatter(frames[r]) /\ r \in AtWork /\ r \in executed
      /\ index[r] = 1 /\ ~message[r].stored /\ r \notin persisted
      /\ Logged(r) /\ r \notin unlogged => runs[r].status \in {"ok", "clarify"}
      /\ r \notin broke
  BY <1>1 DEF TurnInv, Thread, Replays, Streams, Told, AtWork, Counts, Stores, Logs, Settles
<1>4. /\ titled' \in [Conversations -> SUBSET Requests]
      /\ \A d \in Conversations : titled'[d] \subseteq titled[d] \union {q \in {r} : d = c}
  <2>1. titled \in [Conversations -> SUBSET Requests]
    BY DEF TurnInv, TypeOK
  <2>2. CASE titled' = [titled EXCEPT ![c] = @ \union {r}]
    BY <1>1, <2>1, <2>2
  <2>3. CASE UNCHANGED titled
    BY <2>1, <2>3
  <2>4. QED
    BY <1>1, <2>2, <2>3
<1>5. TypeOK' /\ OthersStay(r)
  BY <1>1, <1>2, <1>4 DEF TurnInv, TypeOK, OthersStay
<1>6. ~Told(r)' /\ (Logged(r)' <=> Logged(r))
  BY <1>1, <1>2 DEF Told, Logged
<1>7. Thread(r)'
  <2>1. Streams(r)' /\ Logs(r)' /\ Settles(r)'
    BY <1>1, <1>2, <1>3, <1>6 DEF Streams, Logs, Settles
  <2>2. Stores(r)' /\ Replays(r)' /\ Counts(r)'
    BY <1>1, <1>2, <1>3, <1>6 DEF Stores, Replays, Counts
  <2>3. Deletes(r)'
    BY <1>1, <1>3, DeletesStay DEF asked
  <2>4. QED
    BY <2>1, <2>2, <2>3 DEF Thread
<1>8. FirstTurns'
  <2>1. ASSUME NEW d \in Conversations, NEW q \in Requests, IsFirst(q, d)' PROVE IsFirst(q, d)
    BY <1>1, <1>3, <1>4, <2>1 DEF IsFirst
  <2>2. ASSUME NEW d \in Conversations, NEW q \in titled'[d] PROVE q \in executed' /\ cid'[q] = d
    <3>1. CASE q \in titled[d]
      BY <1>1, <3>1 DEF TurnInv, FirstTurns
    <3>2. CASE q = r /\ d = c
      BY <1>1, <1>3, <3>2
    <3>3. QED
      BY <1>4, <2>2, <3>1, <3>2
  <2>3. turnIndex' = turnIndex
    BY <1>1
  <2>4. QED
    BY <2>1, <2>2, <2>3 DEF TurnInv, FirstTurns
<1>9. QED
  <2>1. /\ UNCHANGED <<gone, racing>> /\ key' = key /\ ~outcome'[r].replayed
        /\ Answered(r) => Answered(r)'
    BY <1>1, <1>3 DEF Answered
  <2>2. QED
    BY <1>5, <1>6, <1>7, <1>8, <2>1, ThreadSteps

\* The done frame that was held back leaves after the message, and closes the stream.
LEMMA SendDoneKeeps == ASSUME TurnInv, NEW r \in Requests, SendDone(r) PROVE TurnInv'
<1>1. /\ pc[r] = "flushing" /\ r \in persisted /\ Send(r, <<"done">>) /\ Goto(r, "closing")
      /\ UNCHANGED <<asked, dbVars, ending, held, persisted, outcome, index>>
      /\ UNCHANGED <<faults, restarts, historyVars>>
  BY DEF SendDone
<1>2. /\ pc' \in [Requests -> Place] /\ pc'[r] = "closing"
      /\ \A q \in Requests \ {r} : pc'[q] = pc[q]
  <2>1. "closing" \in Place
    BY DEF Place
  <2>2. QED
    BY <1>1, <2>1, Went DEF TurnInv
<1>3. /\ Chatter(frames[r]) /\ frames[r] \in Seq(Frame) /\ r \in AtWork
      /\ message[r].stored \/ ~Present(r) \/ r \in lost
      /\ Logged(r) /\ r \notin unlogged => runs[r].status \in {"ok", "clarify"}
  BY <1>1 DEF TurnInv, TypeOK, Thread, Streams, Told, AtWork, Stores, Logs
<1>4. /\ frames' \in [Requests -> Seq(Frame)] /\ frames'[r] = frames[r] \o <<"done">>
      /\ \A q \in Requests \ {r} : frames'[q] = frames[q]
  <2>1. "done" \in Frame
    BY DEF Frame
  <2>2. QED
    BY <1>1, <2>1, Sent DEF TurnInv
<1>5. Concluded(frames'[r]) /\ frames'[r][Len(frames'[r])] = "done"
  BY <1>3, <1>4, Conclusion
<1>6. TypeOK' /\ OthersStay(r)
  <2>1. TypeOK'
    BY <1>1, <1>2, <1>4 DEF TurnInv, TypeOK, asked, dbVars, historyVars
  <2>2. OthersStay(r)
    BY <1>1, <1>2, <1>4 DEF OthersStay, asked, dbVars, historyVars
  <2>3. QED
    BY <2>1, <2>2
<1>7. /\ runs' = runs /\ message' = message /\ index' = index /\ executed' = executed
      /\ outcome' = outcome /\ held' = held /\ lost' = lost /\ persisted' = persisted
      /\ unlogged' = unlogged /\ broke' = broke /\ UNCHANGED <<asked, gone, turnIndex, titled, racing>>
  BY <1>1 DEF dbVars, historyVars
<1>8. /\ Told(r)' /\ LastWord(r)' = "done" /\ (Logged(r)' <=> Logged(r))
      /\ Present(r)' <=> Present(r)
  BY <1>2, <1>5, <1>7 DEF Told, LastWord, Logged, Present, asked
<1>9. Thread(r)'
  <2>1. Streams(r)'
    BY <1>2, <1>5, <1>8 DEF Streams
  <2>2. Logs(r)'
    BY <1>2, <1>3, <1>7, <1>8 DEF Logs
  <2>3. Settles(r)' /\ Counts(r)'
    BY <1>1, <1>2, <1>7 DEF TurnInv, Thread, Settles, Counts
  <2>4. Stores(r)'
    BY <1>1, <1>2, <1>3, <1>7, <1>8 DEF Stores
  <2>5. Replays(r)'
    BY <1>2, <1>7 DEF TurnInv, Thread, Replays
  <2>6. Deletes(r)'
    BY <1>3, <1>7, DeletesStay
  <2>7. QED
    BY <2>1, <2>2, <2>3, <2>4, <2>5, <2>6 DEF Thread
<1>10. QED
  <2>1. /\ outcome'[r].replayed => outcome'[r].run \in Requests /\ Answered(outcome'[r].run)
        /\ Answered(r) => Answered(r)'
    BY <1>7 DEF TurnInv, Thread, Replays, SourcesAreAnswered, Answered
  <2>2. QED
    BY <1>6, <1>7, <1>8, <1>9, <2>1, PlainSteps

LEMMA CloseKeeps == ASSUME TurnInv, NEW r \in Requests, Close(r) PROVE TurnInv'
<1>1. /\ pc[r] = "closing" /\ r \in persisted /\ Send(r, <<"end">>) /\ Goto(r, "ended")
      /\ ending' = [ending EXCEPT ![r] = "none"] /\ index' = [index EXCEPT ![r] = 0]
      /\ held' = held \ {r} /\ persisted' = persisted \ {r}
      /\ UNCHANGED <<cid, key, gone, turnIndex, titled, runs, message, outcome, faults, restarts,
                     executed, unlogged, lost, broke, racing>>
  BY DEF Close, asked, dbVars, historyVars
<1>2. /\ pc' \in [Requests -> Place] /\ pc'[r] = "ended"
      /\ \A q \in Requests \ {r} : pc'[q] = pc[q]
  <2>1. "ended" \in Place
    BY DEF Place
  <2>2. QED
    BY <1>1, <2>1, Went DEF TurnInv
<1>3. /\ Concluded(frames[r]) /\ frames[r] \in Seq(Frame) /\ r \in AtWork
      /\ message[r].stored \/ ~Present(r) \/ r \in lost
      /\ Logged(r) /\ r \notin unlogged =>
           runs[r].status # "running" /\ (runs[r].status = "error" <=> LastWord(r) = "error")
  BY <1>1 DEF TurnInv, TypeOK, Thread, Streams, Told, AtWork, Stores, Logs
<1>4. /\ frames' \in [Requests -> Seq(Frame)] /\ frames'[r] = frames[r] \o <<"end">>
      /\ \A q \in Requests \ {r} : frames'[q] = frames[q]
  <2>1. "end" \in Frame
    BY DEF Frame
  <2>2. QED
    BY <1>1, <2>1, Sent DEF TurnInv
<1>5. Closed(frames'[r]) /\ frames'[r][Len(frames'[r]) - 1] = frames[r][Len(frames[r])]
  BY <1>3, <1>4, Closing
<1>6. /\ ending' \in [Requests -> {"none", "ok", "clarify", "error"}]
      /\ index' \in [Requests -> Nat] /\ index'[r] = 0
      /\ \A q \in Requests \ {r} : ending'[q] = ending[q] /\ index'[q] = index[q]
  BY <1>1 DEF TurnInv, TypeOK
<1>7. TypeOK' /\ OthersStay(r)
  <2>1. TypeOK'
    BY <1>1, <1>2, <1>4, <1>6 DEF TurnInv, TypeOK
  <2>2. OthersStay(r)
    BY <1>1, <1>2, <1>4, <1>6 DEF OthersStay
  <2>3. QED
    BY <2>1, <2>2
<1>8. /\ Told(r)' /\ LastWord(r)' = LastWord(r) /\ (Logged(r)' <=> Logged(r))
      /\ Present(r)' <=> Present(r)
  BY <1>1, <1>2, <1>5 DEF Told, LastWord, Logged, Present
<1>9. Thread(r)'
  <2>1. Streams(r)'
    BY <1>2, <1>5, <1>8 DEF Streams
  <2>2. Logs(r)'
    BY <1>1, <1>2, <1>3, <1>8 DEF Logs
  <2>3. Settles(r)' /\ Counts(r)'
    BY <1>1, <1>2 DEF TurnInv, Thread, Settles, Counts
  <2>4. Stores(r)'
    BY <1>1, <1>2, <1>3, <1>8 DEF Stores
  <2>5. Replays(r)'
    BY <1>1, <1>2 DEF TurnInv, Thread, Replays
  <2>6. Deletes(r)'
    BY <1>1, <1>3, DeletesStay DEF asked
  <2>7. QED
    BY <2>1, <2>2, <2>3, <2>4, <2>5, <2>6 DEF Thread
<1>10. FirstTurns'
  <2>1. \A q \in Requests : cid'[q] = cid[q] /\ (index'[q] = index[q] \/ index'[q] = 0)
    BY <1>1, <1>6
  <2>2. QED
    BY <1>1, <2>1, FirstTurnsStay
<1>11. QED
  <2>1. outcome'[r].replayed => outcome'[r].run \in Requests /\ Answered(outcome'[r].run)
    BY <1>1 DEF TurnInv, Thread, Replays, SourcesAreAnswered
  <2>2. UNCHANGED <<gone, racing>> /\ key' = key /\ (Answered(r) => Answered(r)')
    BY <1>1 DEF Answered
  <2>3. QED
    BY <1>7, <1>8, <1>9, <1>10, <2>1, <2>2, ThreadSteps

-----------------------------------------------------------------------------
(* Deletion and restart.                                                    *)

LEMMA RedactedRow ==
  ASSUME NEW run \in Run
  PROVE  /\ Redacted(run) \in Run /\ Redacted(run).status = run.status
         /\ run.status = "absent" => Redacted(run) = run
         /\ run.status # "absent" /\ ~run.redacted =>
              ~Redacted(run).question /\ ~Redacted(run).answer /\ ~Redacted(run).args
<1>1. /\ RowRedacted(run) \in Run /\ RowRedacted(run).status = run.status
      /\ ~run.redacted => ~RowRedacted(run).question /\ ~RowRedacted(run).answer
  BY DEF RowRedacted, Run
<1>2. QED
  BY <1>1 DEF Redacted, Run

\* The deletion of a conversation leaves its rows where they were, without their content.
LEMMA DeletionKeeps ==
  ASSUME TurnInv, NEW c \in Conversations, DeleteConversation(c) PROVE TurnInv'
<1>1. /\ c \notin gone /\ gone' = gone \union {c}
      /\ racing' = racing \union {r \in AtWork : cid[r] = c}
      /\ UNCHANGED <<cid, key, turnIndex, titled, pc, ending, frames, held, persisted, outcome,
                     index, faults, restarts, executed, unlogged, lost,
                     broke>>
  BY DEF DeleteConversation, asked, threadVars
<1>2. /\ message' = [r \in Requests |->
                       IF cid[r] = c THEN [message[r] EXCEPT !.stored = FALSE] ELSE message[r]]
      /\ runs' = [r \in Requests |-> IF cid[r] = c THEN Redacted(runs[r]) ELSE runs[r]]
  BY DEF DeleteConversation
<1>3. ASSUME NEW r \in Requests
      PROVE  /\ runs'[r] \in Run /\ runs'[r].status = runs[r].status
             /\ message'[r] \in Message
             /\ cid[r] # c => runs'[r] = runs[r] /\ message'[r] = message[r]
             /\ cid[r] = c => runs'[r] = Redacted(runs[r]) /\ ~message'[r].stored
  <2>1. runs[r] \in Run /\ message[r] \in Message
    BY DEF TurnInv, TypeOK
  <2>2. /\ runs'[r] \in Run /\ runs'[r].status = runs[r].status
        /\ cid[r] # c => runs'[r] = runs[r]
        /\ cid[r] = c => runs'[r] = Redacted(runs[r])
    BY <1>2, <2>1, RedactedRow
  <2>3. /\ message'[r] \in Message
        /\ cid[r] # c => message'[r] = message[r]
        /\ cid[r] = c => ~message'[r].stored
    BY <1>2, <2>1 DEF Message
  <2>4. QED
    BY <2>2, <2>3
<1>4. TypeOK'
  <2>1. runs' \in [Requests -> Run] /\ message' \in [Requests -> Message]
    BY <1>2, <1>3
  <2>2. gone' \subseteq Conversations /\ racing' \subseteq Requests
    BY <1>1 DEF TurnInv, TypeOK, AtWork
  <2>3. QED
    BY <1>1, <2>1, <2>2 DEF TurnInv, TypeOK
<1>5. ASSUME NEW r \in Requests PROVE Thread(r)'
  <2>1. /\ Told(r)' <=> Told(r)
        /\ LastWord(r)' = LastWord(r)
        /\ Logged(r)' <=> Logged(r)
        /\ r \in AtWork' <=> r \in AtWork
    BY <1>1, <1>3 DEF Told, LastWord, Logged, AtWork
  <2>2. Present(r)' <=> Present(r) /\ cid[r] # c
    BY <1>1 DEF Present
  <2>3. Streams(r)' /\ Counts(r)'
    BY <1>1, <2>1 DEF TurnInv, Thread, Streams, Counts
  <2>4. Logs(r)' /\ Settles(r)'
    BY <1>1, <1>3, <2>1 DEF TurnInv, Thread, Logs, Settles
  <2>5. Stores(r)' /\ Replays(r)'
    BY <1>1, <1>3, <2>1, <2>2 DEF TurnInv, Thread, Stores, Replays
  <2>6. Deletes(r)'
    <3>1. CASE cid[r] # c
      <4>1. Content(r)' <=> Content(r)
        BY <1>3, <3>1 DEF Content
      <4>2. r \in racing' <=> r \in racing
        BY <1>1, <3>1
      <4>3. QED
        BY <1>3, <2>1, <2>2, <3>1, <4>1, <4>2 DEF TurnInv, Thread, Deletes
    <3>2. CASE cid[r] = c
      <4>1. Present(r) /\ ~Present(r)' /\ ~runs[r].redacted /\ (~Logged(r) => runs[r] = NoRun)
        BY <1>1, <2>2, <3>2 DEF TurnInv, Thread, Deletes, Present
      <4>2. r \in AtWork' => r \in racing'
        BY <1>1, <2>1, <3>2
      <4>3. runs[r] \in Run /\ runs'[r] = Redacted(runs[r]) /\ ~message'[r].stored
        BY <1>3, <3>2 DEF TurnInv, TypeOK
      <4>4. ~runs'[r].question /\ ~runs'[r].answer /\ ~runs'[r].args
        <5>1. CASE Logged(r)
          BY <4>1, <4>3, <5>1, RedactedRow DEF Logged
        <5>2. CASE ~Logged(r)
          <6>1. runs'[r] = NoRun
            BY <4>1, <4>3, <5>2, RedactedRow DEF Logged
          <6>2. QED
            BY <6>1 DEF NoRun
        <5>3. QED
          BY <5>1, <5>2
      <4>5. ~Content(r)'
        BY <4>3, <4>4 DEF Content
      <4>6. ~Logged(r)' => runs'[r] = NoRun
        BY <2>1, <4>1, <4>3, RedactedRow DEF Logged
      <4>7. QED
        BY <4>1, <4>2, <4>5, <4>6 DEF Deletes
    <3>3. QED
      BY <3>1, <3>2
  <2>7. QED
    BY <2>3, <2>4, <2>5, <2>6 DEF Thread
<1>6. KeysAreUnique'
  BY <1>1, <1>3 DEF TurnInv, KeysAreUnique, Logged
<1>7. SourcesAreAnswered'
  BY <1>1, <1>3 DEF TurnInv, Thread, Replays, SourcesAreAnswered, Answered
<1>8. FirstTurns'
  BY <1>1 DEF TurnInv, FirstTurns, IsFirst
<1>9. QED
  BY <1>4, <1>5, <1>6, <1>7, <1>8 DEF TurnInv

LEMMA RestartKeeps == ASSUME TurnInv, Restart PROVE TurnInv'
<1>1. /\ restarts' = restarts + 1 /\ held' = held \ AtWork /\ persisted' = persisted \ AtWork
      /\ UNCHANGED <<cid, key, gone, turnIndex, titled, runs, message, faults, executed, unlogged,
                     lost, broke, racing>>
  BY DEF Restart, asked, dbVars, historyVars
<1>2. /\ pc' = [r \in Requests |-> IF r \in AtWork THEN "dead" ELSE pc[r]]
      /\ ending' = [r \in Requests |-> IF r \in AtWork THEN "none" ELSE ending[r]]
      /\ frames' = [r \in Requests |-> IF r \in AtWork THEN <<>> ELSE frames[r]]
      /\ outcome' = [r \in Requests |-> IF r \in AtWork THEN NoOutcome ELSE outcome[r]]
      /\ index' = [r \in Requests |-> IF r \in AtWork THEN 0 ELSE index[r]]
  BY DEF Restart
<1>3. TypeOK'
  <2>1. "dead" \in Place /\ <<>> \in Seq(Frame) /\ NoOutcome \in Outcome
    BY DEF Place, Outcome, NoOutcome
  <2>2. /\ pc' \in [Requests -> Place] /\ frames' \in [Requests -> Seq(Frame)]
        /\ outcome' \in [Requests -> Outcome]
    BY <1>2, <2>1 DEF TurnInv, TypeOK
  <2>3. ending' \in [Requests -> {"none", "ok", "clarify", "error"}] /\ index' \in [Requests -> Nat]
    BY <1>2 DEF TurnInv, TypeOK
  <2>4. held' \subseteq Requests /\ persisted' \subseteq Requests /\ restarts' \in Nat
    BY <1>1 DEF TurnInv, TypeOK
  <2>5. QED
    BY <1>1, <2>2, <2>3, <2>4 DEF TurnInv, TypeOK
<1>4. ASSUME NEW r \in Requests \ AtWork PROVE Thread(r)'
  <2>1. /\ pc'[r] = pc[r] /\ ending'[r] = ending[r] /\ frames'[r] = frames[r]
        /\ outcome'[r] = outcome[r] /\ index'[r] = index[r]
        /\ r \in held' <=> r \in held
        /\ r \in persisted' <=> r \in persisted
    BY <1>1, <1>2
  <2>2. /\ Told(r)' <=> Told(r)
        /\ LastWord(r)' = LastWord(r)
        /\ Logged(r)' <=> Logged(r)
        /\ Present(r)' <=> Present(r)
        /\ Content(r)' <=> Content(r)
    BY <1>1, <2>1 DEF Told, LastWord, Logged, Present, Content
  <2>3. Streams(r)' /\ Counts(r)' /\ Replays(r)'
    BY <1>1, <2>1, <2>2 DEF TurnInv, Thread, Streams, Counts, Replays
  <2>4. Logs(r)' /\ Settles(r)'
    BY <1>1, <2>1, <2>2 DEF TurnInv, Thread, Logs, Settles
  <2>5. Stores(r)'
    BY <1>1, <2>1, <2>2 DEF TurnInv, Thread, Stores
  <2>6. Deletes(r)'
    <3>1. r \notin AtWork'
      BY <2>1 DEF AtWork
    <3>2. QED
      BY <1>1, <2>2, <3>1 DEF TurnInv, Thread, Deletes
  <2>7. QED
    BY <2>3, <2>4, <2>5, <2>6 DEF Thread
<1>5. ASSUME NEW r \in Requests, r \in AtWork PROVE Thread(r)'
  <2>1. /\ pc'[r] = "dead" /\ frames'[r] = <<>> /\ outcome'[r] = NoOutcome
        /\ r \notin persisted'
    BY <1>1, <1>2, <1>5
  <2>2. ~Told(r)' /\ r \notin AtWork' /\ ~outcome'[r].replayed
    BY <2>1 DEF Told, AtWork, NoOutcome
  <2>3. Streams(r)' /\ Counts(r)' /\ Replays(r)'
    BY <2>1, <2>2 DEF Streams, Chatter, Counts, Replays
  <2>4. Logs(r)' /\ Settles(r)' /\ Stores(r)'
    BY <2>1, <2>2 DEF Logs, Settles, Stores
  <2>5. Deletes(r)'
    <3>1. /\ r \notin racing => Present(r)
          /\ runs[r].redacted => ~Present(r)
          /\ ~Logged(r) => runs[r] = NoRun
      BY <1>5 DEF TurnInv, Thread, Deletes
    <3>2. /\ Logged(r)' <=> Logged(r)
          /\ Present(r)' <=> Present(r)
      BY <1>1 DEF Logged, Present
    <3>3. QED
      BY <1>1, <2>2, <3>1, <3>2 DEF Deletes
  <2>6. QED
    BY <2>3, <2>4, <2>5 DEF Thread
<1>6. KeysAreUnique'
  BY <1>1 DEF TurnInv, KeysAreUnique, Logged
<1>7. SourcesAreAnswered'
  BY <1>1, <1>2 DEF TurnInv, SourcesAreAnswered, Answered, NoOutcome
<1>8. FirstTurns'
  <2>1. \A q \in Requests : cid'[q] = cid[q] /\ (index'[q] = index[q] \/ index'[q] = 0)
    BY <1>1, <1>2
  <2>2. QED
    BY <1>1, <2>1, FirstTurnsStay
<1>9. QED
  BY <1>3, <1>4, <1>5, <1>6, <1>7, <1>8 DEF TurnInv

-----------------------------------------------------------------------------
(* The theorems.                                                            *)

LEMMA StutterKeeps == ASSUME TurnInv, UNCHANGED vars PROVE TurnInv'
<1>1. UNCHANGED <<cid, key, gone, turnIndex, titled, runs, message, pc, ending, frames, held,
                  persisted, outcome, index, faults, restarts, executed, unlogged, lost, broke,
                  racing>>
  BY DEF vars, asked, dbVars, threadVars, historyVars
<1>2. TypeOK'
  BY <1>1 DEF TurnInv, TypeOK
<1>3. FirstTurns' /\ KeysAreUnique' /\ SourcesAreAnswered'
  BY <1>1 DEF TurnInv, FirstTurns, IsFirst, KeysAreUnique, SourcesAreAnswered,
                     Answered, Logged
<1>4. ASSUME NEW r \in Requests PROVE Thread(r)'
  <2>1. /\ Told(r)' <=> Told(r)
        /\ LastWord(r)' = LastWord(r)
        /\ Logged(r)' <=> Logged(r)
        /\ Present(r)' <=> Present(r)
        /\ Content(r)' <=> Content(r)
        /\ r \in AtWork' <=> r \in AtWork
    BY <1>1 DEF Told, LastWord, Logged, Present, Content, AtWork
  <2>2. Streams(r)' /\ Logs(r)' /\ Settles(r)'
    BY <1>1, <2>1 DEF TurnInv, Thread, Streams, Logs, Settles
  <2>3. Stores(r)' /\ Replays(r)' /\ Counts(r)'
    BY <1>1, <2>1 DEF TurnInv, Thread, Stores, Replays, Counts
  <2>4. Deletes(r)'
    BY <1>1, <2>1 DEF TurnInv, Thread, Deletes
  <2>5. QED
    BY <2>2, <2>3, <2>4 DEF Thread
<1>5. QED
  BY <1>2, <1>3, <1>4 DEF TurnInv

LEMMA TurnInvStep == TurnInv /\ [Next]_vars => TurnInv'
<1> SUFFICES ASSUME TurnInv, [Next]_vars PROVE TurnInv'
  OBVIOUS
<1>1. ASSUME NEW r \in Requests, NEW input \in Inputs[r], Post(r, input[1], input[2])
      PROVE  TurnInv'
  <2>1. input \in Conversations \X (Keys \union {NoKey})
    BY ChatAssumption
  <2>2. QED
    BY <1>1, <2>1, PostKeeps
<1>2. ASSUME NEW r \in Requests, TakeTurnIndex(r) \/ StartTurn(r) \/ StartTurnUnlogged(r) \/ Replay(r)
      PROVE  TurnInv'
  BY <1>2, TakeTurnIndexKeeps, StartTurnKeeps, ReplayKeeps
<1>3. ASSUME NEW r \in Requests, Answer(r) \/ Fail(r) \/ Crash(r) PROVE TurnInv'
  BY <1>3, AnswerKeeps, BreakdownKeeps
<1>4. ASSUME NEW r \in Requests,
             AppendRecords(r) \/ Finalize(r) \/ FinalizeUnlogged(r) \/ PutState(r)
      PROVE  TurnInv'
  BY <1>4, AppendRecordsKeeps, FinalizeKeeps, PutStateKeeps
<1>5. ASSUME NEW r \in Requests, Persist(r) \/ SendError(r) \/ Bury(r) PROVE TurnInv'
  BY <1>5, PersistKeeps, SendErrorKeeps, BuryKeeps
<1>6. ASSUME NEW r \in Requests, SetTitle(r) \/ SendDone(r) \/ Close(r) PROVE TurnInv'
  BY <1>6, SetTitleKeeps, SendDoneKeeps, CloseKeeps
<1>7. ASSUME NEW r \in Requests, ThreadStep(r) PROVE TurnInv'
  BY <1>2, <1>3, <1>4, <1>5, <1>6, <1>7 DEF ThreadStep
<1>8. ASSUME NEW c \in Conversations, DeleteConversation(c) PROVE TurnInv'
  BY <1>8, DeletionKeeps
<1>9. QED
  BY <1>1, <1>7, <1>8, RestartKeeps, StutterKeeps DEF Next

LEMMA TurnInvHolds == Spec => []TurnInv
<1>1. Init => TurnInv
  BY TurnInvInit
<1>2. TurnInv /\ [Next]_vars => TurnInv'
  BY TurnInvStep
<1>3. QED
  BY <1>1, <1>2, PTL DEF Spec

\* Requests, rows, messages and threads keep their types.
THEOREM TurnsAreTyped == Spec => []TypeOK
<1>1. TurnInv => TypeOK
  BY DEF TurnInv
<1>2. QED
  BY <1>1, TurnInvHolds, PTL

\* Every stream has one terminal frame, its end comes right after it, and the message it
\* announces was stored, or lost to a failing insert or a deletion, before it left.
THEOREM MessagesComeFirst == Spec => []PersistedBeforeTerminal
<1>1. TurnInv => PersistedBeforeTerminal
  <2> SUFFICES ASSUME TurnInv, NEW r \in Requests
               PROVE  /\ OneTerminalFrame(r)
                      /\ Terminal(r) # {} => message[r].stored \/ ~Present(r) \/ r \in lost
    BY DEF PersistedBeforeTerminal
  <2>1. Streams(r) /\ Stores(r) /\ TypeOK
    BY DEF TurnInv, Thread
  <2>2. OneTerminalFrame(r) /\ (Terminal(r) # {} => Told(r))
    BY <2>1, TerminalsOf
  <2>3. Told(r) => message[r].stored \/ ~Present(r) \/ r \in lost
    BY <2>1 DEF Stores
  <2>4. QED
    BY <2>2, <2>3
<1>2. QED
  BY <1>1, TurnInvHolds, PTL

\* However many retries race under a client_turn_key, in however many conversations, the
\* pipeline runs once for every run-log row the key can have.
THEOREM KeysRunOnce == Spec => []ExecutedOnce
<1>1. TurnInv => ExecutedOnce
  BY DEF TurnInv, TypeOK, KeysAreUnique, ExecutedOnce
<1>2. QED
  BY <1>1, TurnInvHolds, PTL

\* A replayed message is the named turn's own, and that turn stays answered unless it broke
\* down after its finalize, when its row becomes an error.
THEOREM ReplaysAreFaithful == Spec => []ReplayIsFaithful
<1>1. TurnInv => ReplayIsFaithful
  BY DEF TurnInv, Thread, Replays, SourcesAreAnswered, Answered, ReplayIsFaithful
<1>2. QED
  BY <1>1, TurnInvHolds, PTL

\* When a stream has ended, its row is settled and says what the stream said.
THEOREM LogsAgree == Spec => []LogAgreesWithStream
<1>1. TurnInv => LogAgreesWithStream
  <2> SUFFICES ASSUME TurnInv, NEW r \in Requests, pc[r] = "ended", Logged(r), r \notin unlogged
               PROVE  /\ runs[r].status # "running"
                      /\ runs[r].status = "error"
                         <=> \E i \in Terminal(r) : frames[r][i] = "error"
    BY DEF LogAgreesWithStream
  <2>1. TypeOK /\ Streams(r) /\ Logs(r)
    BY DEF TurnInv, Thread
  <2>2. Terminal(r) = {Len(frames[r]) - 1}
    BY <2>1, TerminalsOf
  <2>3. LastWord(r) = frames[r][Len(frames[r]) - 1]
    BY DEF LastWord
  <2>4. /\ runs[r].status # "running"
        /\ runs[r].status = "error" <=> LastWord(r) = "error"
    BY <2>1 DEF Logs
  <2>5. QED
    BY <2>2, <2>3, <2>4
<1>2. QED
  BY <1>1, TurnInvHolds, PTL

\* A conversation gets its title from one turn that ran in it, whichever of its first turns,
\* retries and replays race.
THEOREM TitlesAreFirst == Spec => []TitledByItsFirstTurn
<1>1. TurnInv => TitledByItsFirstTurn
  <2> SUFFICES ASSUME TurnInv, NEW c \in Conversations
               PROVE  /\ Cardinality(titled[c]) <= 1
                      /\ titled[c] \subseteq {r \in executed : cid[r] = c}
    BY DEF TitledByItsFirstTurn
  <2>1. /\ titled[c] \subseteq Requests
        /\ \A r, q \in titled[c] : r = q
        /\ \A r \in titled[c] : r \in executed /\ cid[r] = c
    BY DEF TurnInv, TypeOK, FirstTurns, IsFirst
  <2>2. titled[c] = {} \/ \E r \in titled[c] : titled[c] = {r}
    BY <2>1
  <2>3. Cardinality(titled[c]) \in {0, 1}
    BY <2>2, FS_EmptySet, FS_Singleton
  <2>4. QED
    BY <2>1, <2>3
<1>2. QED
  BY <1>1, TurnInvHolds, PTL

\* What was not at work when its conversation was deleted has no content left, for good.
THEOREM DeletionsRedact == Spec => []DeletionRedacts
<1>1. TurnInv => DeletionRedacts
  BY DEF TurnInv, Thread, Deletes, DeletionRedacts
<1>2. QED
  BY <1>1, TurnInvHolds, PTL

=============================================================================
