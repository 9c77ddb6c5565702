----------------------------- MODULE ChatTurn -----------------------------
(***************************************************************************)
(* One live chat turn per POST: stream_turn (api/live_chat.py), the part of*)
(* execute_turn that every flow shares (core/chat/orchestrator.py), the run*)
(* log (core/runlog.py) and the deletion of a conversation, with any number*)
(* of requests at once, some of them retries under the same                *)
(* client_turn_key.  Each request has a worker thread; a step is what the  *)
(* thread does up to and including one transaction.                        *)
(*                                                                         *)
(* A request is its own turn id: runs[r] is the turn_run row it inserted,  *)
(* message[r] the assistant message row.                                   *)
(***************************************************************************)
EXTENDS Naturals, Sequences, FiniteSets

CONSTANTS
  Requests,        \* POST /conversations/{cid}/messages, numbered as they arrive
  Conversations,
  Keys,            \* client_turn_key values
  NoKey,           \* a request without one
  Inputs,          \* per request, the <<conversation, key>> pairs it may be sent with
  MaxFaults,       \* bound: failing statements and bugs in a behaviour
  MaxRestarts      \* bound: restarts of the server

NoOne == 0   \* no request

ASSUME ChatAssumption ==
  /\ Requests \subseteq Nat \ {NoOne} /\ Conversations # {} /\ NoKey \notin Keys
  /\ Inputs \in [Requests -> SUBSET (Conversations \X (Keys \union {NoKey}))]
  /\ MaxFaults \in Nat /\ MaxRestarts \in Nat

VARIABLES
  gone,       \* deleted conversations
  turnIndex,  \* conversations.state.turn_index
  titled,     \* per conversation, the requests that set its title
  runs,       \* turn_run
  message,    \* assistant messages
  cid,        \* per request, the conversation it was sent to
  key,        \* per request, its client_turn_key
  pc,         \* per request, where its thread is
  ending,     \* per request, the status execute_turn came to
  frames,     \* per request, the frame queue as the client will read it
  held,       \* requests whose done frame is held back (pending_done)
  persisted,  \* requests that tried to store their message (persisted_holder)
  outcome,    \* per request, the TurnOutcome once execute_turn returned
  index,      \* per request, its turn index
  faults, restarts,
  executed,   \* history: requests that ran the pipeline
  unlogged,   \* history: requests with a failed run-log statement
  lost,       \* history: requests whose message could not be stored
  broke,      \* history: requests whose turn broke down once it had been finalized
  racing      \* history: requests at work when their conversation was deleted

dbVars      == <<gone, turnIndex, titled, runs, message>>
asked       == <<cid, key>>
threadVars  == <<pc, ending, frames, held, persisted, outcome, index>>
historyVars == <<executed, unlogged, lost, broke, racing>>
vars == <<asked, dbVars, threadVars, faults, restarts, historyVars>>

RunStatus == {"absent", "running", "ok", "clarify", "error"}
Run       == [status : RunStatus, question : BOOLEAN, answer : BOOLEAN, args : BOOLEAN,
              redacted : BOOLEAN]
Message   == [stored : BOOLEAN, turn : Requests, answerOf : Requests \union {NoOne}]
Outcome   == [status : {"none", "ok", "clarify", "error"},
              run : Requests \union {NoOne}, replayed : BOOLEAN]
Frame     == {"accepted", "body", "done", "error", "end"}
Place     == {"new", "rejected", "stored", "indexed", "conflict", "running", "failing",
              "refusing", "crashing", "recording", "finalizing", "putting", "burying",
              "titling", "flushing", "closing", "ended", "dead"}

NoRun == [status |-> "absent", question |-> FALSE, answer |-> FALSE, args |-> FALSE,
          redacted |-> FALSE]
NoMessage(r) == [stored |-> FALSE, turn |-> r, answerOf |-> NoOne]
NoOutcome == [status |-> "none", run |-> NoOne, replayed |-> FALSE]

TypeOK ==
  /\ gone \subseteq Conversations
  /\ turnIndex \in [Conversations -> Nat]
  /\ titled \in [Conversations -> SUBSET Requests]
  /\ runs \in [Requests -> Run]
  /\ message \in [Requests -> Message]
  /\ cid \in [Requests -> Conversations]
  /\ key \in [Requests -> Keys \union {NoKey}]
  /\ pc \in [Requests -> Place]
  /\ ending \in [Requests -> {"none", "ok", "clarify", "error"}]
  /\ frames \in [Requests -> Seq(Frame)]
  /\ held \subseteq Requests /\ persisted \subseteq Requests
  /\ outcome \in [Requests -> Outcome]
  /\ index \in [Requests -> Nat]
  /\ faults \in Nat /\ restarts \in Nat
  /\ executed \subseteq Requests /\ unlogged \subseteq Requests /\ lost \subseteq Requests
  /\ broke \subseteq Requests /\ racing \subseteq Requests

Init ==
  /\ gone = {}
  /\ turnIndex = [c \in Conversations |-> 0]
  /\ titled = [c \in Conversations |-> {}]
  /\ runs = [r \in Requests |-> NoRun]
  /\ message = [r \in Requests |-> NoMessage(r)]
  /\ cid = [r \in Requests |-> CHOOSE c \in Conversations : TRUE]
  /\ key = [r \in Requests |-> NoKey]
  /\ pc = [r \in Requests |-> "new"]
  /\ ending = [r \in Requests |-> "none"]
  /\ frames = [r \in Requests |-> <<>>]
  /\ held = {} /\ persisted = {}
  /\ outcome = [r \in Requests |-> NoOutcome]
  /\ index = [r \in Requests |-> 0]
  /\ faults = 0 /\ restarts = 0
  /\ executed = {} /\ unlogged = {} /\ lost = {} /\ broke = {} /\ racing = {}

-----------------------------------------------------------------------------
Goto(r, place) == pc' = [pc EXCEPT ![r] = place]
Send(r, fs)    == frames' = [frames EXCEPT ![r] = @ \o fs]
Fault          == faults < MaxFaults /\ faults' = faults + 1
Present(r)     == cid[r] \notin gone
Logged(r)      == runs[r].status # "absent"

\* Mutant: a replay counts as the first answered turn.
TitleDueToReplays(r, o) == o.status = "ok" /\ index[r] = 1

\* The first answered turn of a conversation gives it its title.
TitleDue(r, o) == o.status = "ok" /\ index[r] = 1 /\ ~o.replayed

\* execute_turn returns: the outcome is known from here on, and a done frame
\* that was held back is what comes next.
Returned(r, o, holds) ==
  /\ outcome' = [outcome EXCEPT ![r] = o]
  /\ Goto(r, CASE ~holds -> "closing"
               [] holds /\ TitleDue(r, o) -> "titling"
               [] OTHER -> "flushing")

OwnOutcome(r) ==
  [status |-> ending[r], run |-> IF Logged(r) THEN r ELSE NoOne, replayed |-> FALSE]

\* append_user_message before the stream starts: 404 without a conversation.
Post(r, c, k) ==
  /\ pc[r] = "new"
  /\ \A q \in Requests : q < r => pc[q] # "new"
  /\ cid' = [cid EXCEPT ![r] = c]
  /\ key' = [key EXCEPT ![r] = k]
  /\ Goto(r, IF c \notin gone THEN "stored" ELSE "rejected")
  /\ UNCHANGED <<dbVars, ending, frames, held, persisted, outcome, index,
                 faults, restarts, historyVars>>

\* One UPDATE ... RETURNING; LookupError, which nothing in execute_turn
\* catches, when the conversation was deleted since.
TakeTurnIndex(r) ==
  LET c == cid[r] IN
  /\ pc[r] = "stored"
  /\ IF Present(r)
       THEN /\ turnIndex' = [turnIndex EXCEPT ![c] = @ + 1]
            /\ index' = [index EXCEPT ![r] = turnIndex[c] + 1]
            /\ Goto(r, "indexed")
       ELSE /\ UNCHANGED <<turnIndex, index>>
            /\ Goto(r, "crashing")
  /\ UNCHANGED <<asked, gone, titled, runs, message, ending, frames, held, persisted, outcome,
                 faults, restarts, historyVars>>

\* The rows the unique index (user_sub, client_turn_key) compares with.
Earlier(r) ==
  {q \in Requests : key[r] # NoKey /\ key[q] = key[r] /\ runs[q].status # "absent"}

\* _begin_turn: whatever start_turn came to, the accepted frame follows.
Begun(r, place) == Goto(r, place) /\ Send(r, <<"accepted">>)

\* Mutant: no unique index.
StartTurnRegardless(r) ==
  /\ pc[r] = "indexed"
  /\ runs' = [runs EXCEPT ![r] = [NoRun EXCEPT !.status = "running", !.question = TRUE]]
  /\ Begun(r, "running")
  /\ UNCHANGED <<asked, gone, turnIndex, titled, message, ending, held, persisted, outcome,
                 index, faults, restarts, historyVars>>

\* start_turn inserts the row, or finds the one it conflicts with.
StartTurn(r) ==
  /\ pc[r] = "indexed"
  /\ IF Earlier(r) = {}
       THEN /\ runs' = [runs EXCEPT ![r] = [NoRun EXCEPT !.status = "running", !.question = TRUE]]
            /\ Begun(r, "running")
       ELSE /\ UNCHANGED runs
            /\ Begun(r, "conflict")
  /\ UNCHANGED <<asked, gone, turnIndex, titled, message, ending, held, persisted, outcome,
                 index, faults, restarts, historyVars>>

\* start_turn swallows its own failure: the turn runs without a row.
StartTurnUnlogged(r) ==
  /\ pc[r] = "indexed"
  /\ Fault
  /\ unlogged' = unlogged \union {r}
  /\ Begun(r, "running")
  /\ UNCHANGED <<asked, dbVars, ending, held, persisted, outcome, index, restarts, executed,
                 lost, broke, racing>>

\* read_for_replay: the row's status, and whether its message still has parts.
ReadForReplay(q) == [status |-> runs[q].status, parts |-> message[q].stored]

\* Only an answered turn whose message can still be read is replayed;
\* anything else is refused with 409, a failed lookup too.
Replay(r) ==
  /\ pc[r] = "conflict"
  /\ \E q \in Earlier(r) :
       LET replayable == ReadForReplay(q) = [status |-> "ok", parts |-> TRUE] IN
       \/ /\ replayable
          /\ Send(r, <<"body">>)
          /\ held' = held \union {r}
          /\ Returned(r, [status |-> "ok", run |-> q, replayed |-> TRUE], TRUE)
          /\ UNCHANGED faults
       \/ /\ IF replayable THEN Fault ELSE UNCHANGED faults
          /\ Goto(r, "refusing")
          /\ UNCHANGED <<frames, held, outcome>>
  /\ UNCHANGED <<asked, dbVars, ending, persisted, index, restarts, historyVars>>

-----------------------------------------------------------------------------
(* The pipeline.                                                            *)

\* A clarifying question or an answer: its body is sent, and send() holds
\* the done frame back.
Answer(r) ==
  /\ pc[r] = "running"
  /\ \E status \in {"ok", "clarify"} :
       /\ ending' = [ending EXCEPT ![r] = status]
       /\ Goto(r, CASE ~Logged(r) -> "putting"
                    [] Logged(r) /\ status = "ok" -> "recording"
                    [] OTHER -> "finalizing")
  /\ Send(r, <<"body">>)
  /\ held' = held \union {r}
  /\ executed' = executed \union {r}
  /\ UNCHANGED <<asked, dbVars, persisted, outcome, index, faults, restarts,
                 unlogged, lost, broke, racing>>

\* The router loop ends in a structured error.
Fail(r) ==
  /\ pc[r] = "running"
  /\ ending' = [ending EXCEPT ![r] = "error"]
  /\ Goto(r, "failing")
  /\ executed' = executed \union {r}
  /\ UNCHANGED <<asked, dbVars, frames, held, persisted, outcome, index, faults, restarts,
                 unlogged, lost, broke, racing>>

\* Any other exception: out of execute_turn, into run_turn_sync's handler.
Crash(r) ==
  /\ pc[r] \in {"stored", "running"}
  /\ Fault
  /\ Goto(r, "crashing")
  /\ executed' = IF pc[r] = "running" THEN executed \union {r} ELSE executed
  /\ UNCHANGED <<asked, dbVars, ending, frames, held, persisted, outcome, index, restarts,
                 unlogged, lost, broke, racing>>

\* append_tool_call: the row keeps the arguments of the tool.
WithToolCall(run) == [run EXCEPT !.args = TRUE]

\* The turn's llm_calls and tool_calls rows.
AppendRecords(r) ==
  /\ pc[r] = "recording"
  /\ runs' = [runs EXCEPT ![r] = WithToolCall(@)]
  /\ Goto(r, "finalizing")
  /\ UNCHANGED <<asked, gone, turnIndex, titled, message, ending, frames, held, persisted, outcome,
                 index, faults, restarts, historyVars>>

AfterFinalize(r) ==
  IF ending[r] = "error"
    THEN Returned(r, OwnOutcome(r), FALSE)
    ELSE Goto(r, "putting") /\ UNCHANGED outcome

Finalize(r) ==
  /\ pc[r] = "finalizing"
  /\ runs' = [runs EXCEPT ![r].status = ending[r], ![r].answer = ending[r] # "error"]
  /\ AfterFinalize(r)
  /\ UNCHANGED <<asked, gone, turnIndex, titled, message, ending, frames, held, persisted,
                 index, faults, restarts, historyVars>>

\* finalize swallows its own failure as well.
FinalizeUnlogged(r) ==
  /\ pc[r] = "finalizing"
  /\ Fault
  /\ unlogged' = unlogged \union {r}
  /\ AfterFinalize(r)
  /\ UNCHANGED <<asked, dbVars, ending, frames, held, persisted, index, restarts,
                 executed, lost, broke, racing>>

\* What is written once the turn is finalized: the slots, the outbox row and,
\* for a brief, brief_done; then execute_turn returns.  A failed put of an
\* answered turn is caught.  One of a clarification is not, nor is one of the
\* brief_done that an answered brief writes before its put: the turn breaks
\* down although its row has its last status.
PutState(r) ==
  /\ pc[r] = "putting"
  /\ \/ Returned(r, OwnOutcome(r), TRUE) /\ UNCHANGED <<faults, broke>>
     \/ Fault /\ broke' = broke \union {r} /\ Goto(r, "crashing") /\ UNCHANGED outcome
  /\ UNCHANGED <<asked, dbVars, ending, frames, held, persisted, index, restarts, executed,
                 unlogged, lost, racing>>

-----------------------------------------------------------------------------
(* Around the pipeline: run_turn_sync, send and _finalize_turn.             *)

\* Mutant: always the request's own id.
PersistedUnderOwn(r) == r

\* The assistant message names the outcome's run, once there is an outcome
\* and it names one; before that the request's own id.
PersistedTurn(r) == IF outcome[r].run = NoOne THEN r ELSE outcome[r].run

\* What the message shows: the answer of a replayed turn, its own, or nothing.
Shown(r) == CASE r \notin held -> NoOne
              [] r \in held /\ outcome[r].replayed -> outcome[r].run
              [] OTHER -> r

\* Mutant: only a stored message counts as persisted.
PersistUntilStored(r) ==
  /\ pc[r] \in {"failing", "refusing", "crashing", "flushing", "closing"}
  /\ r \notin persisted
  /\ \/ /\ Present(r)
        /\ persisted' = persisted \union {r}
        /\ message' = [message EXCEPT
             ![r] = [stored |-> TRUE, turn |-> PersistedTurn(r), answerOf |-> Shown(r)]]
        /\ UNCHANGED <<faults, lost>>
     \/ ~Present(r) /\ UNCHANGED <<persisted, message, faults, lost>>
     \/ Fault /\ lost' = lost \union {r} /\ UNCHANGED <<persisted, message>>
  /\ UNCHANGED <<asked, gone, turnIndex, titled, runs, pc, ending, frames, held, outcome, index,
                 restarts, executed, unlogged, broke, racing>>

\* _persist_once: one attempt per request, whether or not the row could be
\* stored.  Its failure is logged and the stream goes on.
Persist(r) ==
  /\ pc[r] \in {"failing", "refusing", "crashing", "flushing", "closing"}
  /\ r \notin persisted
  /\ persisted' = persisted \union {r}
  /\ \/ /\ Present(r)
        /\ message' = [message EXCEPT
             ![r] = [stored |-> TRUE, turn |-> PersistedTurn(r), answerOf |-> Shown(r)]]
        /\ UNCHANGED <<faults, lost>>
     \/ ~Present(r) /\ UNCHANGED <<message, faults, lost>>
     \/ Fault /\ lost' = lost \union {r} /\ UNCHANGED message
  /\ UNCHANGED <<asked, gone, turnIndex, titled, runs, pc, ending, frames, held, outcome, index,
                 restarts, executed, unlogged, broke, racing>>

\* send's error branch: the frame leaves once the message was persisted.  A
\* refusal returns naming the run it conflicted with, a crash does not return.
SendError(r) ==
  /\ pc[r] \in {"failing", "refusing", "crashing"}
  /\ r \in persisted
  /\ Send(r, <<"error">>)
  /\ \/ pc[r] = "crashing" /\ Goto(r, "burying") /\ UNCHANGED outcome
     \/ pc[r] = "failing" /\ Logged(r) /\ Goto(r, "recording") /\ UNCHANGED outcome
     \/ pc[r] = "failing" /\ ~Logged(r) /\ Returned(r, OwnOutcome(r), FALSE)
     \/ /\ pc[r] = "refusing"
        /\ \E q \in Earlier(r) :
             Returned(r, [status |-> "error", run |-> q, replayed |-> FALSE], FALSE)
  /\ UNCHANGED <<asked, dbVars, ending, held, persisted, index, faults, restarts, historyVars>>

\* Mutant: the crash handler only sends its frame.
BuryNothing(r) ==
  /\ pc[r] = "burying"
  /\ Goto(r, "closing")
  /\ UNCHANGED <<asked, dbVars, ending, frames, held, persisted, outcome, index, faults,
                 restarts, historyVars>>

\* The crash handler finalizes the request's own row, if it has one.
Bury(r) ==
  /\ pc[r] = "burying"
  /\ \/ /\ runs' = IF Logged(r) THEN [runs EXCEPT ![r].status = "error", ![r].answer = FALSE]
                  ELSE runs
        /\ UNCHANGED <<faults, unlogged>>
     \/ Fault /\ unlogged' = unlogged \union {r} /\ UNCHANGED runs
  /\ Goto(r, "closing")
  /\ UNCHANGED <<asked, gone, turnIndex, titled, message, ending, frames, held, persisted, outcome,
                 index, restarts, executed, lost, broke, racing>>

\* title_for may raise, or find the conversation gone.
SetTitle(r) ==
  LET c == cid[r] IN
  /\ pc[r] = "titling"
  /\ \/ Present(r) /\ titled' = [titled EXCEPT ![c] = @ \union {r}]
     \/ UNCHANGED titled
  /\ Goto(r, "flushing")
  /\ UNCHANGED <<asked, gone, turnIndex, runs, message, ending, frames, held, persisted, outcome,
                 index, faults, restarts, historyVars>>

\* Mutant: the frame leaves before the message is persisted.
SendDoneFirst(r) ==
  /\ pc[r] = "flushing"
  /\ Send(r, <<"done">>)
  /\ Goto(r, "closing")
  /\ UNCHANGED <<asked, dbVars, ending, held, persisted, outcome, index>>
  /\ UNCHANGED <<faults, restarts, historyVars>>

SendDone(r) ==
  /\ pc[r] = "flushing"
  /\ r \in persisted
  /\ Send(r, <<"done">>)
  /\ Goto(r, "closing")
  /\ UNCHANGED <<asked, dbVars, ending, held, persisted, outcome, index>>
  /\ UNCHANGED <<faults, restarts, historyVars>>

Close(r) ==
  /\ pc[r] = "closing"
  /\ r \in persisted
  /\ Send(r, <<"end">>)
  /\ Goto(r, "ended")
  /\ ending' = [ending EXCEPT ![r] = "none"]
  /\ index' = [index EXCEPT ![r] = 0]
  /\ held' = held \ {r} /\ persisted' = persisted \ {r}
  /\ UNCHANGED <<asked, dbVars, outcome, faults, restarts, historyVars>>

-----------------------------------------------------------------------------
AtWork == {r \in Requests : pc[r] \notin {"new", "rejected", "ended", "dead"}}

\* Mutant: tool calls keep their arguments.
RedactedKeepingArgs(run) ==
  IF run.status = "absent" THEN run
  ELSE [run EXCEPT !.question = FALSE, !.answer = FALSE, !.redacted = TRUE]

\* A run row loses its content once, its tool calls theirs every time.
RowRedacted(run) ==
  IF run.redacted THEN run
  ELSE [run EXCEPT !.question = FALSE, !.answer = FALSE, !.redacted = TRUE]

Redacted(run) ==
  IF run.status = "absent" THEN run ELSE [RowRedacted(run) EXCEPT !.args = FALSE]

\* One transaction: the messages cascade, the conversation's runs are redacted.
DeleteConversation(c) ==
  LET inside(r) == cid[r] = c IN
  /\ c \notin gone
  /\ gone' = gone \union {c}
  /\ message' = [r \in Requests |->
                   IF inside(r) THEN [message[r] EXCEPT !.stored = FALSE] ELSE message[r]]
  /\ runs' = [r \in Requests |-> IF inside(r) THEN Redacted(runs[r]) ELSE runs[r]]
  /\ racing' = racing \union {r \in AtWork : inside(r)}
  /\ UNCHANGED <<asked, turnIndex, titled, threadVars, faults, restarts, executed, unlogged, lost,
                 broke>>

\* The server process goes down, with every thread and its frame queue.
Restart ==
  LET after(f, none) == [r \in Requests |-> IF r \in AtWork THEN none ELSE f[r]] IN
  /\ restarts < MaxRestarts
  /\ restarts' = restarts + 1
  /\ AtWork # {}
  /\ pc' = after(pc, "dead")
  /\ ending' = after(ending, "none")
  /\ frames' = after(frames, <<>>)
  /\ outcome' = after(outcome, NoOutcome)
  /\ index' = after(index, 0)
  /\ held' = held \ AtWork
  /\ persisted' = persisted \ AtWork
  /\ UNCHANGED <<asked, dbVars, faults, historyVars>>

\* What the request's thread does, once its message is stored.
ThreadStep(r) ==
  \/ TakeTurnIndex(r) \/ StartTurn(r) \/ StartTurnUnlogged(r) \/ Replay(r)
  \/ Answer(r) \/ Fail(r) \/ Crash(r)
  \/ AppendRecords(r) \/ Finalize(r) \/ FinalizeUnlogged(r) \/ PutState(r)
  \/ Persist(r) \/ SendError(r) \/ Bury(r)
  \/ SetTitle(r) \/ SendDone(r) \/ Close(r)

Next ==
  \/ \E r \in Requests :
       \/ \E input \in Inputs[r] : Post(r, input[1], input[2])
       \/ ThreadStep(r)
  \/ \E c \in Conversations : DeleteConversation(c)
  \/ Restart

\* A running thread goes on; no user has to ask or to delete anything.
Fairness == \A r \in Requests : WF_vars(ThreadStep(r))

Spec == Init /\ [][Next]_vars
FairSpec == Spec /\ Fairness

-----------------------------------------------------------------------------
(* Properties.                                                              *)

Terminal(r) == {i \in DOMAIN frames[r] : frames[r][i] \in {"done", "error"}}

OneTerminalFrame(r) ==
  /\ \A i \in Terminal(r) : \A j \in i + 1 .. Len(frames[r]) : frames[r][j] = "end"
  /\ pc[r] = "ended" => Terminal(r) = {Len(frames[r]) - 1}

\* A stream has one terminal frame and nothing but its end comes after it, also when a turn
\* breaks down after its done frame was made: send holds that frame back until execute_turn
\* has returned.  And persistence comes first: a client that has seen the turn end finds its
\* message, unless the insert failed or the conversation was deleted.
PersistedBeforeTerminal ==
  \A r \in Requests :
    /\ OneTerminalFrame(r)
    /\ Terminal(r) # {} => message[r].stored \/ ~Present(r) \/ r \in lost

\* A client_turn_key runs the pipeline once, whatever the retries, in any
\* conversation: of two runs under one key one has no turn_run row, because
\* the run log failed.
ExecutedOnce ==
  \A r, q \in executed :
    r # q /\ key[r] = key[q] /\ key[r] # NoKey => ~Logged(r) \/ ~Logged(q)

\* A replayed message shows the answer of the run it is filed under, so
\* feedback on it reaches the run that produced it.  That run is answered and
\* stays so; only one whose turn broke down after its finalize may have been
\* replayed before the crash handler made an error of its row.
ReplayIsFaithful ==
  \A r \in Requests :
    LET source == outcome[r].run IN
    outcome[r].replayed /\ message[r].stored =>
      /\ message[r].turn = source /\ message[r].answerOf = source
      /\ runs[source].status = "ok" \/ (runs[source].status = "error" /\ source \in broke)

\* The run log agrees with what the client saw: when a stream has ended its
\* run is settled, and it is an error exactly if the stream ended in one;
\* also for a turn that broke down after it was finalized.
LogAgreesWithStream ==
  \A r \in Requests :
    pc[r] = "ended" /\ Logged(r) /\ r \notin unlogged =>
      /\ runs[r].status # "running"
      /\ runs[r].status = "error" <=> \E i \in Terminal(r) : frames[r][i] = "error"

\* A conversation is titled once, by a turn that was really run in it: two
\* first turns cannot both have index 1, and a replay of another
\* conversation's answer gives no title.
TitledByItsFirstTurn ==
  \A c \in Conversations :
    /\ Cardinality(titled[c]) <= 1
    /\ titled[c] \subseteq {r \in executed : cid[r] = c}

Content(r) == runs[r].question \/ runs[r].answer \/ runs[r].args \/ message[r].stored

\* Deletion leaves no content of turns that were not at work at that moment,
\* and none comes back later.
DeletionRedacts ==
  \A r \in Requests \ racing : ~Present(r) => ~Content(r)

\* A stream that started ends: no failure, race or deletion leaves the
\* client's connection waiting.
StreamEnds ==
  \A r \in Requests : (pc[r] = "stored") ~> (pc[r] \in {"ended", "dead"})

\* What docs/architecture/05-auth-identity.md:229-233 says: deleting a
\* conversation deletes its content and redacts its audit rows.
DeletedLeavesNoContent == \A r \in Requests : ~Present(r) => ~Content(r)

=============================================================================
