----------------------------- MODULE RouterTurn -----------------------------
(***************************************************************************)
(* One routed turn: the agent loop (run_turn of core/llm/loop.py), the     *)
(* skills it dispatches, and the envelope every frame goes through         *)
(* (core/chat/events.py), which folds into the message that is persisted   *)
(* (core/chat/history.py).  A skill may stream its parts while it runs;    *)
(* what it streamed must not come again with its result.                   *)
(***************************************************************************)
EXTENDS Integers, Sequences, SequencesExt

CONSTANTS
  Skills,         \* what the router may dispatch
  Streaming,      \* the skills that call ctx.emit_part for every part
  Prose,          \* the skills whose parts are texts
  Refused,        \* names that dispatch answers with 403 or 404
  MaxIterations,  \* agent_max_iterations
  MaxCalls,       \* bound: tool calls of one response
  MaxParts        \* bound: parts of one result

ASSUME RouterAssumption ==
  /\ Streaming \subseteq Skills /\ Prose \subseteq Skills /\ Skills \intersect Refused = {}
  /\ MaxIterations \in Nat /\ MaxCalls \in Nat /\ MaxParts \in Nat

VARIABLES
  pc,          \* where run_turn is
  asked,       \* llm_records: the provider calls so far
  queue,       \* the tool calls of the last response not yet dispatched
  made,        \* the parts the running skill has made
  records,     \* tool_records: [skill, status]
  spent,       \* spent_corrections
  streamed,    \* _streamed_counts[1], or Retired once it has been popped
  results,     \* what each dispatch returned: its parts, and its proof if it has one
  frames,      \* the wire
  transcript,  \* assistant["parts"] of the TurnTranscriptBuffer
  cause        \* why the turn failed

loopVars == <<asked, queue, made, records, spent, cause>>
sinkVars == <<streamed, results, frames, transcript>>
vars == <<pc, loopVars, sinkVars>>

Names   == Skills \union Refused
Retired == -1
Place   == {"calling", "dispatching", "running", "failing", "crashing", "answering", "over"}
Causes  == {"none", "provider", "skill", "cap", "crash"}

\* A part is named by its skill and its place in the result, so that a
\* repeated call has the same parts; place 0 is the proof.
PartOf(s, i)       == [skill |-> s, index |-> i]
Text               == PartOf("router", 0)  \* the answer
Frame(name, v)     == [name |-> name, value |-> v]
ToolFrame(i, s, w) == Frame("tool", [seq |-> i, skill |-> s, status |-> w])
Parts(ps)          == [i \in DOMAIN ps |-> Frame("part", ps[i])]

TypeOK ==
  /\ pc \in Place
  /\ asked \in 0 .. MaxIterations
  /\ queue \in Seq(Names) /\ Len(queue) <= MaxCalls
  /\ made \in 0 .. MaxParts
  /\ records \in Seq([skill : Names, status : {"ok", "error"}])
  /\ spent \subseteq Names
  /\ streamed \in 0 .. MaxParts \union {Retired}
  /\ results \in Seq(Seq([skill : Names, index : 0 .. MaxParts]))
  /\ Len(results) = Len(records)
  /\ (streamed = Retired) = (records # <<>>)
  /\ cause \in Causes
  /\ \A i \in DOMAIN frames : frames[i].name \in {"accepted", "tool", "part", "token", "error", "done"}

-----------------------------------------------------------------------------
(* What a frame does to the persisted message.  A tool event is replaced    *)
(* where it is; a token extends the text at the end or begins one; errors   *)
(* and the envelope's own frames leave nothing.                             *)

\* Mutant: a tool event that is finished goes to the end.
RecordToolEventLast(parts, v) ==
  Append(SelectSeq(parts, LAMBDA p : ~ (p.kind = "tool_event" /\ p.value.seq = v.seq)),
         [kind |-> "tool_event", value |-> v])

RecordToolEvent(parts, v) ==
  LET Same(i) == parts[i].kind = "tool_event" /\ parts[i].value.seq = v.seq
      event   == [kind |-> "tool_event", value |-> v]
  IN  IF \E i \in DOMAIN parts : Same(i)
      THEN [parts EXCEPT ![CHOOSE i \in DOMAIN parts : Same(i)] = event]
      ELSE Append(parts, event)

FoldToken(parts, v) ==
  IF parts # <<>> /\ Last(parts).kind = "text"
  THEN [parts EXCEPT ![Len(parts)].value = Append(@, v)]
  ELSE Append(parts, [kind |-> "text", value |-> <<v>>])

\* A part as it is kept: a text can be extended, anything else cannot.
Kept(p) ==
  IF p.skill \in Prose /\ p.index > 0
  THEN [kind |-> "text", value |-> <<p>>]
  ELSE [kind |-> "part", value |-> p]

RecordFrame(parts, f) ==
  CASE f.name = "tool"  -> RecordToolEvent(parts, f.value)
    [] f.name = "part"  -> Append(parts, Kept(f.value))
    [] f.name = "token" -> FoldToken(parts, f.value)
    [] OTHER            -> parts

\* Every frame is numbered and recorded before it is queued; its number is
\* its place.
Send(fs) ==
  /\ frames' = frames \o fs
  /\ transcript' = FoldLeft(RecordFrame, transcript, fs)

Init ==
  /\ pc = "calling"
  /\ asked = 0 /\ queue = <<>> /\ made = 0 /\ records = <<>> /\ spent = {}
  /\ streamed = 0 /\ results = <<>>
  /\ frames = <<Frame("accepted", 0)>>
  /\ transcript = <<>>
  /\ cause = "none"

-----------------------------------------------------------------------------
\* The model answers with text, asks for tools, or fails the turn (an error,
\* a blank reply, a request for tools that names none).
AskForAnswer ==
  /\ pc = "calling" /\ asked < MaxIterations
  /\ asked' = asked + 1
  /\ pc' = "answering"
  /\ UNCHANGED <<queue, made, records, spent, cause, sinkVars>>

AskForTools ==
  /\ pc = "calling" /\ asked < MaxIterations
  /\ asked' = asked + 1
  /\ \E n \in 1 .. MaxCalls : queue' \in [1 .. n -> Names]
  /\ pc' = "dispatching"
  /\ UNCHANGED <<made, records, spent, cause, sinkVars>>

AskInVain ==
  /\ pc = "calling" /\ asked < MaxIterations
  /\ asked' = asked + 1
  /\ cause' = "provider"
  /\ pc' = "failing"
  /\ UNCHANGED <<queue, made, records, spent, sinkVars>>

\* The provider raises (no provider of that name, no connection): the
\* exception passes through run_turn.
AskRaises ==
  /\ pc = "calling" /\ asked < MaxIterations
  /\ cause' = "crash"
  /\ pc' = "crashing"
  /\ UNCHANGED <<asked, queue, made, records, spent, sinkVars>>

ReachCap ==
  /\ pc = "calling" /\ asked = MaxIterations
  /\ cause' = "cap"
  /\ pc' = "failing"
  /\ UNCHANGED <<asked, queue, made, records, spent, sinkVars>>

-----------------------------------------------------------------------------
(* _dispatch_one                                                            *)
ToolSeq == Len(records) + 1
Running == Head(queue)

StartTool ==
  /\ pc = "dispatching"
  /\ Send(<<ToolFrame(ToolSeq, Running, "start")>>)
  /\ made' = 0
  /\ pc' = "running"
  /\ UNCHANGED <<asked, queue, records, spent, cause, streamed, results>>

\* The emitter is bound to the first dispatch; once that is over it does
\* nothing, whoever calls it.
Live == streamed # Retired

MakePart ==
  /\ pc = "running" /\ Running \in Skills /\ made < MaxParts
  /\ made' = made + 1
  /\ IF Running \in Streaming /\ Live
     THEN streamed' = streamed + 1 /\ Send(<<Frame("part", PartOf(Running, made + 1))>>)
     ELSE UNCHANGED <<streamed, frames, transcript>>
  /\ UNCHANGED <<pc, asked, queue, records, spent, cause, results>>

Early == IF ToolSeq = 1 THEN streamed ELSE 0

\* The dispatch of the tool is recorded, and what follows in the response is next.
Recorded(status) ==
  /\ records' = Append(records, [skill |-> Running, status |-> status])
  /\ queue' = Tail(queue)

RetireCount ==
  streamed' = Retired

\* The result the skill can have made, with its proof or without.
Result ==
  LET parts == [i \in 1 .. made |-> PartOf(Running, i)] IN
  {parts, Append(parts, PartOf(Running, 0))}

\* Mutant: the parts of the result are sent whole.
SucceedWithAll ==
  /\ pc = "running" /\ Running \in Skills
  /\ \E result \in Result :
       /\ Send(<<ToolFrame(ToolSeq, Running, "done")>> \o Parts(result))
       /\ results' = Append(results, result)
  /\ RetireCount
  /\ Recorded("ok")
  /\ pc' = IF Len(queue) > 1 THEN "dispatching" ELSE "calling"
  /\ UNCHANGED <<asked, made, spent, cause>>

Succeed ==
  /\ pc = "running" /\ Running \in Skills
  /\ \E result \in Result :
       /\ Send(<<ToolFrame(ToolSeq, Running, "done")>>
               \o Parts(SubSeq(result, Early + 1, Len(result))))
       /\ results' = Append(results, result)
  /\ RetireCount
  /\ Recorded("ok")
  /\ pc' = IF Len(queue) > 1 THEN "dispatching" ELSE "calling"
  /\ UNCHANGED <<asked, made, spent, cause>>

\* The dispatch fails, at once (refused, arguments that do not validate) or at
\* any point of the skill; its result has no parts.
Break ==
  /\ pc = "running"
  /\ Send(<<ToolFrame(ToolSeq, Running, "error")>>)
  /\ results' = Append(results, <<>>)
  /\ RetireCount
  /\ Recorded("error")
  /\ UNCHANGED <<asked, made>>

\* Mutant: a correction that was used up is not remembered.
CorrectForgetfully ==
  /\ Break
  /\ Running \notin spent
  /\ pc' = IF Len(queue) > 1 THEN "dispatching" ELSE "calling"
  /\ UNCHANGED <<spent, cause>>

\* The first failure of a skill goes back to the model, the second ends the turn.
Correct ==
  /\ Break
  /\ Running \notin spent
  /\ spent' = spent \union {Running}
  /\ pc' = IF Len(queue) > 1 THEN "dispatching" ELSE "calling"
  /\ UNCHANGED cause

FailAgain ==
  /\ Break
  /\ Running \in spent
  /\ cause' = "skill"
  /\ pc' = "failing"
  /\ UNCHANGED spent

-----------------------------------------------------------------------------
Answer ==
  /\ pc = "answering"
  /\ Send(<<Frame("token", Text), Frame("done", 0)>>)
  /\ pc' = "over"
  /\ UNCHANGED <<loopVars, streamed, results>>

\* _failed_turn, or the handler around execute_turn after an exception.
SendError ==
  /\ pc \in {"failing", "crashing"}
  /\ Send(<<Frame("error", cause)>>)
  /\ pc' = "over"
  /\ UNCHANGED <<loopVars, streamed, results>>

Next ==
  \/ AskForAnswer \/ AskForTools \/ AskInVain \/ AskRaises \/ ReachCap
  \/ StartTool \/ MakePart \/ Succeed \/ Correct \/ FailAgain
  \/ Answer \/ SendError

Spec == Init /\ [][Next]_vars

-----------------------------------------------------------------------------
Started    == Len(records) + (IF pc = "running" THEN 1 ELSE 0)
ShowPart(shown, f) == IF f.name = "part" THEN Append(shown, f) ELSE shown
StartOf(i) == CHOOSE n \in DOMAIN frames :
                frames[n].name = "tool" /\ frames[n].value.seq = i /\ frames[n].value.status = "start"
EndOf(i)   == IF i < Started THEN StartOf(i + 1) ELSE Len(frames)
Shown(i)   == FoldLeft(ShowPart, <<>>, SubSeq(frames, StartOf(i), EndOf(i)))

\* What the wire shows between the start of a dispatch and the next one is
\* the parts of its result, each once and in order, and its proof, however
\* many of them were streamed early and by which emitter; a dispatch that
\* failed shows no proof and, unless it was the first, nothing.
DispatchShowsItsParts ==
  \A i \in DOMAIN records :
    IF records[i].status = "ok"
    THEN Shown(i) = Parts(results[i])
    ELSE /\ \A j \in DOMAIN Shown(i) : Shown(i)[j] = Frame("part", PartOf(records[i].skill, j))
         /\ i > 1 => Shown(i) = <<>>

Failures(s) == {i \in DOMAIN records : records[i] = [skill |-> s, status |-> "error"]}

\* Each skill fails at most twice in a turn, the turn ends with the second
\* failure and with no other, and nothing is dispatched after it.
OneCorrectionEach ==
  /\ cause = "skill" <=> \E i, j \in DOMAIN records :
       i < j /\ j = Len(records) /\ {i, j} \subseteq Failures(records[j].skill)
  /\ \A s \in Names, i, j \in DOMAIN records :
       i < j /\ {i, j} \subseteq Failures(s) => j = Len(records)

\* The tool event of dispatch i as the run log has it.
Event(i) ==
  [kind |-> "tool_event", value |->
     IF i > Len(records) THEN [seq |-> i, skill |-> Running, status |-> "start"]
     ELSE [seq |-> i, skill |-> records[i].skill,
           status |-> IF records[i].status = "ok" THEN "done" ELSE "error"]]

Answered == pc = "over" /\ cause = "none"

\* What the message tells of dispatch i: its event, and what was shown of it.
Told(i)      == <<Event(i)>> \o [j \in DOMAIN Shown(i) |-> Kept(Shown(i)[j].value)]
Joined(s, t) == s \o t

\* The message that a reload shows is the turn in the order it happened: each
\* dispatch's one event, in the state the run log gives it, then the parts the
\* wire showed for it, and last the answer, in the text part it follows if it
\* follows one; a turn that failed keeps the same without an answer.
MessageFollowsTheTurn ==
  LET body == FoldLeft(Joined, <<>>, [i \in 1 .. Started |-> Told(i)])
      n    == Len(body)
  IN  transcript =
        CASE ~ Answered -> body
          [] Answered /\ n > 0 /\ body[n].kind = "text" ->
               SubSeq(body, 1, n - 1) \o <<[kind |-> "text", value |-> Append(body[n].value, Text)]>>
          [] OTHER -> Append(body, [kind |-> "text", value |-> <<Text>>])

\* core/chat/orchestrator.py:766-769 says of a dispatch that streams, fails and
\* is retried: "the retry now succeeds, and its streamed part reaches the wire
\* once".  A skill that fails after it has streamed (its PDF cannot be stored)
\* is retried with nothing known of what is on the wire.
RetryShowsPartsOnce ==
  \A s \in Skills :
    records = <<[skill |-> s, status |-> "error"], [skill |-> s, status |-> "ok"]>> =>
      \A m, n \in DOMAIN frames : frames[m].name = "part" /\ frames[m] = frames[n] => m = n
=============================================================================
