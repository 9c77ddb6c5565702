---------------------------- MODULE ModelRequests ----------------------------
(***************************************************************************)
(* What the agent loop sends a model and reads of its answers: run_turn of *)
(* core/llm/loop.py, the two providers (bedrock.py, messages_api.py) and   *)
(* the check of skill ids when the registry is loaded.  RouterTurn has the *)
(* same loop as the user sees it; here it is the conversation with the     *)
(* model, in its own blocks and under its own names.                       *)
(*                                                                         *)
(* The loop's blocks are Bedrock's.  A block on the wire has the kinds of  *)
(* its provider; a skill id is the sequence of its characters.             *)
(***************************************************************************)
EXTENDS Integers, Sequences, FiniteSets, SequencesExt

CONSTANTS
  SkillSets,     \* what a deployment may try to register: sets of ids
  Internal,      \* ids of skills that no router may dispatch
  Providers,     \* of {"bedrock", "messages", "missing"}; the last is not registered
  Contents,      \* the blocks of a model's answer that asks for tools: [kind, ...]
  Results,       \* what a skill may return: sequences of parts [kind, size]
  RoundCap,      \* max_iterations
  ShownRows,     \* RESULT_CONTENT_MAX_ROWS
  ShownLines     \* RESULT_CONTENT_MAX_CHARS, in lines

VARIABLES
  skills,    \* the registered ids
  provider,
  phase,     \* "ask", "dispatch" or "over"
  rounds,    \* bound by RoundCap: the calls of the provider
  history,   \* messages after the window, in the loop's blocks
  body,      \* the messages of the last request, in the provider's
  heard,     \* the provider's blocks of every answer that asked for tools
  calls,     \* the calls of the last answer
  blocks,    \* result_blocks
  corrected, \* spent_corrections
  done,      \* every dispatch: [call, skill, ok, parts]
  ended      \* TurnResult: [status, problem]

askVars     == <<history, body, heard, rounds>>
toolVars    == <<calls, blocks, corrected, done>>
requestVars == <<skills, provider, phase, askVars, toolVars, ended>>

-----------------------------------------------------------------------------
(* Names.                                                                   *)
\* "." becomes "__".
ToWire(name) ==
  FlattenSeq([i \in DOMAIN name |-> IF name[i] = "." THEN <<"_", "_">> ELSE <<name[i]>>])

\* "__" becomes ".", from the left.
FromWire(wire) ==
  LET take(read, c) ==
        IF c = "_" /\ read # << >> /\ Last(read) = "_"
        THEN Append(SubSeq(read, 1, Len(read) - 1), ".") ELSE Append(read, c)
  IN  FoldLeft(take, << >>, wire)

\* Mutant: that no two ids have one name on the wire is enough.
Distinct(ids) == \A a, b \in ids : ToWire(a) = ToWire(b) => a = b

CheckBedrockSafeNames(ids) ==
  /\ \A a, b \in ids : ToWire(a) = ToWire(b) => a = b
  /\ \A a \in ids : FromWire(ToWire(a)) = a

-----------------------------------------------------------------------------
(* Blocks.                                                                  *)
ToolUse(id, name)          == [kind |-> "toolUse", id |-> id, name |-> name]
ToolResult(id, ok, content) == [kind |-> "toolResult", id |-> id, ok |-> ok, content |-> content]

Reasoning == {"reasoningContent", "thinking", "redacted_thinking"}
Calls     == {"toolUse", "tool_use"}
IsCall(b) == b.kind \in Calls

\* The loop's block as the provider's, and the other way.
BuildBlock(b) ==
  IF provider = "bedrock" THEN IF IsCall(b) THEN [b EXCEPT !.name = ToWire(@)] ELSE b
  ELSE IF b.kind = "toolUse" THEN [kind |-> "tool_use", id |-> b.id, name |-> ToWire(b.name)]
  ELSE IF b.kind = "toolResult"
  THEN [kind |-> "tool_result", id |-> b.id, ok |-> b.ok, content |-> b.content]
  ELSE IF b.of = "redacted" THEN [kind |-> "redacted_thinking", data |-> b.data]
  ELSE [kind |-> "thinking", data |-> b.data]

NormalizeBlock(b) ==
  IF IsCall(b) THEN ToolUse(b.id, FromWire(b.name))
  ELSE IF provider = "bedrock" THEN b
  ELSE [kind |-> "reasoningContent", data |-> b.data,
        of |-> IF b.kind = "thinking" THEN "text" ELSE "redacted"]

\* The blocks of some kinds, as the loop knows them.
Convert(content, kinds) ==
  LET kept == SelectSeq(content, LAMBDA b : b.kind \in kinds)
  IN  [i \in DOMAIN kept |-> NormalizeBlock(kept[i])]

\* The answer's reasoning as it was, then its calls.
AssistantToolUseMessage(content) ==
  [role |-> "assistant", content |-> Convert(content, Reasoning) \o Convert(content, Calls)]

BuildMessages(messages) ==
  [i \in DOMAIN messages |->
     [messages[i] EXCEPT !.content = [j \in DOMAIN @ |-> BuildBlock(@[j])]]]

-----------------------------------------------------------------------------
(* What the model reads of a result: lines, capped twice.                   *)
Line(part, what, n) == [part |-> part, what |-> what, n |-> n]
Truncated == Line(0, "truncated", 0)

PartContent(i, p) ==
  LET counted == p.kind \in {"table", "metric_grid"}
      shown   == IF counted /\ p.size > ShownRows THEN ShownRows ELSE p.size
  IN  <<Line(i, p.kind, p.size)>> \o [n \in 1 .. shown |-> Line(i, "row", n)]
      \o (IF shown < p.size THEN <<Line(i, "more", p.size)>> ELSE << >>)

Capped(lines) ==
  IF Len(lines) <= ShownLines THEN lines ELSE Append(SubSeq(lines, 1, ShownLines), Truncated)

ResultContent(parts) ==
  Capped(<<Line(0, "digest", 0), Line(0, "header", Len(parts))>>
         \o FlattenSeq([i \in DOMAIN parts |-> PartContent(i, parts[i])]))

-----------------------------------------------------------------------------
RequestInit ==
  /\ skills \in {s \in SkillSets : CheckBedrockSafeNames(s)}
  /\ provider \in Providers
  /\ phase = "ask" /\ rounds = 0
  /\ history = << >> /\ body = << >> /\ heard = << >>
  /\ calls = << >> /\ blocks = << >> /\ corrected = {} /\ done = << >>
  /\ ended = [status |-> "running", problem |-> 0]

End(status, problem) ==
  /\ phase' = "over"
  /\ ended' = [status |-> status, problem |-> problem]

Request ==
  /\ phase = "ask" /\ rounds < RoundCap /\ provider # "missing"
  /\ rounds' = rounds + 1
  /\ body' = BuildMessages(history)
  /\ UNCHANGED <<skills, provider, history, toolVars>>

\* RoleClient finds no provider, or the provider no credentials: run_turn is left by it.
RequestRaises ==
  /\ phase = "ask" /\ rounds < RoundCap
  /\ End("raised", 0)
  /\ UNCHANGED <<skills, provider, askVars, toolVars>>

\* Every stop but tool_use and a refusal is a text.
AnsweredByText ==
  /\ Request
  /\ End("ok", 0)
  /\ UNCHANGED heard

\* A blank text, a refusal, an HTTP error, or a body that cannot be read.
AnsweredByError ==
  /\ Request
  /\ End("error", 502)
  /\ UNCHANGED heard

OnTheWire(content) ==
  \A i \in DOMAIN content :
    content[i].kind \in (IF provider = "bedrock" THEN {"toolUse", "reasoningContent", "text"}
                         ELSE {"tool_use", "thinking", "redacted_thinking", "text"})

AnsweredByTools ==
  /\ phase = "ask" /\ rounds < RoundCap /\ provider # "missing"
  /\ \E content \in {c \in Contents : OnTheWire(c)} :
       /\ heard' = Append(heard, content)
       /\ calls' = Convert(content, Calls)
       /\ IF calls' = << >> THEN End("error", 502)
          ELSE phase' = "dispatch" /\ UNCHANGED ended
  /\ rounds' = rounds + 1
  /\ body' = BuildMessages(history)
  /\ blocks' = << >>
  /\ UNCHANGED <<skills, provider, history, corrected, done>>

RoundsAreOver ==
  /\ phase = "ask" /\ rounds = RoundCap
  /\ End("error", 500)
  /\ UNCHANGED <<skills, provider, askVars, toolVars>>

\* The call of the response that is next.
Call == calls[Len(blocks) + 1]
Dispatchable == skills \ Internal

\* When all the calls have their result, the round goes into the messages.
Answer(ok, parts) ==
  LET content == IF ok THEN ResultContent(parts) ELSE <<Line(0, "problem", 0)>>
      all     == Append(blocks, ToolResult(Call.id, ok, content))
  IN  /\ done' = Append(done, [round |-> rounds, id |-> Call.id, skill |-> Call.name, ok |-> ok, parts |-> parts])
      /\ blocks' = all
      /\ IF Len(all) = Len(calls)
         THEN /\ history' = history \o <<AssistantToolUseMessage(Last(heard)),
                                         [role |-> "user", content |-> all]>>
              /\ phase' = "ask"
         ELSE UNCHANGED <<history, phase>>

DispatchOk ==
  /\ phase = "dispatch" /\ Call.name \in Dispatchable
  /\ \E parts \in Results : Answer(TRUE, parts)
  /\ UNCHANGED <<skills, provider, rounds, body, heard, calls, corrected, ended>>

\* An internal skill (403), a name of no skill (404), or a skill that fails: told to the
\* model the first time.
DispatchFails ==
  /\ phase = "dispatch" /\ Call.name \notin corrected
  /\ Answer(FALSE, << >>)
  /\ corrected' = corrected \union {Call.name}
  /\ UNCHANGED <<skills, provider, rounds, body, heard, calls, ended>>

FailsAgain ==
  /\ phase = "dispatch" /\ Call.name \in corrected
  /\ done' = Append(done, [round |-> rounds, id |-> Call.id, skill |-> Call.name, ok |-> FALSE, parts |-> << >>])
  /\ End("error", 500)
  /\ UNCHANGED <<skills, provider, askVars, calls, blocks, corrected>>

RequestNext ==
  \/ RequestRaises \/ AnsweredByText \/ AnsweredByError \/ AnsweredByTools \/ RoundsAreOver
  \/ DispatchOk \/ DispatchFails \/ FailsAgain

-----------------------------------------------------------------------------
DoneIn(round) == SelectSeq(done, LAMBDA d : d.round = round)

\* Nothing of a result is left out without a line that says so.
WholeOrMarked(content, parts) ==
  \/ Last(content) = Truncated
  \/ \A i \in DOMAIN parts : \A n \in 1 .. parts[i].size :
       \/ Line(i, "row", n) \in ToSet(content)
       \/ n > ShownRows /\ Line(i, "more", parts[i].size) \in ToSet(content)

\* A request repeats every round as the provider must see it: its own reasoning blocks
\* untouched and before its calls, the calls under the ids and names it gave, then in one
\* message a result for each, in their order, marked failed when its skill failed, and whole
\* or marked as cut; and the skill that ran is the one whose name the model called
\* (loop.run_turn, _capped, bedrock.py, messages_api.py, registry._check_bedrock_safe_names).
ConversationIsFaithful ==
  /\ \A r \in 1 .. Len(body) \div 2 :
       LET said   == body[2 * r - 1]
           told   == body[2 * r]
           asked  == SelectSeq(heard[r], IsCall)
           ran    == DoneIn(r)
       IN  /\ said.role = "assistant" /\ told.role = "user"
           /\ said.content = SelectSeq(heard[r], LAMBDA b : b.kind \in Reasoning) \o asked
           /\ Len(told.content) = Len(asked) /\ Len(ran) = Len(asked)
           /\ \A i \in DOMAIN asked :
                /\ told.content[i].id = asked[i].id /\ ran[i].id = asked[i].id
                /\ told.content[i].ok = ran[i].ok
                /\ ran[i].ok => WholeOrMarked(told.content[i].content, ran[i].parts)
  /\ \A r \in DOMAIN heard :
       LET asked == SelectSeq(heard[r], IsCall)
       IN  \A i \in DOMAIN DoneIn(r) :
             \A s \in skills : ToWire(s) = asked[i].name => DoneIn(r)[i].skill = s
=============================================================================
