------------------------------ MODULE TurnStream ------------------------------
(***************************************************************************)
(* What the two web clients make of the frames of a turn: the fold of the  *)
(* chat store (frontend/src/state/chatStore.ts), and the Next.js tier's    *)
(* translation into UI chunks (web/src/lib/turn-stream.ts and its route).  *)
(*                                                                         *)
(* A frame has a name and, for a tool, the tool's number.  A part keeps the*)
(* positions of the frames its content came from.                          *)
(***************************************************************************)
EXTENDS Integers, SequencesExt, FiniteSetsExt

Frame(name, tool) == [name |-> name, tool |-> tool]
Terminals == {"done", "error"}
Names == {"accepted", "phase", "token", "tool", "part"} \union Terminals
Frames == [name : Names, tool : Nat]

Part(kind, tool, body) == [kind |-> kind, tool |-> tool, body |-> body]

IsTool(part, tool) == part.kind = "tool" /\ part.tool = tool

\* applyEventTo, on the parts of the message the n-th frame names.
ApplyFrame(parts, frame, n) ==
  LET tools == {i \in DOMAIN parts : IsTool(parts[i], frame.tool)}
      last == Len(parts)
  IN  CASE frame.name = "tool" /\ tools # {} ->
             [parts EXCEPT ![Min(tools)] = Part("tool", frame.tool, <<n>>)]
        [] frame.name = "token" /\ parts # << >> /\ Last(parts).kind = "text" ->
             [parts EXCEPT ![last].body = Append(@, n)]
        [] frame.name = "token" /\ ~(parts # << >> /\ Last(parts).kind = "text") ->
             Append(parts, Part("text", 0, <<n>>))
        [] frame.name \in {"part", "error"} \/ (frame.name = "tool" /\ tools = {}) ->
             Append(parts, Part(frame.name, frame.tool, <<n>>))
        [] OTHER -> parts

\* The message of the frames of a turn; the server's transcript follows the same rules (RouterTurn).
Numbered(frames) == [n \in DOMAIN frames |-> [frame |-> frames[n], n |-> n]]
ApplyNumbered(parts, x) == ApplyFrame(parts, x.frame, x.n)
Recorded(frames) == FoldLeft(ApplyNumbered, << >>, Numbered(frames))

-----------------------------------------------------------------------------
(* createFrameTranslator *)
Chunk(type, id) == [type |-> type, id |-> id]
Translator == [open |-> 0, runs |-> 0, finished |-> FALSE, out |-> << >>]

\* Mutant: a text run is closed by the frames that add a part only.
CloseTextBeforeParts(tr, name) ==
  IF tr.open = 0 \/ name \notin {"tool", "part"} THEN tr
  ELSE [tr EXCEPT !.open = 0, !.out = Append(@, Chunk("text-end", tr.open))]

CloseText(tr, name) ==
  IF tr.open = 0 THEN tr
  ELSE [tr EXCEPT !.open = 0, !.out = Append(@, Chunk("text-end", tr.open))]

TranslateToken(tr) ==
  LET run == IF tr.open = 0 THEN tr.runs + 1 ELSE tr.open
      start == IF tr.open = 0 THEN <<Chunk("text-start", run)>> ELSE << >>
  IN  [tr EXCEPT !.open = run, !.runs = IF tr.open = 0 THEN run ELSE @,
                 !.out = @ \o start \o <<Chunk("text-delta", run)>>]

Translate(tr, frame) ==
  LET closed == CloseText(tr, frame.name)
      data == CASE frame.name = "accepted" -> <<Chunk("start", 0)>>
                [] frame.name = "done" -> <<Chunk("finish", 0)>>
                [] frame.name = "error" -> <<Chunk("data", 0), Chunk("finish", 0)>>
                [] OTHER -> <<Chunk("data", frame.tool)>>
  IN  IF frame.name = "token" THEN TranslateToken(tr)
      ELSE [closed EXCEPT !.finished = @ \/ frame.name \in Terminals, !.out = @ \o data]

\* end(): a stream without a terminal frame closes its text and ends in an error chunk.
EndOfStream(tr) ==
  LET closed == CloseText(tr, "end")
  IN  IF tr.finished THEN tr
      ELSE [closed EXCEPT !.finished = TRUE, !.out = Append(@, Chunk("error", 0))]

\* The route: translate what was read; a read that fails ends in one error chunk as it is.
Relay(frames, interrupted) ==
  LET read == FoldLeft(Translate, Translator, frames)
  IN  IF interrupted THEN Append(read.out, Chunk("error", 0)) ELSE EndOfStream(read).out
=============================================================================
