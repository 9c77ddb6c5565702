---------------------------- MODULE CustomerBrief ----------------------------
(***************************************************************************)
(* The briefs of a customer and of a prospect: the certified data that is  *)
(* shown at once, the three phases (for a customer the first two run in    *)
(* threads of their own), the research of the Perplexity tools, and the    *)
(* PDF of the whole.                                                       *)
(*                                                                         *)
(* A part is the place it belongs to and what it shows.                    *)
(***************************************************************************)
EXTENDS Integers, Sequences, FiniteSets, SequencesExt, TLC

CONSTANTS
  Kinds,       \* of {"existing", "prospect"}
  Settings,    \* [llm, transport, artifacts, live]: the model ("stub", "none", "live"), the
               \* tools ("none", "direct", "mcp", "fixture"), is there a store, is there a sink
  MaxItems     \* bound: items of one answer

ASSUME BriefAssumption ==
  /\ Kinds \subseteq {"existing", "prospect"}
  /\ Settings \subseteq [llm : {"stub", "none", "live"}, transport : {"none", "direct", "mcp", "fixture"},
                         artifacts : BOOLEAN, live : BOOLEAN]
  /\ MaxItems \in Nat

Searches(kind) ==
  IF kind = "existing" THEN <<"sustainability", "market_position", "strategic_profile">>
  ELSE <<"operational_profile", "web_research">>

VARIABLES
  env, kind,
  newYear,     \* is today the first of January
  at,          \* where the skill is
  parts,       \* what it has collected
  emitted,     \* what reached the sink
  context,     \* contextualize: [state, text]; state is "idle", "runs", "done" or "raised"
  research,    \* research: [state, sections]
  strategy,    \* [state, text, read]: what the strategist was given
  brief        \* the skill's result

placeVars == <<env, kind, newYear>>
workVars  == <<context, research, strategy>>
briefVars == <<placeVars, at, parts, emitted, workVars, brief>>

Part(place, shows) == [place |-> place, shows |-> shows]
Failure == "unavailable"
Stub    == "stub"
Existing == kind = "existing"

Idle     == [state |-> "idle", text |-> ""]
IdleResearch == [state |-> "idle", sections |-> << >>]
IdleStrategy == [state |-> "idle", text |-> "", read |-> << >>]
Unfinished == [ok |-> FALSE, status |-> 0]

BriefInit ==
  /\ env \in Settings /\ kind \in Kinds /\ newYear \in BOOLEAN
  /\ at = "start" /\ parts = << >> /\ emitted = << >>
  /\ context = Idle /\ research = IdleResearch /\ strategy = IdleStrategy
  /\ brief = Unfinished

\* parts.extend, and each to the sink if there is one.
Show(new) ==
  /\ parts' = parts \o new
  /\ emitted' = IF env.live THEN emitted \o new ELSE emitted

-----------------------------------------------------------------------------
(* An answer of the research API, and what search makes of it.  A JSON text *)
(* may be cut short: in a place where closing what is open makes it one     *)
(* again, or in one where nothing does.                                     *)
Json(form, object, items, summary) ==
  [form |-> form, object |-> object, items |-> items, summary |-> summary]
NoList == -1
Texts == {Json(f, o, n, s) : f \in {"whole", "closed", "broken"}, o \in BOOLEAN,
                             n \in {NoList} \union 0 .. MaxItems, s \in BOOLEAN}
Trouble == {"timeout", "status", "envelope"}

Section(title, degraded, reason, items, summary) ==
  [title |-> title, degraded |-> degraded, reason |-> reason, items |-> items, summary |-> summary]
Degraded(title, reason) == Section(title, TRUE, reason, 0, FALSE)

\* validate_and_normalize: an object with a list of items; the summary may be missing.
Normalized(title, text) ==
  IF text.form = "broken" THEN Degraded(title, "parse")
  ELSE IF ~text.object \/ text.items = NoList THEN Degraded(title, "schema")
  ELSE Section(title, FALSE, "", text.items, text.summary)

DirectAnswers(title) ==
  {Degraded(title, t) : t \in Trouble} \union {Normalized(title, t) : t \in Texts}

\* No wire is configured for the MCP client: every call of it is a wire error.
McpAnswers(title) == {Degraded(title, "wire")}

\* A recorded answer, if there is one, read like one that came.
FixtureAnswers(title) ==
  {Degraded(title, t) : t \in {"no fixture", "envelope"}} \union {Normalized(title, t) : t \in Texts}

SearchAnswers(title) ==
  CASE env.transport = "direct"  -> DirectAnswers(title)
    [] env.transport = "mcp"     -> McpAnswers(title)
    [] env.transport = "fixture" -> FixtureAnswers(title)

AllDegraded(reason) ==
  LET calls == Searches(kind) IN [i \in DOMAIN calls |-> Degraded(calls[i], reason)]

-----------------------------------------------------------------------------
(* The start: the certified data of a customer.                             *)
BriefEnds(status) ==
  /\ at' = "over"
  /\ brief' = [ok |-> FALSE, status |-> status]
  /\ UNCHANGED <<placeVars, workVars>>

RefuseDate ==
  /\ at = "start" /\ Existing /\ newYear
  /\ BriefEnds(422)
  /\ UNCHANGED <<parts, emitted>>

\* A query fails: nothing has been shown.
FetchFails ==
  /\ at = "start" /\ Existing /\ ~newYear
  /\ BriefEnds(500)
  /\ UNCHANGED <<parts, emitted>>

ContextStarts == context' = [Idle EXCEPT !.state = "runs"]
ResearchStarts == research' = [IdleResearch EXCEPT !.state = "runs"]

\* The data is shown before the two phases start, side by side.
FetchData ==
  /\ at = "start" /\ Existing /\ ~newYear
  /\ Show(<<Part("metrics", "data"), Part("ports", "data")>>)
  /\ at' = "joining"
  /\ ContextStarts /\ ResearchStarts
  /\ UNCHANGED <<placeVars, strategy, brief>>

StartResearch ==
  /\ at = "start" /\ ~Existing
  /\ ResearchStarts
  /\ at' = "research"
  /\ UNCHANGED <<placeVars, parts, emitted, context, strategy, brief>>

-----------------------------------------------------------------------------
(* The phases.                                                              *)
Synthesis == CASE env.llm = "stub" -> {Stub} [] env.llm = "none" -> {Failure} [] OTHER -> {"text", Failure}

Contextualize ==
  /\ context.state = "runs"
  /\ \E text \in Synthesis : context' = [state |-> "done", text |-> text]
  /\ UNCHANGED <<placeVars, at, parts, emitted, research, strategy, brief>>

ContextRaises ==
  /\ context.state = "runs" /\ env.llm = "live"
  /\ context' = [state |-> "raised", text |-> ""]
  /\ UNCHANGED <<placeVars, at, parts, emitted, research, strategy, brief>>

NoTools ==
  /\ research.state = "runs" /\ env.transport = "none"
  /\ research' = [state |-> "done", sections |-> AllDegraded("no tools")]
  /\ UNCHANGED <<placeVars, at, parts, emitted, context, strategy, brief>>

\* One of its calls, in their order.
Search ==
  /\ research.state = "runs" /\ env.transport # "none"
  /\ LET calls == Searches(kind)
         n == Len(research.sections) + 1
     IN  \E answer \in SearchAnswers(calls[n]) :
           research' = [state |-> IF n = Len(calls) THEN "done" ELSE "runs",
                        sections |-> Append(research.sections, answer)]
  /\ UNCHANGED <<placeVars, at, parts, emitted, context, strategy, brief>>

\* No connection, or a body that is no JSON: nothing catches it in there,
\* and what the other calls brought is lost with it.
ResearchRaises ==
  /\ research.state = "runs" /\ env.transport = "direct"
  /\ research' = [state |-> "raised", sections |-> << >>]
  /\ UNCHANGED <<placeVars, at, parts, emitted, context, strategy, brief>>

\* _run_subskill_or_failed: what a phase raised is its failed result.
ContextText == IF context.state = "raised" THEN Failure ELSE context.text
Sections == IF research.state = "raised" THEN AllDegraded("raised") ELSE research.sections
ContextParts  == <<Part("context", ContextText)>>
ResearchParts == [i \in DOMAIN Sections |-> Part(Sections[i].title, Sections[i])]
Finished == {"done", "raised"}

\* Mutant: the parts of the two phases come in the order in which they finished.
JoinAsTheyFinish ==
  /\ at = "joining"
  /\ context.state \in Finished /\ research.state \in Finished
  /\ Show(IF research.state = "done" /\ context.state = "raised" THEN ResearchParts \o ContextParts
          ELSE ContextParts \o ResearchParts)
  /\ strategy' = [IdleStrategy EXCEPT !.state = "runs"]
  /\ at' = "strategy"
  /\ UNCHANGED <<placeVars, context, research, brief>>

\* Whichever of the two was first.
Join ==
  /\ at = "joining"
  /\ context.state \in Finished /\ research.state \in Finished
  /\ Show(ContextParts \o ResearchParts)
  /\ strategy' = [IdleStrategy EXCEPT !.state = "runs"]
  /\ at' = "strategy"
  /\ UNCHANGED <<placeVars, context, research, brief>>

\* A prospect's phases are one after another; the context is written from the research.
ShowResearch ==
  /\ at = "research" /\ research.state \in Finished
  /\ Show(ResearchParts)
  /\ ContextStarts
  /\ at' = "context"
  /\ UNCHANGED <<placeVars, research, strategy, brief>>

ShowContext ==
  /\ at = "context" /\ context.state \in Finished
  /\ Show(ContextParts)
  /\ strategy' = [IdleStrategy EXCEPT !.state = "runs"]
  /\ at' = "strategy"
  /\ UNCHANGED <<placeVars, context, research, brief>>

Reads == <<ContextText, Sections>>

Strategize ==
  /\ at = "strategy"
  /\ \E text \in Synthesis \union (IF env.llm = "live" THEN {"raised"} ELSE {}) :
       LET shown == IF text = "raised" THEN Failure ELSE text
       IN  /\ strategy' = [state |-> "done", text |-> shown, read |-> Reads]
           /\ Show(<<Part("crm", shown)>>)
  /\ at' = "proof"
  /\ UNCHANGED <<placeVars, context, research, brief>>

-----------------------------------------------------------------------------
(* The end.                                                                 *)
FailedPhases ==
  {p \in {"contextualize", "research", "strategize"} :
     CASE p = "contextualize" -> ContextText = Failure
       [] p = "research" -> \A i \in DOMAIN Sections : Sections[i].degraded
       [] OTHER -> strategy.text = Failure}

\* What has been shown stays; the result has none of it.
PdfFails ==
  /\ at = "proof" /\ env.artifacts
  /\ BriefEnds(500)
  /\ UNCHANGED <<parts, emitted>>

FinishBrief ==
  /\ at = "proof"
  /\ at' = "over"
  /\ brief' = [ok |-> TRUE, status |-> 200, parts |-> parts, failed |-> FailedPhases,
               pdf |-> IF env.artifacts THEN parts ELSE << >>]
  /\ UNCHANGED <<placeVars, parts, emitted, workVars>>

BriefNext ==
  \/ RefuseDate \/ FetchFails \/ FetchData \/ StartResearch
  \/ Contextualize \/ ContextRaises \/ NoTools \/ Search \/ ResearchRaises
  \/ Join \/ ShowResearch \/ ShowContext \/ Strategize
  \/ PdfFails \/ FinishBrief

BriefSpec == BriefInit /\ [][BriefNext]_briefVars

-----------------------------------------------------------------------------
\* The places of a brief, in their order.
Plan ==
  IF Existing THEN <<"metrics", "ports", "context">> \o Searches("existing") \o <<"crm">>
  ELSE Searches("prospect") \o <<"context", "crm">>

PartAt(place) == parts[CHOOSE i \in DOMAIN parts : parts[i].place = place].shows

\* Whatever fails, raises or finishes first, what a user sees of a brief is at every moment a
\* beginning of one fixed sequence of sections, each once.  A brief that succeeds returned,
\* streamed and printed all of it; the strategist read exactly the context and the research
\* that are shown; and the phases the proof calls failed are those whose sections say so.
\* (existing_customer_brief and new_prospect_brief, their subskills, build_brief_pdf).
BriefIsWhole ==
  /\ \A i \in DOMAIN parts : i <= Len(Plan) /\ parts[i].place = Plan[i]
  /\ env.live => emitted = parts
  /\ brief.ok =>
       LET calls == Searches(kind)
           found == [i \in DOMAIN calls |-> PartAt(calls[i])]
       IN  /\ Len(parts) = Len(Plan) /\ brief.parts = parts /\ brief.pdf \in {parts, << >>}
           /\ strategy.read = <<PartAt("context"), found>>
           /\ brief.failed = {p \in {"contextualize", "research", "strategize"} :
                CASE p = "contextualize" -> PartAt("context") = Failure
                  [] p = "strategize"    -> PartAt("crm") = Failure
                  [] OTHER -> \A i \in DOMAIN calls : found[i].degraded}
=============================================================================
