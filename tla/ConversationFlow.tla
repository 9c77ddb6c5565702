-------------------------- MODULE ConversationFlow --------------------------
(***************************************************************************)
(* The flows a turn of a conversation may take: execute_turn and its       *)
(* branches (core/chat/orchestrator.py), the monthly report flow           *)
(* (core/chat/report_flow.py) and the state they keep between turns        *)
(* (DbStateStore, core/chat/history.py; core/chat/state.py).  Several tabs *)
(* may send at once; what all turns share (index, run row, frames) is      *)
(* ChatTurn's.                                                             *)
(*                                                                         *)
(* A tab sees the terminal frame of its turn only when execute_turn has    *)
(* returned or failed, since live_chat holds the done frame back.          *)
(***************************************************************************)
EXTENDS Parsing

CONSTANTS
  Tabs,
  Texts,        \* what users type on their own
  Offices,      \* per perspective but "book", its sequence of offices
  Months,       \* list_months: first days of months with data
  Days,         \* the reference dates, in order
  Histories,    \* slots and brief_done a conversation may have come to before
  RouterRuns,   \* the tool records a routed turn may end with
  MaxTurns,     \* bound: turns
  MaxFaults     \* bound: failing writes and restarts

NoTab == "no tab"

VARIABLES
  slots,      \* conversations.state.slots
  briefDone,  \* conversations.state.brief_done
  today,      \* position in Days
  turn,       \* per tab, the turn its server thread is at
  screen,     \* per tab, what its last terminal frame asked for, and the chips with it
  sent, faults,
  alone,      \* history: busy tabs whose turn has met no other
  current,    \* history: the tab whose screen is the last word of the conversation
  handled,    \* history: per tab, what its turn answered and what its screen had asked
  dispatched  \* history: the slots the last report was made from

vars == <<slots, briefDone, today, turn, screen, sent, faults, alone, current, handled, dispatched>>

Perspectives == {"customer", "supplier", "book"}
BriefModes   == {"existing_customer", "new_prospect"}

EmptySlots ==
  [customer |-> NoName, port |-> NoName, a |-> NoDay, aEnd |-> NoDay, b |-> NoDay,
   bEnd |-> NoDay, mode |-> "default", perspective |-> "none", column |-> "none",
   office |-> "none", report |-> FALSE, passThrough |-> "none"]

OfficeColumn(p) == IF p = "book" THEN "none" ELSE p

\* What users send, and the slots a turn leaves: days no earlier than the year before all that can
\* be written, names of the data, an office of its column.
IsText(x) ==
  /\ DOMAIN x = DOMAIN Blank /\ x.entry \in BriefModes \union {"none", "report"}
  /\ x.perspective \in Perspectives \union {"none"}
  /\ IsSide(x.left) /\ IsSide(x.right)

FirstDay == Day(1899, 1, 1)
Dated(a, aEnd) == a \in Nat /\ aEnd \in Nat /\ (a # NoDay => a >= FirstDay)

AreSlots(s) ==
  /\ DOMAIN s = DOMAIN EmptySlots /\ Dated(s.a, s.aEnd)
  /\ s.customer \in ToSet(CustomerNames) \union {NoName} /\ s.port \in ToSet(PortNames) \union {NoName}
  /\ s.perspective \in Perspectives \union {"none"} /\ s.column = OfficeColumn(s.perspective)
  /\ s.office # "none" => s.column # "none" /\ s.office \in ToSet(Offices[s.column])

ASSUME FlowAssumption ==
  /\ NoTab \notin Tabs /\ MaxTurns \in Nat /\ MaxFaults \in Nat
  /\ Days \in Seq(Nat) /\ Len(Days) > 0 /\ \A i, j \in DOMAIN Days : i < j => Days[i] < Days[j]
  /\ \A i \in DOMAIN Days : Year(Days[i]) \in Years
  /\ Months \subseteq Nat /\ \A m \in Months : OfMonth(m) = 1 /\ Year(m) \in Years
  /\ DOMAIN Offices = {"customer", "supplier"}
  /\ \A x \in Texts : IsText(x)
  /\ \A h \in Histories : AreSlots(h[1]) /\ h[2] \in BOOLEAN

ToPhrase(month) == Within(Phrase("monthyear", Year(month), Month(month), "start"), "none")

-----------------------------------------------------------------------------
(* The report flow *)
FlowSlotsReset(s) ==
  [s EXCEPT !.mode = "report", !.perspective = "none", !.column = "none",
            !.office = "none", !.report = FALSE]

StepFor(s) ==
  CASE s.perspective = "none" -> "perspective"
    [] s.perspective # "none" /\ OfficeColumn(s.perspective) # "none" /\ s.office = "none" -> "office"
    [] OTHER -> "month"

\* Mutant: the running month is offered too.
MonthChipsOfAll(day) ==
  {[Blank EXCEPT !.left = <<ToPhrase(m)>>] : m \in {x \in Months : x <= day}}

\* Months that have ended, the newest three, in the words that name them.
MonthChips(day) ==
  LET ended == {m \in Months : MonthWindow(Year(m), Month(m)).end <= day}
      newer(m) == {n \in ended : n > m}
  IN  {[Blank EXCEPT !.left = <<ToPhrase(m)>>] : m \in {x \in ended : Cardinality(newer(x)) < 3}}

OfficeChips(p) == {[Blank EXCEPT !.office = Offices[p][i]] : i \in DOMAIN Offices[p]}

StepChips(step, s, day) ==
  CASE step = "perspective" -> {[Blank EXCEPT !.perspective = p] : p \in Perspectives}
    [] step = "office" -> OfficeChips(s.perspective)
    [] OTHER -> MonthChips(day)

\* A month or why not, from the window the text names.
MonthOf(text, w, day) ==
  LET running == Day(Year(day), Month(day), 1)
      month == IF text.mtd THEN running ELSE w.start
      kind == IF month = running THEN "mtd" ELSE "complete"
      no(why) == [month |-> NoDay, kind |-> why]
  IN  IF ~text.mtd /\ (w = NoWindow \/ WindowKind(w) # "month") THEN no("unreadable")
      ELSE IF month > running THEN no("not complete")
      ELSE IF month = running /\ day = running THEN no("day one")
      ELSE IF month \notin Months THEN no("no data")
      ELSE [month |-> month, kind |-> kind]

\* resolve_month.
ResolveMonth(text, day) ==
  MonthOf(text, ParsePeriods(text.left, text.right, {}, EmptySlots, day, Available).a, day)

\* slots_after_report, from the windows the skill used.
SlotsAfterReport(s, periods) ==
  [s EXCEPT !.mode = "default", !.report = TRUE, !.passThrough = "report",
            !.a = periods.current.start, !.aEnd = periods.current.end,
            !.b = periods.prior.start, !.bEnd = periods.prior.end]

-----------------------------------------------------------------------------
(* What a branch decides: the slots it will write, the writes in order, the *)
(* question its reply asks, its chips, and the skill it must run first.     *)
NoChoice == [month |-> NoDay, kind |-> "none"]
Reply(asks, chips, next, writes) ==
  [asks |-> asks, chips |-> chips, next |-> next, writes |-> writes, skill |-> "none",
   choice |-> NoChoice, onFailure |-> "crash"]
Dispatch(skill, choice, next, writes) ==
  [asks |-> "free", chips |-> {}, next |-> next, writes |-> writes, skill |-> skill,
   choice |-> choice, onFailure |-> "swallow"]

\* Mutant: brief_done survives the entry.
FinishEntryKeepingDone(mode, s, day) ==
  IF mode = "report"
  THEN LET new == FlowSlotsReset(s)
       IN  Reply("perspective", StepChips("perspective", new, day), new, <<"put">>)
  ELSE Reply("subject", {}, [s EXCEPT !.mode = mode], <<"put">>)

\* _finish_entry.
FinishEntry(mode, s, day) ==
  IF mode = "report"
  THEN LET new == FlowSlotsReset(s)
       IN  Reply("perspective", StepChips("perspective", new, day), new, <<"put">>)
  ELSE Reply("subject", {},
             [IF s.mode = "report" THEN FlowSlotsReset(s) ELSE s EXCEPT !.mode = mode],
             <<"put", "clear brief_done">>)

\* Mutant: the prospect is carried like a customer.
FinishSubjectTurnCarrying(text, s) ==
  LET r == Resolve(text.subject, CustomerNames, TRUE)
      named == IF r.entity = NoName THEN text.subject ELSE r.entity
  IN  Dispatch("brief", NoChoice, [s EXCEPT !.customer = named], <<"set brief_done", "put">>)

\* _finish_subject_clarify: the customer is asked for again, without any write.
FinishSubjectClarify(candidates, s) ==
  Reply("subject", {[Blank EXCEPT !.subject = candidates[i]] : i \in DOMAIN candidates}, s, << >>)

\* _finish_subject_turn.
FinishSubjectTurn(text, s) ==
  LET r == Resolve(text.subject, CustomerNames, TRUE)
      writes == <<"set brief_done", "put">>
  IN  CASE s.mode = "new_prospect" -> Dispatch("prospect brief", NoChoice, s, writes)
        [] s.mode # "new_prospect" /\ r.entity = NoName ->
             FinishSubjectClarify(r.candidates, s)
        [] OTHER -> Dispatch("customer brief", NoChoice, [s EXCEPT !.customer = r.entity], writes)

\* _finish_report_step: a wrong answer is asked for again, without any write.
FinishReportStep(text, s, day) ==
  LET step == StepFor(s)
      again == Reply(step, StepChips(step, s, day), s, << >>)
      advance(new) == Reply(StepFor(new), StepChips(StepFor(new), new, day), new, <<"put">>)
      p == text.perspective
      report(choice) == IF choice.month = NoDay THEN again ELSE Dispatch("report", choice, s, <<"put">>)
  IN  CASE step = "perspective" ->
             IF p = "none" THEN again
             ELSE advance([s EXCEPT !.perspective = p, !.column = OfficeColumn(p)])
        [] step = "office" ->
             IF \E i \in DOMAIN Offices[s.column] : Offices[s.column][i] = text.office
             THEN advance([s EXCEPT !.office = text.office]) ELSE again
        [] OTHER -> report(ResolveMonth(text, day))

\* _select_clarify_issue, most urgent first.
SelectClarifyIssue(issues) ==
  LET some(kind, code) == {i \in issues : i.kind = kind /\ i.code = code}
      of(kind, code) == CHOOSE i \in some(kind, code) : TRUE
  IN  IF some("customer", "ambiguous") # {} THEN of("customer", "ambiguous")
      ELSE IF some("port", "ambiguous") # {} THEN of("port", "ambiguous")
      ELSE IF some("port", "unknown") # {} THEN of("port", "unknown")
      ELSE IF some("dimension", "unspecified") # {} THEN of("dimension", "unspecified")
      ELSE NoIssue

\* _rewrite_for_chip: the text with the phrase replaced, or the short form.
ChipText(text, issue, name) ==
  LET runs == {i \in DOMAIN text.runs : text.runs[i].words = issue.phrase}
      cues == {i \in DOMAIN text.cues : issue.phrase \in {Options(text.cues[i])[j] :
                                          j \in DOMAIN Options(text.cues[i])}}
  IN  IF text.quoted = issue.phrase THEN [text EXCEPT !.quoted = name]
      ELSE IF runs # {} THEN [text EXCEPT !.runs[CHOOSE i \in runs : TRUE].words = name]
      ELSE IF cues # {} THEN [text EXCEPT !.cues[CHOOSE i \in cues : TRUE] = Cue(@.cue, TRUE, name)]
      ELSE IF issue.kind = "port" THEN [Blank EXCEPT !.cues = <<Cue("port of", TRUE, name)>>]
      ELSE [Blank EXCEPT !.runs = <<Run(name, 0)>>]

\* _finish_clarify; unlike the other questions this one stores what was parsed.
FinishClarify(text, issue, parsed) ==
  LET chips == IF issue.kind = "dimension" THEN {Blank}
               ELSE {ChipText(text, issue, issue.candidates[i]) : i \in DOMAIN issue.candidates}
  IN  Reply(issue.kind, chips, parsed, <<"put">>)

\* query_builder.TIME_BUCKETS: what a table is grouped by that is no dimension.
TimeBuckets == {"month", "quarter", "year"}

\* frame_breakdown: the bucket's column leads, then the dimensions in the order asked for.
TableColumns(groupBy) ==
  SelectSeq(groupBy, LAMBDA c : c \in TimeBuckets)
    \o SelectSeq(groupBy, LAMBDA c : c \notin TimeBuckets)

\* _pass_through_column: the table's first column that is no time bucket; 0 when it has none.
PassThroughColumn(groupBy) ==
  IF ToSet(groupBy) \subseteq TimeBuckets THEN 0
  ELSE IF ToSet(groupBy) \intersect TimeBuckets # {} THEN 2 ELSE 1

\* _repopulate_pass_through: that column of the last table over a dimension.
RepopulatePassThrough(s, records) ==
  LET useful == SelectSeq(records, LAMBDA r : PassThroughColumn(r.groupBy) # 0 /\ r.table)
      last == useful[Len(useful)]
  IN  IF useful = << >> THEN s
      ELSE [s EXCEPT !.passThrough = TableColumns(last.groupBy)[PassThroughColumn(last.groupBy)]]

\* The rest of execute_turn: clarify, or route the turn to tools.
FinishDefault(text, parsed, records) ==
  LET issue == SelectClarifyIssue(parsed.issues)
  IN  IF issue # NoIssue THEN FinishClarify(text, issue, parsed.slots)
      ELSE Dispatch("router", NoChoice, RepopulatePassThrough(parsed.slots, records), <<"put">>)

-----------------------------------------------------------------------------
Idle == [pc |-> "idle", text |-> Blank, prior |-> EmptySlots, flow |-> "none",
         reply |-> Reply("free", {}, EmptySlots, << >>), windows |-> << >>,
         stored |-> TRUE]

Init ==
  /\ \E h \in Histories \union {<<EmptySlots, FALSE>>} : slots = h[1] /\ briefDone = h[2]
  /\ today = 1
  /\ turn = [t \in Tabs |-> Idle]
  /\ screen = [t \in Tabs |-> [asks |-> "free", chips |-> {}]]
  /\ sent = 0 /\ faults = 0 /\ alone = {} /\ current = NoTab
  /\ handled = [t \in Tabs |-> [asked |-> "any", flow |-> "none", chip |-> FALSE, again |-> FALSE]]
  /\ dispatched = EmptySlots

Busy == {t \in Tabs : turn[t].pc # "idle"}

Send(t, text) ==
  /\ turn[t].pc = "idle" /\ sent < MaxTurns
  /\ turn' = [turn EXCEPT ![t] = [Idle EXCEPT !.pc = "read", !.text = text]]
  /\ sent' = sent + 1
  /\ alone' = IF Busy = {} THEN {t} ELSE {}
  /\ handled' = [handled EXCEPT ![t] =
       [asked |-> IF current = t THEN screen[t].asks ELSE "any", flow |-> "none",
        chip |-> text \in screen[t].chips, again |-> FALSE]]
  /\ current' = NoTab
  /\ UNCHANGED <<slots, briefDone, today, screen, faults, dispatched>>

\* The branch a turn takes, and what it decides there.
Take(t, prior, flow, reply, windows) ==
  /\ turn' = [turn EXCEPT ![t].pc = IF reply.skill = "none" THEN "write" ELSE "skill",
                          ![t].prior = prior, ![t].flow = flow, ![t].reply = reply,
                          ![t].windows = windows]
  /\ handled' = [handled EXCEPT ![t].flow = flow,
       ![t].asked = IF t \in alone THEN @ ELSE "any",
       ![t].again = reply.skill = "none" /\ reply.asks = handled[t].asked]

TakeParsed(t, prior, parsed) ==
  \E records \in RouterRuns :
    Take(t, prior, "free", FinishDefault(turn[t].text, parsed, records),
         IF parsed.noData THEN << >> ELSE <<parsed.a, parsed.b>>)

Default(t, prior) == TakeParsed(t, prior, ParseTurn(turn[t].text, prior, Days[today]))

\* execute_turn up to its first write: the slots are read once, here.
Begin(t) ==
  LET text == turn[t].text
  IN  /\ turn[t].pc = "read"
      /\ \/ /\ text.entry # "none"
            /\ Take(t, slots, "entry", FinishEntry(text.entry, slots, Days[today]), << >>)
         \/ /\ text.entry = "none" /\ slots.mode \in BriefModes
            /\ turn' = [turn EXCEPT ![t].pc = "brief?", ![t].prior = slots]
            /\ UNCHANGED handled
         \/ /\ text.entry = "none" /\ slots.mode = "report"
            /\ Take(t, slots, StepFor(slots), FinishReportStep(text, slots, Days[today]), << >>)
         \/ /\ text.entry = "none" /\ slots.mode = "default"
            /\ Default(t, slots)
      /\ UNCHANGED <<slots, briefDone, today, screen, sent, faults, alone, current, dispatched>>

\* get_brief_done is a transaction of its own.
ReadBriefDone(t) ==
  /\ turn[t].pc = "brief?"
  /\ IF briefDone THEN Default(t, turn[t].prior)
     ELSE Take(t, turn[t].prior, "subject", FinishSubjectTurn(turn[t].text, turn[t].prior), << >>)
  /\ UNCHANGED <<slots, briefDone, today, screen, sent, faults, alone, current, dispatched>>

\* registry.dispatch or run_turn; a failed one leaves the flow where it was.  The report
\* skill reads the clock again, and refuses a month that is no longer what it was.
RunSkill(t, ok) ==
  LET reply == turn[t].reply
      isReport == reply.skill = "report"
      periods == ReportPeriods(reply.choice.month, reply.choice.kind, Days[today])
      asks == IF turn[t].flow \in {"subject", "month"} THEN turn[t].flow ELSE "free"
      next == IF isReport THEN SlotsAfterReport(reply.next, periods) ELSE reply.next
  IN  /\ turn[t].pc = "skill"
      /\ ok /\ isReport => periods.current # NoWindow
      /\ turn' = [turn EXCEPT ![t].pc = "write",
                    ![t].reply = IF ok THEN [reply EXCEPT !.next = next]
                                 ELSE Reply(asks, {}, reply.next, << >>)]
      /\ dispatched' = IF ok /\ isReport THEN next ELSE dispatched
      /\ UNCHANGED <<slots, briefDone, today, screen, sent, faults, alone, current, handled>>

\* Mutant: slots that are None are left out of the object, and what was stored shows through.
StoredOver(old, new) ==
  IF new.office = "none" THEN [new EXCEPT !.office = old.office] ELSE new

\* DbStateStore.put: the object is replaced whole.
Stored(old, new) == new

Written(t) ==
  /\ turn[t].pc = "write" /\ turn[t].reply.writes # << >>
  /\ turn' = [turn EXCEPT ![t].reply.writes = Tail(@)]

PutSlots(t) ==
  /\ Written(t) /\ Head(turn[t].reply.writes) = "put"
  /\ slots' = Stored(slots, turn[t].reply.next)
  /\ UNCHANGED <<briefDone, today, screen, sent, faults, alone, current, handled, dispatched>>

SetBriefDone(t) ==
  /\ Written(t) /\ Head(turn[t].reply.writes) # "put"
  /\ briefDone' = (Head(turn[t].reply.writes) = "set brief_done")
  /\ UNCHANGED <<slots, today, screen, sent, faults, alone, current, handled, dispatched>>

\* The terminal frame goes out; other tabs no longer show the last word.
Show(t, asks, chips) ==
  /\ turn' = [turn EXCEPT ![t] = Idle]
  /\ screen' = [screen EXCEPT ![t] = [asks |-> asks, chips |-> chips]]
  /\ current' = IF t \in alone /\ asks # "any" THEN t ELSE NoTab
  /\ alone' = alone \ {t}

Finish(t) ==
  /\ turn[t].pc = "write" /\ turn[t].reply.writes = << >>
  /\ Show(t, IF turn[t].stored THEN turn[t].reply.asks ELSE "any", turn[t].reply.chips)
  /\ UNCHANGED <<slots, briefDone, today, sent, faults, handled, dispatched>>

\* A write that raises: swallowed behind a reply that is already complete, an error otherwise.
WriteFails(t) ==
  /\ turn[t].pc = "write" /\ turn[t].reply.writes # << >> /\ faults < MaxFaults
  /\ faults' = faults + 1
  /\ IF turn[t].reply.onFailure = "swallow" /\ Head(turn[t].reply.writes) = "put"
     THEN /\ turn' = [turn EXCEPT ![t].reply.writes = << >>, ![t].stored = FALSE]
          /\ UNCHANGED <<screen, current, alone>>
     ELSE Show(t, "any", {})
  /\ UNCHANGED <<slots, briefDone, today, sent, handled, dispatched>>

\* The server restarts: turns at work are gone with their threads.
Restart ==
  /\ faults < MaxFaults /\ Busy # {}
  /\ faults' = faults + 1
  /\ turn' = [t \in Tabs |-> Idle] /\ alone' = {} /\ current' = NoTab
  /\ screen' = [t \in Tabs |-> IF t \in Busy THEN [asks |-> "any", chips |-> {}] ELSE screen[t]]
  /\ UNCHANGED <<slots, briefDone, today, sent, handled, dispatched>>

Midnight ==
  /\ today < Len(Days) /\ today' = today + 1
  /\ UNCHANGED <<slots, briefDone, turn, screen, sent, faults, alone, current, handled, dispatched>>

Next ==
  \/ \E t \in Tabs : \/ \E text \in Texts \union screen[t].chips : Send(t, text)
                     \/ Begin(t) \/ ReadBriefDone(t) \/ \E ok \in BOOLEAN : RunSkill(t, ok)
                     \/ PutSlots(t) \/ SetBriefDone(t) \/ Finish(t) \/ WriteFails(t)
  \/ Restart \/ Midnight

Spec == Init /\ [][Next]_vars

-----------------------------------------------------------------------------
\* Slots and turns are of their types.
TypeOK ==
  /\ DOMAIN slots = DOMAIN EmptySlots /\ briefDone \in BOOLEAN /\ today \in DOMAIN Days
  /\ slots.mode \in BriefModes \union {"default", "report"}
  /\ slots.perspective \in Perspectives \union {"none"}
  /\ {slots.a, slots.aEnd, slots.b, slots.bEnd} \subseteq Nat
  /\ \A t \in Tabs : /\ turn[t].pc \in {"idle", "read", "brief?", "skill", "write"}
                     /\ turn[t].stored \in BOOLEAN
  /\ sent \in 0..MaxTurns /\ faults \in 0..MaxFaults
  /\ alone \subseteq Busy /\ current \in Tabs \union {NoTab}

\* The reply to a question goes where the question came from: when a tab's last frame asked for
\* a subject, a perspective, an office or a month, or asked for none of these, and no other turn
\* and no failed write came between, execute_turn takes the text as the answer to it.
FlowOf(asks) == IF asks \in {"subject", "perspective", "office", "month"} THEN asks ELSE "free"
HandledAsShown ==
  \A t \in Tabs : LET h == handled[t]
                  IN  h.flow \notin {"none", "entry"} /\ h.asked # "any" => h.flow = FlowOf(h.asked)

\* A chip is an answer: sent back as the next turn, on a later day too, it never leads to the
\* question it was offered for (a month that is refused, a name that is again ambiguous).
ChipSettles ==
  \A t \in Tabs : LET h == handled[t] IN h.chip /\ h.asked # "any" /\ h.flow # "none" => ~h.again

\* Whatever other tabs write, a report is made for a perspective with an office of that
\* perspective's own column (none for the whole book) and for a month with data, compared with
\* days before it, all of them over: the four slots are only ever replaced together.
ScopeIsWhole ==
  LET d == dispatched
  IN  d # EmptySlots =>
        /\ d.column = OfficeColumn(d.perspective)
        /\ IF d.column = "none" THEN d.office = "none" ELSE d.office \in ToSet(Offices[d.column])
        /\ d.a \in Months /\ d.b < d.bEnd /\ d.bEnd <= d.a /\ d.a < d.aEnd /\ d.aEnd <= Days[today]

\* A name carried to later turns is one of the data: a prospect, or text that matched nothing,
\* never becomes the customer or the port of a conversation.
CarriedNamesAreCertified ==
  /\ slots.customer \in ToSet(CustomerNames) \union {NoName}
  /\ slots.port \in ToSet(PortNames) \union {NoName}

\* The slots a turn leaves are the periods it was answered for, so that a follow-up that names
\* no period asks about the same ones: a new period drops the old comparison, and a carried
\* window survives its trip through two days.
CarryKeepsPeriods ==
  \A t \in Tabs :
    LET next == turn[t].reply.next
        window(start, end) == IF start = NoDay THEN NoWindow ELSE SlotWindow(start, end)
    IN  turn[t].windows # << >> =>
          turn[t].windows = <<window(next.a, next.aEnd), window(next.b, next.bEnd)>>
=============================================================================
