---------------------------- MODULE MonthlyReport ----------------------------
(***************************************************************************)
(* reporting.monthly_performance: the queries of a report in one snapshot  *)
(* of a table that goes on changing, the figures made of them, the model's *)
(* narrative and its one retry, the stored run and what a later            *)
(* report_lookup reads of it.                                              *)
(*                                                                         *)
(* The customer and the whole-book perspectives are modelled; the supplier *)
(* one is the first with other columns, and counts and the win rate are    *)
(* sums and ratios like those here.                                        *)
(***************************************************************************)
EXTENDS Grounding

CONSTANTS
  Tables,     \* the sales tables a report may find, each a set of sales
  NextSales,  \* sales that may arrive or go while it runs
  Requests,   \* its arguments: office (Null for the whole book), month, kind
  Days,       \* _today()
  Callers,    \* [declared, claim]: does the entity declare a row scope, and the caller's claim
  Modes,      \* "live", "stub" or "none": the LLM the skill finds
  Replies,    \* what the model may answer: [text, questions]
  PageSize    \* limit of a lookup

Columns  == <<"CUST_NM", "LOC_NM", "CUSTOMER_TEAM_NAME">>
Entity   == 1
Port     == 2
Office   == 3
Sides    == {"prior", "current"}

VARIABLES
  sales,    \* the table as it is
  seen,     \* the snapshot of the report's connection
  changed,  \* bound: the table changed once
  request, today, caller, mode,
  step,     \* what run() does next
  got,      \* the answers of the queries, by query
  payload,  \* the figures, once all queries are answered
  reply,    \* the model's last answer
  story,    \* the narrative section with the questions: [llm, grounded, flags, questions]
  stored,   \* report_run rows
  result,   \* what the skill returned
  pages     \* what lookups read of one table, in the order they asked

inputVars  == <<sales, changed>>
argVars    == <<request, today, caller, mode>>
dataVars   == <<seen, got, payload>>
storyVars  == <<reply, story>>
outVars    == <<stored, result, pages>>
reportVars == <<inputVars, argVars, dataVars, storyVars, outVars, step>>

NoTable   == {"no snapshot"}
NoPayload == [none |-> TRUE]
NoReply   == [text |-> << >>, questions |-> << >>]
NoStory   == [llm |-> << >>, grounded |-> FALSE, flags |-> << >>, questions |-> << >>]
Pending   == [ok |-> FALSE, status |-> 0]
Failed(status) == [ok |-> FALSE, status |-> status]

ReportInit ==
  /\ sales \in Tables /\ changed = FALSE /\ seen = NoTable
  /\ request \in Requests /\ today \in Days /\ caller \in Callers /\ mode \in Modes
  /\ step = "begin"
  /\ got = [q \in {} |-> {}] /\ payload = NoPayload /\ reply = NoReply /\ story = NoStory
  /\ stored = << >> /\ result = Pending /\ pages = << >>

\* The loader adds or removes a sale; it has no part in what the report does.
ChangeSales ==
  /\ ~changed /\ step \notin {"compute", "narrate", "retry", "store", "over"}
  /\ \E s \in NextSales : sales' = IF s \in sales THEN sales \ {s} ELSE sales \union {s}
  /\ changed' = TRUE
  /\ UNCHANGED <<argVars, dataVars, storyVars, outVars, step>>

Periods2 == ReportPeriods(request.month, request.kind, today)
WholeBook == request.office = Null
Scope == ResolveRowScope(caller.declared, caller.claim)
OfOffice == IF WholeBook THEN NoFilter ELSE [c \in {Columns[Office]} |-> {request.office}]
WindowOf(side) == IF side = "prior" THEN Periods2.prior ELSE Periods2.current

\* The skill ends with a problem; what raises becomes one in the registry's dispatch.
EndWith(status) ==
  /\ step' = "over" /\ result' = Failed(status)
  /\ UNCHANGED <<inputVars, argVars, dataVars, storyVars, stored, pages>>

RefusePeriod ==
  /\ step = "begin" /\ Periods2.current = NoWindow
  /\ EndWith(422)

RefuseCaller ==
  /\ step = "begin" /\ Periods2.current # NoWindow /\ Scope = Unanswerable
  /\ EndWith(500)

Begin ==
  /\ step = "begin" /\ Periods2.current # NoWindow /\ Scope # Unanswerable
  /\ step' = "months"
  /\ UNCHANGED <<inputVars, argVars, dataVars, storyVars, outVars>>

-----------------------------------------------------------------------------
(* The queries.  The first one takes the snapshot that all the others read. *)
\* One of them raises.
QueryRaises ==
  /\ step \notin {"begin", "reconcile", "compute", "narrate", "retry", "store", "over"}
  /\ EndWith(500)

\* Mutant: every query has a connection of its own.
OwnConnection == sales

Snapshot == IF seen = NoTable THEN sales ELSE seen

Answered(query, answer, next) ==
  /\ got' = (query :> answer) @@ got
  /\ step' = next
  /\ UNCHANGED <<inputVars, argVars, payload, storyVars, outVars>>

ListTheMonths ==
  /\ step = "months"
  /\ seen' = sales
  /\ LET months == ListMonths(sales, Scope)
     IN  IF Periods2.current.start \in months
         THEN Answered("months", months, IF WholeBook THEN "prior" ELSE "offices")
         ELSE /\ step' = "over" /\ result' = Failed(422)
              /\ UNCHANGED <<inputVars, argVars, got, payload, storyVars, stored, pages>>

CheckOffice ==
  /\ step = "offices"
  /\ request.office \in ListDimensionValues(Snapshot, Columns[Office], Scope)
  /\ Answered("offices", {request.office}, "prior")
  /\ UNCHANGED seen

RefuseOffice ==
  /\ step = "offices"
  /\ request.office \notin ListDimensionValues(Snapshot, Columns[Office], Scope)
  /\ EndWith(422)

\* A spec that does not build ends the report.
RunQuery(query, q, columns, answer, next) ==
  IF Builds(q, columns, caller.declared) THEN Answered(query, answer, next) /\ UNCHANGED seen
  ELSE EndWith(500)

QueryFrame ==
  /\ step \in Sides
  /\ LET q == Query(WindowOf(step), OfOffice, Scope)
     IN  RunQuery(step, q, Columns, RunFrameQuery(Snapshot, q, Columns),
                  IF step = "prior" THEN "current" ELSE "prior total")

TotalName(side) == IF side = "prior" THEN "prior total" ELSE "current total"

QueryTotal ==
  \E side \in Sides :
    /\ step = TotalName(side)
    /\ LET q == Query(WindowOf(side), OfOffice, Scope)
       IN  RunQuery(step, q, << >>, RunMetricQuery(Snapshot, q),
                    IF side = "prior" THEN "current total" ELSE "reconcile")

Reconciled == \A side \in Sides : FrameTotal(got[side]) = got[TotalName(side)]

MergedBy(column) ==
  MergeBreakdowns(Rollup(got["prior"], column), Rollup(got["current"], column))

MoverKeys ==
  LET movers == TopMovers(MergedBy(Entity)) IN {r.key : r \in ToSet(movers.increases \o movers.decreases)}

Reconcile ==
  /\ step = "reconcile"
  /\ IF Reconciled
     THEN /\ step' = IF WholeBook \/ MoverKeys = {} THEN "compute" ELSE "book prior"
          /\ UNCHANGED <<inputVars, argVars, dataVars, storyVars, outVars>>
     ELSE EndWith(500)

BookName(side) == IF side = "prior" THEN "book prior" ELSE "book current"

\* The movers once more, in the whole book.
QueryBook ==
  \E side \in Sides :
    /\ step = BookName(side)
    /\ LET q == Query(WindowOf(side), [c \in {Columns[Entity]} |-> MoverKeys], Scope)
       IN  RunQuery(step, q, Columns, RunFrameQuery(Snapshot, q, Columns),
                    IF side = "prior" THEN "book current" ELSE "compute")

\* The figures of the payload; the labels of the periods write years and, for a month to
\* date, days.
BuildPayload ==
  LET entities == MergedBy(Entity)
      ports    == MergedBy(Port)
      keys     == IF WholeBook THEN {} ELSE MoverKeys
      at       == [entity |-> Entity, port |-> Port, office |-> Office]
      ends     == UNION {{OfMonth(w.start), OfMonth(w.end - 1)} : w \in {Periods2.prior, Periods2.current}}
  IN  [kpis    |-> MonthRow(Total, "both", FrameTotal(got["prior"]), FrameTotal(got["current"])),
       tables  |-> [entities_by_gp     |-> Ranked(entities, "GP"),
                    entities_by_volume |-> Ranked(entities, "VOLUME"),
                    ports_by_gp        |-> Ranked(ports, "GP"),
                    ports_by_volume    |-> Ranked(ports, "VOLUME")],
       movers  |-> TopMovers(entities),
       newLost |-> NewLost(entities),
       context |-> [k \in keys |-> EntityContext(k, got["book prior"], got["book current"],
                                     got["prior"], got["current"], request.office, at)],
       days    |-> {Year(w.start) : w \in {Periods2.prior, Periods2.current}}
                   \union (IF request.kind = "mtd" THEN ends ELSE {})]

Compute ==
  /\ step = "compute"
  /\ payload' = BuildPayload
  /\ step' = "narrate"
  /\ UNCHANGED <<inputVars, argVars, seen, got, storyVars, outVars>>

-----------------------------------------------------------------------------
(* The narrative.                                                           *)
Index == BuildIndex(payload)
Story(llm, grounded, flags, candidates, noData) ==
  [llm |-> llm, grounded |-> grounded, flags |-> flags,
   questions |-> IF noData THEN << >> ELSE SelectQuestions(candidates, payload, Index)]

Told(s) ==
  /\ story' = s /\ step' = "store"
  /\ UNCHANGED <<inputVars, argVars, dataVars, outVars>>

Rows(side) == Cardinality(DOMAIN got[side])
Silent ==
  IF Rows("prior") = 0 /\ Rows("current") = 0 THEN "no data"
  ELSE IF Rows("prior") = 0 \/ Rows("current") = 0 THEN "one month"
  ELSE IF mode = "stub" THEN "stub"
  ELSE IF mode = "none" THEN "no client" ELSE "asked"

SkipNarrative ==
  /\ step = "narrate" /\ Silent # "asked"
  /\ Told(Story(<< >>, Silent # "no client", <<Silent>>, << >>, Silent = "no data"))
  /\ UNCHANGED reply

Grounded(r) == Unverified(r.text, Index) = {}
Withheld(questions) == Story(<< >>, FALSE, <<"withheld">>, questions, FALSE)

\* The call raises, is answered with an error, or with something else than the tool's input.
NarrateInVain ==
  /\ step = "narrate" /\ Silent = "asked"
  /\ Told(Story(<< >>, FALSE, <<"failed">>, << >>, FALSE))
  /\ UNCHANGED reply

Narrate ==
  /\ step = "narrate" /\ Silent = "asked"
  /\ \E r \in Replies :
       /\ reply' = r
       /\ IF Grounded(r)
          THEN Told(Story(r.text, TRUE, << >>, r.questions, FALSE))
          ELSE /\ step' = "retry"
               /\ UNCHANGED <<inputVars, argVars, dataVars, story, outVars>>

\* The first answer goes back with its violations, once.
RetryInVain ==
  /\ step = "retry"
  /\ Told(Withheld(reply.questions))
  /\ UNCHANGED reply

Retry ==
  /\ step = "retry"
  /\ \E r \in Replies :
       /\ reply' = r
       /\ Told(IF Grounded(r) THEN Story(r.text, TRUE, << >>, r.questions, FALSE)
               ELSE Withheld(r.questions))

-----------------------------------------------------------------------------
\* Without its PDF a report says so and has no download.
StoreReport ==
  /\ step = "store"
  /\ \E pdf \in BOOLEAN :
       LET flagged == IF pdf THEN story ELSE [story EXCEPT !.flags = Append(@, "no pdf")]
           run == [payload |-> payload, story |-> flagged, pdf |-> pdf, grounded |-> story.grounded]
       IN  /\ stored' = Append(stored, run)
           /\ result' = [ok |-> TRUE, status |-> 200, payload |-> payload, story |-> flagged,
                         download |-> pdf]
  /\ step' = "over"
  /\ UNCHANGED <<inputVars, argVars, dataVars, storyVars, pages>>

\* The row is not written: nothing was, and the skill has failed.
StoreFails ==
  /\ step = "store"
  /\ EndWith(500)

\* sections.render: the rows of a table of the stored payload.
ReadRun == Head(stored).payload
RankedTable(section) ==
  LET table == ReadRun.tables[section] IN table.rows \o table.other \o <<table.footer>>
MoversTable  == ReadRun.movers.increases \o ReadRun.movers.decreases
NewLostTable == ReadRun.newLost.new \o ReadRun.newLost.lost

\* A row per mover; of a whole-book report there is no such table.
ContextTable ==
  LET movers == SelectSeq(MoversTable, LAMBDA r : r.key \in DOMAIN ReadRun.context)
  IN  [i \in DOMAIN movers |-> [key |-> movers[i].key, context |-> ReadRun.context[movers[i].key]]]

TableRows(section) ==
  CASE section = "movers"   -> MoversTable
    [] section = "new_lost" -> NewLostTable
    [] section = "context"  -> ContextTable
    [] OTHER -> RankedTable(section)

\* The narrative: the model's if it is grounded.
ShownNarrative(run) ==
  IF run.grounded /\ run.story.llm # << >> THEN run.story.llm ELSE TemplateNarrative(run.payload)

\* The next page of a table, from the offset the last page named.
Offset == FoldLeft(LAMBDA n, p : n + Len(p.rows), 0, pages)
LookUp ==
  /\ stored # << >>
  /\ \E section \in {"entities_by_gp", "ports_by_volume", "movers", "new_lost"}
                      \union (IF WholeBook THEN {} ELSE {"context"}) :
       LET rows == TableRows(section)
           stop == IF Offset + PageSize < Len(rows) THEN Offset + PageSize ELSE Len(rows)
       IN  /\ pages # << >> => Last(pages).section = section /\ Last(pages).remaining > 0
           /\ pages' = Append(pages, [section |-> section, rows |-> SubSeq(rows, Offset + 1, stop),
                                      remaining |-> Len(rows) - stop])
  /\ UNCHANGED <<inputVars, argVars, dataVars, storyVars, stored, result, step>>

ReportNext ==
  \/ ChangeSales
  \/ RefusePeriod \/ RefuseCaller \/ Begin
  \/ QueryRaises \/ ListTheMonths \/ CheckOffice \/ RefuseOffice \/ QueryFrame \/ QueryTotal \/ Reconcile
  \/ QueryBook \/ Compute
  \/ SkipNarrative \/ NarrateInVain \/ Narrate \/ RetryInVain \/ Retry
  \/ StoreReport \/ StoreFails \/ LookUp
-----------------------------------------------------------------------------
(* Properties.  What a figure is of is a cut of the table the report saw, in one of its two *)
(* windows: the sales that pass a filter, summed without a frame or a roll-up.              *)
Slice(side, cut) ==
  {s \in seen : InPeriod(s, WindowOf(side)) /\ InScope(s, Scope) /\ InFilters(s, cut)}
One(column, name) == Columns[column] :> {name}
RowOf(key, cut) ==
  MonthRow(key, "both", SumsOf(Slice("prior", cut)), SumsOf(Slice("current", cut)))
IsOf(row, cut) == \A side \in Sides : row[side] = SumsOf(Slice(side, cut))

Values(column) == {Column(s, Columns[column]) : s \in {s \in seen : InScope(s, Scope)}}
ChangeOf(cut) == GpChange(RowOf(0, cut))

\* The movers of one way are those that moved most, and all of them unless the list is full.
LargestMovers(rows, way) ==
  LET moved(n) == way * ChangeOf(OfOffice @@ One(Entity, n))
      listed == {r.key : r \in ToSet(rows)}
  IN  /\ \A n \in listed : moved(n) > 0
      /\ \A n \in Values(Entity) \ listed :
           moved(n) > 0 => Len(rows) = MoverCap /\ \A l \in listed : moved(l) >= moved(n)

\* A report's tables add up: its rows, with what they left out, are the footer.
AddsUp(table) ==
  LET rows == table.rows \o table.other
  IN  \A side \in Sides, m \in Sums :
        table.footer[side][m] = FoldLeft(LAMBDA n, r : n + r[side][m], 0, rows)

\* Whatever changes in the table while a report runs, all that it returns is of the moment of
\* its first query: totals, every ranked row, the movers, who is new or lost, and the context
\* in the book; it is stored once as it was returned, and lookups page through just that
\* (skill.run, mom.py, context.py, SyntheticDataClient.connection, report_lookup).
ReportIsOfOneMoment ==
  result.ok =>
    LET p == result.payload
        empty(side, n) == Slice(side, OfOffice @@ One(Entity, n)) = {}
        found == TableRows(Head(pages).section)
    IN  /\ Len(stored) = 1 /\ stored[1].payload = p /\ stored[1].story = result.story
        /\ IsOf(p.kpis, OfOffice)
        /\ \A t \in DOMAIN p.tables :
             LET column == IF t \in {"ports_by_gp", "ports_by_volume"} THEN Port ELSE Entity
             IN  /\ IsOf(p.tables[t].footer, OfOffice) /\ AddsUp(p.tables[t])
                 /\ \A r \in ToSet(p.tables[t].rows) : IsOf(r, OfOffice @@ One(column, r.key))
        /\ LargestMovers(p.movers.increases, 1) /\ LargestMovers(p.movers.decreases, -1)
        /\ {r.key : r \in ToSet(p.newLost.new)} =
             {n \in Values(Entity) : empty("prior", n) /\ ~empty("current", n)}
        /\ {r.key : r \in ToSet(p.newLost.lost)} =
             {n \in Values(Entity) : ~empty("prior", n) /\ empty("current", n)}
        /\ \A n \in DOMAIN p.context :
             /\ IsOf(p.context[n].book, One(Entity, n))
             /\ \A i \in ToSet(p.context[n].offsets) :
                  i.display = FmtChange(<<ChangeOf(One(Entity, n) @@ One(Office, i.key)), 1>>, 0)
        /\ pages # << >> => FlattenSeq([i \in DOMAIN pages |-> pages[i].rows])
                            = SubSeq(found, 1, Len(found) - Last(pages).remaining)

Elsewhere == Columns[Office] :> (Values(Office) \ {request.office})
Cuts(n) ==
  {OfOffice @@ One(Entity, n), OfOffice @@ One(Port, n), One(Entity, n), One(Entity, n) @@ Elsewhere}
  \union UNION {{One(Entity, e) @@ One(Office, n), One(Entity, e) @@ One(Port, n) @@ Elsewhere,
                 One(Entity, n) @@ One(Office, e), One(Entity, n) @@ One(Port, e) @@ Elsewhere} :
                e \in Values(Entity) \union Values(Port) \union Values(Office)}

\* The figures of a cut, and its share of the same cut in the whole book.
FiguresOf(cut) ==
  LET book == [c \in DOMAIN cut \ {Columns[Office]} |-> cut[c]]
      gp(side, k) == SumOf(Slice(side, k), "GP")
  IN  Displays(RowOf(0, cut))
      \union UNION {ShareFigures(gp(side, cut), gp(side, book)) : side \in Sides}

Sourced(f, names) ==
  \/ f.sign = "" /\ f.dp = 0 /\ f.unit = "" /\ (f.digits <= 10 \/ f.digits \in 1900 .. 2099
       \/ f.digits \in result.payload.days)
  \/ \E cut \in {OfOffice} \union UNION {Cuts(n) : n \in names} :
       \E g \in FiguresOf(cut) : f \in Variants(g)

SourcedParagraph(p) ==
  \A i \in DOMAIN p : \A f \in p[i].figures : Sourced(f, UNION {p[j].names : j \in 1 .. i})

\* Every figure a reader is shown, in the model's narrative or in the template's, and in the
\* suggested questions, is a figure of the data of this report, about something its paragraph
\* has named, whatever the model answered and answered again (grounding.check, narrate.py,
\* narrative_template.py, questions.py).
FiguresAreInTheData ==
  result.ok /\ pages = << >> =>
    /\ \A p \in ToSet(ShownNarrative(stored[1])) : SourcedParagraph(p)
    /\ \A q \in ToSet(result.story.questions) : SourcedParagraph(<<q>>)
=============================================================================
