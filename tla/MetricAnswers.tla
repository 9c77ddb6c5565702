---------------------------- MODULE MetricAnswers ----------------------------
(***************************************************************************)
(* data_qa.metric_query: a question about metrics becomes one query of the *)
(* sales table or two, each on a connection of its own, and their answers  *)
(* become a table.  The office of the conversation is carried into every   *)
(* query; a share of a total takes columns away from the filters, a        *)
(* breakdown ranks and cuts, a frame has time buckets, and a comparison    *)
(* merges two breakdowns.                                                  *)
(***************************************************************************)
EXTENDS MonthOnMonth

CONSTANTS
  Books,       \* the tables a question may find
  Movements,   \* sales that may arrive or go between two queries
  Questions,   \* Args: [metrics, window, compare, filters, by, order, desc, top, scope, removed]
  Offices,     \* the carried office: [column, value], the value Null for none
  Askers,      \* [declared, claim], as in a report
  WindowTop    \* WINDOW_TOP_N

VARIABLES
  book,     \* the table
  moved,    \* bound: it changed once
  question, office, asker,
  stage,    \* "first", "second", "shape" or "told"
  results,  \* the answers of the queries
  moments,  \* the table each of them read
  told      \* the skill's result: [ok, status, shape, rows]

questionVars == <<question, office, asker>>
answerVars   == <<book, moved, questionVars, stage, results, moments, told>>

Untold == [ok |-> FALSE, status |-> 0, shape |-> "", rows |-> << >>]

AnswerInit ==
  /\ book \in Books /\ moved = FALSE
  /\ question \in Questions /\ office \in Offices /\ asker \in Askers
  /\ stage = "first" /\ results = << >> /\ moments = << >> /\ told = Untold

MoveSale ==
  /\ ~moved /\ stage = "second"
  /\ \E s \in Movements : book' = IF s \in book THEN book \ {s} ELSE book \union {s}
  /\ moved' = TRUE
  /\ UNCHANGED <<questionVars, stage, results, moments, told>>

-----------------------------------------------------------------------------
(* The arguments and the specs they become.                                 *)
Buckets == {"MONTH", "QUARTER", "YEAR"}
Ratios  == {"MARGIN", "WIN_RATE"}

\* A sale with its time buckets.
Bucketed(sale) ==
  LET y == Year(sale.date)
      m == Month(sale.date)
  IN  sale @@ [MONTH   |-> Day(y, m, 1),
               QUARTER |-> Day(y, 3 * ((m - 1) \div 3) + 1, 1),
               YEAR    |-> Day(y, 1, 1)]

\* What Args itself refuses.
WellFormed(args) ==
  /\ Len(args.by) <= 3 /\ Cardinality(ToSet(args.by)) = Len(args.by)
  /\ Cardinality(ToSet(args.by) \cap Buckets) <= 1
  /\ args.order \in ToSet(args.metrics)
  /\ args.removed # {} => args.by = << >> /\ args.compare = NoWindow

IsFramePath(by) == Len(by) > 1 \/ (Len(by) = 1 /\ by[1] \in Buckets)
Framed == IsFramePath(question.by)
Compared == question.compare # NoWindow

OfficeApplies == office.value # Null /\ office.column \in Dimensions
Stamped(filters) ==
  IF question.scope = "office" /\ OfficeApplies THEN (office.column :> {office.value}) @@ filters
  ELSE filters

RowScope == ResolveRowScope(asker.declared, asker.claim)
SpecOf(window) == Query(window, Stamped(question.filters), RowScope)

\* The total of a share: the filters in effect without the columns named.
DenominatorSpec(q, removed) ==
  [q EXCEPT !.filters = [c \in DOMAIN q.filters \ removed |-> q.filters[c]]]

GroupColumns  == SelectSeq(question.by, LAMBDA c : c \notin Buckets)
BucketColumns == SelectSeq(question.by, LAMBDA c : c \in Buckets)

Refused ==
  \/ ~WellFormed(question)
  \/ Framed /\ ("WIN_RATE" \in ToSet(question.metrics) \/ Compared)
  \/ RowScope = Unanswerable
  \/ ~Builds(SpecOf(question.window), GroupColumns, asker.declared)
  \/ ~(question.removed \subseteq DOMAIN SpecOf(question.window).filters)

Refuse ==
  /\ stage = "first" /\ Refused
  /\ stage' = "told"
  /\ told' = [Untold EXCEPT !.status = 422]
  /\ UNCHANGED <<book, moved, questionVars, results, moments>>

-----------------------------------------------------------------------------
(* The queries.                                                             *)
NoRatio(sums, metric) == metric \in Ratios /\ sums["VOLUME"] = 0
Less(x, y) == LET d == Minus(x, y) IN d[1] * d[2] < 0

\* ORDER BY metric NULLS LAST: what must not come after what.
Precedes(a, b, metric, desc) ==
  LET x == ValueOf(a, metric)
      y == ValueOf(b, metric)
  IN  /\ ~NoRatio(a, metric)
      /\ NoRatio(b, metric) \/ (IF desc THEN Less(y, x) ELSE Less(x, y))

\* LIMIT n: of rows that are equal any may come first, and any be cut off.
Breakdowns(table, q, column, metric, desc, n) ==
  LET sums == RunFrameQuery(table, q, <<column>>)
      size == IF Cardinality(DOMAIN sums) < n THEN Cardinality(DOMAIN sums) ELSE n
      ordered(s) == /\ \A i, j \in DOMAIN s : i < j => s[i] # s[j] /\ ~Precedes(sums[s[j]], sums[s[i]], metric, desc)
                    /\ \A k \in DOMAIN sums \ ToSet(s) : \A i \in DOMAIN s : ~Precedes(sums[k], sums[s[i]], metric, desc)
  IN  {[i \in DOMAIN s |-> [key |-> s[i][1], sums |-> sums[s[i]]]] :
         s \in {s \in [1 .. size -> DOMAIN sums] : ordered(s)}}

\* The sums of a selection, or none where no sale is in it.
MetricResult(table, q) ==
  IF Selected(table, q) = {} THEN << >> ELSE <<RunMetricQuery(table, q)>>

Twice == Compared \/ question.removed # {}

ResultsOf(q) ==
  IF Framed THEN {RunFrameQuery({Bucketed(s) : s \in book}, q, question.by)}
  ELSE IF question.by = << >> THEN {MetricResult(book, q)}
  ELSE IF Compared THEN Breakdowns(book, q, question.by[1], Head(question.metrics), TRUE, WindowTop)
  ELSE Breakdowns(book, q, question.by[1], question.order, question.desc, question.top)

Fetched(q, next) ==
  /\ \E r \in ResultsOf(q) : results' = Append(results, r)
  /\ moments' = Append(moments, book)
  /\ stage' = next
  /\ UNCHANGED <<book, moved, questionVars, told>>

\* The database fails: dispatch makes a problem of what is raised.
QueryFails ==
  /\ stage \in {"first", "second"} /\ ~Refused
  /\ stage' = "told"
  /\ told' = [Untold EXCEPT !.status = 500]
  /\ UNCHANGED <<book, moved, questionVars, results, moments>>

FetchFirst ==
  /\ stage = "first" /\ ~Refused
  /\ Fetched(SpecOf(question.window), IF Twice THEN "second" ELSE "shape")

FetchSecond ==
  /\ stage = "second"
  /\ Fetched(IF Compared THEN SpecOf(question.compare)
             ELSE DenominatorSpec(SpecOf(question.window), question.removed), "shape")

-----------------------------------------------------------------------------
(* The tables made of the answers.                                          *)
Blank == Figure("", 0, 0, "none")   \* SQL NULL
NotApplicable == Figure("", 0, 0, "n/a")
Metrics == question.metrics

CellFor(sums, metric) ==
  IF NoRatio(sums, metric) THEN Blank ELSE FmtValue(ValueOf(sums, metric), Decimals(metric))
CellOf(result, metric) == IF result = << >> THEN Blank ELSE CellFor(result[1], metric)
IsEmpty(result) == \A m \in ToSet(Metrics) : CellOf(result, m) = Blank

TableRow(key, cells) == [key |-> key, cells |-> cells]

\* Per metric its value, or the values of both windows.
MetricRows ==
  [i \in DOMAIN Metrics |->
     TableRow(<<Metrics[i]>>, [n \in DOMAIN results |-> CellOf(results[n], Metrics[i])])]

\* The share of the selection in the total; a ratio has none.
Share(metric) ==
  LET of(result) == IF result = << >> THEN 0 ELSE result[1][metric]
      part  == of(results[1])
      whole == of(results[2])
  IN  IF metric \in Ratios THEN NotApplicable
      ELSE IF whole = 0 THEN NotApplicable
      ELSE FmtValue(IF whole < 0 THEN <<-100 * part, - whole>> ELSE <<100 * part, whole>>, 1)
ShareRows ==
  [i \in DOMAIN Metrics |-> [MetricRows[i] EXCEPT !.cells = Append(@, Share(Metrics[i]))]]

BreakdownRows ==
  [i \in DOMAIN results[1] |->
     TableRow(<<results[1][i].key>>, [m \in DOMAIN Metrics |-> CellFor(results[1][i].sums, Metrics[m])])]

\* The two windows by key, what one of them lacks being zero, the largest changes of the
\* first metric first.
CompareRows ==
  LET side(n) == [k \in {r.key : r \in ToSet(results[n])} |->
                    (CHOOSE r \in ToSet(results[n]) : r.key = k).sums]
      value(n, k, m) == IF k \notin DOMAIN side(n) THEN Zero
                        ELSE IF NoRatio(side(n)[k], m) THEN Zero ELSE ValueOf(side(n)[k], m)
      change(k, m) == Minus(value(1, k, m), value(2, k, m))
      size(k) == LET c == change(k, Metrics[1]) IN <<Abs(c[1]), Abs(c[2])>>
      sorted == SetToSortSeq(DOMAIN side(1) \union DOMAIN side(2),
                  LAMBDA k, l : Less(size(l), size(k)) \/ (~Less(size(k), size(l)) /\ k < l))
      pct(k, m) == LET p == value(2, k, m)
                       c == change(k, m)
                   IN  IF IsZero(p) THEN New ELSE FmtValue(<<c[1] * p[2] * 100, c[2] * Abs(p[1])>>, 1)
      cells(k, m) == <<FmtValue(value(2, k, m), Decimals(m)), FmtValue(value(1, k, m), Decimals(m)),
                       FmtValue(change(k, m), Decimals(m)), pct(k, m)>>
  IN  [i \in 1 .. (IF Len(sorted) < question.top THEN Len(sorted) ELSE question.top) |->
         TableRow(<<sorted[i]>>, FlattenSeq([m \in DOMAIN Metrics |-> cells(sorted[i], Metrics[m])]))]

\* A row of a frame is of a key, and of a bucket where the frame has one.
Positions(columns) ==
  SelectSeq([i \in DOMAIN question.by |-> i], LAMBDA i : question.by[i] \in columns)
KeyOf(row)    == LET at == Positions(Dimensions) IN [i \in DOMAIN at |-> row[at[i]]]
BucketOf(row) == LET at == Positions(Buckets)    IN [i \in DOMAIN at |-> row[at[i]]]
HasBucket == ToSet(question.by) \cap Buckets # {}

\* Mutant: a ratio is summed over the buckets like any metric.
SummedValue(frame, key) ==
  LET rows == {r \in DOMAIN frame : KeyOf(r) = key}
  IN  FoldLeft(LAMBDA x, r : Minus(x, Minus(Zero, ValueOf(frame[r], question.order))), Zero, SetToSeq(rows))

\* What a key is ranked by: its sums over the whole period, and of a ratio the ratio of them.
RankValue(frame, key) ==
  ValueOf(FrameTotal([r \in {r \in DOMAIN frame : KeyOf(r) = key} |-> frame[r]]), question.order)

Unranked(frame, key) ==
  HasBucket /\ NoRatio(FrameTotal([r \in {r \in DOMAIN frame : KeyOf(r) = key} |-> frame[r]]), question.order)

Earlier(a, b) == \E i \in DOMAIN a : a[i] < b[i] /\ \A j \in 1 .. i - 1 : a[j] = b[j]

\* The rows of the first keys, every bucket of them, in the order of time and then of rank.
FrameRows ==
  LET frame == results[1]
      keys  == {KeyOf(r) : r \in DOMAIN frame}
      better(a, b) == IF question.desc THEN Less(RankValue(frame, b), RankValue(frame, a))
                      ELSE Less(RankValue(frame, a), RankValue(frame, b))
      before(a, b) == IF Unranked(frame, a) # Unranked(frame, b) THEN Unranked(frame, b)
                      ELSE (~Unranked(frame, a) /\ better(a, b))
                           \/ ((Unranked(frame, a) \/ ~better(b, a)) /\ Earlier(a, b))
      ranked == SubSeq(SetToSortSeq(keys, before), 1,
                  IF Cardinality(keys) < question.top THEN Cardinality(keys) ELSE question.top)
      rank(r) == CHOOSE i \in DOMAIN ranked : ranked[i] = KeyOf(r)
      kept == SetToSortSeq({r \in DOMAIN frame : KeyOf(r) \in ToSet(ranked)},
                LAMBDA r, s : Earlier(Append(BucketOf(r), rank(r)), Append(BucketOf(s), rank(s))))
  IN  [i \in DOMAIN kept |-> TableRow(BucketOf(kept[i]) \o KeyOf(kept[i]),
                               [m \in DOMAIN Metrics |-> CellFor(frame[kept[i]], Metrics[m])])]

Ungrouped == question.by = << >>
NoData ==
  IF Ungrouped THEN \A n \in DOMAIN results : IsEmpty(results[n])
  ELSE \A n \in DOMAIN results : DOMAIN results[n] = {}

ShapeName ==
  IF NoData THEN "empty"
  ELSE IF question.removed # {} THEN "share"
  ELSE IF Framed THEN "frame"
  ELSE IF Ungrouped THEN "metrics"
  ELSE IF Compared THEN "merged" ELSE "breakdown"

RowsFor(shape) ==
  CASE shape = "empty"     -> << >>
    [] shape = "share"     -> ShareRows
    [] shape = "frame"     -> FrameRows
    [] shape = "metrics"   -> MetricRows
    [] shape = "merged"    -> CompareRows
    [] shape = "breakdown" -> BreakdownRows

ShapeAnswer ==
  /\ stage = "shape"
  /\ stage' = "told"
  /\ told' = [ok |-> TRUE, status |-> 200, shape |-> ShapeName, rows |-> RowsFor(ShapeName)]
  /\ UNCHANGED <<book, moved, questionVars, results, moments>>

AnswerNext == MoveSale \/ Refuse \/ QueryFails \/ FetchFirst \/ FetchSecond \/ ShapeAnswer

-----------------------------------------------------------------------------
(* Properties: against the sales themselves, without a query or a frame.    *)
\* Of the table that query n read: the sales of its window that the asker may see and the
\* question means, of the columns given.
Meant(sale, c) ==
  IF question.scope = "office" /\ OfficeApplies /\ c = office.column THEN sale[c] = office.value
  ELSE c \in DOMAIN question.filters => Column(sale, c) \in question.filters[c]
SalesOf(n, columns) ==
  {s \in moments[n] :
     /\ InPeriod(s, IF n = 2 /\ Compared THEN question.compare ELSE question.window)
     /\ asker.declared => s[ScopeColumn] = asker.claim
     /\ \A c \in columns : Meant(s, c)}
Keyed(sales, columns, key) ==
  {s \in sales : \A i \in DOMAIN columns : Column(Bucketed(s), columns[i]) = key[i]}

\* What is printed of some sales.
Prints(cell, sales, metric) ==
  cell = IF sales = {} THEN Blank ELSE CellFor(SumsOf(sales), metric)
PrintsAll(row, sales) == \A m \in DOMAIN Metrics : Prints(row.cells[m], sales, Metrics[m])

\* The rows shown are the first of all keys: none that is left out comes before one of them.
CutByRank(shown, sales, columns, top) ==
  LET keys == {[i \in DOMAIN columns |-> Column(s, columns[i])] : s \in sales}
      sums(k) == SumsOf(Keyed(sales, columns, k))
  IN  /\ shown \subseteq keys
      /\ Cardinality(shown) = IF Cardinality(keys) < top THEN Cardinality(keys) ELSE top
      /\ \A k \in keys \ shown, l \in shown :
           ~NoRatio(sums(l), question.order) => ~Precedes(sums(k), sums(l), question.order, question.desc)

FrameIsWhole(sales) ==
  LET columns == BucketColumns \o GroupColumns
      key(row) == SubSeq(row.key, Len(BucketColumns) + 1, Len(row.key))
      shown == {key(r) : r \in ToSet(told.rows)}
  IN  /\ \A r \in ToSet(told.rows) : PrintsAll(r, Keyed(sales, columns, r.key))
      /\ \A k \in shown : \A s \in Keyed(sales, GroupColumns, k) :
           \E r \in ToSet(told.rows) : r.key = [i \in DOMAIN columns |-> Column(Bucketed(s), columns[i])]
      /\ CutByRank(shown, sales, GroupColumns, question.top)

\* A side that is no figure of the book is zero, and its window had more keys than were read.
SideOf(cell, n, key, metric) ==
  LET all   == SalesOf(n, Dimensions)
      sales == Keyed(all, question.by, key)
      names == {Column(s, question.by[1]) : s \in all}
      zero  == FmtValue(Zero, Decimals(metric))
  IN  IF sales = {} \/ NoRatio(SumsOf(sales), metric) THEN cell = zero
      ELSE \/ Prints(cell, sales, metric)
           \/ cell = zero /\ Cardinality(names) > WindowTop

\* Every number that answers a question is one of the table its query read: of the window and
\* the filters asked for and, in each of its queries, of the carried office and of what the
\* asker may see; only the total of a share is of more.  A breakdown leaves out no key that
\* ranks before one it shows, a frame shows every bucket of a key, ranked over the whole
\* period, and a comparison shows zero only for no sale or for a key below what it read of
\* that window (metric_query/skill.py and its tools, query_builder.py).
AnswersAreOfTheBook ==
  told.ok =>
    CASE told.shape = "empty" ->
           \A n \in DOMAIN moments, m \in ToSet(Metrics) :
             LET sales == SalesOf(n, IF n = 2 THEN Dimensions \ question.removed ELSE Dimensions)
             IN  sales = {} \/ (Ungrouped /\ NoRatio(SumsOf(sales), m))
      [] told.shape = "metrics" ->
           \A i \in DOMAIN Metrics : \A n \in DOMAIN moments :
             Prints(told.rows[i].cells[n], SalesOf(n, Dimensions), Metrics[i])
      [] told.shape = "share" ->
           \A i \in DOMAIN Metrics :
             LET selected == SalesOf(1, Dimensions)
                 total    == SalesOf(2, Dimensions \ question.removed)
                 cells    == told.rows[i].cells
             IN  /\ Prints(cells[1], selected, Metrics[i]) /\ Prints(cells[2], total, Metrics[i])
                 /\ moments[1] = moments[2] => selected \subseteq total
                 /\ moments[1] = moments[2] /\ selected = total /\ cells[3] # NotApplicable =>
                      cells[3] = Figure("", 1000, 1, "")
      [] told.shape = "breakdown" ->
           LET sales == SalesOf(1, Dimensions)
           IN  /\ \A r \in ToSet(told.rows) : PrintsAll(r, Keyed(sales, question.by, r.key))
               /\ CutByRank({r.key : r \in ToSet(told.rows)}, sales, question.by, question.top)
      [] told.shape = "frame" -> FrameIsWhole(SalesOf(1, Dimensions))
      [] told.shape = "merged" ->
           \A r \in ToSet(told.rows) : \A m \in DOMAIN Metrics :
             /\ SideOf(r.cells[4 * m - 3], 2, r.key, Metrics[m])
             /\ SideOf(r.cells[4 * m - 2], 1, r.key, Metrics[m])
=============================================================================
