----------------------------- MODULE MonthOnMonth -----------------------------
(***************************************************************************)
(* Month-over-month figures: core/analytics/mom.py, the roll-up of a frame *)
(* by one column (tools/frames.py) and the context of a mover in the book  *)
(* (tools/context.py).  A value is a fraction <<numerator, denominator>>;  *)
(* a figure is what is printed of one, in units of its last decimal.       *)
(***************************************************************************)
EXTENDS SalesQueries

CONSTANTS
  RowCap,    \* the rows of a ranked table
  MoverCap   \* the movers each way, and the items of a context list

Abs(n)     == IF n < 0 THEN - n ELSE n
Minus(x, y) == <<x[1] * y[2] - y[1] * x[2], x[2] * y[2]>>
Zero       == <<0, 1>>
IsZero(x)  == x[1] = 0

\* The nearest number of units of 10^-dp, halves to even.
Rounded(x, dp) ==
  LET scaled == Abs(x[1]) * 10 ^ dp
      low    == scaled \div x[2]
      rest   == 2 * (scaled - low * x[2])
      n      == IF rest > x[2] \/ (rest = x[2] /\ low % 2 = 1) THEN low + 1 ELSE low
  IN  IF x[1] < 0 THEN - n ELSE n

Figure(sign, n, dp, unit) == [sign |-> sign, digits |-> n, dp |-> dp, unit |-> unit]
Flat == Figure("", 0, 0, "flat")
New  == Figure("", 0, 0, "new")
NonNumeric == {Flat, New}

Decimals(metric) == IF metric = "MARGIN" THEN 2 ELSE 0
Plain(n)  == IF n < 0 THEN "-" ELSE ""
Signed(n) == IF n < 0 THEN "-" ELSE "+"

FmtValue(x, dp) == LET n == Rounded(x, dp) IN Figure(Plain(n), Abs(n), dp, "")

FmtChange(x, dp) ==
  LET n == Rounded(x, dp) IN IF n = 0 THEN Flat ELSE Figure(Signed(n), Abs(n), dp, "")

\* A percentage is of the absolute prior value; without one the row is new.
FmtPct(prior, change) ==
  LET pct == <<change[1] * prior[2] * 100, change[2] * Abs(prior[1])>>
      n   == Rounded(pct, 1)
  IN  IF IsZero(change) THEN Flat
      ELSE IF IsZero(prior) THEN New
      ELSE IF n = 0 THEN Flat ELSE Figure(Signed(n), Abs(n), 1, "%")

Delta(prior, current) == [prior |-> prior, current |-> current, change |-> Minus(current, prior)]

Display(d, metric) ==
  [prior   |-> FmtValue(d.prior, Decimals(metric)),
   current |-> FmtValue(d.current, Decimals(metric)),
   change  |-> FmtChange(d.change, Decimals(metric)),
   pct     |-> FmtPct(d.prior, d.change)]

NoSums == [m \in Sums |-> 0]
Margin(sums) == IF sums["VOLUME"] = 0 THEN Zero ELSE <<sums["GP"], sums["VOLUME"]>>
RowMetrics == {"GP", "VOLUME", "MARGIN"}
ValueOf(sums, metric) == IF metric = "MARGIN" THEN Margin(sums) ELSE <<sums[metric], 1>>

\* The sums of two months as a row: its deltas and what is printed of them.
MonthRow(key, status, prior, current) ==
  LET metrics == [m \in RowMetrics |-> Delta(ValueOf(prior, m), ValueOf(current, m))]
  IN  [key |-> key, status |-> status, prior |-> prior, current |-> current,
       metrics |-> metrics, display |-> [m \in RowMetrics |-> Display(metrics[m], m)]]

GpChange(row) == row.current["GP"] - row.prior["GP"]

\* The frame's rows summed by one of its columns.
Rollup(frame, position) ==
  [v \in {k[position] : k \in DOMAIN frame} |->
     [m \in Sums |-> MapThenSumSet(LAMBDA k : frame[k][m], {k \in DOMAIN frame : k[position] = v})]]
FrameTotal(frame) == [m \in Sums |-> MapThenSumSet(LAMBDA k : frame[k][m], DOMAIN frame)]

MergeBreakdowns(prior, current) ==
  LET sorted == SetToSortSeq(DOMAIN prior \union DOMAIN current, <)
      side(sums, key) == IF key \in DOMAIN sums THEN sums[key] ELSE NoSums
      status(key) == CASE key \notin DOMAIN prior   -> "new"
                       [] key \notin DOMAIN current -> "lost"
                       [] OTHER                     -> "both"
  IN  [i \in DOMAIN sorted |->
         LET key == sorted[i] IN MonthRow(key, status(key), side(prior, key), side(current, key))]

\* The first n rows by a size of each, the largest first and ties by name.
Largest(size, n) ==
  LET sorted == SetToSortSeq(DOMAIN size,
                  LAMBDA r, s : size[r] > size[s] \/ (size[r] = size[s] /\ r.key < s.key))
  IN  SubSeq(sorted, 1, IF Len(sorted) < n THEN Len(sorted) ELSE n)

TopMovers(rows) ==
  [increases |-> Largest([r \in {r \in ToSet(rows) : GpChange(r) > 0} |-> GpChange(r)], MoverCap),
   decreases |-> Largest([r \in {r \in ToSet(rows) : GpChange(r) < 0} |-> - GpChange(r)], MoverCap)]

NewLost(rows) ==
  LET of(status) == {r \in ToSet(rows) : r.status = status}
  IN  [new  |-> Largest([r \in of("new") |-> Abs(r.current["GP"])], Len(rows)),
       lost |-> Largest([r \in of("lost") |-> Abs(r.prior["GP"])], Len(rows))]

Aggregate(key, rows) ==
  LET side(of(_)) == [m \in Sums |-> FoldLeft(LAMBDA n, r : n + of(r)[m], 0, rows)]
  IN  MonthRow(key, "both", side(LAMBDA r : r.prior), side(LAMBDA r : r.current))

Other == -2
Total == -3

\* The first rows by one sum, what is left as one row, and the total.
Ranked(rows, by) ==
  LET sorted == Largest([r \in ToSet(rows) |-> r.current[by]], Len(rows))
      shown  == IF Len(rows) < RowCap THEN Len(rows) ELSE RowCap
      rest   == SubSeq(sorted, shown + 1, Len(rows))
  IN  [rows   |-> SubSeq(sorted, 1, shown),
       other  |-> IF rest = << >> THEN << >> ELSE <<Aggregate(Other, rest)>>,
       footer |-> Aggregate(Total, sorted)]

-----------------------------------------------------------------------------
(* What a mover does in the rest of the book.                               *)
Only(frame, position, keys) ==
  [k \in {k \in DOMAIN frame : k[position] \in keys} |-> frame[k]]

\* Per value of a column the change of gross profit.
Changes(prior, current, position) ==
  LET a == Rollup(prior, position)
      b == Rollup(current, position)
      gp(sums, v) == IF v \in DOMAIN sums THEN sums[v]["GP"] ELSE 0
  IN  [v \in DOMAIN a \union DOMAIN b |-> gp(b, v) - gp(a, v)]

ChangeItem(key, change) == [key |-> key, display |-> FmtChange(<<change, 1>>, 0)]
ChangeItems(changes) ==
  LET sorted == SetToSortSeq({v \in DOMAIN changes : changes[v] # 0},
        LAMBDA v, w : \/ Abs(changes[v]) > Abs(changes[w])
                      \/ Abs(changes[v]) = Abs(changes[w]) /\ v < w)
      n == IF Len(sorted) < MoverCap THEN Len(sorted) ELSE MoverCap
  IN  [i \in 1 .. n |-> ChangeItem(sorted[i], changes[sorted[i]])]

\* The share of the office in the book, none where the book has no gross profit.
ShareFigures(part, whole) ==
  IF whole = 0 THEN {}
  ELSE LET n == Rounded(IF whole < 0 THEN <<-100 * part, - whole>> ELSE <<100 * part, whole>>, 1)
       IN  {Figure(Plain(n), Abs(n), 1, "%")}

EntityContext(key, bookPrior, bookCurrent, officePrior, officeCurrent, office, at) ==
  LET of(frame)  == Only(frame, at.entity, {key})
      mineA      == of(bookPrior)
      mineB      == of(bookCurrent)
      bookA      == FrameTotal(mineA)
      bookB      == FrameTotal(mineB)
      partA      == FrameTotal(of(officePrior))["GP"]
      partB      == FrameTotal(of(officeCurrent))["GP"]
      change     == partB - partA
      bookChange == bookB["GP"] - bookA["GP"]
      byOffice   == Changes(mineA, mineB, at.office)
      against    == {o \in DOMAIN byOffice : o # office /\ byOffice[o] * change < 0}
      elsewhere(frame) == Only(frame, at.office, DOMAIN byOffice \ {office})
  IN  [book    |-> MonthRow(key, "both", bookA, bookB),
       shares  |-> ShareFigures(partA, bookA["GP"]) \union ShareFigures(partB, bookB["GP"]),
       reconciliation |-> {FmtChange(<<c, 1>>, 0) : c \in {change, bookChange, bookChange - change}},
       offsets |-> ChangeItems([o \in against |-> byOffice[o]]),
       ports   |-> ChangeItems(Changes(elsewhere(mineA), elsewhere(mineB), at.port))]
=============================================================================
