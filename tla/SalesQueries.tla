----------------------------- MODULE SalesQueries -----------------------------
(***************************************************************************)
(* The queries on the sales table: what core/data/query_builder.py lets    *)
(* through, what the SQL it builds selects and how synthetic_client.py     *)
(* shapes the answer.  A sale is a record of its date, its dimensions and  *)
(* its sums; names of customers, ports and offices are numbers, which have *)
(* the order the SQL sorts by.                                             *)
(***************************************************************************)
EXTENDS Periods, FiniteSets, FiniteSetsExt, SequencesExt

CONSTANTS
  Dimensions,   \* columns to filter and group by
  Null,         \* a dimension without a value, and no scope
  Placeholder,  \* null_placeholder
  ScopeColumn,  \* row_scope.column of an entity that declares one
  ValueLimit    \* DIMENSION_VALUE_LIMIT

Sums == {"GP", "VOLUME"}

\* COALESCE(column, placeholder)
Column(sale, column) == IF sale[column] = Null THEN Placeholder ELSE sale[column]

NoFilter == [c \in {} |-> {}]

\* A caller reads the rows of its own claim where the entity declares a row scope, and all
\* rows where it does not.
Unanswerable == -1
ResolveRowScope(declared, claim) ==
  IF ~declared THEN Null ELSE IF claim = Null THEN Unanswerable ELSE claim

\* A query has a scope exactly when its entity declares one.
RequireScopeValue(declared, scope) == declared <=> scope # Null

ValidateFilters(filters) ==
  /\ DOMAIN filters \subseteq Dimensions
  /\ \A c \in DOMAIN filters : filters[c] # {}

InScope(sale, scope)     == scope # Null => sale[ScopeColumn] = scope
InFilters(sale, filters) == \A c \in DOMAIN filters : Column(sale, c) \in filters[c]
InPeriod(sale, window)   == window.start <= sale.date /\ sale.date < window.end

Query(window, filters, scope) == [window |-> window, filters |-> filters, scope |-> scope]

\* What becomes an SQL text; anything else raises.
Builds(q, columns, declared) ==
  /\ RequireScopeValue(declared, q.scope)
  /\ ValidateFilters(q.filters)
  /\ ToSet(columns) \subseteq Dimensions

Selected(table, q) ==
  {s \in table : InPeriod(s, q.window) /\ InFilters(s, q.filters) /\ InScope(s, q.scope)}

SumOf(sales, sum) == MapThenSumSet(LAMBDA s : s[sum], sales)
SumsOf(sales)     == [m \in Sums |-> SumOf(sales, m)]

\* One row of sums; over no sale they are NULL, read as zero.
RunMetricQuery(table, q) == SumsOf(Selected(table, q))

\* Per combination of the columns its sums.
RunFrameQuery(table, q, columns) ==
  LET sales   == Selected(table, q)
      keys(s) == [i \in DOMAIN columns |-> Column(s, columns[i])]
  IN  [k \in {keys(s) : s \in sales} |-> SumsOf({s \in sales : keys(s) = k})]

\* The values of a column in their order, those past the limit not fetched.
ListDimensionValues(table, column, scope) ==
  LET values == {s[column] : s \in {s \in table : InScope(s, scope)}} \ {Null}
      sorted == SetToSortSeq(values, <)
  IN  ToSet(SubSeq(sorted, 1, IF Len(sorted) < ValueLimit THEN Len(sorted) ELSE ValueLimit))

MonthStart(day) == Day(Year(day), Month(day), 1)

ListMonths(table, scope) ==
  {MonthStart(s.date) : s \in {s \in table : InScope(s, scope)}}
=============================================================================
