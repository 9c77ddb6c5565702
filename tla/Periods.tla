------------------------------- MODULE Periods -------------------------------
(***************************************************************************)
(* Calendar windows (core/parsing/period_labels.py) and the period parser  *)
(* (core/parsing/period_parser.py) as pure operators.                      *)
(*                                                                         *)
(* A day is the number 372 * year + 31 * (month - 1) + (day - 1): the order*)
(* of days is the order of these numbers.  A window is half-open.  A side  *)
(* of a text is the sequence of the period phrases in it, each with whose  *)
(* name it is part of.                                                     *)
(***************************************************************************)
EXTENDS Integers, Sequences

NoDay == 0   \* None
Day(y, m, d) == 372 * y + 31 * (m - 1) + (d - 1)
Year(day)  == day \div 372
Month(day) == (day % 372) \div 31 + 1
OfMonth(day) == (day % 31) + 1   \* date.day

Window(start, end) == [start |-> start, end |-> end]
NoWindow == Window(NoDay, NoDay)

IsLeap(y) == y % 4 = 0 /\ (y % 100 # 0 \/ y % 400 = 0)
DaysInMonth(y, m) ==
  CASE m \in {4, 6, 9, 11} -> 30
    [] m = 2 -> IF IsLeap(y) THEN 29 ELSE 28
    [] OTHER -> 31

\* _add_months on the first of a month.
AddMonths(day, n) ==
  LET index == 12 * Year(day) + Month(day) - 1 + n
  IN  Day(index \div 12, (index % 12) + 1, 1)

NextDay(day) ==
  IF OfMonth(day) < DaysInMonth(Year(day), Month(day)) THEN day + 1
  ELSE AddMonths(Day(Year(day), Month(day), 1), 1)

MonthWindow(y, m)   == Window(Day(y, m, 1), AddMonths(Day(y, m, 1), 1))
QuarterWindow(y, q) == Window(Day(y, 3 * q - 2, 1), AddMonths(Day(y, 3 * q - 2, 1), 3))
YearWindow(y)       == Window(Day(y, 1, 1), Day(y + 1, 1, 1))

\* What a bare pair of days looks like: a year to date that ends with a quarter is a quarter.
WindowKind(w) ==
  IF OfMonth(w.start) # 1 THEN "range"
  ELSE IF Month(w.start) = 1 /\ w.end = Day(Year(w.start) + 1, 1, 1) THEN "year"
  ELSE IF Month(w.start) \in {1, 4, 7, 10} /\ w.end = AddMonths(w.start, 3) THEN "quarter"
  ELSE IF w.end = AddMonths(w.start, 1) THEN "month"
  ELSE IF Month(w.start) = 1 /\ Year(w.end) = Year(w.start) THEN "ytd" ELSE "range"

\* The window two slots stand for; rows without an end are months.
SlotWindow(start, end) ==
  IF end # NoDay /\ end > start THEN Window(start, end)
  ELSE MonthWindow(Year(start), Month(start))

SameDayPriorYear(day) ==
  LET y == Year(day) - 1
      last == DaysInMonth(y, Month(day))
  IN  Day(y, Month(day), IF OfMonth(day) < last THEN OfMonth(day) ELSE last)

\* A resolved phrase is a window with the kind it was written as.
Resolved(w, kind) == [window |-> w, kind |-> kind]
Unresolved == Resolved(NoWindow, "none")

ShiftBackOneYear(r) ==
  LET s == r.window.start
      y == Year(s) - 1
      end == SameDayPriorYear(r.window.end)
      start == SameDayPriorYear(s)
  IN  CASE r.kind = "month"   -> Resolved(MonthWindow(y, Month(s)), "month")
        [] r.kind = "quarter" -> Resolved(QuarterWindow(y, (Month(s) - 1) \div 3 + 1), "quarter")
        [] r.kind = "year"    -> Resolved(YearWindow(y), "year")
        [] r.kind = "range"   ->
             Resolved(Window(start, IF end > start THEN end ELSE NextDay(start)), "range")
        [] OTHER -> Resolved(Window(Day(y, 1, 1), end), "ytd")

\* resolve_periods of the monthly report: the month, or its complete days, and as much of
\* the month before; NoWindow when the month is not what it was chosen as.
ReportPeriods(month, kind, today) ==
  LET running == Day(Year(today), Month(today), 1)
      before == AddMonths(month, -1)
      n == OfMonth(today) - 1
      whole == MonthWindow(Year(month), Month(month))
      pair(now, prior) == [current |-> now, prior |-> prior]
  IN  CASE kind = "complete" /\ whole.end <= today -> pair(whole, Window(before, month))
        [] kind = "mtd" /\ month = running /\ n > 0 ->
             pair(Window(month, month + n),
                  Window(before, IF n < DaysInMonth(Year(before), Month(before))
                                 THEN before + n ELSE month))
        [] OTHER -> pair(NoWindow, NoWindow)

-----------------------------------------------------------------------------
(* Phrases: form, the year and number written, and what precedes it in its side. *)
Phrase(form, y, n, lead) == [form |-> form, year |-> y, number |-> n, lead |-> lead]
\* A period phrase and whose name it is part of.
Within(p, whose) == [phrase |-> p, whose |-> whose]

\* What the pattern of phrases matches.
Years == 1900..2099
IsPhrase(p) ==
  CASE p.form = "monthyear"   -> p.year \in Years /\ p.number \in 1..12
    [] p.form = "quarteryear" -> p.year \in Years /\ p.number \in 1..4
    [] p.form = "baremonth"   -> p.number \in 1..12
    [] p.form = "barequarter" -> p.number \in 1..4
    [] p.form = "bareyear"    -> p.year \in Years
    [] OTHER -> p.form \in {"ytd", "prioryear"}
IsSide(side) == DOMAIN side \subseteq Nat /\ \A i \in DOMAIN side : IsPhrase(side[i].phrase)

May == 5   \* AMBIGUOUS_BARE_MONTHS

GatedOut(p, afterConnective) ==
  /\ p.form = "baremonth" /\ p.number = May
  /\ ~(afterConnective /\ p.lead = "start")
  /\ p.lead # "preposition"

MostRecentYear(startMonth, today) ==
  IF startMonth <= Month(today) THEN Year(today) ELSE Year(today) - 1

SideParse(r, matched, relative, noYtd) ==
  [resolved |-> r, matched |-> matched, relative |-> relative, noYtd |-> noYtd]
NoPhrase == SideParse(Unresolved, FALSE, FALSE, FALSE)

ResolvePhrase(p, today) ==
  LET of(w, kind) == SideParse(Resolved(w, kind), TRUE, FALSE, FALSE)
  IN  CASE p.form = "monthyear"   -> of(MonthWindow(p.year, p.number), "month")
        [] p.form = "quarteryear" -> of(QuarterWindow(p.year, p.number), "quarter")
        [] p.form = "ytd" ->
             IF today = Day(Year(today), 1, 1) THEN SideParse(Unresolved, TRUE, FALSE, TRUE)
             ELSE of(Window(Day(Year(today), 1, 1), today), "ytd")
        [] p.form = "prioryear" ->
             SideParse(Resolved(YearWindow(Year(today) - 1), "year"), TRUE, TRUE, FALSE)
        [] p.form = "baremonth" ->
             of(MonthWindow(MostRecentYear(p.number, today), p.number), "month")
        [] p.form = "barequarter" ->
             of(QuarterWindow(MostRecentYear(3 * p.number - 2, today), p.number), "quarter")
        [] OTHER -> of(YearWindow(p.year), "year")

\* The first phrase of a side that no masked name hides and the gate lets through.
ParseSide(side, masked, today, afterConnective) ==
  LET live == {i \in DOMAIN side : /\ side[i].whose \notin masked
                                   /\ ~GatedOut(side[i].phrase, afterConnective)}
      first == CHOOSE i \in live : \A j \in live : i <= j
  IN  IF live = {} THEN NoPhrase ELSE ResolvePhrase(side[first].phrase, today)

\* available holds its last day; both days are NoDay when the data is empty.
Unavailable(r, available) ==
  /\ r # Unresolved
  /\ \/ available = NoWindow
     \/ ~(r.window.start <= available.end /\ available.start < r.window.end)

CarriedPeriod(start, end) == LET w == SlotWindow(start, end) IN Resolved(w, WindowKind(w))
CarriesA(l, slots)        == ~l.matched /\ slots.a # NoDay

\* The second period: the one named, else the one carried when no period was named at all.
WithSecond(l, r, a, named, slots, available) ==
  LET carriesB == named = Unresolved /\ ~l.matched /\ slots.b # NoDay
      b == IF carriesB THEN CarriedPeriod(slots.b, slots.bEnd) ELSE named
      source(carried, x) == IF carried THEN "carry" ELSE IF x = Unresolved THEN "none" ELSE "text"
  IN  [a |-> a.window, b |-> b.window,
       aSource |-> source(CarriesA(l, slots), a), bSource |-> source(carriesB, b),
       issue |-> l.noYtd \/ r.noYtd \/ Unavailable(a, available) \/ Unavailable(b, available)]

\* A relative second period is the first one a year before.
WithFirst(l, r, a, slots, available) ==
  WithSecond(l, r, a, IF r.relative /\ a # Unresolved THEN ShiftBackOneYear(a) ELSE r.resolved,
             slots, available)

BothPeriods(l, r, slots, available) ==
  WithFirst(l, r, IF CarriesA(l, slots) THEN CarriedPeriod(slots.a, slots.aEnd) ELSE l.resolved,
            slots, available)

ParsePeriods(left, right, masked, slots, today, available) ==
  BothPeriods(ParseSide(left, masked, today, FALSE), ParseSide(right, masked, today, TRUE), slots,
              available)
=============================================================================
