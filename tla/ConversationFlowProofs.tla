------------------------ MODULE ConversationFlowProofs ------------------------
(***************************************************************************)
(* Proofs about ConversationFlow, for any tabs, texts, names, offices,     *)
(* months, days and any number of turns and faults: a text is taken as the *)
(* answer to the question that was asked, names that are carried are names *)
(* of the data, the periods that are carried are those of the turn, and    *)
(* the scope of a report is whole.                                         *)
(***************************************************************************)
EXTENDS ConversationFlow, SequenceTheorems, FiniteSetTheorems, WellFoundedInduction, TLAPS

-----------------------------------------------------------------------------
(* The least of numbers.                                                   *)

LEMMA Least ==
  ASSUME NEW S \in SUBSET Nat, S # {}
  PROVE  \E m \in S : \A k \in S : m <= k
<1> DEFINE Less == {p \in Nat \X Nat : p[1] < p[2]}
<1>1. IsWellFoundedOn(Less, Nat)
  BY NatLessThanWellFounded DEF OpToRel
<1>2. PICK m \in S : \A y \in S : <<y, m>> \notin Less
  BY <1>1, WFMin, Zenon
<1>3. \A k \in S : ~(k < m)
  BY <1>2
<1> QED
  BY <1>3

LEMMA MinIs ==
  ASSUME NEW S \in SUBSET Nat, S # {}
  PROVE  Min(S) \in S
<1>1. \E m \in S : \A k \in S : m <= k
  BY Least
<1> QED
  BY <1>1 DEF Min

-----------------------------------------------------------------------------
(* The calendar of a report.                                                *)

LEMMA MonthAndDay ==
  ASSUME NEW r \in 0..371
  PROVE  \E k \in 0..11, j \in 0..30 : r = 31 * k + j /\ k = r \div 31
<1>1. r \div 31 \in 0..11
  OBVIOUS
<1>2. r - 31 * (r \div 31) \in 0..30
  OBVIOUS
<1> QED
  BY <1>1, <1>2

LEMMA DayHas ==
  ASSUME NEW day \in Nat
  PROVE  /\ Year(day) \in Nat /\ Month(day) \in 1..12 /\ OfMonth(day) \in 1..31
         /\ day = 372 * Year(day) + 31 * (Month(day) - 1) + (OfMonth(day) - 1)
<1>1. PICK q \in Nat, r \in 0..371 : day = 372 * q + r /\ q = day \div 372 /\ r = day % 372
  OBVIOUS
<1>2. PICK k \in 0..11, j \in 0..30 : r = 31 * k + j /\ k = r \div 31
  BY MonthAndDay
<1>3. day % 31 = j
  <2>1. day = 372 * q + r /\ r = 31 * k + j
    BY <1>1, <1>2
  <2>2. PICK n \in Nat : n = 12 * q + k
    OBVIOUS
  <2>3. day = 31 * n + j
    BY <2>1, <2>2
  <2> QED
    BY <2>3
<1>4. Year(day) = q /\ Month(day) = k + 1
  BY <1>1, <1>2 DEF Year, Month
<1>5. OfMonth(day) = j + 1
  BY <1>3 DEF OfMonth
<1>6. day = 372 * q + r /\ r = 31 * k + j
  BY <1>1, <1>2
<1> QED
  BY <1>4, <1>5, <1>6

LEMMA FirstOfMonth ==
  ASSUME NEW m \in Nat, OfMonth(m) = 1
  PROVE  /\ Day(Year(m), Month(m), 1) = m
         /\ \A n \in Int : AddMonths(m, n) = m + 31 * n
<1>1. /\ Year(m) \in Nat /\ Month(m) \in 1..12
      /\ m = 372 * Year(m) + 31 * (Month(m) - 1)
  BY DayHas
<1>2. ASSUME NEW n \in Int PROVE AddMonths(m, n) = m + 31 * n
  <2>1. PICK i \in Int : i = 12 * Year(m) + Month(m) - 1 + n
    BY <1>1
  <2>2. PICK x \in Int, y \in Int : x = i \div 12 /\ y = i % 12 /\ i = 12 * x + y
    OBVIOUS
  <2>3. AddMonths(m, n) = Day(x, y + 1, 1)
    BY <2>1, <2>2 DEF AddMonths
  <2>4. Day(x, y + 1, 1) = 372 * x + 31 * y
    BY <2>2 DEF Day
  <2>5. 372 * x + 31 * y = 31 * i /\ m + 31 * n = 31 * i
    <3>1. PICK q \in Int, k \in Int : q = Year(m) /\ k = Month(m)
      BY <1>1
    <3>2. m = 372 * q + 31 * (k - 1) /\ i = 12 * q + k - 1 + n
      BY <1>1, <2>1, <3>1
    <3> QED
      BY <2>2, <3>2
  <2> QED
    BY <2>3, <2>4, <2>5
<1> QED
  BY <1>1, <1>2 DEF Day

LEMMA RunningMonth ==
  ASSUME NEW day \in Nat
  PROVE  Day(Year(day), Month(day), 1) + (OfMonth(day) - 1) = day
<1>1. PICK y, m, d : y = Year(day) /\ m = Month(day) /\ d = OfMonth(day)
  OBVIOUS
<1>2. y \in Nat /\ m \in 1..12 /\ d \in 1..31 /\ day = 372 * y + 31 * (m - 1) + (d - 1)
  BY <1>1, DayHas
<1>3. Day(y, m, 1) = 372 * y + 31 * (m - 1)
  BY <1>2 DEF Day
<1> QED
  BY <1>1, <1>2, <1>3

\* The windows of a report: the month itself, over by today, and days before it.
LEMMA ReportPeriodsAre ==
  ASSUME NEW m \in Nat, OfMonth(m) = 1, NEW kind, NEW day \in Nat,
         ReportPeriods(m, kind, day).current # NoWindow
  PROVE  LET p == ReportPeriods(m, kind, day)
         IN  /\ p.current.start = m /\ m < p.current.end /\ p.current.end <= day
             /\ p.prior.start < p.prior.end /\ p.prior.end <= m
             /\ p.current.end \in Nat
<1> DEFINE running == Day(Year(day), Month(day), 1)
           before == AddMonths(m, -1)
           n == OfMonth(day) - 1
           whole == MonthWindow(Year(m), Month(m))
           most == IF n < DaysInMonth(Year(before), Month(before)) THEN before + n ELSE m
           p == ReportPeriods(m, kind, day)
           pair(now, prior) == [current |-> now, prior |-> prior]
<1>1. \/ whole.end <= day /\ p = pair(whole, Window(before, m))
      \/ m = running /\ n > 0 /\ p = pair(Window(m, m + n), Window(before, most))
      \/ p = pair(NoWindow, NoWindow)
  BY Zenon DEF ReportPeriods
<1>2. p # pair(NoWindow, NoWindow)
  OBVIOUS
<1>3. before = m - 31 /\ whole.start = m /\ whole.end = m + 31
  <2>1. Day(Year(m), Month(m), 1) = m /\ AddMonths(m, -1) = m - 31 /\ AddMonths(m, 1) = m + 31
    BY FirstOfMonth
  <2> QED
    BY <2>1 DEF MonthWindow, Window
<1>4. running + n = day /\ n \in Int
  BY RunningMonth DEF OfMonth
<1>5. DaysInMonth(Year(before), Month(before)) \in 0..31
  BY DEF DaysInMonth
<1>6. n > 0 => before < most /\ most <= m
  BY <1>3, <1>4, <1>5
<1> HIDE DEF p, whole, before, most, running, n
<1>7. CASE whole.end <= day /\ p = pair(whole, Window(before, m))
  BY <1>3, <1>7 DEF Window, p
<1>8. CASE m = running /\ n > 0 /\ p = pair(Window(m, m + n), Window(before, most))
  BY <1>4, <1>6, <1>8 DEF Window, p
<1> QED
  BY <1>1, <1>2, <1>7, <1>8

-----------------------------------------------------------------------------
(* The windows a text names.                                                *)

\* A window of which its two days tell all.
Telling(w) == \E s, e \in Nat : w = Window(s, e) /\ NoDay < s /\ s < e

Kinds == {"month", "quarter", "year", "ytd", "range"}

\* A window with its kind, not so early that a year before it is none.
IsResolved(r) ==
  \E s, e \in Nat, kind \in Kinds :
    /\ r = Resolved(Window(s, e), kind) /\ FirstDay <= s /\ s < e
    /\ kind = "ytd" => Year(s) = Year(e) /\ s = Day(Year(s), 1, 1)

LEMMA FirstDays ==
  ASSUME NEW y \in Nat, NEW m \in 1..12, NEW d \in Nat, d = Day(y, m, 1)
  PROVE  /\ OfMonth(d) = 1
         /\ \A n \in Int : AddMonths(d, n) = d + 31 * n
<1>1. d = 372 * y + 31 * (m - 1)
  BY DEF Day
<1>2. d % 31 = 0
  <2>1. PICK n \in Nat : n = 12 * y + (m - 1)
    OBVIOUS
  <2>2. d = 31 * n
    BY <1>1, <2>1
  <2> QED
    BY <2>2
<1>3. OfMonth(d) = 1
  BY <1>2 DEF OfMonth
<1>4. \A n \in Int : AddMonths(d, n) = d + 31 * n
  BY <1>1, <1>3, FirstOfMonth
<1> QED
  BY <1>3, <1>4

LEMMA MonthWindowIs ==
  ASSUME NEW y \in Nat, NEW m \in 1..12
  PROVE  \E d \in Nat : Day(y, 1, 1) <= d /\ MonthWindow(y, m) = Window(d, d + 31)
<1>1. PICK d \in Nat : d = Day(y, m, 1) /\ d = 372 * y + 31 * (m - 1)
  BY DEF Day
<1>2. AddMonths(d, 1) = d + 31
  BY <1>1, FirstDays
<1>3. MonthWindow(y, m) = Window(d, d + 31)
  BY <1>1, <1>2 DEF MonthWindow
<1>4. Day(y, 1, 1) <= d
  BY <1>1 DEF Day
<1> QED
  BY <1>3, <1>4

LEMMA QuarterWindowIs ==
  ASSUME NEW y \in Nat, NEW q \in 1..4
  PROVE  \E d \in Nat : Day(y, 1, 1) <= d /\ QuarterWindow(y, q) = Window(d, d + 93)
<1>1. PICK m \in 1..12 : m = 3 * q - 2
  OBVIOUS
<1>2. PICK d \in Nat : d = Day(y, m, 1) /\ d = 372 * y + 31 * (m - 1)
  BY DEF Day
<1>3. AddMonths(d, 3) = d + 93
  BY <1>2, FirstDays
<1>4. QuarterWindow(y, q) = Window(d, d + 93)
  BY <1>1, <1>2, <1>3 DEF QuarterWindow
<1>5. Day(y, 1, 1) <= d
  BY <1>2 DEF Day
<1> QED
  BY <1>4, <1>5

LEMMA YearWindowIs ==
  ASSUME NEW y \in Nat
  PROVE  \E d \in Nat : Day(y, 1, 1) <= d /\ YearWindow(y) = Window(d, d + 372)
<1>1. PICK d \in Nat : d = 372 * y
  OBVIOUS
<1>2. Day(y, 1, 1) = d /\ Day(y + 1, 1, 1) = d + 372
  BY <1>1 DEF Day
<1> QED
  BY <1>1, <1>2 DEF YearWindow

LEMMA ResolvedAs ==
  ASSUME NEW s \in Nat, NEW e \in Nat, FirstDay <= s, s < e, NEW kind \in Kinds, kind # "ytd"
  PROVE  IsResolved(Resolved(Window(s, e), kind))
BY DEF IsResolved

\* Years that a phrase may come to mean.
Late == {y \in Nat : y >= 1899}

LEMMA NamedWindows ==
  ASSUME NEW y \in Late
  PROVE  /\ \A m \in 1..12 : IsResolved(Resolved(MonthWindow(y, m), "month"))
         /\ \A q \in 1..4 : IsResolved(Resolved(QuarterWindow(y, q), "quarter"))
         /\ IsResolved(Resolved(YearWindow(y), "year"))
<1>1. y \in Nat
  BY DEF Late
<1>2. FirstDay <= Day(y, 1, 1) /\ Day(y, 1, 1) \in Int
  BY DEF FirstDay, Day, Late
<1>3. {"month", "quarter", "year"} \subseteq Kinds \ {"ytd"} /\ FirstDay \in Int
  BY DEF Kinds, FirstDay, Day
<1>4. ASSUME NEW m \in 1..12 PROVE IsResolved(Resolved(MonthWindow(y, m), "month"))
  <2>1. PICK d \in Nat : Day(y, 1, 1) <= d /\ MonthWindow(y, m) = Window(d, d + 31)
    BY <1>1, MonthWindowIs
  <2>2. FirstDay <= d /\ d + 31 \in Nat /\ d < d + 31
    BY <1>2, <1>3, <2>1
  <2> QED
    BY <1>3, <2>1, <2>2, ResolvedAs
<1>5. ASSUME NEW q \in 1..4 PROVE IsResolved(Resolved(QuarterWindow(y, q), "quarter"))
  <2>1. PICK d \in Nat : Day(y, 1, 1) <= d /\ QuarterWindow(y, q) = Window(d, d + 93)
    BY <1>1, QuarterWindowIs
  <2>2. FirstDay <= d /\ d + 93 \in Nat /\ d < d + 93
    BY <1>2, <1>3, <2>1
  <2> QED
    BY <1>3, <2>1, <2>2, ResolvedAs
<1>6. IsResolved(Resolved(YearWindow(y), "year"))
  <2>1. PICK d \in Nat : Day(y, 1, 1) <= d /\ YearWindow(y) = Window(d, d + 372)
    BY <1>1, YearWindowIs
  <2>2. FirstDay <= d /\ d + 372 \in Nat /\ d < d + 372
    BY <1>2, <1>3, <2>1
  <2> QED
    BY <1>3, <2>1, <2>2, ResolvedAs
<1> QED
  BY <1>4, <1>5, <1>6

LEMMA YearsAre ==
  ASSUME NEW y \in Nat, NEW day \in Nat, 372 * y <= day, day < 372 * (y + 1)
  PROVE  Year(day) = y
<1>1. PICK q \in Nat, r \in 0..371 : day = 372 * q + r /\ q = day \div 372
  OBVIOUS
<1>2. q = y
  BY <1>1
<1> QED
  BY <1>1, <1>2 DEF Year

\* What a phrase means: a window, or the year to date on its first day.
Means(x) ==
  \/ x = SideParse(Unresolved, TRUE, FALSE, TRUE)
  \/ x.matched /\ ~x.noYtd /\ IsResolved(x.resolved)

LEMMA PhraseIs ==
  ASSUME NEW p, IsPhrase(p), NEW day \in Nat, Year(day) \in Years
  PROVE  Means(ResolvePhrase(p, day))
<1> DEFINE x == ResolvePhrase(p, day)
<1>1. \A r, rel : LET s == SideParse(r, TRUE, rel, FALSE) IN s.matched /\ ~s.noYtd /\ s.resolved = r
  BY DEF SideParse
<1>2. PICK y : y = Year(day)
  OBVIOUS
<1>3. y \in 1900..2099 /\ y \in Late /\ y - 1 \in Late
  BY <1>2 DEF Years, Late
<1>4. /\ \A m \in 1..12 : IsResolved(Resolved(MonthWindow(y, m), "month"))
      /\ \A q \in 1..4 : IsResolved(Resolved(QuarterWindow(y, q), "quarter"))
  BY <1>3, NamedWindows
<1>5. /\ \A m \in 1..12 : IsResolved(Resolved(MonthWindow(y - 1, m), "month"))
      /\ \A q \in 1..4 : IsResolved(Resolved(QuarterWindow(y - 1, q), "quarter"))
      /\ IsResolved(Resolved(YearWindow(y - 1), "year"))
  BY <1>3, NamedWindows
<1>6. ASSUME p.year \in Years
      PROVE /\ \A m \in 1..12 : IsResolved(Resolved(MonthWindow(p.year, m), "month"))
            /\ \A q \in 1..4 : IsResolved(Resolved(QuarterWindow(p.year, q), "quarter"))
            /\ IsResolved(Resolved(YearWindow(p.year), "year"))
  <2>1. p.year \in Late
    BY <1>6 DEF Years, Late
  <2> QED
    BY <2>1, NamedWindows
<1>7. \A n : MostRecentYear(n, day) \in {y, y - 1}
  BY <1>2 DEF MostRecentYear
<1>8. CASE p.form = "monthyear"
  <2>1. p.year \in Years /\ p.number \in 1..12
    BY <1>8 DEF IsPhrase
  <2>2. x = SideParse(Resolved(MonthWindow(p.year, p.number), "month"), TRUE, FALSE, FALSE)
    BY <1>8 DEF ResolvePhrase
  <2> QED
    BY <1>1, <1>6, <2>1, <2>2 DEF Means
<1>9. CASE p.form = "quarteryear"
  <2>1. p.year \in Years /\ p.number \in 1..4
    BY <1>9 DEF IsPhrase
  <2>2. x = SideParse(Resolved(QuarterWindow(p.year, p.number), "quarter"), TRUE, FALSE, FALSE)
    BY <1>9 DEF ResolvePhrase
  <2> QED
    BY <1>1, <1>6, <2>1, <2>2 DEF Means
<1>10. CASE p.form = "baremonth"
  <2>1. p.number \in 1..12
    BY <1>10 DEF IsPhrase
  <2>2. x = SideParse(Resolved(MonthWindow(MostRecentYear(p.number, day), p.number), "month"), TRUE, FALSE, FALSE)
    BY <1>10 DEF ResolvePhrase
  <2>3. MostRecentYear(p.number, day) = y \/ MostRecentYear(p.number, day) = y - 1
    BY <1>7
  <2>4. IsResolved(Resolved(MonthWindow(MostRecentYear(p.number, day), p.number), "month"))
    BY <1>4, <1>5, <2>1, <2>3
  <2> QED
    BY <1>1, <2>2, <2>4 DEF Means
<1>11. CASE p.form = "barequarter"
  <2>1. p.number \in 1..4
    BY <1>11 DEF IsPhrase
  <2>2. x = SideParse(Resolved(QuarterWindow(MostRecentYear(3 * p.number - 2, day), p.number), "quarter"), TRUE, FALSE, FALSE)
    BY <1>11 DEF ResolvePhrase
  <2>3. PICK z : z = MostRecentYear(3 * p.number - 2, day)
    OBVIOUS
  <2>4. z = y \/ z = y - 1
    BY <1>7, <2>3
  <2>5. IsResolved(Resolved(QuarterWindow(z, p.number), "quarter"))
    BY <1>4, <1>5, <2>1, <2>4
  <2> QED
    BY <1>1, <2>2, <2>3, <2>5 DEF Means
<1>12. CASE p.form = "bareyear"
  <2>1. p.year \in Years
    BY <1>12 DEF IsPhrase
  <2>2. x = SideParse(Resolved(YearWindow(p.year), "year"), TRUE, FALSE, FALSE)
    BY <1>12 DEF ResolvePhrase
  <2> QED
    BY <1>1, <1>6, <2>1, <2>2 DEF Means
<1>13. CASE p.form = "prioryear"
  <2>1. x = SideParse(Resolved(YearWindow(y - 1), "year"), TRUE, TRUE, FALSE)
    BY <1>2, <1>13 DEF ResolvePhrase
  <2> QED
    BY <1>1, <1>5, <2>1 DEF Means
<1>14. CASE p.form = "ytd"
  <2>1. PICK first : first = Day(y, 1, 1)
    OBVIOUS
  <2>2. first = 372 * y /\ first \in Nat
    BY <1>3, <2>1 DEF Day
  <2>3. CASE day = first
    <3>1. x = SideParse(Unresolved, TRUE, FALSE, TRUE)
      BY <1>2, <1>14, <2>1, <2>3 DEF ResolvePhrase
    <3> QED
      BY <3>1 DEF Means
  <2>4. CASE day # first
    <3>1. x = SideParse(Resolved(Window(first, day), "ytd"), TRUE, FALSE, FALSE)
      BY <1>2, <1>14, <2>1, <2>4 DEF ResolvePhrase
    <3>2. first <= day
      <4>1. day = 372 * Year(day) + 31 * (Month(day) - 1) + (OfMonth(day) - 1)
            /\ Month(day) \in 1..12 /\ OfMonth(day) \in 1..31
        BY DayHas
      <4> QED
        BY <1>2, <1>3, <2>2, <4>1
    <3>3. Year(first) = y
      BY <1>3, <2>2, YearsAre
    <3>4. FirstDay <= first
      BY <1>3, <2>2 DEF FirstDay, Day
    <3>5. first < day
      BY <2>2, <2>4, <3>2
    <3>6. Year(first) = Year(day) /\ first = Day(Year(first), 1, 1)
      BY <1>2, <2>1, <3>3
    <3>7. IsResolved(Resolved(Window(first, day), "ytd"))
      BY <2>2, <3>4, <3>5, <3>6 DEF IsResolved, Kinds
    <3> QED
      BY <1>1, <3>1, <3>7 DEF Means
  <2> QED
    BY <2>3, <2>4
<1>15. p.form \in {"monthyear", "quarteryear", "baremonth", "barequarter", "bareyear", "ytd", "prioryear"}
  BY DEF IsPhrase
<1> QED
  BY <1>8, <1>9, <1>10, <1>11, <1>12, <1>13, <1>14, <1>15

LEMMA SideIs ==
  ASSUME NEW side, IsSide(side), NEW masked, NEW day \in Nat, Year(day) \in Years, NEW after
  PROVE  LET x == ParseSide(side, masked, day, after)
         IN  x = NoPhrase \/ Means(x)
<1> DEFINE live == {i \in DOMAIN side : /\ side[i].whose \notin masked
                                        /\ ~GatedOut(side[i].phrase, after)}
           first == CHOOSE i \in live : \A j \in live : i <= j
           x == ParseSide(side, masked, day, after)
<1>1. CASE live = {}
  BY <1>1 DEF ParseSide
<1>2. CASE live # {}
  <2>1. live \in SUBSET Nat
    BY DEF IsSide
  <2>2. \E i \in live : \A j \in live : i <= j
    BY <1>2, <2>1, Least
  <2>3. first \in live
    BY <2>2
  <2>4. first \in DOMAIN side
    BY <2>3
  <2>5. x = ResolvePhrase(side[first].phrase, day)
    BY <1>2 DEF ParseSide
  <2> HIDE DEF live, first
  <2>6. IsPhrase(side[first].phrase)
    BY <2>4 DEF IsSide
  <2> HIDE DEF x
  <2>7. Means(x)
    BY <2>5, <2>6, PhraseIs
  <2> QED
    BY <2>7 DEF x
<1> QED
  BY <1>1, <1>2

LEMMA ResolvedHas ==
  ASSUME NEW w, NEW kind
  PROVE  Resolved(w, kind).window = w /\ Resolved(w, kind).kind = kind
BY DEF Resolved

LEMMA WindowHas ==
  ASSUME NEW s, NEW e
  PROVE  Window(s, e).start = s /\ Window(s, e).end = e
BY DEF Window

\* The window of two slots is one, of a kind that its days show.
LEMMA CarriedIs ==
  ASSUME NEW a \in Nat, NEW aEnd \in Nat, FirstDay <= a
  PROVE  IsResolved(CarriedPeriod(a, aEnd))
<1> DEFINE w == SlotWindow(a, aEnd)
<1>1. PICK s \in Nat, e \in Nat : w = Window(s, e) /\ FirstDay <= s /\ s < e
  <2>1. CASE aEnd # NoDay /\ aEnd > a
    BY <2>1 DEF SlotWindow
  <2>2. CASE ~(aEnd # NoDay /\ aEnd > a)
    <3>1. PICK y, m : y = Year(a) /\ m = Month(a)
      OBVIOUS
    <3>2. y \in Nat /\ m \in 1..12 /\ OfMonth(a) \in 1..31 /\ a = 372 * y + 31 * (m - 1) + (OfMonth(a) - 1)
      BY <3>1, DayHas
    <3>3. y \in Late
      BY <3>2 DEF Late, FirstDay, Day
    <3>4. IsResolved(Resolved(MonthWindow(y, m), "month"))
      BY <3>2, <3>3, NamedWindows
    <3>5. PICK s \in Nat, e \in Nat, kind \in Kinds :
            Resolved(MonthWindow(y, m), "month") = Resolved(Window(s, e), kind) /\ FirstDay <= s /\ s < e
      BY <3>4 DEF IsResolved
    <3>6. MonthWindow(y, m) = Window(s, e)
      BY <3>5, ResolvedHas
    <3>7. w = Window(s, e)
      BY <2>2, <3>1, <3>6 DEF SlotWindow
    <3> QED
      BY <3>5, <3>7
  <2> QED
    BY <2>1, <2>2
<1>2. WindowKind(w) \in Kinds
  BY DEF WindowKind, Kinds
<1>3. ASSUME WindowKind(w) = "ytd" PROVE Year(s) = Year(e) /\ s = Day(Year(s), 1, 1)
  <2>1. w.start = s /\ w.end = e
    BY <1>1, WindowHas
  <2>2. OfMonth(s) = 1 /\ Month(s) = 1 /\ Year(e) = Year(s)
    <3>1. OfMonth(w.start) = 1 /\ Month(w.start) = 1 /\ Year(w.end) = Year(w.start)
      BY <1>3 DEF WindowKind
    <3> QED
      BY <2>1, <3>1
  <2>3. Day(Year(s), Month(s), 1) = s
    BY <2>2, FirstOfMonth
  <2> QED
    BY <2>2, <2>3
<1>4. CarriedPeriod(a, aEnd) = Resolved(w, WindowKind(w))
  BY DEF CarriedPeriod
<1> HIDE DEF w
<1>5. CarriedPeriod(a, aEnd) = Resolved(Window(s, e), WindowKind(w))
  BY <1>1, <1>4
<1> QED
  BY <1>1, <1>2, <1>3, <1>5 DEF IsResolved

LEMMA MonthsAreLong == \A y, m : DaysInMonth(y, m) \in 28..31
BY DEF DaysInMonth

\* The same day, or the last of its month, a year before.
LEMMA PriorDayIs ==
  ASSUME NEW day \in Nat, NEW y \in Nat, y = Year(day) - 1
  PROVE  \E k \in 1..31 : /\ SameDayPriorYear(day) = 372 * y + 31 * (Month(day) - 1) + (k - 1)
                          /\ k = 1 => OfMonth(day) = 1
<1>1. PICK m, d : m = Month(day) /\ d = OfMonth(day)
  OBVIOUS
<1>2. m \in 1..12 /\ d \in 1..31
  BY <1>1, DayHas
<1>3. PICK last : last = DaysInMonth(y, m)
  OBVIOUS
<1>4. last \in 28..31
  BY <1>3, MonthsAreLong
<1>5. PICK k : k = IF d < last THEN d ELSE last
  OBVIOUS
<1>6. k \in 1..31 /\ (k = 1 => d = 1)
  BY <1>2, <1>4, <1>5
<1>7. SameDayPriorYear(day) = Day(y, m, k)
  BY <1>1, <1>3, <1>5 DEF SameDayPriorYear
<1>8. Day(y, m, k) = 372 * y + 31 * (m - 1) + (k - 1)
  BY DEF Day
<1> QED
  BY <1>1, <1>6, <1>7, <1>8

LEMMA NextDayIs ==
  ASSUME NEW day \in Nat
  PROVE  NextDay(day) \in Nat /\ NextDay(day) > day
<1>1. PICK y, m, d : y = Year(day) /\ m = Month(day) /\ d = OfMonth(day)
  OBVIOUS
<1>2. y \in Nat /\ m \in 1..12 /\ d \in 1..31 /\ day = 372 * y + 31 * (m - 1) + (d - 1)
  BY <1>1, DayHas
<1>3. PICK first \in Nat : first = Day(y, m, 1) /\ first = 372 * y + 31 * (m - 1)
  BY <1>2 DEF Day
<1>4. AddMonths(first, 1) = first + 31
  BY <1>2, <1>3, FirstDays
<1>5. NextDay(day) = day + 1 \/ NextDay(day) = AddMonths(first, 1)
  BY <1>1, <1>3 DEF NextDay
<1> QED
  BY <1>2, <1>3, <1>4, <1>5

\* The window a year before tells as much.
LEMMA ShiftIs ==
  ASSUME NEW r, IsResolved(r)
  PROVE  ShiftBackOneYear(r) # Unresolved /\ Telling(ShiftBackOneYear(r).window)
<1> DEFINE x == ShiftBackOneYear(r)
<1>1. PICK s \in Nat, e \in Nat, kind \in Kinds :
        /\ r = Resolved(Window(s, e), kind) /\ FirstDay <= s /\ s < e
        /\ kind = "ytd" => Year(s) = Year(e) /\ s = Day(Year(s), 1, 1)
  BY DEF IsResolved
<1>2. r.kind = kind /\ r.window.start = s /\ r.window.end = e
  BY <1>1, ResolvedHas, WindowHas
<1>3. PICK y : y = Year(s) - 1
  OBVIOUS
<1>4. y \in Nat /\ Year(s) \in Nat /\ Day(y, 1, 1) \in Nat /\ Day(y, 1, 1) > 0
  <2>1. PICK z, m, d : z = Year(s) /\ m = Month(s) /\ d = OfMonth(s)
    OBVIOUS
  <2>2. z \in Nat /\ m \in 1..12 /\ d \in 1..31 /\ s = 372 * z + 31 * (m - 1) + (d - 1)
    BY <2>1, DayHas
  <2>3. z >= 1899
    BY <1>1, <2>2 DEF FirstDay, Day
  <2>4. y \in Nat /\ y > 0
    BY <1>3, <2>1, <2>2, <2>3
  <2> QED
    BY <2>1, <2>2, <2>4 DEF Day
<1>5. Month(s) \in 1..12
  BY DayHas
<1>6. ASSUME NEW w, NEW k \in Kinds, x = Resolved(w, k), Telling(w) PROVE x # Unresolved /\ Telling(x.window)
  <2>1. x.kind = k /\ x.window = w
    BY <1>6, ResolvedHas
  <2>2. Unresolved.kind = "none"
    BY ResolvedHas DEF Unresolved
  <2> QED
    BY <1>6, <2>1, <2>2 DEF Kinds
<1>7. ASSUME NEW w, NEW d \in Nat, NEW n \in Nat, Day(y, 1, 1) <= d, n > 0, w = Window(d, d + n)
      PROVE  Telling(w)
  <2>1. d + n \in Nat /\ NoDay < d /\ d < d + n
    BY <1>4, <1>7 DEF NoDay
  <2> QED
    BY <1>7, <2>1 DEF Telling
<1> HIDE DEF x
<1>8. CASE kind = "month"
  <2>1. x = Resolved(MonthWindow(y, Month(s)), "month")
    BY <1>2, <1>3, <1>8 DEF ShiftBackOneYear, x
  <2>2. PICK d \in Nat : Day(y, 1, 1) <= d /\ MonthWindow(y, Month(s)) = Window(d, d + 31)
    BY <1>4, <1>5, MonthWindowIs
  <2>3. Telling(MonthWindow(y, Month(s)))
    BY <1>7, <2>2
  <2> QED
    BY <1>6, <1>8, <2>1, <2>3 DEF x
<1>9. CASE kind = "quarter"
  <2>1. PICK q : q = (Month(s) - 1) \div 3 + 1
    OBVIOUS
  <2>2. q \in 1..4
    BY <1>5, <2>1
  <2>3. x = Resolved(QuarterWindow(y, q), "quarter")
    BY <1>2, <1>3, <1>9, <2>1 DEF ShiftBackOneYear, x
  <2>4. PICK d \in Nat : Day(y, 1, 1) <= d /\ QuarterWindow(y, q) = Window(d, d + 93)
    BY <1>4, <2>2, QuarterWindowIs
  <2>5. Telling(QuarterWindow(y, q))
    BY <1>7, <2>4
  <2> QED
    BY <1>6, <1>9, <2>3, <2>5 DEF x
<1>10. CASE kind = "year"
  <2>1. x = Resolved(YearWindow(y), "year")
    BY <1>2, <1>3, <1>10 DEF ShiftBackOneYear, x
  <2>2. PICK d \in Nat : Day(y, 1, 1) <= d /\ YearWindow(y) = Window(d, d + 372)
    BY <1>4, YearWindowIs
  <2>3. Telling(YearWindow(y))
    BY <1>7, <2>2
  <2> QED
    BY <1>6, <1>10, <2>1, <2>3 DEF x
<1>11. CASE kind = "range"
  <2>1. PICK start, end : start = SameDayPriorYear(s) /\ end = SameDayPriorYear(e)
    OBVIOUS
  <2>2. PICK last : last = IF end > start THEN end ELSE NextDay(start)
    OBVIOUS
  <2>3. x = Resolved(Window(start, last), "range")
    BY <1>2, <1>3, <1>11, <2>1, <2>2 DEF ShiftBackOneYear, x
  <2>4. start \in Nat /\ start > 0
    <3>1. PICK k \in 1..31 : start = 372 * y + 31 * (Month(s) - 1) + (k - 1)
      BY <1>3, <1>4, <2>1, PriorDayIs
    <3>2. 372 * y > 0
      BY <1>4 DEF Day
    <3> QED
      BY <1>4, <1>5, <3>1, <3>2
  <2>5. end \in Nat
    <3>1. PICK z, m, d : z = Year(e) /\ m = Month(e) /\ d = OfMonth(e)
      OBVIOUS
    <3>2. z \in Nat /\ m \in 1..12 /\ d \in 1..31 /\ e = 372 * z + 31 * (m - 1) + (d - 1)
      BY <3>1, DayHas
    <3>3. z >= 1899
      BY <1>1, <3>2 DEF FirstDay, Day
    <3>4. PICK before \in Nat : before = z - 1
      BY <3>2, <3>3
    <3>5. PICK k \in 1..31 : end = 372 * before + 31 * (Month(e) - 1) + (k - 1)
      BY <2>1, <3>1, <3>4, PriorDayIs
    <3> QED
      BY <3>1, <3>2, <3>5
  <2>6. NextDay(start) \in Nat /\ NextDay(start) > start
    BY <2>4, NextDayIs
  <2>7. last \in Nat /\ start < last
    BY <2>2, <2>4, <2>5, <2>6
  <2>8. Telling(Window(start, last))
    BY <2>4, <2>7 DEF Telling, NoDay
  <2> QED
    BY <1>6, <1>11, <2>3, <2>8 DEF x
<1>12. CASE kind = "ytd"
  <2>1. PICK end : end = SameDayPriorYear(e)
    OBVIOUS
  <2>2. x = Resolved(Window(Day(y, 1, 1), end), "ytd")
    BY <1>2, <1>3, <1>12, <2>1 DEF ShiftBackOneYear, x
  <2>3. PICK m, d : m = Month(e) /\ d = OfMonth(e)
    OBVIOUS
  <2>4. m \in 1..12 /\ d \in 1..31 /\ e = 372 * Year(e) + 31 * (m - 1) + (d - 1)
    BY <2>3, DayHas
  <2>5. Year(e) = y + 1 /\ s = 372 * (y + 1)
    BY <1>1, <1>3, <1>4, <1>12 DEF Day
  <2>6. m > 1 \/ d > 1
    BY <1>1, <1>4, <2>4, <2>5
  <2>7. PICK k \in 1..31 : end = 372 * y + 31 * (m - 1) + (k - 1) /\ (k = 1 => d = 1)
    <3>1. y = Year(e) - 1
      BY <1>4, <2>5
    <3> QED
      BY <1>4, <2>1, <2>3, <3>1, PriorDayIs
  <2>8. Day(y, 1, 1) = 372 * y
    BY <1>4 DEF Day
  <2>9. end \in Nat /\ Day(y, 1, 1) < end
    BY <1>4, <2>4, <2>6, <2>7, <2>8
  <2>10. Telling(Window(Day(y, 1, 1), end))
    BY <1>4, <2>9 DEF Telling, NoDay
  <2> QED
    BY <1>6, <1>12, <2>2, <2>10 DEF x
<1>13. kind \in {"month", "quarter", "year", "range", "ytd"}
  BY DEF Kinds
<1> QED
  BY <1>8, <1>9, <1>10, <1>11, <1>12, <1>13

\* What a text with slots tells of its two periods: each is named, carried or none, and one that
\* is none although something was named has an issue.
FirstAccounted(p, s) ==
  \/ p.aSource = "text" /\ \E d, e \in Nat : p.a = Window(d, e) /\ FirstDay <= d /\ d < e
  \/ p.aSource = "carry" /\ s.a # NoDay /\ p.a = SlotWindow(s.a, s.aEnd)
  \/ p.aSource = "none" /\ p.a = NoWindow /\ (p.issue \/ s.a = NoDay)
SecondAccounted(p, s) ==
  \/ p.bSource = "text" /\ Telling(p.b)
  \/ p.bSource = "carry" /\ s.b # NoDay /\ p.b = SlotWindow(s.b, s.bEnd)
  \/ p.bSource = "none" /\ p.b = NoWindow

LEMMA ResolvedIsNoGap ==
  ASSUME NEW r, IsResolved(r)
  PROVE  /\ r # Unresolved /\ Telling(r.window)
         /\ \E d, e \in Nat : r.window = Window(d, e) /\ FirstDay <= d /\ d < e
<1>1. PICK s \in Nat, e \in Nat, kind \in Kinds :
        r = Resolved(Window(s, e), kind) /\ FirstDay <= s /\ s < e
  BY DEF IsResolved
<1>2. r.kind = kind /\ r.window = Window(s, e)
  BY <1>1, ResolvedHas
<1>3. Unresolved.kind = "none"
  BY ResolvedHas DEF Unresolved
<1>4. r # Unresolved
  BY <1>2, <1>3 DEF Kinds
<1>5. NoDay < s
  BY <1>1 DEF NoDay, FirstDay, Day
<1> QED
  BY <1>1, <1>2, <1>4, <1>5 DEF Telling

LEMMA BothAre ==
  ASSUME NEW l, NEW r, l = NoPhrase \/ Means(l), r = NoPhrase \/ Means(r),
         NEW s, Dated(s.a, s.aEnd), NEW available
  PROVE  LET p == BothPeriods(l, r, s, available) IN FirstAccounted(p, s) /\ SecondAccounted(p, s)
<1>1. PICK a : a = IF CarriesA(l, s) THEN CarriedPeriod(s.a, s.aEnd) ELSE l.resolved
  OBVIOUS
<1>2. PICK named : named = IF r.relative /\ a # Unresolved THEN ShiftBackOneYear(a) ELSE r.resolved
  OBVIOUS
<1>3. PICK carriesB \in BOOLEAN : carriesB = (named = Unresolved /\ ~l.matched /\ s.b # NoDay)
  OBVIOUS
<1>4. PICK b : b = IF carriesB THEN CarriedPeriod(s.b, s.bEnd) ELSE named
  OBVIOUS
<1>5. PICK p : p = BothPeriods(l, r, s, available)
  OBVIOUS
<1>6. /\ p.a = a.window /\ p.b = b.window
      /\ p.aSource = (IF CarriesA(l, s) THEN "carry" ELSE IF a = Unresolved THEN "none" ELSE "text")
      /\ p.bSource = (IF carriesB THEN "carry" ELSE IF b = Unresolved THEN "none" ELSE "text")
      /\ l.noYtd => p.issue
  BY <1>1, <1>2, <1>3, <1>4, <1>5 DEF BothPeriods, WithFirst, WithSecond
<1>7. Unresolved.window = NoWindow
  BY ResolvedHas DEF Unresolved
<1>8. \A x : x = NoPhrase \/ x = SideParse(Unresolved, TRUE, FALSE, TRUE) => x.resolved = Unresolved
  BY DEF NoPhrase, SideParse
<1>9. l.resolved = Unresolved \/ IsResolved(l.resolved)
  BY <1>8 DEF Means
<1>10. r.resolved = Unresolved \/ IsResolved(r.resolved)
  BY <1>8 DEF Means
<1>11. CarriedPeriod(s.a, s.aEnd).window = SlotWindow(s.a, s.aEnd)
  BY ResolvedHas DEF CarriedPeriod
<1>12. CarriedPeriod(s.b, s.bEnd).window = SlotWindow(s.b, s.bEnd)
  BY ResolvedHas DEF CarriedPeriod
<1>13. ASSUME CarriesA(l, s) PROVE IsResolved(a) /\ FirstAccounted(p, s)
  <2>1. s.a # NoDay /\ s.a \in Nat /\ s.aEnd \in Nat /\ s.a >= FirstDay
    BY <1>13 DEF CarriesA, Dated
  <2>2. FirstDay <= s.a
    BY <2>1 DEF FirstDay, Day
  <2>3. IsResolved(a)
    BY <1>1, <1>13, <2>1, <2>2, CarriedIs
  <2>4. p.aSource = "carry" /\ p.a = SlotWindow(s.a, s.aEnd)
    BY <1>1, <1>6, <1>11, <1>13
  <2> QED
    BY <2>1, <2>3, <2>4 DEF FirstAccounted
<1>14. ASSUME ~CarriesA(l, s) PROVE FirstAccounted(p, s)
  <2>1. a = l.resolved
    BY <1>1, <1>14
  <2>2. CASE a = Unresolved
    <3>1. ~IsResolved(l.resolved)
      BY <2>1, <2>2, ResolvedIsNoGap
    <3>2. l = NoPhrase \/ l = SideParse(Unresolved, TRUE, FALSE, TRUE)
      BY <3>1 DEF Means
    <3>3. l.noYtd \/ ~l.matched
      BY <3>2 DEF NoPhrase, SideParse
    <3>4. p.issue \/ s.a = NoDay
      BY <1>6, <1>14, <3>3 DEF CarriesA
    <3> QED
      BY <1>6, <1>7, <1>14, <2>2, <3>4 DEF FirstAccounted
  <2>3. CASE a # Unresolved
    <3>1. IsResolved(a)
      BY <1>9, <2>1, <2>3
    <3>2. \E d, e \in Nat : p.a = Window(d, e) /\ FirstDay <= d /\ d < e
      BY <1>6, <3>1, ResolvedIsNoGap
    <3>3. p.aSource = "text"
      BY <1>6, <1>14, <2>3
    <3> QED
      BY <3>2, <3>3 DEF FirstAccounted
  <2> QED
    BY <2>2, <2>3
<1>15. a = Unresolved \/ IsResolved(a)
  BY <1>1, <1>9, <1>13
<1>16. named = Unresolved \/ Telling(named.window)
  BY <1>2, <1>10, <1>15, ShiftIs, ResolvedIsNoGap
<1>17. SecondAccounted(p, s)
  <2>1. CASE carriesB
    BY <1>3, <1>4, <1>6, <1>12, <2>1 DEF SecondAccounted
  <2>2. CASE ~carriesB
    BY <1>4, <1>6, <1>7, <1>16, <2>2 DEF SecondAccounted
  <2> QED
    BY <2>1, <2>2
<1> QED
  BY <1>5, <1>13, <1>14, <1>17

-----------------------------------------------------------------------------
(* The parser, as far as the flows depend on it.                            *)

Names(values) == ToSet(values) \union {NoName}

LEMMA NamesAre ==
  ASSUME NEW values, NEW i \in DOMAIN values
  PROVE  values[i] \in Names(values)
BY DEF Names, ToSet

LEMMA FuzzyIs ==
  ASSUME NEW values, NEW phrase, NEW scored, NEW best, NEW auto
  PROVE  ResolveFuzzy(phrase, values, scored, best, auto).entity \in Names(values)
<1> DEFINE tied == {i \in DOMAIN values : Score(phrase, values[i]) = best}
           near == SelectSeq(scored, LAMBDA v : Score(phrase, v) >= Threshold.candidate)
           same == SelectSeq(scored, LAMBDA v : Score(phrase, v) = best)
           one == values[CHOOSE i \in tied : TRUE]
           r == ResolveFuzzy(phrase, values, scored, best, auto)
<1>1. \/ r = Ambiguous(same) \/ r = Ambiguous(near) \/ r = Unknown
      \/ Cardinality(tied) = 1 /\ r = Certain(one)
  BY Zenon DEF ResolveFuzzy
<1>2. \A names : Ambiguous(names).entity = NoName
  BY DEF Ambiguous, Resolution
<1>3. Unknown.entity = NoName
  BY DEF Unknown, Resolution
<1>4. ASSUME Cardinality(tied) = 1 PROVE one \in Names(values)
  <2>1. tied # {}
    BY <1>4, FS_EmptySet
  <2>2. (CHOOSE i \in tied : TRUE) \in tied
    BY <2>1
  <2> QED
    BY <2>2, NamesAre
<1>5. Certain(one).entity = one
  BY DEF Certain, Resolution
<1> HIDE DEF same, near, one, r, tied
<1>6. r.entity \in Names(values)
  BY <1>1, <1>2, <1>3, <1>4, <1>5 DEF Names
<1> QED
  BY <1>6 DEF r

LEMMA ResolveIs ==
  ASSUME NEW values, DOMAIN values \subseteq Nat, NEW phrase, NEW auto
  PROVE  Resolve(phrase, values, auto).entity \in Names(values)
<1> DEFINE exact == {i \in DOMAIN values : values[i] = phrase}
           sameWords == {i \in DOMAIN values : Words(values[i]) = Words(phrase)}
           scored == Scored(phrase, values)
           r == Resolve(phrase, values, auto)
<1>1. \/ exact # {} /\ r = Certain(phrase)
      \/ sameWords # {} /\ r = Certain(values[Min(sameWords)])
      \/ r = Unknown
      \/ r = ResolveFuzzy(phrase, values, scored, Score(phrase, scored[1]), auto)
  BY DEF Resolve
<1>2. \A n : Certain(n).entity = n
  BY DEF Certain, Resolution
<1>3. ASSUME exact # {} PROVE phrase \in Names(values)
  BY <1>3, NamesAre
<1>4. ASSUME sameWords # {} PROVE values[Min(sameWords)] \in Names(values)
  <2>1. sameWords \in SUBSET Nat
    OBVIOUS
  <2>2. Min(sameWords) \in sameWords
    BY <1>4, <2>1, MinIs
  <2> QED
    BY <2>2, NamesAre
<1>5. Unknown.entity \in Names(values)
  BY DEF Unknown, Resolution, Names
<1> HIDE DEF exact, sameWords, r
<1>6. r.entity \in Names(values)
  BY <1>1, <1>2, <1>3, <1>4, <1>5, FuzzyIs
<1> QED
  BY <1>6 DEF r

\* What a plan does to a slot, and what it may ask.
IsPlan(plan, kind, values) ==
  /\ plan.issue = NoIssue \/ plan.issue.kind = kind
  /\ plan.update.set => plan.update.to \in Names(values)

LEMMA PlansAre ==
  ASSUME NEW e, NEW masks, NEW kind, NEW code, NEW phrase, NEW candidates, NEW values
  PROVE  /\ IsPlan(NoPlan, kind, values) /\ IsPlan(ClearPlan, kind, values)
         /\ e \in Names(values) => IsPlan(Plan(e, masks, NoIssue, SetTo(e)), kind, values)
         /\ IsPlan(Plan(NoName, FALSE, Issue(kind, code, phrase, candidates), Unset), kind, values)
BY DEF IsPlan, NoPlan, ClearPlan, Plan, SetTo, Unset, Issue, Names

LEMMA CuePlanIs ==
  ASSUME NEW c
  PROVE  IsPlan(CuePlan(c, CueResults(c)), "port", PortNames)
<1> DEFINE results == CueResults(c)
           hits == {i \in DOMAIN results : results[i].entity # NoName}
           e == results[Min(hits)].entity
           full == results[1]
           plan == CuePlan(c, results)
<1>1. \/ hits # {} /\ plan = Plan(e, TRUE, NoIssue, SetTo(e))
      \/ plan = Plan(NoName, FALSE, Issue("port", full.issue, Options(c)[1], full.candidates), Unset)
      \/ plan = NoPlan
  BY Zenon DEF CuePlan
<1>2. DOMAIN PortNames \subseteq Nat
  BY ParsingAssumption DEF ParsingAssumption
<1>3. ASSUME NEW i \in DOMAIN results PROVE results[i].entity \in Names(PortNames)
  BY <1>2, ResolveIs DEF CueResults
<1>4. DOMAIN results \subseteq Nat
  <2>1. DOMAIN results = DOMAIN Options(c)
    BY DEF CueResults
  <2>2. DOMAIN LowercaseOptions(c.words) \subseteq Nat
    BY DEF LowercaseOptions
  <2>3. DOMAIN << >> \subseteq Nat /\ DOMAIN <<c.words>> \subseteq Nat
    OBVIOUS
  <2> QED
    BY <2>1, <2>2, <2>3 DEF Options
<1>5. ASSUME hits # {} PROVE e \in Names(PortNames)
  <2>1. hits \in SUBSET Nat
    BY <1>4
  <2>2. Min(hits) \in hits
    BY <1>5, <2>1, MinIs
  <2> QED
    BY <1>3, <2>2
<1> HIDE DEF hits, e, full, results, plan
<1>6. IsPlan(plan, "port", PortNames)
  BY <1>1, <1>5, PlansAre
<1> QED
  BY <1>6 DEF plan, results

LEMMA PortPlanIs ==
  ASSUME NEW text
  PROVE  IsPlan(PortPlan(text).plan, "port", PortNames)
<1> DEFINE candidates == PortCandidates(text)
           plan(n) == CuePlan(text.cues[candidates[n]], CueResults(text.cues[candidates[n]]))
           telling == {n \in DOMAIN candidates : plan(n) # NoPlan}
           p == PortPlan(text)
<1>1. \/ p = Planned(ClearPlan, 0) \/ p = Planned(NoPlan, 0)
      \/ p = Planned(plan(Min(telling)), candidates[Min(telling)])
  BY DEF PortPlan
<1>2. \A x, y : Planned(x, y).plan = x
  BY DEF Planned
<1>3. PICK first, at : first = plan(Min(telling)) /\ at = candidates[Min(telling)]
  OBVIOUS
<1>4. IsPlan(first, "port", PortNames)
  BY <1>3, CuePlanIs
<1>5. p = Planned(ClearPlan, 0) \/ p = Planned(NoPlan, 0) \/ p = Planned(first, at)
  BY <1>1, <1>3
<1> HIDE DEF plan, telling, p, candidates
<1>6. p.plan = ClearPlan \/ p.plan = NoPlan \/ p.plan = first
  BY <1>2, <1>5
<1>7. IsPlan(ClearPlan, "port", PortNames) /\ IsPlan(NoPlan, "port", PortNames)
  BY PlansAre
<1>8. IsPlan(p.plan, "port", PortNames)
  BY <1>4, <1>6, <1>7
<1> QED
  BY <1>8 DEF p

LEMMA CustomerPlanIs ==
  ASSUME NEW text, NEW cue, NEW s
  PROVE  IsPlan(CustomerPlan(text, cue, s), "customer", CustomerNames)
<1> DEFINE d == DetectCustomer(text, cue, s)
           r == Resolve(d.phrase, CustomerNames, TRUE)
           plan == CustomerPlan(text, cue, s)
<1>1. \/ plan = ClearPlan \/ plan = NoPlan
      \/ plan = Plan(r.entity, d.spans, NoIssue, SetTo(r.entity))
      \/ plan = Plan(NoName, FALSE, Issue("customer", r.issue, d.phrase, r.candidates), Unset)
  BY DEF CustomerPlan, CustomerPlanOf
<1>2. DOMAIN CustomerNames \subseteq Nat
  BY ParsingAssumption DEF ParsingAssumption
<1>3. r.entity \in Names(CustomerNames)
  BY <1>2, ResolveIs
<1> HIDE DEF d, r, plan
<1>4. IsPlan(plan, "customer", CustomerNames)
  BY <1>1, <1>3, PlansAre
<1> QED
  BY <1>4 DEF plan

SlotFields ==
  {"customer", "port", "a", "aEnd", "b", "bEnd", "mode", "perspective", "column", "office",
   "report", "passThrough"}

LEMMA SlotsHave == DOMAIN EmptySlots = SlotFields
BY DEF EmptySlots, SlotFields

\* The window that two slots stand for, if any.
AsWindow(start, end) == IF start = NoDay THEN NoWindow ELSE SlotWindow(start, end)

LEMMA TellingIs ==
  ASSUME NEW w, Telling(w)
  PROVE  w = AsWindow(w.start, w.end)
<1>1. PICK s \in Nat, e \in Nat : w = Window(s, e) /\ NoDay < s /\ s < e
  BY DEF Telling
<1>2. w.start = s /\ w.end = e
  BY <1>1, WindowHas
<1>3. s # NoDay /\ e # NoDay /\ e > s
  BY <1>1 DEF NoDay
<1> QED
  BY <1>1, <1>2, <1>3 DEF AsWindow, SlotWindow

\* The slots that are carried on stand for the periods of the turn.
LEMMA CarryIs ==
  ASSUME NEW s, DOMAIN s = SlotFields, Dated(s.a, s.aEnd), NEW customer, NEW port,
         NEW p, FirstAccounted(p, s), SecondAccounted(p, s),
         NEW next, next = ApplyCarry(s, customer, port, p)
  PROVE  /\ Dated(next.a, next.aEnd)
         /\ ~p.issue => p.a = AsWindow(next.a, next.aEnd) /\ p.b = AsWindow(next.b, next.bEnd)
<1>1. /\ p.aSource = "text" => next.a = p.a.start /\ next.aEnd = p.a.end
      /\ p.aSource # "text" => next.a = s.a /\ next.aEnd = s.aEnd
      /\ p.bSource = "carry" => next.b = s.b /\ next.bEnd = s.bEnd
      /\ p.bSource # "carry" => next.b = p.b.start /\ next.bEnd = p.b.end
  BY DEF ApplyCarry, SlotFields
<1>2. NoWindow = AsWindow(NoWindow.start, NoWindow.end)
  <2>1. NoWindow.start = NoDay
    BY WindowHas DEF NoWindow
  <2> QED
    BY <2>1 DEF AsWindow
<1>3. Dated(next.a, next.aEnd) /\ (~p.issue => p.a = AsWindow(next.a, next.aEnd))
  <2>1. CASE p.aSource = "text"
    <3>1. PICK d \in Nat, e \in Nat : p.a = Window(d, e) /\ FirstDay <= d /\ d < e
      BY <2>1 DEF FirstAccounted
    <3>2. next.a = d /\ next.aEnd = e
      BY <1>1, <2>1, <3>1, WindowHas
    <3>3. Dated(next.a, next.aEnd)
      BY <3>1, <3>2 DEF Dated, FirstDay, Day
    <3>4. Telling(p.a)
      BY <3>1 DEF Telling, NoDay, FirstDay, Day
    <3> QED
      BY <1>1, <2>1, <3>3, <3>4, TellingIs
  <2>2. CASE p.aSource = "carry"
    BY <1>1, <2>2 DEF FirstAccounted, AsWindow
  <2>3. CASE p.aSource = "none"
    BY <1>1, <2>3 DEF FirstAccounted, AsWindow
  <2> QED
    BY <2>1, <2>2, <2>3 DEF FirstAccounted
<1>4. p.b = AsWindow(next.b, next.bEnd)
  <2>1. CASE p.bSource = "text"
    BY <1>1, <2>1, TellingIs DEF SecondAccounted
  <2>2. CASE p.bSource = "carry"
    BY <1>1, <2>2 DEF SecondAccounted, AsWindow
  <2>3. CASE p.bSource = "none"
    BY <1>1, <1>2, <2>3 DEF SecondAccounted
  <2> QED
    BY <2>1, <2>2, <2>3 DEF SecondAccounted
<1> QED
  BY <1>3, <1>4

\* The periods of a text, as the pipeline sees them.
LEMMA VisibleAre ==
  ASSUME NEW text, IsText(text), NEW port, NEW customer, NEW s, Dated(s.a, s.aEnd),
         NEW day \in Nat, Year(day) \in Years
  PROVE  LET p == VisiblePeriods(text, port, customer, s, day)
         IN  FirstAccounted(p, s) /\ SecondAccounted(p, s)
<1>1. PICK masked : masked = (IF customer.masks THEN {"customer"} ELSE {})
                               \union (IF port.masks THEN {"port"} ELSE {})
  OBVIOUS
<1>2. PICK l, r : l = ParseSide(text.left, masked, day, FALSE) /\ r = ParseSide(text.right, masked, day, TRUE)
  OBVIOUS
<1>3. IsSide(text.left) /\ IsSide(text.right)
  BY DEF IsText
<1>4. l = NoPhrase \/ Means(l)
  BY <1>2, <1>3, SideIs
<1>5. r = NoPhrase \/ Means(r)
  BY <1>2, <1>3, SideIs
<1>6. VisiblePeriods(text, port, customer, s, day) = BothPeriods(l, r, s, Available)
  BY <1>1, <1>2 DEF VisiblePeriods, ParsePeriods
<1>7. PICK p : p = BothPeriods(l, r, s, Available)
  OBVIOUS
<1>8. FirstAccounted(p, s) /\ SecondAccounted(p, s)
  BY <1>4, <1>5, <1>7, BothAre
<1> QED
  BY <1>6, <1>7, <1>8

\* A turn is parsed into slots with names of the data, which stand for its periods, and issues of
\* three kinds; where the conversation is stays as it was.
LEMMA ParseTurnIs ==
  ASSUME NEW text, IsText(text), NEW s, AreSlots(s), NEW day \in Nat, Year(day) \in Years
  PROVE  LET parsed == ParseTurn(text, s, day)
             next == parsed.slots
         IN  /\ AreSlots(next) /\ next.mode = s.mode
             /\ next.perspective = s.perspective /\ next.office = s.office
             /\ \A i \in parsed.issues : i.kind \in {"customer", "port", "dimension"}
             /\ ~parsed.noData => <<parsed.a, parsed.b>> =
                                    <<AsWindow(next.a, next.aEnd), AsWindow(next.b, next.bEnd)>>
<1> DEFINE port == PortPlan(text)
           customer == CustomerPlan(text, port.cue, s)
           periods == VisiblePeriods(text, port.plan, customer, s, day)
           slice == IF text.slice THEN Issue("dimension", "unspecified", NoName, << >>) ELSE NoIssue
           parsed == ParseTurn(text, s, day)
           next == ApplyCarry(s, customer.update, port.plan.update, periods)
<1>1. /\ parsed.slots = next /\ parsed.issues = {customer.issue, port.plan.issue, slice} \ {NoIssue}
      /\ parsed.a = periods.a /\ parsed.b = periods.b /\ parsed.noData = periods.issue
  BY DEF ParseTurn, WithCustomer, ParsedInput
<1>2. IsPlan(port.plan, "port", PortNames) /\ IsPlan(customer, "customer", CustomerNames)
  BY PortPlanIs, CustomerPlanIs
<1>3. slice = NoIssue \/ slice.kind = "dimension"
  BY DEF Issue
<1>4. DOMAIN s = SlotFields /\ Dated(s.a, s.aEnd)
  BY SlotsHave DEF AreSlots
<1>5. FirstAccounted(periods, s) /\ SecondAccounted(periods, s)
  BY <1>4, VisibleAre
<1> HIDE DEF port, customer, periods, slice, parsed
<1>6. /\ DOMAIN next = SlotFields /\ next.mode = s.mode /\ next.perspective = s.perspective
      /\ next.column = s.column /\ next.office = s.office
      /\ next.customer = Carried(s.customer, customer.update)
      /\ next.port = Carried(s.port, port.plan.update)
  BY <1>4 DEF ApplyCarry, SlotFields
<1>7. /\ Dated(next.a, next.aEnd)
      /\ ~periods.issue => periods.a = AsWindow(next.a, next.aEnd) /\ periods.b = AsWindow(next.b, next.bEnd)
  BY <1>4, <1>5, CarryIs
<1> HIDE DEF next
<1>8. next.customer \in Names(CustomerNames) /\ next.port \in Names(PortNames)
  BY <1>2, <1>6 DEF AreSlots, Carried, IsPlan, Names
<1>9. AreSlots(next)
  BY <1>6, <1>7, <1>8, SlotsHave DEF AreSlots, Names
<1>10. \A i \in parsed.issues : i.kind \in {"customer", "port", "dimension"}
  BY <1>1, <1>2, <1>3 DEF IsPlan
<1>11. ~parsed.noData => <<parsed.a, parsed.b>> =
                           <<AsWindow(next.a, next.aEnd), AsWindow(next.b, next.bEnd)>>
  BY <1>1, <1>7
<1> QED
  BY <1>1, <1>6, <1>9, <1>10, <1>11 DEF parsed

-----------------------------------------------------------------------------
(* What a branch decides.                                                   *)

WriteOrders ==
  {<< >>, <<"put">>, <<"clear brief_done">>, <<"put", "clear brief_done">>,
   <<"set brief_done", "put">>}

Has(writes, kind) == \E i \in DOMAIN writes : writes[i] = kind

\* What the conversation is when the writes are done.
LastSlots(writes, s, next) == IF Has(writes, "put") THEN next ELSE s
LastDone(writes, done) ==
  IF Has(writes, "set brief_done") THEN TRUE
  ELSE IF Has(writes, "clear brief_done") THEN FALSE ELSE done

ReplyFields == {"asks", "chips", "next", "writes", "skill", "choice", "onFailure"}

IsReply(r) ==
  /\ DOMAIN r = ReplyFields /\ AreSlots(r.next) /\ r.writes \in WriteOrders
  /\ \A c \in r.chips : IsText(c)
  /\ r.skill = "report" => r.choice.month \in Months /\ StepFor(r.next) = "month"

\* The branch a text would take.
Expect(s, done) ==
  IF s.mode \in BriefModes /\ ~done THEN "subject"
  ELSE IF s.mode = "report" THEN StepFor(s) ELSE "free"

\* The question of a reply is the one the conversation will be at.
Settles(r, s, done) == FlowOf(r.asks) = Expect(LastSlots(r.writes, s, r.next), LastDone(r.writes, done))

\* What a failed skill asks.
Retry(flow) == IF flow \in {"subject", "month"} THEN flow ELSE "free"

Leads(r, flow, s, done) ==
  /\ r.skill # "report" => Settles(r, s, done)
  /\ r.skill # "none" => Expect(s, done) = Retry(flow)
  /\ r.skill = "report" => r.writes = <<"put">> /\ r.asks = "free"

LEMMA OrdersHave ==
  /\ \A kind : ~Has(<< >>, kind)
  /\ Has(<<"put">>, "put") /\ ~Has(<<"put">>, "set brief_done") /\ ~Has(<<"put">>, "clear brief_done")
  /\ ~Has(<<"clear brief_done">>, "put") /\ ~Has(<<"clear brief_done">>, "set brief_done")
  /\ Has(<<"clear brief_done">>, "clear brief_done")
  /\ Has(<<"put", "clear brief_done">>, "put") /\ ~Has(<<"put", "clear brief_done">>, "set brief_done")
  /\ Has(<<"put", "clear brief_done">>, "clear brief_done")
  /\ Has(<<"set brief_done", "put">>, "put") /\ Has(<<"set brief_done", "put">>, "set brief_done")
<1>1. \A kind : ~Has(<< >>, kind)
  BY DEF Has
<1>2. \A e, kind : Has(<<e>>, kind) <=> e = kind
  BY DEF Has
<1>3. \A e, f, kind : Has(<<e, f>>, kind) <=> e = kind \/ f = kind
  BY DEF Has
<1> QED
  BY <1>1, <1>2, <1>3

LEMMA NoWrite ==
  ASSUME NEW s, NEW next, NEW done
  PROVE  LastSlots(<< >>, s, next) = s /\ LastDone(<< >>, done) = done
BY OrdersHave DEF LastSlots, LastDone

LEMMA PutWrite ==
  ASSUME NEW s, NEW next, NEW done
  PROVE  LastSlots(<<"put">>, s, next) = next /\ LastDone(<<"put">>, done) = done
BY OrdersHave DEF LastSlots, LastDone

LEMMA ClearWrite ==
  ASSUME NEW s, NEW next, NEW done
  PROVE  LastSlots(<<"clear brief_done">>, s, next) = s /\ LastDone(<<"clear brief_done">>, done) = FALSE
BY OrdersHave DEF LastSlots, LastDone

LEMMA PutThenClear ==
  ASSUME NEW s, NEW next, NEW done
  PROVE  LastSlots(<<"put", "clear brief_done">>, s, next) = next /\ LastDone(<<"put", "clear brief_done">>, done) = FALSE
BY OrdersHave DEF LastSlots, LastDone

LEMMA SetThenPut ==
  ASSUME NEW s, NEW next, NEW done
  PROVE  LastSlots(<<"set brief_done", "put">>, s, next) = next /\ LastDone(<<"set brief_done", "put">>, done) = TRUE
BY OrdersHave DEF LastSlots, LastDone

LEMMA HeadsAre ==
  /\ \A e : Head(<<e>>) = e /\ Tail(<<e>>) = << >>
  /\ \A e, f : Head(<<e, f>>) = e /\ Tail(<<e, f>>) = <<f>>
OBVIOUS

\* One write nearer to the same end.
LEMMA PutIs ==
  ASSUME NEW w \in WriteOrders, w # << >>, Head(w) = "put", NEW s, NEW next, NEW done
  PROVE  /\ Tail(w) \in WriteOrders
         /\ LastSlots(Tail(w), next, next) = LastSlots(w, s, next)
         /\ LastDone(Tail(w), done) = LastDone(w, done)
<1>1. \A e : Head(<<e>>) = e /\ Tail(<<e>>) = << >>
  BY HeadsAre
<1>2. \A e, f : Head(<<e, f>>) = e /\ Tail(<<e, f>>) = <<f>>
  BY HeadsAre
<1>3. w \in {<<"put">>, <<"put", "clear brief_done">>}
  <2>1. Head(<<"clear brief_done">>) # "put" /\ Head(<<"set brief_done", "put">>) # "put"
    BY <1>1, <1>2
  <2> QED
    BY <2>1 DEF WriteOrders
<1>4. CASE w = <<"put">>
  <2>1. Head(w) = "put" /\ Tail(w) = << >>
    BY <1>1, <1>4
  <2>2. Tail(w) \in WriteOrders
    BY <2>1 DEF WriteOrders
  <2>3. LastSlots(<<"put">>, s, next) = next /\ LastDone(<<"put">>, done) = done
    BY PutWrite
  <2>4. LastSlots(<< >>, next, next) = next /\ LastDone(<< >>, done) = done
    BY NoWrite
  <2> QED
    BY <1>4, <2>1, <2>2, <2>3, <2>4
<1>5. CASE w = <<"put", "clear brief_done">>
  <2>1. Head(w) = "put" /\ Tail(w) = <<"clear brief_done">>
    BY <1>2, <1>5
  <2>2. Tail(w) \in WriteOrders
    BY <2>1 DEF WriteOrders
  <2>3. LastSlots(<<"put", "clear brief_done">>, s, next) = next /\ LastDone(<<"put", "clear brief_done">>, done) = FALSE
    BY PutThenClear
  <2>4. LastSlots(<<"clear brief_done">>, next, next) = next /\ LastDone(<<"clear brief_done">>, done) = FALSE
    BY ClearWrite
  <2> QED
    BY <1>5, <2>1, <2>2, <2>3, <2>4
<1> QED
  BY <1>3, <1>4, <1>5

LEMMA SetIs ==
  ASSUME NEW w \in WriteOrders, w # << >>, Head(w) = "set brief_done", NEW s, NEW next, NEW done
  PROVE  /\ Tail(w) \in WriteOrders
         /\ LastSlots(Tail(w), s, next) = LastSlots(w, s, next)
         /\ LastDone(Tail(w), TRUE) = LastDone(w, done)
<1>1. \A e : Head(<<e>>) = e /\ Tail(<<e>>) = << >>
  BY HeadsAre
<1>2. \A e, f : Head(<<e, f>>) = e /\ Tail(<<e, f>>) = <<f>>
  BY HeadsAre
<1>3. w = <<"set brief_done", "put">>
  <2>1. Head(<<"put">>) = "put" /\ Head(<<"put", "clear brief_done">>) = "put" /\ Head(<<"clear brief_done">>) = "clear brief_done"
    BY <1>1, <1>2
  <2> QED
    BY <2>1 DEF WriteOrders
<1>4. Tail(w) = <<"put">>
  BY <1>2, <1>3
<1>5. Tail(w) \in WriteOrders
  BY <1>4 DEF WriteOrders
<1>6. LastSlots(<<"set brief_done", "put">>, s, next) = next /\ LastDone(<<"set brief_done", "put">>, done) = TRUE
  BY SetThenPut
<1>7. LastSlots(<<"put">>, s, next) = next /\ LastDone(<<"put">>, TRUE) = TRUE
  BY PutWrite
<1> QED
  BY <1>3, <1>4, <1>5, <1>6, <1>7

LEMMA ClearIs ==
  ASSUME NEW w \in WriteOrders, w # << >>, Head(w) = "clear brief_done", NEW s, NEW next, NEW done
  PROVE  /\ Tail(w) \in WriteOrders
         /\ LastSlots(Tail(w), s, next) = LastSlots(w, s, next)
         /\ LastDone(Tail(w), FALSE) = LastDone(w, done)
<1>1. \A e : Head(<<e>>) = e /\ Tail(<<e>>) = << >>
  BY HeadsAre
<1>2. \A e, f : Head(<<e, f>>) = e /\ Tail(<<e, f>>) = <<f>>
  BY HeadsAre
<1>3. w = <<"clear brief_done">>
  <2>1. Head(<<"put">>) = "put" /\ Head(<<"put", "clear brief_done">>) = "put" /\ Head(<<"set brief_done", "put">>) = "set brief_done"
    BY <1>1, <1>2
  <2> QED
    BY <2>1 DEF WriteOrders
<1>4. Tail(w) = << >>
  BY <1>1, <1>3
<1>5. Tail(w) \in WriteOrders
  BY <1>4 DEF WriteOrders
<1>6. LastSlots(<<"clear brief_done">>, s, next) = s /\ LastDone(<<"clear brief_done">>, done) = FALSE
  BY ClearWrite
<1>7. LastSlots(<< >>, s, next) = s /\ LastDone(<< >>, FALSE) = FALSE
  BY NoWrite
<1> QED
  BY <1>3, <1>4, <1>5, <1>6, <1>7

LEMMA ReplyHas ==
  ASSUME NEW asks, NEW chips, NEW next, NEW writes, NEW r, r = Reply(asks, chips, next, writes)
  PROVE  /\ DOMAIN r = ReplyFields /\ r.asks = asks /\ r.chips = chips /\ r.next = next
         /\ r.writes = writes /\ r.skill = "none"
BY DEF Reply, ReplyFields

LEMMA DispatchHas ==
  ASSUME NEW skill, NEW choice, NEW next, NEW writes, NEW r, r = Dispatch(skill, choice, next, writes)
  PROVE  /\ DOMAIN r = ReplyFields /\ r.asks = "free" /\ r.chips = {} /\ r.next = next
         /\ r.writes = writes /\ r.skill = skill /\ r.choice = choice
BY DEF Dispatch, ReplyFields

LEMMA ReplyIs ==
  ASSUME NEW asks, NEW chips, NEW next, NEW writes, NEW r, r = Reply(asks, chips, next, writes),
         AreSlots(next), writes \in WriteOrders, \A c \in chips : IsText(c)
  PROVE  IsReply(r)
<1>1. /\ DOMAIN r = ReplyFields /\ r.chips = chips /\ r.next = next /\ r.writes = writes
      /\ r.skill = "none"
  BY ReplyHas
<1> QED
  BY <1>1 DEF IsReply

LEMMA DispatchIs ==
  ASSUME NEW skill, NEW choice, NEW next, NEW writes, NEW r, r = Dispatch(skill, choice, next, writes),
         AreSlots(next), writes \in WriteOrders,
         skill = "report" => choice.month \in Months /\ StepFor(next) = "month"
  PROVE  IsReply(r)
<1>1. /\ DOMAIN r = ReplyFields /\ r.chips = {} /\ r.next = next /\ r.writes = writes
      /\ r.skill = skill /\ r.choice = choice
  BY DispatchHas
<1> QED
  BY <1>1 DEF IsReply

LEMMA BlankIs ==
  /\ IsText(Blank)
  /\ \A x : IsSide(x) => IsText([Blank EXCEPT !.left = x])
  /\ \A x : IsText([Blank EXCEPT !.office = x])
  /\ \A x : IsText([Blank EXCEPT !.subject = x])
  /\ \A x : IsText([Blank EXCEPT !.cues = x])
  /\ \A x : IsText([Blank EXCEPT !.runs = x])
  /\ \A x \in Perspectives : IsText([Blank EXCEPT !.perspective = x])
<1>1. IsSide(<< >>)
  BY DEF IsSide
<1> QED
  BY <1>1 DEF IsText, Blank

\* The words of a month are a phrase.
LEMMA MonthPhraseIs ==
  ASSUME NEW m \in Months
  PROVE  IsSide(<<ToPhrase(m)>>)
<1>1. m \in Nat /\ Year(m) \in Years
  BY FlowAssumption DEF FlowAssumption
<1>2. PICK y, n : y = Year(m) /\ n = Month(m)
  OBVIOUS
<1>3. y \in Years /\ n \in 1..12
  BY <1>1, <1>2, DayHas
<1>4. PICK p : p = Phrase("monthyear", y, n, "start")
  OBVIOUS
<1>5. IsPhrase(p)
  BY <1>3, <1>4 DEF IsPhrase, Phrase
<1>6. ToPhrase(m).phrase = p
  BY <1>2, <1>4 DEF ToPhrase, Within
<1>7. PICK x : x = ToPhrase(m)
  OBVIOUS
<1>8. DOMAIN <<x>> = {1} /\ <<x>>[1] = x
  OBVIOUS
<1> QED
  BY <1>5, <1>6, <1>7, <1>8 DEF IsSide

LEMMA ChipsAreTexts ==
  ASSUME NEW step, NEW s, NEW day
  PROVE  \A c \in StepChips(step, s, day) : IsText(c)
<1>1. \A c \in MonthChips(day) : IsText(c)
  BY BlankIs, MonthPhraseIs DEF MonthChips
<1>2. \A c \in OfficeChips(s.perspective) : IsText(c)
  BY BlankIs DEF OfficeChips
<1> QED
  BY <1>1, <1>2, BlankIs DEF StepChips

LEMMA ResetIs ==
  ASSUME NEW s, AreSlots(s)
  PROVE  /\ AreSlots(FlowSlotsReset(s)) /\ FlowSlotsReset(s).mode = "report"
         /\ StepFor(FlowSlotsReset(s)) = "perspective"
<1> DEFINE r == FlowSlotsReset(s)
<1>1. DOMAIN s = SlotFields
  BY SlotsHave DEF AreSlots
<1>2. /\ DOMAIN r = SlotFields /\ r.mode = "report" /\ r.perspective = "none" /\ r.column = "none"
      /\ r.office = "none" /\ r.customer = s.customer /\ r.port = s.port
      /\ r.a = s.a /\ r.aEnd = s.aEnd
  BY <1>1 DEF FlowSlotsReset, SlotFields
<1>3. OfficeColumn("none") = "none"
  BY DEF OfficeColumn
<1> HIDE DEF r
<1>4. AreSlots(r)
  BY <1>2, <1>3, SlotsHave DEF AreSlots
<1>5. StepFor(r) = "perspective"
  BY <1>2 DEF StepFor
<1> QED
  BY <1>2, <1>4, <1>5 DEF r

LEMMA SettlesAs ==
  ASSUME NEW r, NEW s, NEW done, NEW writes \in WriteOrders, NEW next, NEW asks,
         r.writes = writes, r.next = next, r.asks = asks,
         NEW last, LastSlots(writes, s, next) = last,
         NEW lastDone, LastDone(writes, done) = lastDone,
         FlowOf(asks) = Expect(last, lastDone)
  PROVE  Settles(r, s, done)
BY Zenon DEF Settles

LEMMA EntryLeads ==
  ASSUME NEW mode \in BriefModes \union {"report"}, NEW s, AreSlots(s), NEW day,
         NEW r, r = FinishEntry(mode, s, day), NEW at, NEW done
  PROVE  IsReply(r) /\ Leads(r, "entry", at, done)
<1>1. CASE mode = "report"
  <2>1. PICK new : new = FlowSlotsReset(s)
    OBVIOUS
  <2>2. AreSlots(new) /\ new.mode = "report" /\ StepFor(new) = "perspective"
    BY <2>1, ResetIs
  <2>3. PICK chips : chips = StepChips("perspective", new, day)
    OBVIOUS
  <2>4. r = Reply("perspective", chips, new, <<"put">>)
    BY <1>1, <2>1, <2>3, Zenon DEF FinishEntry
  <2>5. <<"put">> \in WriteOrders /\ \A c \in chips : IsText(c)
    BY <2>3, ChipsAreTexts DEF WriteOrders
  <2>6. IsReply(r)
    BY <2>2, <2>4, <2>5, ReplyIs
  <2>7. r.asks = "perspective" /\ r.next = new /\ r.writes = <<"put">> /\ r.skill = "none"
    BY <2>4, ReplyHas
  <2>8. Expect(new, done) = "perspective"
    BY <2>2 DEF Expect, BriefModes
  <2>9. Settles(r, at, done)
    <3>1. LastSlots(<<"put">>, at, new) = new /\ LastDone(<<"put">>, done) = done
      BY PutWrite
    <3>2. FlowOf("perspective") = "perspective"
      BY DEF FlowOf
    <3> QED
      BY <2>5, <2>7, <2>8, <3>1, <3>2, SettlesAs, Zenon
  <2> QED
    BY <2>6, <2>7, <2>9 DEF Leads
<1>2. CASE mode \in BriefModes
  <2>1. PICK base : base = IF s.mode = "report" THEN FlowSlotsReset(s) ELSE s
    OBVIOUS
  <2>2. AreSlots(base)
    BY <2>1, ResetIs
  <2>3. PICK new : new = [base EXCEPT !.mode = mode]
    OBVIOUS
  <2>4. AreSlots(new) /\ new.mode = mode
    <3>1. DOMAIN base = SlotFields
      BY <2>2, SlotsHave DEF AreSlots
    <3>2. /\ DOMAIN new = SlotFields /\ new.mode = mode /\ new.perspective = base.perspective
          /\ new.column = base.column /\ new.office = base.office /\ new.customer = base.customer
          /\ new.port = base.port /\ new.a = base.a /\ new.aEnd = base.aEnd
      BY <2>3, <3>1 DEF SlotFields
    <3> QED
      BY <2>2, <3>2, SlotsHave DEF AreSlots
  <2>5. mode # "report"
    BY <1>2 DEF BriefModes
  <2>6. PICK writes : writes = <<"put", "clear brief_done">>
    OBVIOUS
  <2>7. PICK none : none = {}
    OBVIOUS
  <2>8. r = Reply("subject", none, new, writes)
    BY <2>1, <2>3, <2>5, <2>6, <2>7, Zenon DEF FinishEntry
  <2>9. writes \in WriteOrders
    BY <2>6 DEF WriteOrders
  <2>10. \A c \in none : IsText(c)
    BY <2>7
  <2>11. IsReply(r)
    BY <2>4, <2>8, <2>9, <2>10, ReplyIs
  <2>12. r.asks = "subject" /\ r.next = new /\ r.writes = writes /\ r.skill = "none"
    BY <2>8, ReplyHas
  <2>13. Expect(new, FALSE) = "subject"
    BY <1>2, <2>4 DEF Expect
  <2>14. LastSlots(writes, at, new) = new /\ LastDone(writes, done) = FALSE
    BY <2>6, PutThenClear, Zenon
  <2>15. FlowOf("subject") = "subject"
    BY DEF FlowOf
  <2>16. Settles(r, at, done)
    BY <2>9, <2>12, <2>13, <2>14, <2>15, SettlesAs, Zenon
  <2> QED
    BY <2>11, <2>12, <2>16 DEF Leads
<1> QED
  BY <1>1, <1>2

LEMMA SubjectLeads ==
  ASSUME NEW text, NEW s, AreSlots(s), NEW r, r = FinishSubjectTurn(text, s)
  PROVE  IsReply(r) /\ (s.mode \in BriefModes => Leads(r, "subject", s, FALSE))
<1> DEFINE found == Resolve(text.subject, CustomerNames, TRUE)
           chips == {[Blank EXCEPT !.subject = found.candidates[i]] : i \in DOMAIN found.candidates}
           named == [s EXCEPT !.customer = found.entity]
<1>1. PICK writes : writes = <<"set brief_done", "put">>
  OBVIOUS
<1>2. \/ r = Dispatch("prospect brief", NoChoice, s, writes)
      \/ r = Reply("subject", chips, s, << >>)
      \/ r = Dispatch("customer brief", NoChoice, named, writes)
  BY <1>1, Zenon DEF FinishSubjectTurn, FinishSubjectClarify
<1>3. DOMAIN CustomerNames \subseteq Nat
  BY ParsingAssumption DEF ParsingAssumption
<1>4. found.entity \in Names(CustomerNames)
  BY <1>3, ResolveIs
<1>5. AreSlots(named) /\ named.mode = s.mode
  <2>1. DOMAIN s = SlotFields
    BY SlotsHave DEF AreSlots
  <2>2. /\ DOMAIN named = SlotFields /\ named.mode = s.mode /\ named.perspective = s.perspective
        /\ named.column = s.column /\ named.office = s.office /\ named.customer = found.entity
        /\ named.port = s.port /\ named.a = s.a /\ named.aEnd = s.aEnd
    BY <2>1 DEF SlotFields
  <2> HIDE DEF named, found
  <2> QED
    BY <1>4, <2>2, SlotsHave DEF AreSlots, Names
<1>6. \A c \in chips : IsText(c)
  BY BlankIs
<1>7. writes \in WriteOrders /\ << >> \in WriteOrders
  BY <1>1 DEF WriteOrders
<1> HIDE DEF found, chips, named
<1>8. ASSUME NEW skill, skill # "report", NEW next, AreSlots(next), next.mode = s.mode,
             r = Dispatch(skill, NoChoice, next, writes)
      PROVE  IsReply(r) /\ (s.mode \in BriefModes => Leads(r, "subject", s, FALSE))
  <2>1. IsReply(r)
    BY <1>7, <1>8, DispatchIs
  <2>2. r.asks = "free" /\ r.next = next /\ r.writes = writes /\ r.skill = skill
    BY <1>8, DispatchHas
  <2>3. ASSUME s.mode \in BriefModes PROVE Leads(r, "subject", s, FALSE)
    <3>1. Expect(next, TRUE) = "free" /\ Expect(s, FALSE) = "subject"
      BY <1>8, <2>3 DEF Expect, BriefModes
    <3>2. LastSlots(writes, s, next) = next /\ LastDone(writes, FALSE) = TRUE
      BY <1>1, SetThenPut, Zenon
    <3>3. FlowOf("free") = "free"
      BY DEF FlowOf
    <3>4. Settles(r, s, FALSE)
      BY <1>7, <2>2, <3>1, <3>2, <3>3, SettlesAs, Zenon
    <3> QED
      BY <1>8, <2>2, <3>1, <3>4 DEF Leads, Retry
  <2> QED
    BY <2>1, <2>3
<1>9. CASE r = Reply("subject", chips, s, << >>)
  <2>1. IsReply(r)
    BY <1>6, <1>7, <1>9, ReplyIs
  <2>2. r.asks = "subject" /\ r.next = s /\ r.writes = << >> /\ r.skill = "none"
    BY <1>9, ReplyHas
  <2>3. ASSUME s.mode \in BriefModes PROVE Leads(r, "subject", s, FALSE)
    <3>1. Expect(s, FALSE) = "subject"
      BY <2>3 DEF Expect
    <3>2. LastSlots(<< >>, s, s) = s /\ LastDone(<< >>, FALSE) = FALSE
      BY NoWrite
    <3>3. FlowOf("subject") = "subject"
      BY DEF FlowOf
    <3>4. Settles(r, s, FALSE)
      BY <1>7, <2>2, <3>1, <3>2, <3>3, SettlesAs, Zenon
    <3> QED
      BY <2>2, <3>4 DEF Leads
  <2> QED
    BY <2>1, <2>3
<1> QED
  BY <1>2, <1>5, <1>8, <1>9

\* A month that is answered is one with data.
LEMMA MonthIs ==
  ASSUME NEW text, NEW w, NEW day
  PROVE  MonthOf(text, w, day).month \in Months \union {NoDay}
<1> DEFINE running == Day(Year(day), Month(day), 1)
           month == IF text.mtd THEN running ELSE w.start
           kind == IF month = running THEN "mtd" ELSE "complete"
           no(why) == [month |-> NoDay, kind |-> why]
           m == MonthOf(text, w, day)
<1>1. \/ \E why : m = no(why)
      \/ m = [month |-> month, kind |-> kind] /\ month \in Months
  BY Zenon DEF MonthOf
<1> HIDE DEF m, month, kind
<1>2. m.month \in Months \union {NoDay}
  BY <1>1
<1> QED
  BY <1>2 DEF m

\* The three ways a branch ends: the question again without a write, a new state with its
\* question, a skill whose success leaves the conversation free.
LEMMA AsksAgain ==
  ASSUME NEW asks, NEW chips, \A c \in chips : IsText(c), NEW s, AreSlots(s), NEW done,
         NEW flow, NEW r, r = Reply(asks, chips, s, << >>), FlowOf(asks) = Expect(s, done)
  PROVE  IsReply(r) /\ Leads(r, flow, s, done)
<1>1. << >> \in WriteOrders
  BY DEF WriteOrders
<1>2. IsReply(r)
  BY <1>1, ReplyIs
<1>3. r.asks = asks /\ r.next = s /\ r.writes = << >> /\ r.skill = "none"
  BY ReplyHas
<1>4. LastSlots(<< >>, s, s) = s /\ LastDone(<< >>, done) = done
  BY NoWrite
<1>5. Settles(r, s, done)
  BY <1>1, <1>3, <1>4, SettlesAs, Zenon
<1> QED
  BY <1>2, <1>3, <1>5 DEF Leads

LEMMA AsksNext ==
  ASSUME NEW asks, NEW chips, \A c \in chips : IsText(c), NEW s, NEW next, AreSlots(next),
         NEW done, NEW flow, NEW r, r = Reply(asks, chips, next, <<"put">>)
  PROVE  IsReply(r) /\ (FlowOf(asks) = Expect(next, done) => Leads(r, flow, s, done))
<1>1. <<"put">> \in WriteOrders
  BY DEF WriteOrders
<1>2. IsReply(r)
  BY <1>1, ReplyIs
<1>3. r.asks = asks /\ r.next = next /\ r.writes = <<"put">> /\ r.skill = "none"
  BY ReplyHas
<1>4. LastSlots(<<"put">>, s, next) = next /\ LastDone(<<"put">>, done) = done
  BY PutWrite
<1>5. FlowOf(asks) = Expect(next, done) => Settles(r, s, done)
  BY <1>1, <1>3, <1>4, SettlesAs, Zenon
<1> QED
  BY <1>2, <1>3, <1>5 DEF Leads

LEMMA RunsFirst ==
  ASSUME NEW skill, skill # "none", NEW choice, NEW s, NEW next, AreSlots(next), NEW done,
         NEW flow, NEW r, r = Dispatch(skill, choice, next, <<"put">>),
         skill = "report" => choice.month \in Months /\ StepFor(next) = "month"
  PROVE  /\ IsReply(r)
         /\ /\ Expect(s, done) = Retry(flow)
            /\ skill # "report" => Expect(next, done) = "free"
            => Leads(r, flow, s, done)
<1>1. <<"put">> \in WriteOrders
  BY DEF WriteOrders
<1>2. IsReply(r)
  BY <1>1, DispatchIs
<1>3. r.asks = "free" /\ r.next = next /\ r.writes = <<"put">> /\ r.skill = skill
  BY DispatchHas
<1>4. LastSlots(<<"put">>, s, next) = next /\ LastDone(<<"put">>, done) = done
  BY PutWrite
<1>5. FlowOf("free") = "free"
  BY DEF FlowOf
<1>6. Expect(next, done) = "free" => Settles(r, s, done)
  BY <1>1, <1>3, <1>4, <1>5, SettlesAs, Zenon
<1> QED
  BY <1>2, <1>3, <1>6 DEF Leads

LEMMA StepsAre ==
  ASSUME NEW s
  PROVE  /\ StepFor(s) \in {"perspective", "office", "month"}
         /\ FlowOf(StepFor(s)) = StepFor(s)
         /\ s.mode = "report" => \A done : Expect(s, done) = StepFor(s)
BY DEF StepFor, FlowOf, Expect, BriefModes

LEMMA ReportLeads ==
  ASSUME NEW text, IsText(text), NEW s, AreSlots(s), s.mode = "report", NEW day, NEW done,
         NEW r, r = FinishReportStep(text, s, day)
  PROVE  IsReply(r) /\ Leads(r, StepFor(s), s, done)
<1> DEFINE chips(step, at) == StepChips(step, at, day)
           p == text.perspective
           chosen == [s EXCEPT !.perspective = p, !.column = OfficeColumn(p)]
           placed == [s EXCEPT !.office = text.office]
           choice == ResolveMonth(text, day)
<1>1. \/ r = Reply(StepFor(s), chips(StepFor(s), s), s, << >>)
      \/ /\ StepFor(s) = "perspective" /\ p # "none"
         /\ r = Reply(StepFor(chosen), chips(StepFor(chosen), chosen), chosen, <<"put">>)
      \/ /\ StepFor(s) = "office"
         /\ \E i \in DOMAIN Offices[s.column] : Offices[s.column][i] = text.office
         /\ r = Reply(StepFor(placed), chips(StepFor(placed), placed), placed, <<"put">>)
      \/ /\ StepFor(s) \notin {"perspective", "office"} /\ choice.month # NoDay
         /\ r = Dispatch("report", choice, s, <<"put">>)
  BY Zenon DEF FinishReportStep
<1>2. CASE r = Reply(StepFor(s), chips(StepFor(s), s), s, << >>)
  <2>1. \A c \in chips(StepFor(s), s) : IsText(c)
    BY ChipsAreTexts
  <2>2. FlowOf(StepFor(s)) = Expect(s, done)
    BY StepsAre
  <2> QED
    BY <1>2, <2>1, <2>2, AsksAgain
<1>3. ASSUME NEW new, AreSlots(new), new.mode = "report",
             r = Reply(StepFor(new), chips(StepFor(new), new), new, <<"put">>)
      PROVE  IsReply(r) /\ Leads(r, StepFor(s), s, done)
  <2>1. \A c \in chips(StepFor(new), new) : IsText(c)
    BY ChipsAreTexts
  <2>2. FlowOf(StepFor(new)) = Expect(new, done)
    BY <1>3, StepsAre
  <2> QED
    BY <1>3, <2>1, <2>2, AsksNext
<1> HIDE DEF chips
<1>4. DOMAIN s = SlotFields
  BY SlotsHave DEF AreSlots
<1>5. ASSUME StepFor(s) = "perspective", p # "none" PROVE AreSlots(chosen) /\ chosen.mode = "report"
  <2>1. s.perspective = "none"
    <3>1. s.perspective # "none" => StepFor(s) # "perspective"
      BY DEF StepFor
    <3> QED
      BY <1>5, <3>1
  <2>2. s.office = "none"
    BY <2>1 DEF AreSlots, OfficeColumn
  <2>3. p \in Perspectives
    BY <1>5 DEF IsText
  <2>4. /\ DOMAIN chosen = SlotFields /\ chosen.mode = s.mode /\ chosen.perspective = p
        /\ chosen.column = OfficeColumn(p) /\ chosen.office = s.office
        /\ chosen.customer = s.customer /\ chosen.port = s.port
        /\ chosen.a = s.a /\ chosen.aEnd = s.aEnd
    BY <1>4 DEF SlotFields
  <2> HIDE DEF chosen, p
  <2> QED
    BY <2>2, <2>3, <2>4, SlotsHave DEF AreSlots
<1>6. ASSUME StepFor(s) = "office", NEW i \in DOMAIN Offices[s.column],
             Offices[s.column][i] = text.office
      PROVE  AreSlots(placed) /\ placed.mode = "report"
  <2>1. OfficeColumn(s.perspective) # "none"
    <3>1. OfficeColumn(s.perspective) = "none" => StepFor(s) # "office"
      BY DEF StepFor
    <3> QED
      BY <1>6, <3>1
  <2>2. s.column = OfficeColumn(s.perspective)
    BY DEF AreSlots
  <2>3. /\ DOMAIN placed = SlotFields /\ placed.mode = s.mode /\ placed.perspective = s.perspective
        /\ placed.column = s.column /\ placed.office = text.office
        /\ placed.customer = s.customer /\ placed.port = s.port
        /\ placed.a = s.a /\ placed.aEnd = s.aEnd
    BY <1>4 DEF SlotFields
  <2>4. text.office \in ToSet(Offices[s.column])
    BY <1>6 DEF ToSet
  <2> HIDE DEF placed
  <2> QED
    BY <2>1, <2>2, <2>3, <2>4, SlotsHave DEF AreSlots
<1>7. CASE /\ StepFor(s) \notin {"perspective", "office"} /\ choice.month # NoDay
           /\ r = Dispatch("report", choice, s, <<"put">>)
  <2>1. StepFor(s) = "month"
    BY <1>7, StepsAre
  <2>2. choice.month \in Months
    BY <1>7, MonthIs DEF ResolveMonth
  <2>3. Expect(s, done) = Retry(StepFor(s))
    BY <2>1, StepsAre DEF Retry
  <2> HIDE DEF choice
  <2> QED
    BY <1>7, <2>1, <2>2, <2>3, RunsFirst
<1> HIDE DEF p, chosen, placed, choice
<1> QED
  BY <1>1, <1>2, <1>3, <1>5, <1>6, <1>7

LEMMA ChipIsText ==
  ASSUME NEW text, IsText(text), NEW issue, NEW name
  PROVE  IsText(ChipText(text, issue, name))
<1> DEFINE runs == {i \in DOMAIN text.runs : text.runs[i].words = issue.phrase}
           cues == {i \in DOMAIN text.cues : issue.phrase \in {Options(text.cues[i])[j] :
                                               j \in DOMAIN Options(text.cues[i])}}
           quoted == [text EXCEPT !.quoted = name]
           run == [text EXCEPT !.runs[CHOOSE i \in runs : TRUE].words = name]
           cue == [text EXCEPT !.cues[CHOOSE i \in cues : TRUE] = Cue(@.cue, TRUE, name)]
           port == [Blank EXCEPT !.cues = <<Cue("port of", TRUE, name)>>]
           customer == [Blank EXCEPT !.runs = <<Run(name, 0)>>]
           chip == ChipText(text, issue, name)
<1>1. chip \in {quoted, run, cue, port, customer}
  <2>1. \/ chip = quoted \/ chip = run \/ chip = cue \/ chip = port \/ chip = customer
    BY Zenon DEF ChipText
  <2> QED
    BY <2>1, Zenon
<1>2. {"entry", "perspective", "left", "right"} \subseteq DOMAIN text
  BY DEF IsText, Blank
<1>3. IsText(quoted)
  BY <1>2 DEF IsText
<1>4. IsText(run)
  BY <1>2 DEF IsText
<1>5. IsText(cue)
  BY <1>2 DEF IsText
<1>6. IsText(port) /\ IsText(customer)
  BY BlankIs, Zenon
<1> HIDE DEF chip, quoted, run, cue, port, customer
<1>7. IsText(chip)
  BY <1>1, <1>3, <1>4, <1>5, <1>6
<1> QED
  BY <1>7 DEF chip

LEMMA ClarifyIs ==
  ASSUME NEW issues, NEW issue, issue = SelectClarifyIssue(issues), issue # NoIssue
  PROVE  issue \in issues
<1> DEFINE some(kind, code) == {i \in issues : i.kind = kind /\ i.code = code}
           of(kind, code) == CHOOSE i \in some(kind, code) : TRUE
<1>1. \E kind, code : some(kind, code) # {} /\ issue = of(kind, code)
  BY Zenon DEF SelectClarifyIssue
<1>2. \A kind, code : some(kind, code) # {} => of(kind, code) \in some(kind, code)
  OBVIOUS
<1> QED
  BY <1>1, <1>2

\* The periods a turn was answered for, if any, are those its slots stand for.
Speaks(windows, r) ==
  windows # << >> =>
    /\ r.skill # "report"
    /\ windows = <<AsWindow(r.next.a, r.next.aEnd), AsWindow(r.next.b, r.next.bEnd)>>

LEMMA Silent == \A r : Speaks(<< >>, r)
BY DEF Speaks

LEMMA StillSpeaks ==
  ASSUME NEW windows, NEW r, Speaks(windows, r), NEW x, r.skill # "report" => x.next = r.next,
         x.skill = "report" => r.skill = "report"
  PROVE  Speaks(windows, x)
BY DEF Speaks

LEMMA DefaultLeads ==
  ASSUME NEW text, IsText(text), NEW s, AreSlots(s), NEW day \in Nat, Year(day) \in Years,
         NEW records, NEW done, NEW parsed, parsed = ParseTurn(text, s, day),
         NEW r, r = FinishDefault(text, parsed, records)
  PROVE  /\ IsReply(r) /\ (Expect(s, done) = "free" => Leads(r, "free", s, done))
         /\ Speaks(IF parsed.noData THEN << >> ELSE <<parsed.a, parsed.b>>, r)
<1> DEFINE issue == SelectClarifyIssue(parsed.issues)
           chips == IF issue.kind = "dimension" THEN {Blank}
                    ELSE {ChipText(text, issue, issue.candidates[i]) : i \in DOMAIN issue.candidates}
           routed == RepopulatePassThrough(parsed.slots, records)
           windows == IF parsed.noData THEN << >> ELSE <<parsed.a, parsed.b>>
           kept == <<AsWindow(parsed.slots.a, parsed.slots.aEnd), AsWindow(parsed.slots.b, parsed.slots.bEnd)>>
<1>1. /\ AreSlots(parsed.slots) /\ parsed.slots.mode = s.mode
      /\ parsed.slots.perspective = s.perspective /\ parsed.slots.office = s.office
      /\ \A i \in parsed.issues : i.kind \in {"customer", "port", "dimension"}
      /\ ~parsed.noData => <<parsed.a, parsed.b>> = kept
  BY ParseTurnIs
<1>2. ASSUME r.skill # "report", r.next.a = parsed.slots.a, r.next.aEnd = parsed.slots.aEnd,
             r.next.b = parsed.slots.b, r.next.bEnd = parsed.slots.bEnd
      PROVE  Speaks(windows, r)
  <2>1. CASE parsed.noData
    BY <2>1, Silent
  <2>2. CASE ~parsed.noData
    <3>1. windows = kept
      BY <1>1, <2>2
    <3> HIDE DEF windows
    <3> QED
      BY <1>2, <3>1 DEF Speaks
  <2> QED
    BY <2>1, <2>2
<1> HIDE DEF windows, kept
<1>3. ASSUME NEW next, AreSlots(next), next.mode = s.mode, next.perspective = s.perspective,
             next.office = s.office
      PROVE  Expect(next, done) = Expect(s, done)
  BY <1>3 DEF Expect, StepFor
<1>4. CASE issue # NoIssue
  <2>1. r = Reply(issue.kind, chips, parsed.slots, <<"put">>)
    BY <1>4, Zenon DEF FinishDefault, FinishClarify
  <2>2. issue.kind \in {"customer", "port", "dimension"}
    BY <1>1, <1>4, ClarifyIs
  <2>3. FlowOf(issue.kind) = "free"
    BY <2>2 DEF FlowOf
  <2>4. \A c \in chips : IsText(c)
    BY ChipIsText, BlankIs
  <2> HIDE DEF issue, chips
  <2>5. PICK next : next = parsed.slots
    OBVIOUS
  <2>6. Expect(next, done) = Expect(s, done)
    BY <1>1, <1>3, <2>5
  <2>7. r.next = next /\ r.skill = "none"
    BY <2>1, <2>5, ReplyHas
  <2>8. Speaks(windows, r)
    BY <1>2, <2>5, <2>7
  <2> QED
    BY <1>1, <2>1, <2>3, <2>4, <2>5, <2>6, <2>8, AsksNext DEF windows
<1>5. CASE issue = NoIssue
  <2>1. r = Dispatch("router", NoChoice, routed, <<"put">>)
    BY <1>5, Zenon DEF FinishDefault
  <2>2. /\ AreSlots(routed) /\ routed.mode = s.mode /\ routed.perspective = s.perspective
        /\ routed.office = s.office /\ routed.a = parsed.slots.a /\ routed.aEnd = parsed.slots.aEnd
        /\ routed.b = parsed.slots.b /\ routed.bEnd = parsed.slots.bEnd
    <3>1. \/ routed = parsed.slots
          \/ \E x : routed = [parsed.slots EXCEPT !.passThrough = x]
      BY Zenon DEF RepopulatePassThrough
    <3>2. DOMAIN parsed.slots = SlotFields
      BY <1>1, SlotsHave DEF AreSlots
    <3>3. ASSUME NEW x, NEW next, next = [parsed.slots EXCEPT !.passThrough = x]
          PROVE  /\ AreSlots(next) /\ next.mode = s.mode /\ next.perspective = s.perspective
                 /\ next.office = s.office /\ next.a = parsed.slots.a /\ next.aEnd = parsed.slots.aEnd
                 /\ next.b = parsed.slots.b /\ next.bEnd = parsed.slots.bEnd
      <4>1. /\ DOMAIN next = SlotFields /\ next.mode = s.mode /\ next.perspective = s.perspective
            /\ next.office = s.office /\ next.column = parsed.slots.column
            /\ next.customer = parsed.slots.customer /\ next.port = parsed.slots.port
            /\ next.a = parsed.slots.a /\ next.aEnd = parsed.slots.aEnd
            /\ next.b = parsed.slots.b /\ next.bEnd = parsed.slots.bEnd
        BY <1>1, <3>2, <3>3 DEF SlotFields
      <4> QED
        BY <1>1, <4>1, SlotsHave DEF AreSlots
    <3> HIDE DEF routed
    <3> QED
      BY <1>1, <3>1, <3>3
  <2> HIDE DEF routed
  <2>3. Expect(routed, done) = Expect(s, done)
    BY <1>3, <2>2
  <2>4. Retry("free") = "free"
    BY DEF Retry
  <2>5. r.next = routed /\ r.skill = "router"
    BY <2>1, DispatchHas
  <2>6. Speaks(windows, r)
    BY <1>2, <2>2, <2>5
  <2> QED
    BY <2>1, <2>2, <2>3, <2>4, <2>6, RunsFirst DEF windows
<1> QED
  BY <1>4, <1>5

-----------------------------------------------------------------------------
(* The invariant.                                                           *)

TurnFields    == {"pc", "text", "prior", "flow", "reply", "windows", "stored"}
HandledFields == {"asked", "flow", "chip", "again"}

IsTurn(x) ==
  /\ DOMAIN x = TurnFields /\ IsText(x.text) /\ AreSlots(x.prior) /\ IsReply(x.reply)
  /\ x.pc = "skill" => x.reply.skill # "none"
  /\ Speaks(x.windows, x.reply)

Places ==
  /\ AreSlots(slots) /\ briefDone \in BOOLEAN /\ today \in DOMAIN Days
  /\ DOMAIN turn = Tabs /\ DOMAIN screen = Tabs /\ DOMAIN handled = Tabs
  /\ alone \subseteq Tabs /\ current \in Tabs \union {NoTab}

Parts ==
  \A t \in Tabs : /\ IsTurn(turn[t]) /\ DOMAIN handled[t] = HandledFields
                  /\ \A c \in screen[t].chips : IsText(c)

\* A tab that is alone is the only one at work.
Alone == \A t \in alone, u \in Tabs : turn[u].pc # "idle" => u = t

\* The question of the tab whose screen is the last word is the one the conversation is at.
LastWord ==
  current \in Tabs =>
    /\ \A u \in Tabs : turn[u].pc = "idle"
    /\ FlowOf(screen[current].asks) = Expect(slots, briefDone)

\* The turn x of a tab that is alone, from what it was asked to what it will ask.
Follows(x, asked, s, done) ==
  /\ x.pc \in {"read", "brief?"} /\ asked # "any" => FlowOf(asked) = Expect(s, done)
  /\ x.pc = "brief?" => x.prior = s /\ s.mode \in BriefModes
  /\ x.pc = "skill" => Leads(x.reply, x.flow, s, done)
  /\ x.pc = "write" /\ x.stored => Settles(x.reply, s, done)

Course == \A t \in alone : Follows(turn[t], handled[t].asked, slots, briefDone)

Heard(h) == h.flow \notin {"none", "entry"} /\ h.asked # "any" => h.flow = FlowOf(h.asked)

Whole(d, day) ==
  /\ d.column = OfficeColumn(d.perspective)
  /\ IF d.column = "none" THEN d.office = "none" ELSE d.office \in ToSet(Offices[d.column])
  /\ d.a \in Months /\ d.b < d.bEnd /\ d.bEnd <= d.a /\ d.a < d.aEnd /\ d.aEnd <= day
  /\ d.aEnd \in Nat

FlowInv ==
  /\ Places /\ Parts /\ Alone /\ LastWord /\ Course
  /\ \A t \in Tabs : Heard(handled[t])
  /\ dispatched # EmptySlots => Whole(dispatched, Days[today])

LEMMA IdleIs ==
  /\ IsTurn(Idle) /\ Idle.pc = "idle"
  /\ AreSlots(EmptySlots)
<1>1. AreSlots(EmptySlots)
  BY DEF AreSlots, EmptySlots, OfficeColumn, Dated, NoDay
<1>2. PICK r : r = Reply("free", {}, EmptySlots, << >>)
  OBVIOUS
<1>3. << >> \in WriteOrders
  BY DEF WriteOrders
<1>4. IsReply(r)
  BY <1>1, <1>2, <1>3, ReplyIs
<1>5. /\ DOMAIN Idle = TurnFields /\ Idle.text = Blank /\ Idle.prior = EmptySlots
      /\ Idle.reply = r /\ Idle.pc = "idle" /\ Idle.windows = << >>
  BY <1>2 DEF Idle, TurnFields
<1>6. Speaks(Idle.windows, Idle.reply)
  BY <1>5, Silent
<1> QED
  BY <1>1, <1>4, <1>5, <1>6, BlankIs DEF IsTurn

\* A tab at work leaves no screen the last word.
LEMMA Working ==
  ASSUME FlowInv, NEW t \in Tabs, turn[t].pc # "idle"
  PROVE  /\ current \notin Tabs
         /\ \A u \in alone : u = t
BY DEF FlowInv, LastWord, Alone, Places

LEMMA Taken ==
  ASSUME FlowInv, NEW t \in Tabs, turn[t].pc # "idle", NEW prior, AreSlots(prior), NEW flow,
         NEW reply, IsReply(reply), NEW windows, Take(t, prior, flow, reply, windows),
         Speaks(windows, reply),
         t \in alone =>
           /\ Leads(reply, flow, slots, briefDone)
           /\ flow # "entry" /\ handled[t].asked # "any" => flow = FlowOf(handled[t].asked),
         UNCHANGED <<slots, briefDone, today, screen, sent, faults, alone, current, dispatched>>
  PROVE  FlowInv'
<1>1. Places /\ Parts /\ Alone /\ Course
  BY DEF FlowInv
<1>2. current \notin Tabs /\ \A u \in alone : u = t
  BY Working
<1>3. PICK x, h : x = turn'[t] /\ h = handled'[t]
  OBVIOUS
<1>4. /\ DOMAIN turn' = Tabs /\ \A u \in Tabs : u # t => turn'[u] = turn[u]
      /\ DOMAIN x = TurnFields /\ x.pc = (IF reply.skill = "none" THEN "write" ELSE "skill")
      /\ x.text = turn[t].text /\ x.prior = prior /\ x.flow = flow /\ x.reply = reply
      /\ x.windows = windows
  BY <1>1, <1>3 DEF Take, Places, Parts, IsTurn, TurnFields
<1>5. /\ DOMAIN handled' = Tabs /\ \A u \in Tabs : u # t => handled'[u] = handled[u]
      /\ DOMAIN h = HandledFields /\ h.flow = flow
      /\ h.asked = (IF t \in alone THEN handled[t].asked ELSE "any")
  BY <1>1, <1>3 DEF Take, Places, Parts, HandledFields
<1>6. IsTurn(x)
  BY <1>1, <1>4 DEF IsTurn, Parts
<1>7. Places'
  BY <1>1, <1>4, <1>5 DEF Places
<1>8. Parts'
  BY <1>1, <1>3, <1>4, <1>5, <1>6 DEF Parts
<1>9. Alone'
  BY <1>1, <1>2, <1>4 DEF Alone
<1>10. LastWord'
  BY <1>2 DEF LastWord
<1>11. ASSUME t \in alone PROVE Follows(x, h.asked, slots, briefDone)
  <2>1. Leads(reply, flow, slots, briefDone)
    BY <1>11
  <2>2. x.pc = "write" => reply.skill = "none"
    BY <1>4
  <2>3. x.pc \in {"write", "skill"}
    BY <1>4
  <2>4. reply.skill = "none" => Settles(reply, slots, briefDone)
    BY <2>1 DEF Leads
  <2> QED
    BY <1>4, <2>1, <2>2, <2>3, <2>4 DEF Follows
<1>12. Course'
  BY <1>2, <1>3, <1>11 DEF Course
<1>13. Heard(h)
  BY <1>5 DEF Heard
<1>14. \A u \in Tabs : Heard(handled'[u])
  BY <1>3, <1>5, <1>13 DEF FlowInv
<1>15. (dispatched # EmptySlots => Whole(dispatched, Days[today]))'
  BY DEF FlowInv
<1> QED
  BY <1>7, <1>8, <1>9, <1>10, <1>12, <1>14, <1>15 DEF FlowInv

LEMMA AloneFollows ==
  ASSUME FlowInv, NEW t \in alone
  PROVE  Follows(turn[t], handled[t].asked, slots, briefDone)
BY DEF FlowInv, Course

LEMMA Today ==
  ASSUME Places
  PROVE  Days[today] \in Nat /\ Year(Days[today]) \in Years
BY FlowAssumption DEF Places, FlowAssumption

LEMMA BeginKeeps ==
  ASSUME FlowInv, NEW t \in Tabs, Begin(t)
  PROVE  FlowInv'
<1>1. Places /\ Parts /\ turn[t].pc = "read" /\ IsText(turn[t].text)
  BY DEF Begin, FlowInv, Parts, IsTurn
<1>2. UNCHANGED <<slots, briefDone, today, screen, sent, faults, alone, current, dispatched>>
  BY DEF Begin
<1>3. AreSlots(slots) /\ turn[t].pc # "idle"
  BY <1>1 DEF Places
<1>4. t \in alone => (handled[t].asked # "any" => FlowOf(handled[t].asked) = Expect(slots, briefDone))
  BY <1>1, AloneFollows DEF Follows
<1>5. PICK text, day : text = turn[t].text /\ day = Days[today]
  OBVIOUS
<1>6. CASE text.entry # "none" /\ Take(t, slots, "entry", FinishEntry(text.entry, slots, day), << >>)
  <2>1. text.entry \in BriefModes \union {"report"}
    BY <1>1, <1>5, <1>6 DEF IsText
  <2>2. PICK r : r = FinishEntry(text.entry, slots, day)
    OBVIOUS
  <2>3. IsReply(r) /\ Leads(r, "entry", slots, briefDone)
    BY <1>3, <2>1, <2>2, EntryLeads
  <2> QED
    BY <1>2, <1>3, <1>6, <2>2, <2>3, Silent, Taken
<1>7. CASE slots.mode = "report" /\ Take(t, slots, StepFor(slots), FinishReportStep(text, slots, day), << >>)
  <2>1. PICK r : r = FinishReportStep(text, slots, day)
    OBVIOUS
  <2>2. IsReply(r) /\ Leads(r, StepFor(slots), slots, briefDone)
    BY <1>1, <1>3, <1>5, <1>7, <2>1, ReportLeads
  <2>3. Expect(slots, briefDone) = StepFor(slots)
    BY <1>7, StepsAre
  <2> QED
    BY <1>2, <1>3, <1>4, <1>7, <2>1, <2>2, <2>3, Silent, Taken
<1>8. CASE slots.mode = "default" /\ Default(t, slots)
  <2>1. PICK parsed : parsed = ParseTurn(text, slots, day)
    OBVIOUS
  <2>2. PICK windows : windows = IF parsed.noData THEN << >> ELSE <<parsed.a, parsed.b>>
    OBVIOUS
  <2>3. PICK records : Take(t, slots, "free", FinishDefault(text, parsed, records), windows)
    BY <1>5, <1>8, <2>1, <2>2, Zenon DEF Default, TakeParsed
  <2>4. PICK r : r = FinishDefault(text, parsed, records)
    OBVIOUS
  <2>5. Expect(slots, briefDone) = "free"
    BY <1>8 DEF Expect, BriefModes
  <2>6. IsReply(r) /\ Leads(r, "free", slots, briefDone) /\ Speaks(windows, r)
    BY <1>1, <1>3, <1>5, <2>1, <2>2, <2>4, <2>5, Today, DefaultLeads
  <2> QED
    BY <1>2, <1>3, <1>4, <2>3, <2>4, <2>5, <2>6, Taken
<1>9. CASE slots.mode \in BriefModes /\ turn' = [turn EXCEPT ![t].pc = "brief?", ![t].prior = slots]
           /\ UNCHANGED handled
  <2>1. PICK x : x = turn'[t]
    OBVIOUS
  <2>2. /\ DOMAIN turn' = Tabs /\ \A u \in Tabs : u # t => turn'[u] = turn[u]
        /\ DOMAIN x = TurnFields /\ x.pc = "brief?" /\ x.text = turn[t].text /\ x.prior = slots
        /\ x.reply = turn[t].reply /\ x.windows = turn[t].windows
    BY <1>1, <1>9, <2>1 DEF Places, Parts, IsTurn, TurnFields
  <2>3. IsTurn(x)
    BY <1>1, <1>3, <2>2 DEF IsTurn, Parts
  <2>4. current \notin Tabs /\ \A u \in alone : u = t
    BY <1>3, Working
  <2>5. Places' /\ Parts'
    BY <1>1, <1>2, <1>9, <2>1, <2>2, <2>3 DEF Places, Parts
  <2>6. Alone' /\ LastWord'
    BY <1>2, <1>3, <2>2, <2>4 DEF FlowInv, Alone, LastWord
  <2>7. t \in alone => Follows(x, handled[t].asked, slots, briefDone)
    BY <1>4, <1>9, <2>2 DEF Follows
  <2>8. Course'
    BY <1>2, <1>9, <2>1, <2>4, <2>7 DEF Course
  <2>9. (\A u \in Tabs : Heard(handled[u]))' /\ (dispatched # EmptySlots => Whole(dispatched, Days[today]))'
    BY <1>2, <1>9 DEF FlowInv
  <2> QED
    BY <2>5, <2>6, <2>8, <2>9 DEF FlowInv
<1> QED
  BY <1>5, <1>6, <1>7, <1>8, <1>9 DEF Begin

LEMMA ReadBriefDoneKeeps ==
  ASSUME FlowInv, NEW t \in Tabs, ReadBriefDone(t)
  PROVE  FlowInv'
<1>1. /\ turn[t].pc = "brief?" /\ IsText(turn[t].text) /\ AreSlots(turn[t].prior)
      /\ briefDone \in BOOLEAN /\ Places
  BY DEF ReadBriefDone, FlowInv, Parts, IsTurn, Places
<1>2. UNCHANGED <<slots, briefDone, today, screen, sent, faults, alone, current, dispatched>>
  BY DEF ReadBriefDone
<1>3. PICK text, day, prior : text = turn[t].text /\ day = Days[today] /\ prior = turn[t].prior
  OBVIOUS
<1>4. t \in alone => /\ handled[t].asked # "any" => FlowOf(handled[t].asked) = Expect(slots, briefDone)
                     /\ prior = slots /\ slots.mode \in BriefModes
  BY <1>1, <1>3, AloneFollows DEF Follows
<1>5. CASE briefDone /\ Default(t, prior)
  <2>1. PICK parsed : parsed = ParseTurn(text, prior, day)
    OBVIOUS
  <2>2. PICK windows : windows = IF parsed.noData THEN << >> ELSE <<parsed.a, parsed.b>>
    OBVIOUS
  <2>3. PICK records : Take(t, prior, "free", FinishDefault(text, parsed, records), windows)
    BY <1>3, <1>5, <2>1, <2>2, Zenon DEF Default, TakeParsed
  <2>4. PICK r : r = FinishDefault(text, parsed, records)
    OBVIOUS
  <2>5. t \in alone => Expect(slots, briefDone) = "free"
    BY <1>4, <1>5 DEF Expect, BriefModes
  <2>6. IsReply(r) /\ (t \in alone => Leads(r, "free", slots, briefDone)) /\ Speaks(windows, r)
    BY <1>1, <1>3, <1>4, <2>1, <2>2, <2>4, <2>5, Today, DefaultLeads
  <2> QED
    BY <1>1, <1>2, <1>3, <1>4, <2>3, <2>4, <2>5, <2>6, Taken
<1>6. CASE ~briefDone /\ Take(t, prior, "subject", FinishSubjectTurn(text, prior), << >>)
  <2>1. PICK r : r = FinishSubjectTurn(text, prior)
    OBVIOUS
  <2>2. briefDone = FALSE
    BY <1>1, <1>6, Zenon
  <2>3. IsReply(r) /\ (t \in alone => Leads(r, "subject", slots, briefDone))
    BY <1>1, <1>3, <1>4, <2>1, <2>2, SubjectLeads, Zenon
  <2>4. t \in alone => Expect(slots, briefDone) = "subject"
    BY <1>4, <1>6 DEF Expect
  <2> QED
    BY <1>1, <1>2, <1>3, <1>4, <1>6, <2>1, <2>3, <2>4, Silent, Taken
<1> QED
  BY <1>3, <1>5, <1>6 DEF ReadBriefDone

LEMMA SendKeeps ==
  ASSUME FlowInv, NEW t \in Tabs, NEW text \in Texts \union screen[t].chips, Send(t, text)
  PROVE  FlowInv'
<1>1. Places /\ Parts /\ turn[t].pc = "idle" /\ current' = NoTab
  BY DEF Send, FlowInv
<1>2. UNCHANGED <<slots, briefDone, today, screen, faults, dispatched>>
  BY DEF Send
<1>3. IsText(text)
  BY <1>1, FlowAssumption DEF FlowAssumption, Parts
<1>4. PICK x, h : x = turn'[t] /\ h = handled'[t]
  OBVIOUS
<1>5. /\ DOMAIN turn' = Tabs /\ \A u \in Tabs : u # t => turn'[u] = turn[u]
      /\ x = [Idle EXCEPT !.pc = "read", !.text = text]
  BY <1>1, <1>4 DEF Send, Places
<1>6. IsTurn(x) /\ x.pc = "read"
  <2>1. PICK idle : idle = Idle
    OBVIOUS
  <2>2. IsTurn(idle)
    BY <2>1, IdleIs
  <2>3. /\ DOMAIN x = TurnFields /\ x.pc = "read" /\ x.text = text /\ x.prior = idle.prior
        /\ x.reply = idle.reply /\ x.windows = idle.windows
    BY <1>5, <2>1, <2>2 DEF IsTurn, TurnFields
  <2> QED
    BY <1>3, <2>2, <2>3 DEF IsTurn
<1>7. /\ DOMAIN handled' = Tabs /\ \A u \in Tabs : u # t => handled'[u] = handled[u]
      /\ DOMAIN h = HandledFields /\ h.flow = "none"
      /\ h.asked = (IF current = t THEN screen[t].asks ELSE "any")
  BY <1>1, <1>4 DEF Send, Places, HandledFields
<1>8. alone' = (IF Busy = {} THEN {t} ELSE {})
  BY DEF Send
<1>9. alone' \subseteq Tabs /\ \A u \in alone' : u = t /\ \A v \in Tabs : turn[v].pc = "idle"
  BY <1>8 DEF Busy
<1>10. Places'
  BY <1>1, <1>2, <1>5, <1>7, <1>9 DEF Places
<1>11. Parts'
  BY <1>1, <1>2, <1>4, <1>5, <1>6, <1>7 DEF Parts
<1>12. Alone'
  BY <1>5, <1>9 DEF Alone
<1>13. LastWord'
  BY <1>1, FlowAssumption DEF LastWord, FlowAssumption
<1>14. h.asked # "any" => FlowOf(h.asked) = Expect(slots, briefDone)
  <2>1. h.asked # "any" => current \in Tabs /\ h.asked = screen[current].asks
    BY <1>7
  <2> QED
    BY <2>1 DEF FlowInv, LastWord
<1>15. Course'
  BY <1>2, <1>4, <1>6, <1>9, <1>14 DEF Course, Follows
<1>16. \A u \in Tabs : Heard(handled'[u])
  BY <1>4, <1>7 DEF FlowInv, Heard
<1>17. (dispatched # EmptySlots => Whole(dispatched, Days[today]))'
  BY <1>2 DEF FlowInv
<1> QED
  BY <1>10, <1>11, <1>12, <1>13, <1>15, <1>16, <1>17 DEF FlowInv

LEMMA Shown ==
  ASSUME FlowInv, NEW t \in Tabs, turn[t].pc # "idle", NEW asks, NEW chips,
         \A c \in chips : IsText(c), Show(t, asks, chips),
         t \in alone /\ asks # "any" => FlowOf(asks) = Expect(slots, briefDone),
         UNCHANGED <<slots, briefDone, today, handled, dispatched>>
  PROVE  FlowInv'
<1>1. Places /\ Parts /\ Alone /\ Course
  BY DEF FlowInv
<1>2. \A u \in alone : u = t
  BY Working
<1>3. alone' = {}
  BY <1>2 DEF Show
<1>4. /\ DOMAIN turn' = Tabs /\ \A u \in Tabs : u # t => turn'[u] = turn[u]
      /\ turn'[t] = Idle
  BY <1>1 DEF Show, Places
<1>5. PICK s : s = screen'[t]
  OBVIOUS
<1>6. /\ DOMAIN screen' = Tabs /\ \A u \in Tabs : u # t => screen'[u] = screen[u]
      /\ s.asks = asks /\ s.chips = chips
  BY <1>1, <1>5 DEF Show, Places
<1>7. current' = (IF t \in alone /\ asks # "any" THEN t ELSE NoTab)
  BY DEF Show
<1>8. Places'
  BY <1>1, <1>3, <1>4, <1>6, <1>7 DEF Places
<1>9. Parts'
  BY <1>1, <1>4, <1>5, <1>6, IdleIs DEF Parts
<1>10. Alone' /\ Course'
  BY <1>3 DEF Alone, Course
<1>11. LastWord'
  <2>1. ASSUME current' \in Tabs PROVE t \in alone /\ asks # "any" /\ current' = t
    BY <1>7, <2>1, FlowAssumption DEF FlowAssumption
  <2>2. ASSUME t \in alone PROVE \A u \in Tabs : turn'[u].pc = "idle"
    <3>1. \A u \in Tabs : u # t => turn[u].pc = "idle"
      BY <1>1, <2>2 DEF Alone
    <3> QED
      BY <1>4, <3>1, IdleIs
  <2> QED
    BY <1>5, <1>6, <2>1, <2>2 DEF LastWord
<1>12. (\A u \in Tabs : Heard(handled[u]))' /\ (dispatched # EmptySlots => Whole(dispatched, Days[today]))'
  BY DEF FlowInv
<1> QED
  BY <1>8, <1>9, <1>10, <1>11, <1>12 DEF FlowInv

LEMMA FinishKeeps ==
  ASSUME FlowInv, NEW t \in Tabs, Finish(t)
  PROVE  FlowInv'
<1>1. /\ turn[t].pc = "write" /\ turn[t].reply.writes = << >>
      /\ UNCHANGED <<slots, briefDone, today, handled, dispatched>>
  BY DEF Finish
<1>2. PICK asks, reply : asks = (IF turn[t].stored THEN turn[t].reply.asks ELSE "any") /\ reply = turn[t].reply
  OBVIOUS
<1>3. Show(t, asks, reply.chips)
  BY <1>2, Zenon DEF Finish
<1>4. \A c \in reply.chips : IsText(c)
  BY <1>2 DEF FlowInv, Parts, IsTurn, IsReply
<1>5. ASSUME t \in alone, asks # "any" PROVE FlowOf(asks) = Expect(slots, briefDone)
  <2>1. turn[t].stored /\ asks = reply.asks
    BY <1>2, <1>5
  <2>2. Settles(reply, slots, briefDone)
    BY <1>1, <1>2, <1>5, <2>1, AloneFollows DEF Follows
  <2>3. LastSlots(<< >>, slots, reply.next) = slots /\ LastDone(<< >>, briefDone) = briefDone
    BY NoWrite
  <2> QED
    BY <1>1, <1>2, <2>1, <2>2, <2>3, Zenon DEF Settles
<1> QED
  BY <1>1, <1>3, <1>4, <1>5, Shown

\* A step of the turn of t, be it alone or not.
LEMMA Moves ==
  ASSUME FlowInv, NEW t \in Tabs, turn[t].pc # "idle", NEW x, IsTurn(x),
         DOMAIN turn' = Tabs, turn'[t] = x, \A u \in Tabs : u # t => turn'[u] = turn[u],
         AreSlots(slots'), briefDone' \in BOOLEAN,
         t \in alone => Follows(x, handled[t].asked, slots', briefDone'),
         UNCHANGED <<today, screen, alone, current, handled>>,
         dispatched' = dispatched \/ Whole(dispatched', Days[today])
  PROVE  FlowInv'
<1>1. Places /\ Parts /\ Alone
  BY DEF FlowInv
<1>2. current \notin Tabs /\ \A u \in alone : u = t
  BY Working
<1>3. Places' /\ Parts'
  BY <1>1 DEF Places, Parts
<1>4. Alone' /\ LastWord'
  BY <1>1, <1>2 DEF Alone, LastWord
<1>5. Course'
  BY <1>2 DEF Course
<1>6. (\A u \in Tabs : Heard(handled[u]))' /\ (dispatched # EmptySlots => Whole(dispatched, Days[today]))'
  BY DEF FlowInv
<1> QED
  BY <1>3, <1>4, <1>5, <1>6 DEF FlowInv

LEMMA LateDay ==
  ASSUME NEW day \in Nat, Year(day) \in Years
  PROVE  day >= FirstDay
<1>1. PICK y, m, d : y = Year(day) /\ m = Month(day) /\ d = OfMonth(day)
  OBVIOUS
<1>2. y \in 1900..2099 /\ m \in 1..12 /\ d \in 1..31 /\ day = 372 * y + 31 * (m - 1) + (d - 1)
  BY <1>1, DayHas DEF Years
<1> QED
  BY <1>2 DEF FirstDay, Day

\* The slots a report leaves, and that they are whole.
LEMMA ReportIs ==
  ASSUME NEW r, IsReply(r), r.skill = "report", NEW day \in Nat,
         NEW periods, periods = ReportPeriods(r.choice.month, r.choice.kind, day),
         periods.current # NoWindow,
         NEW next, next = SlotsAfterReport(r.next, periods)
  PROVE  /\ AreSlots(next) /\ Whole(next, day) /\ StepFor(next) = "month"
         /\ next.mode = "default"
<1>1. AreSlots(r.next) /\ r.choice.month \in Months /\ StepFor(r.next) = "month"
  BY DEF IsReply
<1>2. PICK s, m : s = r.next /\ m = r.choice.month
  OBVIOUS
<1>3. DOMAIN s = SlotFields
  BY <1>1, <1>2, SlotsHave DEF AreSlots
<1>4. /\ DOMAIN next = SlotFields /\ next.mode = "default" /\ next.perspective = s.perspective
      /\ next.column = s.column /\ next.office = s.office /\ next.customer = s.customer
      /\ next.port = s.port /\ next.a = periods.current.start /\ next.aEnd = periods.current.end
      /\ next.b = periods.prior.start /\ next.bEnd = periods.prior.end
  BY <1>2, <1>3 DEF SlotsAfterReport, SlotFields
<1>5. m \in Nat /\ OfMonth(m) = 1 /\ Year(m) \in Years
  BY <1>1, <1>2, FlowAssumption DEF FlowAssumption
<1>6. /\ periods.current.start = m /\ m < periods.current.end /\ periods.current.end <= day
      /\ periods.prior.start < periods.prior.end /\ periods.prior.end <= m
      /\ periods.current.end \in Nat
  BY <1>2, <1>5, ReportPeriodsAre
<1>7. Dated(next.a, next.aEnd)
  BY <1>2, <1>4, <1>5, <1>6, LateDay DEF Dated
<1>8. AreSlots(next)
  BY <1>1, <1>2, <1>4, <1>7, SlotsHave DEF AreSlots
<1>9. StepFor(next) = "month"
  BY <1>1, <1>2, <1>4 DEF StepFor
<1>10. IF next.column = "none" THEN next.office = "none" ELSE next.office \in ToSet(Offices[next.column])
  <2>1. next.column = OfficeColumn(next.perspective) /\ (next.office # "none" => next.column # "none"
          /\ next.office \in ToSet(Offices[next.column]))
    BY <1>8 DEF AreSlots
  <2>2. next.column # "none" => next.office # "none"
    <3>1. /\ next.perspective # "none" /\ OfficeColumn(next.perspective) # "none" /\ next.office = "none"
          => StepFor(next) = "office"
      BY DEF StepFor
    <3>2. next.column # "none" => next.perspective # "none"
      BY <2>1 DEF OfficeColumn
    <3> QED
      BY <1>9, <2>1, <3>1, <3>2
  <2> QED
    BY <2>1, <2>2
<1>11. Whole(next, day)
  <2>1. next.column = OfficeColumn(next.perspective)
    BY <1>8 DEF AreSlots
  <2> QED
    BY <1>1, <1>2, <1>4, <1>6, <1>10, <2>1 DEF Whole
<1> QED
  BY <1>4, <1>8, <1>9, <1>11

LEMMA RunSkillKeeps ==
  ASSUME FlowInv, NEW t \in Tabs, NEW ok \in BOOLEAN, RunSkill(t, ok)
  PROVE  FlowInv'
<1>1. /\ Places /\ turn[t].pc = "skill" /\ IsTurn(turn[t])
      /\ UNCHANGED <<slots, briefDone, today, screen, sent, faults, alone, current, handled>>
  BY DEF RunSkill, FlowInv, Parts
<1>2. PICK r, day : r = turn[t].reply /\ day = Days[today]
  OBVIOUS
<1>3. PICK periods : periods = ReportPeriods(r.choice.month, r.choice.kind, day)
  OBVIOUS
<1>4. PICK next : next = IF r.skill = "report" THEN SlotsAfterReport(r.next, periods) ELSE r.next
  OBVIOUS
<1>5. PICK again : again = Reply(Retry(turn[t].flow), {}, r.next, << >>)
  OBVIOUS
<1>6. PICK done : done = [r EXCEPT !.next = next]
  OBVIOUS
<1>7. /\ ok /\ r.skill = "report" => periods.current # NoWindow
      /\ turn' = [turn EXCEPT ![t].pc = "write", ![t].reply = IF ok THEN done ELSE again]
      /\ dispatched' = IF ok /\ r.skill = "report" THEN next ELSE dispatched
  BY <1>2, <1>3, <1>4, <1>5, <1>6, Zenon DEF RunSkill, Retry
<1>8. IsReply(r) /\ r.skill # "none" /\ day \in Nat
  BY <1>1, <1>2, FlowAssumption DEF IsTurn, Places, FlowAssumption
<1>9. PICK x : x = turn'[t]
  OBVIOUS
<1>10. /\ DOMAIN turn' = Tabs /\ \A u \in Tabs : u # t => turn'[u] = turn[u]
       /\ DOMAIN x = TurnFields /\ x.pc = "write" /\ x.text = turn[t].text
       /\ x.prior = turn[t].prior /\ x.reply = (IF ok THEN done ELSE again)
       /\ x.windows = turn[t].windows
  BY <1>1, <1>7, <1>9 DEF Places, IsTurn, TurnFields
<1>11. t \in alone => Leads(r, turn[t].flow, slots, briefDone)
  BY <1>1, <1>2, AloneFollows DEF Follows
<1>12. CASE ~ok
  <2>1. << >> \in WriteOrders /\ AreSlots(r.next)
    BY <1>8 DEF WriteOrders, IsReply
  <2>2. IsReply(again)
    BY <1>5, <2>1, ReplyIs
  <2>3. Speaks(turn[t].windows, again)
    BY <1>1, <1>2, <1>5, ReplyHas, StillSpeaks DEF IsTurn
  <2>4. IsTurn(x)
    BY <1>1, <1>10, <1>12, <2>2, <2>3 DEF IsTurn
  <2>5. ASSUME t \in alone PROVE Settles(again, slots, briefDone)
    <3>1. Expect(slots, briefDone) = Retry(turn[t].flow)
      BY <1>8, <1>11, <2>5 DEF Leads
    <3>2. FlowOf(Retry(turn[t].flow)) = Retry(turn[t].flow)
      BY DEF FlowOf, Retry
    <3>3. again.asks = Retry(turn[t].flow) /\ again.next = r.next /\ again.writes = << >>
      BY <1>5, ReplyHas
    <3>4. LastSlots(<< >>, slots, r.next) = slots /\ LastDone(<< >>, briefDone) = briefDone
      BY NoWrite
    <3> QED
      BY <2>1, <3>1, <3>2, <3>3, <3>4, SettlesAs, Zenon
  <2>6. t \in alone => Follows(x, handled[t].asked, slots, briefDone)
    BY <1>10, <1>12, <2>5 DEF Follows
  <2>7. dispatched' = dispatched
    BY <1>7, <1>12
  <2>8. AreSlots(slots') /\ briefDone' \in BOOLEAN /\ slots' = slots /\ briefDone' = briefDone
    BY <1>1 DEF Places
  <2>9. turn[t].pc # "idle"
    BY <1>1
  <2> QED
    BY <1>1, <1>9, <1>10, <2>4, <2>6, <2>7, <2>8, <2>9, Moves
<1>13. CASE ok
  <2>1. DOMAIN r = ReplyFields
    BY <1>8 DEF IsReply
  <2>2. /\ DOMAIN done = ReplyFields /\ done.next = next /\ done.asks = r.asks
        /\ done.chips = r.chips /\ done.writes = r.writes /\ done.skill = r.skill
        /\ done.choice = r.choice
    BY <1>6, <2>1 DEF ReplyFields
  <2>3. ASSUME r.skill = "report"
        PROVE  AreSlots(next) /\ Whole(next, day) /\ StepFor(next) = "month" /\ next.mode = "default"
    BY <1>3, <1>4, <1>7, <1>8, <1>13, <2>3, ReportIs
  <2>4. IsReply(done)
    BY <1>4, <1>8, <2>2, <2>3 DEF IsReply
  <2>5. Speaks(turn[t].windows, done)
    <3>1. Speaks(turn[t].windows, r) /\ (r.skill # "report" => done.next = r.next) /\ done.skill = r.skill
      BY <1>1, <1>2, <1>4, <2>2 DEF IsTurn
    <3> QED
      BY <3>1, StillSpeaks
  <2>6. IsTurn(x)
    BY <1>1, <1>10, <1>13, <2>4, <2>5 DEF IsTurn
  <2>7. ASSUME t \in alone PROVE Settles(done, slots, briefDone)
    <3>1. CASE r.skill # "report"
      <4>1. Settles(r, slots, briefDone)
        BY <1>11, <2>7, <3>1 DEF Leads
      <4>2. next = r.next
        BY <1>4, <3>1
      <4> QED
        BY <2>2, <4>1, <4>2, Zenon DEF Settles
    <3>2. CASE r.skill = "report"
      <4>1. r.writes = <<"put">> /\ r.asks = "free"
        BY <1>11, <2>7, <3>2 DEF Leads
      <4>2. Expect(next, briefDone) = "free" /\ FlowOf("free") = "free"
        BY <2>3, <3>2 DEF Expect, BriefModes, FlowOf
      <4>3. LastSlots(<<"put">>, slots, next) = next /\ LastDone(<<"put">>, briefDone) = briefDone
        BY PutWrite
      <4>4. <<"put">> \in WriteOrders
        BY DEF WriteOrders
      <4> QED
        BY <2>2, <4>1, <4>2, <4>3, <4>4, SettlesAs, Zenon
    <3> QED
      BY <3>1, <3>2
  <2>8. t \in alone => Follows(x, handled[t].asked, slots, briefDone)
    BY <1>10, <1>13, <2>7 DEF Follows
  <2>9. dispatched' = dispatched \/ Whole(dispatched', Days[today])
    BY <1>2, <1>7, <1>13, <2>3
  <2>10. AreSlots(slots') /\ briefDone' \in BOOLEAN /\ slots' = slots /\ briefDone' = briefDone
    BY <1>1 DEF Places
  <2>11. turn[t].pc # "idle"
    BY <1>1
  <2> QED
    BY <1>1, <1>9, <1>10, <2>6, <2>8, <2>9, <2>10, <2>11, Moves
<1> QED
  BY <1>12, <1>13

LEMMA PutSlotsKeeps ==
  ASSUME FlowInv, NEW t \in Tabs, PutSlots(t)
  PROVE  FlowInv'
<1>1. /\ Places /\ turn[t].pc = "write" /\ IsTurn(turn[t]) /\ turn[t].reply.writes # << >>
      /\ Head(turn[t].reply.writes) = "put" /\ slots' = turn[t].reply.next
      /\ UNCHANGED <<briefDone, today, screen, sent, faults, alone, current, handled, dispatched>>
  BY DEF PutSlots, Written, Stored, FlowInv, Parts
<1>2. PICK r, x : r = turn[t].reply /\ x = turn'[t]
  OBVIOUS
<1>3. IsReply(r)
  BY <1>1, <1>2 DEF IsTurn
<1>4. /\ DOMAIN turn' = Tabs /\ \A u \in Tabs : u # t => turn'[u] = turn[u]
      /\ DOMAIN x = TurnFields /\ x.pc = "write" /\ x.text = turn[t].text
      /\ x.prior = turn[t].prior /\ x.stored = turn[t].stored
      /\ x.reply = [r EXCEPT !.writes = Tail(@)] /\ x.windows = turn[t].windows
  BY <1>1, <1>2 DEF PutSlots, Written, Places, IsTurn, TurnFields
<1>5. PICK y : y = x.reply
  OBVIOUS
<1>6. /\ DOMAIN y = ReplyFields /\ y.asks = r.asks /\ y.chips = r.chips /\ y.next = r.next
      /\ y.writes = Tail(r.writes) /\ y.skill = r.skill /\ y.choice = r.choice
  BY <1>3, <1>4, <1>5 DEF IsReply, ReplyFields
<1>7. r.writes \in WriteOrders /\ r.writes # << >>
  BY <1>1, <1>2, <1>3 DEF IsReply
<1>8. /\ Tail(r.writes) \in WriteOrders
      /\ LastSlots(Tail(r.writes), r.next, r.next) = LastSlots(r.writes, slots, r.next)
      /\ LastDone(Tail(r.writes), briefDone) = LastDone(r.writes, briefDone)
  <2>1. PICK w, next : w = r.writes /\ next = r.next
    OBVIOUS
  <2>2. w \in WriteOrders /\ w # << >> /\ (Head(w) = "put")
    BY <1>1, <1>2, <1>7, <2>1
  <2>3. /\ Tail(w) \in WriteOrders
        /\ LastSlots(Tail(w), next, next) = LastSlots(w, slots, next)
        /\ LastDone(Tail(w), briefDone) = LastDone(w, briefDone)
    BY <2>2, PutIs
  <2> QED
    BY <2>1, <2>3
<1>9. IsReply(y)
  BY <1>3, <1>6, <1>8 DEF IsReply
<1>10. Speaks(x.windows, y)
  BY <1>1, <1>2, <1>4, <1>6, StillSpeaks DEF IsTurn
<1>11. IsTurn(x)
  BY <1>1, <1>4, <1>5, <1>9, <1>10 DEF IsTurn
<1>12. ASSUME t \in alone, x.stored PROVE Settles(y, slots', briefDone)
  <2>1. Settles(r, slots, briefDone)
    BY <1>1, <1>2, <1>4, <1>12, AloneFollows DEF Follows
  <2>2. slots' = r.next
    BY <1>1, <1>2
  <2> QED
    BY <1>6, <1>8, <2>1, <2>2, Zenon DEF Settles
<1>13. t \in alone => Follows(x, handled[t].asked, slots', briefDone')
  BY <1>1, <1>4, <1>5, <1>12 DEF Follows
<1>14. AreSlots(slots') /\ briefDone' \in BOOLEAN
  BY <1>1, <1>2, <1>3 DEF Places, IsReply
<1>15. turn[t].pc # "idle"
  BY <1>1
<1> QED
  BY <1>1, <1>2, <1>4, <1>11, <1>13, <1>14, <1>15, Moves

LEMMA SetBriefDoneKeeps ==
  ASSUME FlowInv, NEW t \in Tabs, SetBriefDone(t)
  PROVE  FlowInv'
<1>1. /\ Places /\ turn[t].pc = "write" /\ IsTurn(turn[t]) /\ turn[t].reply.writes # << >>
      /\ Head(turn[t].reply.writes) # "put"
      /\ UNCHANGED <<slots, today, screen, sent, faults, alone, current, handled, dispatched>>
  BY DEF SetBriefDone, Written, FlowInv, Parts
<1>2. PICK r, x : r = turn[t].reply /\ x = turn'[t]
  OBVIOUS
<1>3. IsReply(r)
  BY <1>1, <1>2 DEF IsTurn
<1>4. /\ DOMAIN turn' = Tabs /\ \A u \in Tabs : u # t => turn'[u] = turn[u]
      /\ DOMAIN x = TurnFields /\ x.pc = "write" /\ x.text = turn[t].text
      /\ x.prior = turn[t].prior /\ x.stored = turn[t].stored
      /\ x.reply = [r EXCEPT !.writes = Tail(@)] /\ x.windows = turn[t].windows
  BY <1>1, <1>2 DEF SetBriefDone, Written, Places, IsTurn, TurnFields
<1>5. PICK y : y = x.reply
  OBVIOUS
<1>6. /\ DOMAIN y = ReplyFields /\ y.asks = r.asks /\ y.chips = r.chips /\ y.next = r.next
      /\ y.writes = Tail(r.writes) /\ y.skill = r.skill /\ y.choice = r.choice
  BY <1>3, <1>4, <1>5 DEF IsReply, ReplyFields
<1>7. r.writes \in WriteOrders /\ r.writes # << >>
  BY <1>1, <1>2, <1>3 DEF IsReply
<1>8. /\ Tail(r.writes) \in WriteOrders
      /\ LastSlots(Tail(r.writes), slots, r.next) = LastSlots(r.writes, slots, r.next)
      /\ LastDone(Tail(r.writes), briefDone') = LastDone(r.writes, briefDone)
  <2>1. PICK w, next : w = r.writes /\ next = r.next
    OBVIOUS
  <2>2. w \in WriteOrders /\ w # << >> /\ (Head(w) # "put")
    BY <1>1, <1>2, <1>7, <2>1
  <2>3. /\ Tail(w) \in WriteOrders
        /\ LastSlots(Tail(w), slots, next) = LastSlots(w, slots, next)
        /\ LastDone(Tail(w), briefDone') = LastDone(w, briefDone)
    <3>1. (Head(w) = "set brief_done" /\ briefDone') \/ (Head(w) # "set brief_done" /\ ~briefDone')
      BY <1>2, <2>1, Zenon DEF SetBriefDone
    <3>2. briefDone' \in BOOLEAN
      BY DEF SetBriefDone
    <3>3. CASE Head(w) = "set brief_done"
      <4>1. briefDone' = TRUE
        BY <3>1, <3>2, <3>3, Zenon
      <4>2. /\ Tail(w) \in WriteOrders
            /\ LastSlots(Tail(w), slots, next) = LastSlots(w, slots, next)
            /\ LastDone(Tail(w), TRUE) = LastDone(w, briefDone)
        BY <2>2, <3>3, SetIs
      <4> QED
        BY <4>1, <4>2, Zenon
    <3>4. CASE Head(w) # "set brief_done"
      <4>1. briefDone' = FALSE
        BY <3>1, <3>2, <3>4, Zenon
      <4>2. Head(w) = "clear brief_done"
        <5>1. Head(<<"set brief_done", "put">>) = "set brief_done" /\ Head(<<"put">>) = "put"
              /\ Head(<<"clear brief_done">>) = "clear brief_done"
              /\ Head(<<"put", "clear brief_done">>) = "put"
          BY HeadsAre
        <5> QED
          BY <2>2, <3>4, <5>1 DEF WriteOrders
      <4> QED
        BY <2>2, <4>1, <4>2, ClearIs
    <3> QED
      BY <3>3, <3>4
  <2> QED
    BY <2>1, <2>3
<1>9. IsReply(y)
  BY <1>3, <1>6, <1>8 DEF IsReply
<1>10. Speaks(x.windows, y)
  BY <1>1, <1>2, <1>4, <1>6, StillSpeaks DEF IsTurn
<1>11. IsTurn(x)
  BY <1>1, <1>4, <1>5, <1>9, <1>10 DEF IsTurn
<1>12. ASSUME t \in alone, x.stored PROVE Settles(y, slots, briefDone')
  <2>1. Settles(r, slots, briefDone)
    BY <1>1, <1>2, <1>4, <1>12, AloneFollows DEF Follows
  <2> QED
    BY <1>6, <1>8, <2>1, Zenon DEF Settles
<1>13. t \in alone => Follows(x, handled[t].asked, slots', briefDone')
  BY <1>1, <1>4, <1>5, <1>12 DEF Follows
<1>14. AreSlots(slots') /\ briefDone' \in BOOLEAN
  BY <1>1 DEF Places, SetBriefDone
<1>15. turn[t].pc # "idle"
  BY <1>1
<1> QED
  BY <1>1, <1>2, <1>4, <1>11, <1>13, <1>14, <1>15, Moves

LEMMA WriteFailsKeeps ==
  ASSUME FlowInv, NEW t \in Tabs, WriteFails(t)
  PROVE  FlowInv'
<1>1. /\ Places /\ turn[t].pc = "write" /\ IsTurn(turn[t])
      /\ UNCHANGED <<slots, briefDone, today, sent, handled, dispatched>>
  BY DEF WriteFails, FlowInv, Parts
<1>2. turn[t].pc # "idle"
  BY <1>1
<1>3. CASE Show(t, "any", {})
  <2>1. PICK none : none = {}
    OBVIOUS
  <2>2. Show(t, "any", none) /\ \A c \in none : IsText(c)
    BY <1>3, <2>1
  <2> QED
    BY <1>1, <1>2, <2>2, Shown
<1>4. CASE /\ turn' = [turn EXCEPT ![t].reply.writes = << >>, ![t].stored = FALSE]
           /\ UNCHANGED <<screen, current, alone>>
  <2>1. PICK r, x : r = turn[t].reply /\ x = turn'[t]
    OBVIOUS
  <2>2. IsReply(r)
    BY <1>1, <2>1 DEF IsTurn
  <2>3. /\ DOMAIN turn' = Tabs /\ \A u \in Tabs : u # t => turn'[u] = turn[u]
        /\ DOMAIN x = TurnFields /\ x.pc = "write" /\ x.text = turn[t].text
        /\ x.prior = turn[t].prior /\ x.stored = FALSE
        /\ x.reply = [r EXCEPT !.writes = << >>] /\ x.windows = turn[t].windows
    BY <1>1, <1>4, <2>1 DEF Places, IsTurn, TurnFields
  <2>4. PICK y : y = x.reply
    OBVIOUS
  <2>5. /\ DOMAIN y = ReplyFields /\ y.asks = r.asks /\ y.chips = r.chips /\ y.next = r.next
        /\ y.writes = << >> /\ y.skill = r.skill /\ y.choice = r.choice
    BY <2>2, <2>3, <2>4 DEF IsReply, ReplyFields
  <2>6. IsReply(y)
    BY <2>2, <2>5 DEF IsReply, WriteOrders
  <2>7. Speaks(x.windows, y)
    BY <1>1, <2>1, <2>3, <2>5, StillSpeaks DEF IsTurn
  <2>8. IsTurn(x)
    BY <1>1, <2>3, <2>4, <2>6, <2>7 DEF IsTurn
  <2>9. Follows(x, handled[t].asked, slots', briefDone')
    BY <2>3 DEF Follows
  <2>10. AreSlots(slots') /\ briefDone' \in BOOLEAN
    BY <1>1 DEF Places
  <2> QED
    BY <1>1, <1>2, <1>4, <2>1, <2>3, <2>8, <2>9, <2>10, Moves
<1> QED
  BY <1>3, <1>4 DEF WriteFails

LEMMA RestartKeeps ==
  ASSUME FlowInv, Restart
  PROVE  FlowInv'
<1>1. /\ Places /\ Parts /\ turn' = [t \in Tabs |-> Idle] /\ alone' = {} /\ current' = NoTab
      /\ screen' = [t \in Tabs |-> IF t \in Busy THEN [asks |-> "any", chips |-> {}] ELSE screen[t]]
      /\ UNCHANGED <<slots, briefDone, today, sent, handled, dispatched>>
  BY DEF Restart, FlowInv
<1>2. Places'
  BY <1>1 DEF Places
<1>3. \A t \in Tabs : turn'[t] = Idle /\ (screen'[t].chips = {} \/ screen'[t] = screen[t])
  BY <1>1
<1>4. Parts'
  BY <1>1, <1>3, IdleIs DEF Parts
<1>5. Alone' /\ Course'
  BY <1>1 DEF Alone, Course
<1>6. LastWord'
  BY <1>1, FlowAssumption DEF LastWord, FlowAssumption
<1>7. (\A u \in Tabs : Heard(handled[u]))' /\ (dispatched # EmptySlots => Whole(dispatched, Days[today]))'
  BY <1>1 DEF FlowInv
<1> QED
  BY <1>2, <1>4, <1>5, <1>6, <1>7 DEF FlowInv

LEMMA MidnightKeeps ==
  ASSUME FlowInv, Midnight
  PROVE  FlowInv'
<1>1. /\ Places /\ Parts /\ Alone /\ LastWord /\ Course /\ today < Len(Days) /\ today' = today + 1
      /\ UNCHANGED <<slots, briefDone, turn, screen, sent, faults, alone, current, handled, dispatched>>
  BY DEF Midnight, FlowInv
<1>2. today \in DOMAIN Days /\ today' \in DOMAIN Days
  BY <1>1, FlowAssumption DEF Places, FlowAssumption
<1>3. Days[today] \in Nat /\ Days[today'] \in Nat /\ Days[today] < Days[today']
  BY <1>1, <1>2, FlowAssumption DEF FlowAssumption
<1>4. Places' /\ Parts' /\ Alone' /\ LastWord' /\ Course'
  BY <1>1, <1>2 DEF Places, Parts, Alone, LastWord, Course
<1>5. (\A u \in Tabs : Heard(handled[u]))'
  BY <1>1 DEF FlowInv
<1>6. ASSUME dispatched # EmptySlots PROVE Whole(dispatched, Days[today'])
  <2>1. Whole(dispatched, Days[today])
    BY <1>6 DEF FlowInv
  <2> QED
    BY <1>3, <2>1 DEF Whole
<1> QED
  BY <1>1, <1>4, <1>5, <1>6 DEF FlowInv

LEMMA StutterKeeps ==
  ASSUME FlowInv, UNCHANGED vars
  PROVE  FlowInv'
BY DEF FlowInv, vars, Places, Parts, Alone, LastWord, Course

LEMMA InitHolds ==
  ASSUME Init
  PROVE  FlowInv
<1>1. AreSlots(slots) /\ briefDone \in BOOLEAN
  <2>1. PICK h \in Histories \union {<<EmptySlots, FALSE>>} : slots = h[1] /\ briefDone = h[2]
    BY DEF Init
  <2>2. CASE h \in Histories
    BY <2>1, <2>2, FlowAssumption DEF FlowAssumption
  <2>3. CASE h = <<EmptySlots, FALSE>>
    <3>1. h[1] = EmptySlots /\ h[2] = FALSE
      BY <2>3
    <3> QED
      BY <2>1, <3>1, IdleIs
  <2> QED
    BY <2>1, <2>2, <2>3
<1>2. /\ turn = [t \in Tabs |-> Idle] /\ screen = [t \in Tabs |-> [asks |-> "free", chips |-> {}]]
      /\ alone = {} /\ current = NoTab /\ today = 1 /\ dispatched = EmptySlots
      /\ handled = [t \in Tabs |-> [asked |-> "any", flow |-> "none", chip |-> FALSE, again |-> FALSE]]
  BY DEF Init
<1>3. today \in DOMAIN Days
  BY <1>2, FlowAssumption DEF FlowAssumption
<1>4. Places
  BY <1>1, <1>2, <1>3 DEF Places
<1>5. Parts
  BY <1>2, IdleIs DEF Parts, HandledFields
<1>6. Alone /\ Course
  BY <1>2 DEF Alone, Course
<1>7. LastWord
  BY <1>2, FlowAssumption DEF LastWord, FlowAssumption
<1>8. \A t \in Tabs : Heard(handled[t])
  BY <1>2 DEF Heard
<1> QED
  BY <1>2, <1>4, <1>5, <1>6, <1>7, <1>8 DEF FlowInv

\* Where the conversation is, what each tab was asked and what its turn will ask hold together.
THEOREM FlowInvariant == Spec => []FlowInv
<1>1. ASSUME FlowInv, [Next]_vars PROVE FlowInv'
  <2>1. CASE Next
    <3>1. ASSUME NEW t \in Tabs, NEW text \in Texts \union screen[t].chips, Send(t, text) PROVE FlowInv'
      BY <1>1, <3>1, SendKeeps
    <3>2. ASSUME NEW t \in Tabs, Begin(t) PROVE FlowInv'
      BY <1>1, <3>2, BeginKeeps
    <3>3. ASSUME NEW t \in Tabs, ReadBriefDone(t) PROVE FlowInv'
      BY <1>1, <3>3, ReadBriefDoneKeeps
    <3>4. ASSUME NEW t \in Tabs, NEW ok \in BOOLEAN, RunSkill(t, ok) PROVE FlowInv'
      BY <1>1, <3>4, RunSkillKeeps
    <3>5. ASSUME NEW t \in Tabs, PutSlots(t) PROVE FlowInv'
      BY <1>1, <3>5, PutSlotsKeeps
    <3>6. ASSUME NEW t \in Tabs, SetBriefDone(t) PROVE FlowInv'
      BY <1>1, <3>6, SetBriefDoneKeeps
    <3>7. ASSUME NEW t \in Tabs, Finish(t) PROVE FlowInv'
      BY <1>1, <3>7, FinishKeeps
    <3>8. ASSUME NEW t \in Tabs, WriteFails(t) PROVE FlowInv'
      BY <1>1, <3>8, WriteFailsKeeps
    <3>9. CASE Restart
      BY <1>1, <3>9, RestartKeeps
    <3>10. CASE Midnight
      BY <1>1, <3>10, MidnightKeeps
    <3> QED
      BY <2>1, <3>1, <3>2, <3>3, <3>4, <3>5, <3>6, <3>7, <3>8, <3>9, <3>10 DEF Next
  <2>2. CASE UNCHANGED vars
    BY <1>1, <2>2, StutterKeeps
  <2> QED
    BY <1>1, <2>1, <2>2
<1> QED
  BY <1>1, InitHolds, PTL DEF Spec

\* The reply to a question is taken as its answer, whatever other tabs, failed writes and
\* restarts have done before.
THEOREM RepliesAreHeard == Spec => []HandledAsShown
<1>1. FlowInv => HandledAsShown
  BY DEF FlowInv, Heard, HandledAsShown
<1> QED
  BY <1>1, FlowInvariant, PTL

\* Every report is made for a whole scope, whatever tabs write over each other's slots.
THEOREM ScopesAreWhole == Spec => []ScopeIsWhole
<1>1. FlowInv => ScopeIsWhole
  BY DEF FlowInv, Whole, ScopeIsWhole
<1> QED
  BY <1>1, FlowInvariant, PTL

\* Only names of the data are carried to later turns.
THEOREM NamesAreCertified == Spec => []CarriedNamesAreCertified
<1>1. FlowInv => CarriedNamesAreCertified
  BY DEF FlowInv, Places, AreSlots, CarriedNamesAreCertified
<1> QED
  BY <1>1, FlowInvariant, PTL

\* The slots a turn leaves are the periods it was answered for, whatever was named, carried or
\* compared: ApplyCarry keeps of a window its two days, and these are enough to find it again.
THEOREM PeriodsAreCarried == Spec => []CarryKeepsPeriods
<1>1. FlowInv => CarryKeepsPeriods
  BY DEF FlowInv, Parts, IsTurn, Speaks, AsWindow, CarryKeepsPeriods
<1> QED
  BY <1>1, FlowInvariant, PTL
=============================================================================
