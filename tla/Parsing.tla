------------------------------- MODULE Parsing -------------------------------
(***************************************************************************)
(* The parsing pipeline: the entity resolver (core/parsing/                *)
(* customer_resolver.py), the plans for port and customer, the carry rule  *)
(* (core/parsing/carry.py) and parse_turn (core/parsing/pipeline.py).      *)
(*                                                                         *)
(* A name is the sequence of its words, casefolded; a text is a record of  *)
(* what the pipeline's patterns find in it.                                *)
(***************************************************************************)
EXTENDS Periods, SequencesExt, FiniteSetsExt

CONSTANTS
  CustomerNames, PortNames,  \* list_dimension_values: sequences of names, in order
  MonthWords,                \* words that name a month
  PeriodWords,               \* these and the other words _is_period_like knows
  StopWords,                 \* words that end a lowercase place name
  Available                  \* available_periods: a window that includes its end

ASSUME ParsingAssumption ==
  /\ CustomerNames \in Seq(Seq(STRING)) /\ PortNames \in Seq(Seq(STRING))
  /\ MonthWords \subseteq PeriodWords /\ MonthWords \subseteq StopWords

NoName == << >>
Threshold == [apply |-> 80, candidate |-> 60]
MaxCandidates == 3
MaxWords == 3

Words(name) == ToSet(name)

\* rapidfuzz token_set_ratio, in percent: 100 when one name has all words of the other.
Score(phrase, name) ==
  LET common == Cardinality(Words(phrase) \intersect Words(name))
      p == Cardinality(Words(phrase))
      n == Cardinality(Words(name))
  IN  IF common > 0 /\ common \in {p, n} THEN 100 ELSE (200 * common) \div (p + n)

Resolution(entity, candidates, issue) ==
  [entity |-> entity, candidates |-> candidates, issue |-> issue]

Certain(name) == Resolution(name, << >>, "none")
Ambiguous(names) ==
  Resolution(NoName, SubSeq(names, 1, Min({Len(names), MaxCandidates})), "ambiguous")
Unknown == Resolution(NoName, << >>, "unknown")

\* The names by score, equal ones in their order.
Scored(phrase, values) ==
  LET score(i) == Score(phrase, values[i])
      order == SortSeq([i \in DOMAIN values |-> i],
                       LAMBDA i, j : score(i) > score(j) \/ (score(i) = score(j) /\ i < j))
  IN  [i \in DOMAIN values |-> values[order[i]]]

\* One clear best, ties, near misses, unknown.
ResolveFuzzy(phrase, values, scored, best, autoApplyFuzzy) ==
  LET tied == {i \in DOMAIN values : Score(phrase, values[i]) = best}
      near == SelectSeq(scored, LAMBDA v : Score(phrase, v) >= Threshold.candidate)
  IN  IF best >= Threshold.apply
      THEN IF Cardinality(tied) # 1 THEN Ambiguous(SelectSeq(scored, LAMBDA v : Score(phrase, v) = best))
           ELSE IF autoApplyFuzzy THEN Certain(values[CHOOSE i \in tied : TRUE]) ELSE Ambiguous(near)
      ELSE IF best >= Threshold.candidate THEN Ambiguous(near) ELSE Unknown

\* resolve: exact, same words, then by score.
Resolve(phrase, values, autoApplyFuzzy) ==
  LET exact     == {i \in DOMAIN values : values[i] = phrase}
      sameWords == {i \in DOMAIN values : Words(values[i]) = Words(phrase)}
      scored    == Scored(phrase, values)
  IN  CASE exact # {} -> Certain(phrase)
        [] exact = {} /\ sameWords # {} -> Certain(values[Min(sameWords)])
        [] values = << >> -> Unknown
        [] OTHER -> ResolveFuzzy(phrase, values, scored, Score(phrase, scored[1]), autoApplyFuzzy)

-----------------------------------------------------------------------------
(* Texts.  A cue is what follows "port of", "at" or "in": a capitalised run *)
(* or lowercase words.  A customer run says which cue's span it lies in.    *)
Blank ==
  [entry |-> "none", subject |-> NoName, perspective |-> "none", office |-> "none",
   mtd |-> FALSE, clearPort |-> FALSE, clearCustomer |-> FALSE, quoted |-> NoName,
   runs |-> << >>, cues |-> << >>, left |-> << >>, right |-> << >>, slice |-> FALSE]

Cue(cue, capitalised, words) == [cue |-> cue, capitalised |-> capitalised, words |-> words]
Run(words, inCue) == [words |-> words, inCue |-> inCue]

Unset == [set |-> FALSE, to |-> NoName]
SetTo(v) == [set |-> TRUE, to |-> v]
Carried(prior, update) == IF update.set THEN update.to ELSE prior

Issue(kind, code, phrase, candidates) ==
  [kind |-> kind, code |-> code, phrase |-> phrase, candidates |-> candidates]
NoIssue == Issue("none", "none", NoName, << >>)

Plan(entity, masks, issue, update) ==
  [entity |-> entity, masks |-> masks, issue |-> issue, update |-> update]
NoPlan    == Plan(NoName, FALSE, NoIssue, Unset)
ClearPlan == Plan(NoName, FALSE, NoIssue, SetTo(NoName))

BareMonth(words) == Len(words) = 1 /\ words[1] \in MonthWords

\* The phrases a lowercase cue may name: its words up to a stop word, longest first.
LowercaseOptions(words) ==
  LET stops == {i \in DOMAIN words : words[i] \in StopWords}
      n == Min({Len(words), MaxWords} \union {i - 1 : i \in stops})
  IN  [i \in 1..n |-> SubSeq(words, 1, n + 1 - i)]

Options(c) ==
  IF ~c.capitalised THEN LowercaseOptions(c.words)
  ELSE IF BareMonth(c.words) THEN << >> ELSE <<c.words>>

\* Positions of the cues in the order in which they are tried.
PortCandidates(text) ==
  LET live(kind) == SelectSeq([i \in DOMAIN text.cues |-> i],
                      LAMBDA i : text.cues[i].cue = kind /\ Options(text.cues[i]) # << >>)
  IN  live("port of") \o live("at") \o live("in")

CustomerLike(phrase) ==
  LET r == Resolve(phrase, CustomerNames, TRUE) IN r.entity # NoName \/ r.candidates # << >>

KeepsPortIssue(c, candidatesFound) ==
  \/ candidatesFound \/ c.cue = "port of"
  \/ /\ c.capitalised
     /\ Head(c.words) \notin PeriodWords
     /\ ~CustomerLike(c.words)

\* What the options of a cue resolve to; lowercase words and "in" take no near miss.
CueResults(c) ==
  LET options == Options(c)
  IN  [i \in DOMAIN options |-> Resolve(options[i], PortNames, c.cue # "in" /\ c.capitalised)]

\* One cue: its first option that names a port, or the issue of its full phrase, or nothing.
CuePlan(c, results) ==
  LET hits == {i \in DOMAIN results : results[i].entity # NoName}
      e == results[Min(hits)].entity
      full == results[1]
  IN  IF hits # {} THEN Plan(e, TRUE, NoIssue, SetTo(e))
      ELSE IF KeepsPortIssue(c, full.candidates # << >>)
      THEN Plan(NoName, FALSE, Issue("port", full.issue, Options(c)[1], full.candidates), Unset)
      ELSE NoPlan

Planned(plan, cue) == [plan |-> plan, cue |-> cue]

\* The plan for the port and the cue whose span the customer scan leaves out.
PortPlan(text) ==
  LET candidates == PortCandidates(text)
      plan(n) == CuePlan(text.cues[candidates[n]], CueResults(text.cues[candidates[n]]))
      telling == {n \in DOMAIN candidates : plan(n) # NoPlan}
  IN  CASE text.clearPort -> Planned(ClearPlan, 0)
        [] ~text.clearPort /\ telling = {} -> Planned(NoPlan, 0)
        [] OTHER -> Planned(plan(Min(telling)), candidates[Min(telling)])

\* The customer a text names: quoted, after a cue, or the one carried (without a span).
DetectCustomer(text, cue, slots) ==
  LET runs == SelectSeq(text.runs, LAMBDA r : ~BareMonth(r.words) /\ (cue = 0 \/ r.inCue # cue))
      found(phrase, spans) == [phrase |-> phrase, spans |-> spans]
  IN  CASE text.quoted # NoName -> found(text.quoted, TRUE)
        [] text.quoted = NoName /\ runs # << >> -> found(Head(runs).words, TRUE)
        [] OTHER -> found(slots.customer, FALSE)

CustomerPlanOf(detected, r) ==
  CASE detected.phrase = NoName -> NoPlan
    [] detected.phrase # NoName /\ r.entity # NoName ->
         Plan(r.entity, detected.spans, NoIssue, SetTo(r.entity))
    [] OTHER -> Plan(NoName, FALSE, Issue("customer", r.issue, detected.phrase, r.candidates), Unset)

CustomerPlan(text, cue, slots) ==
  LET detected == DetectCustomer(text, cue, slots)
  IN  IF text.clearCustomer THEN ClearPlan
      ELSE CustomerPlanOf(detected, Resolve(detected.phrase, CustomerNames, TRUE))

\* Mutant: a turn without a comparison leaves the last one in the slots.
ApplyCarryKeepingB(slots, customer, port, periods) ==
  LET aNamed == periods.aSource = "text"
      b(prior, day) == IF periods.bSource = "text" THEN day ELSE prior
  IN  [slots EXCEPT !.customer = Carried(@, customer), !.port = Carried(@, port),
                    !.a = IF aNamed THEN periods.a.start ELSE @,
                    !.aEnd = IF aNamed THEN periods.a.end ELSE @,
                    !.b = b(@, periods.b.start), !.bEnd = b(@, periods.b.end)]

\* apply_carry, with the updates parse_turn makes of the periods.
ApplyCarry(slots, customer, port, periods) ==
  LET aNamed == periods.aSource = "text"
      b(prior, day) == IF periods.bSource = "carry" THEN prior ELSE day
  IN  [slots EXCEPT !.customer = Carried(@, customer), !.port = Carried(@, port),
                    !.a = IF aNamed THEN periods.a.start ELSE @,
                    !.aEnd = IF aNamed THEN periods.a.end ELSE @,
                    !.b = b(@, periods.b.start), !.bEnd = b(@, periods.b.end)]

\* The periods of the text with the resolved names blanked.
VisiblePeriods(text, port, customer, slots, today) ==
  LET masked == (IF customer.masks THEN {"customer"} ELSE {})
                  \union (IF port.masks THEN {"port"} ELSE {})
  IN  ParsePeriods(text.left, text.right, masked, slots, today, Available)

ParsedInput(text, port, customer, periods, slots) ==
  LET slice == IF text.slice THEN Issue("dimension", "unspecified", NoName, << >>) ELSE NoIssue
  IN  [slots |-> ApplyCarry(slots, customer.update, port.update, periods),
       a |-> periods.a, b |-> periods.b, noData |-> periods.issue,
       customer |-> customer.entity, port |-> port.entity,
       issues |-> {customer.issue, port.issue, slice} \ {NoIssue}]

WithCustomer(text, port, customer, slots, today) ==
  ParsedInput(text, port, customer, VisiblePeriods(text, port, customer, slots, today), slots)

\* parse_turn: names first, then the periods.
ParseTurn(text, slots, today) ==
  LET port == PortPlan(text)
  IN  WithCustomer(text, port.plan, CustomerPlan(text, port.cue, slots), slots, today)
=============================================================================
