------------------------------ MODULE Grounding ------------------------------
(***************************************************************************)
(* The figure check of a report's narrative (tools/grounding.py), the      *)
(* template narrative that stands in for the model's                       *)
(* (tools/narrative_template.py) and the suggested questions               *)
(* (tools/questions.py).                                                   *)
(*                                                                         *)
(* A text is a sequence of paragraphs, a paragraph one of sentences, and a *)
(* sentence the names and the figures in it.  A payload has kpis (a row),  *)
(* tables, movers, newLost and context (per mover).                        *)
(***************************************************************************)
EXTENDS MonthOnMonth

Sentence(names, figures) == [names |-> names, figures |-> figures]

DisplayFields == {"prior", "current", "change", "pct"}
Displays(row) == {row.display[m][f] : m \in RowMetrics, f \in DisplayFields} \ NonNumeric

KeyedRows(payload) ==
  LET lists == {payload.tables[t].rows \o payload.tables[t].other : t \in DOMAIN payload.tables}
               \union {payload.movers.increases, payload.movers.decreases,
                       payload.newLost.new, payload.newLost.lost}
  IN  UNION {ToSet(l) : l \in lists}

\* Figures of the whole report, and figures of a name: pairs of the two.
BuildIndex(payload) ==
  LET own     == UNION {{r.key} \X Displays(r) : r \in KeyedRows(payload)}
      ctx     == payload.context
      items(k) == ToSet(ctx[k].offsets) \union ToSet(ctx[k].ports)
      about(k) == ({k} \X (Displays(ctx[k].book) \union ctx[k].shares
                           \union (ctx[k].reconciliation \ NonNumeric)))
                  \union UNION {{k, i.key} \X {i.display} : i \in items(k)}
      footers == {payload.tables[t].footer : t \in DOMAIN payload.tables}
  IN  [kpi      |-> UNION {Displays(r) : r \in footers \union {payload.kpis}},
       byEntity |-> own \union UNION {about(k) : k \in DOMAIN ctx},
       exempt   |-> payload.days]

Names(index) == {p[1] : p \in index.byEntity}

\* A bare whole number is no figure when it is small, a year, or in a period's label.
IsExempt(f, index) ==
  /\ f.sign = "" /\ f.dp = 0 /\ f.unit = ""
  /\ f.digits <= 10 \/ f.digits \in 1900 .. 2099 \/ f.digits \in index.exempt

\* A figure may be written without its unit and without its sign.
Variants(f) ==
  {[f EXCEPT !.sign = s, !.unit = u] : s \in {f.sign, ""}, u \in {f.unit, ""}}

\* Mutant: what a paragraph was about is remembered into the next.
UnverifiedAcross(text, index) ==
  LET whole == FlattenSeq(text)
      scope(i) == UNION {whole[j].names : j \in 1 .. i}
      allowed(i) == UNION {Variants(f) : f \in
        index.kpi \union {p[2] : p \in {p \in index.byEntity : p[1] \in scope(i)}}}
  IN  UNION {{f \in whole[i].figures : ~IsExempt(f, index) /\ f \notin allowed(i)} :
               i \in DOMAIN whole}

\* check: the figures that are neither the report's nor those of a name mentioned so far in
\* the paragraph.
Unverified(text, index) ==
  LET scope(p, i) == UNION {p[j].names : j \in 1 .. i}
      allowed(p, i) == UNION {Variants(f) : f \in
        index.kpi \union {q[2] : q \in {q \in index.byEntity : q[1] \in scope(p, i)}}}
      bad(p, i) == {f \in p[i].figures : ~IsExempt(f, index) /\ f \notin allowed(p, i)}
  IN  UNION {UNION {bad(p, i) : i \in DOMAIN p} : p \in ToSet(text)}

-----------------------------------------------------------------------------
Shown(figures) == figures \ NonNumeric
Unsigned(f) == [f EXCEPT !.sign = ""]

\* "rose from a zero base to" the current figure, or by how much it moved, unsigned.
ChangeFigures(d) ==
  IF d.pct = New THEN {d.current} ELSE Shown({Unsigned(d.pct), d.change})

Summary(kpis) ==
  <<Sentence({}, UNION {ChangeFigures(kpis.display[m]) : m \in {"VOLUME", "GP"}}),
    LET d == kpis.display["MARGIN"] IN Sentence({}, Shown({d.prior, d.current, d.change}))>>

MoverLine(row) ==
  LET gp == row.display["GP"]
      volume == row.display["VOLUME"]
      margin == row.display["MARGIN"]
  IN  <<Sentence({row.key}, Shown({gp.change, gp.pct, volume.prior, volume.current, volume.change,
                                   volume.pct, margin.prior, margin.current, margin.change}))>>

Entries(rows, side) ==
  [i \in DOMAIN rows |-> Sentence({rows[i].key}, {rows[i].display[m][side] : m \in RowMetrics})]

TemplateNarrative(payload) ==
  LET movers == payload.movers.increases \o payload.movers.decreases
  IN  <<Summary(payload.kpis)>> \o [i \in DOMAIN movers |-> MoverLine(movers[i])]
      \o <<Entries(payload.newLost.new, "current") \o Entries(payload.newLost.lost, "prior")>>

-----------------------------------------------------------------------------
MentionResolves(question, index) == question.names \subseteq Names(index)

\* The mover that moved most; of a rise and a fall of one size the fall.
TopMover(payload) ==
  Largest([r \in ToSet(payload.movers.decreases \o payload.movers.increases) |->
             2 * Abs(GpChange(r)) + (IF GpChange(r) < 0 THEN 1 ELSE 0)], 1)

\* Two questions about it, then three that name nothing.
Backfill(payload) ==
  LET top == TopMover(payload)
  IN  (IF top = << >> THEN << >>
       ELSE [i \in 1 .. 2 |-> [ask |-> i, names |-> {top[1].key}, figures |-> {}]])
      \o [i \in 1 .. 3 |-> [ask |-> 2 + i, names |-> {}, figures |-> {}]]

Target == 3

SelectQuestions(candidates, payload, index) ==
  LET sound == SelectSeq(candidates, LAMBDA q :
                 MentionResolves(q, index) /\ Unverified(<<<<q>>>>, index) = {})
      take(picked, q) == IF q \in ToSet(picked) \/ Len(picked) = Target THEN picked
                         ELSE Append(picked, q)
  IN  FoldLeft(take, << >>, sound \o Backfill(payload))
=============================================================================
