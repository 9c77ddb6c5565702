------------------------- MODULE MCConversationFlow -------------------------
(* ConversationFlow for TLC: two customers that share a word, one that is   *)
(* its own, two ports, and texts that reach every branch of the pipeline.   *)
EXTENDS ConversationFlow

CONSTANTS t1, t2

Acme(which) == <<"acme", which>>
MCCustomers == <<Acme("north"), Acme("south"), <<"globex">>>>
MCPorts     == <<<<"lisbon">>, <<"porto", "santo">>>>
MCMonths    == {Day(2026, 1, 1), Day(2026, 2, 1), Day(2026, 3, 1)}
MCDays      == <<Day(2026, 2, 28), Day(2026, 3, 1)>>
MCOffices   == [customer |-> <<"Athens">>, supplier |-> <<"Athens", "Oslo">>]
MCAvailable == Window(Day(2026, 1, 1), Day(2026, 3, 1))

None(form, n, lead) == Within(Phrase(form, 2026, n, lead), "none")
Ask(runs, cues, left, right) ==
  [Blank EXCEPT !.runs = runs, !.cues = cues, !.left = left, !.right = right]

MCTexts ==
  {[Blank EXCEPT !.entry = "report"], [Blank EXCEPT !.entry = "existing_customer"],
   [Blank EXCEPT !.entry = "new_prospect"],
   [Blank EXCEPT !.subject = <<"acme">>, !.runs = <<Run(<<"acme">>, 0)>>, !.mtd = TRUE],
   [Ask(<<Run(<<"globex">>, 1)>>, <<Cue("at", TRUE, <<"globex">>)>>, <<None("barequarter", 1, "word")>>,
        << >>) EXCEPT !.subject = <<"globex">>],
   Ask(<< >>, <<Cue("in", FALSE, <<"porto", "june">>)>>, <<None("ytd", 0, "word")>>,
       <<None("prioryear", 0, "start")>>),
   [Ask(<< >>, <<Cue("at", TRUE, <<"atlantis">>)>>, <<None("monthyear", 3, "word")>>, << >>)
      EXCEPT !.clearCustomer = TRUE],
   [Blank EXCEPT !.quoted = <<"acme">>, !.slice = TRUE, !.clearPort = TRUE,
                 !.left = <<None("baremonth", 5, "word"), Within(Phrase("bareyear", 2025, 0, "word"), "customer")>>]}
MCRuns == {<<[groupBy |-> <<"port", "month">>, table |-> TRUE]>>,
           <<[groupBy |-> <<"customer">>, table |-> TRUE], [groupBy |-> <<"port">>, table |-> FALSE]>>}
Symmetry == Permutations(Tabs)

\* On the way through the report flow, after a report, after a brief.
Reporting(p, office) ==
  [EmptySlots EXCEPT !.mode = "report", !.perspective = p, !.column = OfficeColumn(p),
                     !.office = office]
MCHistories ==
  {<<Reporting("customer", "none"), FALSE>>, <<Reporting("supplier", "Oslo"), TRUE>>,
   <<SlotsAfterReport(Reporting("book", "none"),
                      ReportPeriods(Day(2026, 1, 1), "complete", Day(2026, 2, 1))), FALSE>>,
   <<[EmptySlots EXCEPT !.mode = "existing_customer", !.customer = <<"globex">>], TRUE>>}
=============================================================================
