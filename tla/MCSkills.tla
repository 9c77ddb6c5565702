------------------------------- MODULE MCSkills -------------------------------
(* The monthly report, the answers to metric questions, the requests of the    *)
(* agent loop and the briefs.  They share no state: a behaviour takes the      *)
(* steps of one of the four.                                                   *)
EXTENDS MonthlyReport, MetricAnswers, ModelRequests, CustomerBrief

VARIABLE part

(* Two offices, 21 and 22, two ports, three customers, and a sale that has no office.  In   *)
(* February customer 1 falls in office 21 and rises in office 22, and 2 and 3 are new.      *)
Jan == Day(2026, 1, 10)
Feb == Day(2026, 2, 1)
Mar == Day(2026, 3, 1)
Sale(date, customer, port, team, gp, volume) ==
  [date |-> date, CUST_NM |-> customer, LOC_NM |-> port, CUSTOMER_TEAM_NAME |-> team,
   GP |-> gp, VOLUME |-> volume]

Few == {Sale(Jan, 1, 11, 21, 40, 4), Sale(Feb, 1, 11, 21, 25, 4), Sale(Feb, 2, 12, 21, 24, 2),
        Sale(Feb, 1, 12, 22, 31, 2)}
Many == Few \union {Sale(Feb + 3, 1, 12, 21, 30, 3), Sale(Feb, 3, 11, Null, 12, 1)}
LastMonth == {Sale(Jan, 1, 12, 21, 40, 4), Sale(Mar, 3, 12, 21, 15, 1)}
ThreeTables == {Few, Many, LastMonth}

Arrivals == {Sale(Feb + 1, 3, 11, 21, 17, 2), Sale(Feb, 2, 12, 21, 24, 2)}

Ask(of, month, window) == [office |-> of, month |-> month, kind |-> window]
FiveRequests == {Ask(21, Feb, "complete"), Ask(Null, Feb, "complete"), Ask(21, Mar, "mtd"),
                 Ask(23, Feb, "complete"), Ask(21, Feb, "mtd")}
ThirdOfMarch == {Day(2026, 3, 3)}
ThreeCallers == {[declared |-> FALSE, claim |-> Null], [declared |-> TRUE, claim |-> 21],
                 [declared |-> TRUE, claim |-> Null]}

(* A figure beside its name, one in a paragraph that names nothing, and several of a        *)
(* customer and of the office that offsets it, without their signs.                         *)
Whole(n) == Figure("", n, 0, "")
Reply(text, questions) == [text |-> text, questions |-> questions]
Question(names, figures) == [ask |-> 9, names |-> names, figures |-> figures]
FourReplies ==
  {Reply(<<<<Sentence({2}, {Whole(24)})>>>>, <<Question({2}, {Whole(24)}), Question({1}, {Whole(24)})>>),
   Reply(<<<<Sentence({2}, {})>>, <<Sentence({}, {Whole(24)})>>>>, <<Question({4}, {})>>),
   Reply(<<<<Sentence({1}, {Figure("-", 15, 0, ""), Whole(9)}), Sentence({22}, {Whole(31)})>>>>, << >>),
   Reply(<<<<Sentence({1}, {Figure("", 375, 1, "%")}), Sentence({}, {Figure("", 376, 1, "")})>>>>,
         <<Question({2}, {Whole(24)}), Question({2}, {Whole(24)})>>)}

(* Questions about the first three months: totals, a comparison, shares of an office and of *)
(* a customer, breakdowns with ties, frames by month and quarter, a comparison of more      *)
(* customers than it reads, and three that are refused.                                     *)
Quarter1 == Window(Day(2026, 1, 1), Day(2026, 4, 1))
InJan == Window(Day(2026, 1, 1), Feb)
InFeb == Window(Feb, Mar)
Asking(metrics, window, compare, filters, by, order, desc, top, scope, removed) ==
  [metrics |-> metrics, window |-> window, compare |-> compare, filters |-> filters, by |-> by,
   order |-> order, desc |-> desc, top |-> top, scope |-> scope, removed |-> removed]
All == <<"GP", "VOLUME", "MARGIN">>
Customer(n) == "CUST_NM" :> {n}
TheQuestions ==
  {Asking(All, Quarter1, NoWindow, NoFilter, << >>, "GP", TRUE, 5, "office", {}),
   Asking(All, InFeb, InJan, Customer(1), << >>, "GP", TRUE, 5, "office", {}),
   Asking(All, InFeb, NoWindow, Customer(1), << >>, "GP", TRUE, 5, "book", {"CUST_NM"}),
   Asking(<<"GP", "MARGIN">>, InFeb, NoWindow, NoFilter, << >>, "GP", TRUE, 5, "office", {"CUSTOMER_TEAM_NAME"}),
   Asking(<<"VOLUME">>, InFeb, NoWindow, NoFilter, <<"CUST_NM">>, "VOLUME", TRUE, 1, "office", {}),
   Asking(<<"GP", "MARGIN">>, Quarter1, NoWindow, NoFilter, <<"CUSTOMER_TEAM_NAME">>, "MARGIN", FALSE, 2, "book", {}),
   Asking(<<"MARGIN">>, Quarter1, NoWindow, NoFilter, <<"CUST_NM", "MONTH">>, "MARGIN", TRUE, 1, "book", {}),
   Asking(<<"GP">>, Quarter1, NoWindow, NoFilter, <<"QUARTER", "LOC_NM">>, "GP", FALSE, 1, "office", {}),
   Asking(<<"VOLUME">>, Quarter1, NoWindow, NoFilter, <<"CUST_NM", "LOC_NM">>, "VOLUME", TRUE, 2, "office", {}),
   Asking(<<"GP", "VOLUME">>, InFeb, InJan, NoFilter, <<"CUST_NM">>, "GP", TRUE, 2, "book", {}),
   Asking(<<"GP">>, InFeb, InJan, NoFilter, <<"CUST_NM", "MONTH">>, "GP", TRUE, 2, "book", {}),
   Asking(<<"GP">>, InFeb, NoWindow, Customer(1), << >>, "GP", TRUE, 2, "book", {"LOC_NM"}),
   Asking(<<"GP">>, InFeb, NoWindow, Customer(1), <<"MONTH">>, "VOLUME", TRUE, 2, "book", {})}
Parked == CHOOSE q \in TheQuestions : q.scope = "office"
Carried(column, value) == [column |-> column, value |-> value]
CarriedOffices ==
  {Carried("", Null), Carried("CUSTOMER_TEAM_NAME", 21), Carried("SUPPLIER_TEAM_NAME", 21)}

(* One skill for the router and one for the flows; ids that collide on the wire; an id that  *)
(* does not come back from it.                                                               *)
Router == <<"a", ".", "b">>
Flow   == <<"c", ".", "d">>
OnWire(a, b) == <<a, "_", "_", b>>
Deployments == {{Router, Flow}, {Router, OnWire("a", "b")}, {<<"a", "_", ".", "b">>}}
Flows == {Flow}

CallOf(kindOfCall, id, name) == [kind |-> kindOfCall, id |-> id, name |-> name]
Prose == [kind |-> "text", data |-> "prose"]
Thought(of, data) == [kind |-> "reasoningContent", of |-> of, data |-> data]
Answers ==
  {<<Thought("text", "first"), CallOf("toolUse", 1, OnWire("a", "b")),
     Thought("redacted", "second"), CallOf("toolUse", 2, OnWire("c", "d"))>>,
   <<CallOf("toolUse", 3, <<"a", "_", "_", "_", "b">>)>>,
   <<Prose>>,
   <<[kind |-> "thinking", data |-> "first"], Prose, CallOf("tool_use", 1, OnWire("a", "b")),
     CallOf("tool_use", 2, OnWire("c", "d"))>>,
   <<CallOf("tool_use", 3, OnWire("a", "b")), [kind |-> "redacted_thinking", data |-> "second"]>>}

Holds(what, size) == [kind |-> what, size |-> size]
FourResults == {<< >>, <<Holds("table", 3)>>, <<Holds("text", 3), Holds("metric_grid", 2)>>, <<Holds("text", 7)>>}

Environment(llm, transport, artifacts, live) ==
  [llm |-> llm, transport |-> transport, artifacts |-> artifacts, live |-> live]
FourSettings ==
  {Environment("live", "direct", TRUE, TRUE), Environment("stub", "fixture", FALSE, FALSE),
   Environment("none", "none", TRUE, TRUE), Environment("live", "mcp", FALSE, TRUE)}

(* Those that do not take part stay in one of their first states. *)
MCInit ==
  /\ part \in {"report", "answer", "requests", "brief"}
  /\ ReportInit
  /\ part # "report" => sales = Few /\ request = Ask(Null, Feb, "complete") /\ mode = "stub"
                        /\ ~caller.declared
  /\ AnswerInit
  /\ part # "answer" => book = Few /\ question = Parked /\ office.value = Null /\ ~asker.declared
  /\ RequestInit
  /\ part # "requests" => provider = "missing" /\ Cardinality(skills) = 2
  /\ BriefInit
  /\ part # "brief" => kind = "prospect" /\ ~newYear /\ env.llm = "stub"

MCNext ==
  /\ UNCHANGED part
  /\ \/ part = "report" /\ ReportNext /\ UNCHANGED <<answerVars, requestVars, briefVars>>
     \/ part = "answer" /\ AnswerNext /\ UNCHANGED <<reportVars, requestVars, briefVars>>
     \/ part = "requests" /\ RequestNext /\ UNCHANGED <<reportVars, answerVars, briefVars>>
     \/ part = "brief" /\ BriefNext /\ UNCHANGED <<reportVars, answerVars, requestVars>>

MCSpec == MCInit /\ [][MCNext]_<<reportVars, answerVars, requestVars, briefVars, part>>
=============================================================================
