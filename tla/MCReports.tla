------------------------------ MODULE MCReports ------------------------------
(* An instance of Reports for TLC: files of up to two queries, chosen for  *)
(* what the reports tell apart.                                            *)
EXTENDS Reports

CONSTANTS A, B   \* plans, the others being named for what the cost report finds

Node(type, props) == PlanNode(type, TRUE, props, "valid", 1)
Table == Node("seq", {"Remote Filter"})
Join == Node("join", {})

(* An index scan before one with a filter, and after it; a plan that was   *)
(* not analyzed, and one whose collection was cancelled; an arrow in an    *)
(* expression; a disabled node, and costs beyond repair; scans of another  *)
(* type, scans not executed, one too fast for the clock; nine of a kind.   *)
MCPieces ==
  [p \in {A, B} \cup {"filter first", "explained", "empty", "arrow", "disabled", "beyond",
                      "values", "idle", "instant", "nine", NotFound} |->
     CASE p = A -> <<Table>>
       [] p = B -> <<Join, Node("secondary", {"Index Cond"}), Node("index only", {"Remote Filter"})>>
       [] p = "filter first" -> <<Join, Node("secondary", {"Index Cond", "Remote Filter"}),
                                  Node("secondary", {}), Node("sort", {})>>
       [] p = "explained" -> <<NoHeader, NoHeader>>
       [] p = NotFound    -> <<NoHeader>>
       [] p = "empty"     -> <<>>
       [] p = "arrow"     -> <<Join, Node("primary", {"Filter"}), NoHeader, Table>>
       [] p = "disabled"  -> <<PlanNode("seq", TRUE, {}, "disabled", 1)>>
       [] p = "beyond"    -> <<PlanNode("aggregate", TRUE, {}, "disabled", 1),
                               PlanNode("seq", TRUE, {"Filter"}, "beyond", 1)>>
       [] p = "values"    -> <<Join, Table, Node("other", {})>>
       [] p = "idle"      -> <<Join, PlanNode("other", FALSE, {}, "valid", 0), PlanNode("bitmap", TRUE, {"Index Cond"}, "valid", 0),
                               PlanNode("seq", FALSE, {"Filter"}, "valid", 0)>>
       [] p = "instant"   -> <<PlanNode("seq", TRUE, {}, "valid", 0)>>
       [] p = "nine"      -> <<Join>> \o [n \in 1..9 |-> Table]]

Good(h, tag, t, plan, result, opts) == Stored(h, tag, t, plan, plan, result, opts)

(* An optimization is a query of its own, without optimizations.           *)
Optimization(h, tag, t, plan, result) == Good(h, tag, t, plan, result, None)

(* Not optimized; with a faster optimization, and a duplicate of none;     *)
(* with a gain that the allowed difference hides; timed out with and       *)
(* without an optimization that came back; failed while it was measured;   *)
(* and failed when it was explained.                                       *)
Variants(h, tag) ==
  { Good(h, tag, 1000, A, "r", None),
    Good(h, tag, 1000, A, "r", <<Optimization(h, tag, 40, B, "r"), Optimization(h, tag, 0, None, None)>>),
    Good(h, tag, 1020, B, "r", <<Optimization(h, tag, 990, A, "s"), Optimization(h, tag, -1, B, None)>>),
    Good(h, tag, -1, A, None, <<Optimization(h, tag, 40, B, "r"), Optimization(h, tag, -1, A, None)>>),
    Good(h, tag, -1, A, None, <<>>),
    Good(h, tag, 0, A, None, <<Optimization(h, tag, 1000, B, "r")>>),
    Stored(h, tag, 0, None, None, None, None) }

FilesOf(first, second) ==
  {<<q>> : q \in first \cup second} \cup {<<q, r>> : q \in first, r \in second}

OneTag == FilesOf(Variants(1, "a"), Variants(2, "a"))
TwoTags == FilesOf(Variants(1, "a"), Variants(2, "b"))

(* The same queries in another order, and one text twice.                  *)
Backwards(fs) == {<<f[2], f[1]>> : f \in {g \in fs : Len(g) = 2}}
Twice == {<<q, r>> : q \in Variants(1, "a"), r \in Variants(1, "b")}

Fixed == <<Good(1, "a", 1000, A, "r", None)>>

MCScoreFiles ==
  [yb : TwoTags, pg : TwoTags \cup Backwards(TwoTags), server : {None}, serverSide : {FALSE}]
  \cup [yb : Twice, pg : Twice, server : {None}, serverSide : {FALSE}]
  \cup [yb : {<<>>, Fixed}, pg : {None, <<>>, Fixed}, server : {None, <<>>, Fixed},
        serverSide : BOOLEAN]

MCRegressionFiles ==
  [v1 : OneTag, v2 : OneTag \cup Backwards(OneTag)] \cup [v1 : Twice, v2 : Twice] \cup [v1 : {<<>>} \cup TwoTags, v2 : {<<>>, Fixed} \cup {<<q, r>> : q \in Variants(1, "a"), r \in {Good(2, "b", 40, B, "r", <<>>)}}]

MCTaqoFiles == [yb : {<<>>} \cup OneTag, pg : {None, <<>>} \cup OneTag \cup Backwards(OneTag)]

(* Of the six results, the inner ones only matter for their plans.         *)
Inner(h) == {Good(h, "a", 1000, A, "r", None), Good(h, "a", 40, B, "r", None)}

MCSelectivityFiles ==
  {<<<<q>>, <<i>>, <<j>>, <<k>>, <<l>>, <<r>>>> :
     q \in Variants(1, "a"), i \in Inner(1), j \in Inner(1), k \in Inner(1), l \in Inner(1),
     r \in Variants(1, "a")}
  \cup {<<f, f, f, f, f, g>> : f \in {<<>>} \cup OneTag, g \in OneTag \cup Backwards(OneTag)}

(* A file was collected with EXPLAIN ANALYZE as the explain clause, or     *)
(* without; a query that timed out has the plan of a mere EXPLAIN, too.  An*)
(* optimization with a GUC that was not measured has the plan of a copy.   *)
Analyzed == DOMAIN MCPieces \ {"explained", "empty", "nine", NotFound}
Texts(h, tag, plans, opts) ==
  {Good(h, tag, 1000, plan, "r", os) : plan \in plans, os \in opts}
Options == {Optimization(1, "a", 40, plan, "r") : plan \in Analyzed}
           \cup {Optimization(1, "a", 0, "empty", None), Optimization(1, "a", -1, None, None),
                 Optimization(1, "a", -1, NotFound, None)}
SecondOptions == {o \in Options : o.plan \in {A, B, "beyond"}}
FirstTexts ==
  Texts(1, "a", Analyzed, {None, <<>>} \cup {<<o>> : o \in Options} \cup {<<o, p>> : o \in Options, p \in SecondOptions})
Others(h) ==
  Texts(h, "b", {B, "filter first", "idle"}, {<<>>, <<Optimization(h, "b", 40, A, "r")>>})
  \cup {Good(h, "b", -1, "explained", None, <<>>), Good(h, "b", 1000, A, "r", None),
        Stored(h, "b", 0, None, None, None, None)}

MCCostFiles ==
  [yb : {None, <<>>} \cup {<<q>> : q \in Texts(1, "a", {"nine"}, {<<>>, <<Optimization(1, "a", 40, B, "r")>>})}
        \cup {<<q>> : q \in FirstTexts} \cup {<<q, r>> : q \in FirstTexts, r \in Others(1) \cup Others(2)}
        \cup {<<r, q>> : r \in Others(1) \cup Others(2), q \in Texts(1, "a", {A, B}, {<<>>})}
        \cup {<<q, r>> : q \in Texts(2, "a", {A, B}, {<<>>}), r \in Texts(1, "a", {A, B}, {<<>>})}
        \cup {<<q>> : q \in Texts(1, "a", {"explained"}, {None, <<>>, <<Optimization(1, "a", 40, "explained", "r")>>})}]

MCPlans == DOMAIN MCPieces \ {NotFound}
MCTags == <<"a", "b">>

(* The last series is one of a boxplot. *)
MCCharts == <<[box |-> FALSE, kind |-> "seq"], [box |-> FALSE, kind |-> "secondary"],
              [box |-> TRUE, kind |-> "bitmap"]>>
=============================================================================
