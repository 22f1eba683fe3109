----------------------------- MODULE CostReport -----------------------------
(***************************************************************************)
(* The cost report: collects the scans of all plans of all queries, draws  *)
(* charts of them, and lists the plans.  files.yb is the result of one run;*)
(* a query's text is what its hash stands for.  Plan 0 of a query is its   *)
(* own, plan k that of its k-th optimization.                              *)
(***************************************************************************)
EXTENDS ReportLoop, PlanTree

CONSTANTS
  Tags,     \* the tags, in their order
  Charts    \* the series of the charts: [box, kind], a boxplot or not, of a kind of scan

ASSUME ChartsAssumption ==
  IsSequence(Tags) /\ IsSequence(Charts) /\ \A c \in DOMAIN Charts : Charts[c].box \in BOOLEAN

(* PlanNodeCollectorContext: the classifiers of a plan, and the scans of   *)
(* all plans of a query; and how far add_query is with the plans.          *)
NewContext == [at |-> 0, pc |-> {}, merged |-> {}, scans |-> <<>>]

(* By query text: the query, its classifiers and its scans; and by chart   *)
(* the points, those that are plotted and the outliers, of which left are  *)
(* to be taken out of the chart that is drawn.                             *)
ZeroCost ==
  [ctx |-> NewContext, query |-> <<>>, pc |-> <<>>, scans |-> <<>>,
   series |-> [c \in DOMAIN Charts |-> <<>>], drawn |-> <<>>, left |-> {}]

TagOrder(tag) == CHOOSE i \in DOMAIN Tags : Tags[i] = tag

(* sorted by attrgetter('tag', 'query'): by tag and, where that is the     *)
(* same, by text.  Hashes are ordered here as the texts are that they stand*)
(* for; the same text keeps the order of the file.                         *)
Precedes(q, r) ==
  TagOrder(q.tag) < TagOrder(r.tag) \/ (q.tag = r.tag /\ q.hash < r.hash)

Rank(file, n) == Cardinality({m \in DOMAIN file : Precedes(file[m], file[n])})

GenerateCost ==
  /\ phase = "generate" /\ kind = "cost"
  /\ IF ~Readable(files.yb) THEN Crash
     ELSE Start(Sorted([n \in DOMAIN files.yb |-> <<files.yb[n]>>], DOMAIN files.yb,
                       [n \in DOMAIN files.yb |-> Rank(files.yb, n)]),
                "add queries", ZeroCost)

(* A node as the charts have it: where it is from, its kind and its time.  *)
Scan(k, nodes, n) == [plan |-> k, at |-> n, kind |-> nodes[n].kind, ms |-> nodes[n].ms]

(* The members of a list at the places kept, in their order.              *)
Select(list, kept) == Sorted(list, kept, [n \in kept |-> n])

RanScans(nodes) == {n \in DOMAIN nodes : nodes[n].kind \in Scans /\ nodes[n].ran}

ScansOf(k, nodes) == Select([n \in DOMAIN nodes |-> Scan(k, nodes, n)], RanScans(nodes))

(* A text that cannot be parsed is warned of, and visited nevertheless; and*)
(* the collector lacks the warn_once it calls for a scan it does not know. *)
Raises(nodes) ==
  nodes = <<>> \/ (~Unfixable(nodes) /\ \E n \in RanScans(nodes) : nodes[n].kind = "other")

(* process_plan, and the merge after it.                                   *)
ProcessPlan(ctx, k, nodes) ==
  IF Unfixable(nodes) THEN ctx
  ELSE LET pc == Classified(ctx.pc, nodes)
       IN  [ctx EXCEPT !.pc = pc, !.merged = @ \cup pc, !.scans = @ \o ScansOf(k, nodes)]

(* The plans of a query that are processed; that a text is empty is asked  *)
(* of optimizations only.                                                  *)
Processed(q) ==
  (IF q.plan = None THEN {} ELSE {0})
  \cup (IF q.opts = None THEN {}
        ELSE {k \in DOMAIN q.opts : q.opts[k].plan # None /\ Pieces[q.opts[k].plan] # <<>>})

PlanOf(q, k) == IF k = 0 THEN q.plan ELSE q.opts[k].plan

LastPlan(q) == IF HasOpts(q) THEN Len(q.opts) ELSE 0

(* add_query: one plan of the query after the other ...                    *)
AddPlan ==
  /\ Turn("add queries")
  /\ LET q == pairs[pos][1]
         k == tally.ctx.at
         nodes == ParsePlan(Pieces[PlanOf(q, k)])
         done == IF k \in Processed(q) THEN ProcessPlan(tally.ctx, k, nodes) ELSE tally.ctx
     IN  /\ k <= LastPlan(q)
         /\ IF k \in Processed(q) /\ Raises(nodes) THEN Crash
            ELSE /\ tally' = [tally EXCEPT !.ctx = [done EXCEPT !.at = k + 1]]
                 /\ UNCHANGED <<kind, files, pairs, phase, pos>>

\* dict[key] = value
Put(dict, key, value) ==
  [k \in DOMAIN dict \cup {key} |-> IF k = key THEN value ELSE dict[k]]

(* ... and then its entries; the maps have the text for their key.         *)
AddCostQuery ==
  /\ Turn("add queries") /\ tally.ctx.at > LastPlan(pairs[pos][1])
  /\ LET q == pairs[pos][1]
         ctx == tally.ctx
     IN  Tallied([tally EXCEPT !.ctx = NewContext, !.query = Put(@, q.hash, q),
                               !.pc = Put(@, q.hash, ctx.merged),
                               !.scans = Put(@, q.hash, ctx.scans)])

PointsOf(h, chart) ==
  Select([n \in DOMAIN tally.scans[h] |-> [text |-> h, scan |-> tally.scans[h][n]]],
         {n \in DOMAIN tally.scans[h] : tally.scans[h][n].kind = chart.kind})

(* The texts in the order of their first queries, as in the dictionary.    *)
CollectPoints ==
  /\ Turn("collect")
  /\ LET h == pairs[pos][1].hash
     IN  Tallied(IF \E m \in 1..(pos - 1) : pairs[m][1].hash = h THEN tally
                 ELSE [tally EXCEPT !.series = [c \in DOMAIN Charts |-> @[c] \o PointsOf(h, Charts[c])]])

(* Outliers are more than three (boxplots) or four interquartile ranges    *)
(* above the third quartile: in less than a quarter of the points.  The    *)
(* charts of times and costs divide the one by the other.  judged are the  *)
(* points that are found to be outliers, before they are taken out.        *)
DrawChart ==
  /\ phase = "charts" /\ tally.left = {} /\ Len(tally.drawn) < Len(Charts)
  /\ LET c == Len(tally.drawn) + 1
         points == tally.series[c]
     IN  IF ~Charts[c].box /\ \E n \in DOMAIN points : points[n].scan.ms = 0 THEN Crash
         ELSE \E out \in {S \in SUBSET DOMAIN points : S = {} \/ 4 * Cardinality(S) < Len(points)} :
                /\ tally' = [tally EXCEPT
                     !.left = out,
                     !.drawn = Append(@, [plotted |-> points, outliers |-> <<>>,
                                          judged |-> {points[n] : n \in out}])]
                /\ UNCHANGED <<kind, files, pairs, phase, pos>>

(* The outliers are taken out from the last to the first.                  *)
WithoutLast(d, n) ==
  [d EXCEPT !.plotted = RemoveAt(@, n), !.outliers = Append(@, d.plotted[n])]

RemoveOutlier ==
  /\ phase = "charts" /\ tally.left # {}
  /\ LET n == Max(tally.left)
     IN  tally' = [tally EXCEPT !.left = @ \ {n}, !.drawn[Len(tally.drawn)] = WithoutLast(@, n)]
  /\ UNCHANGED <<kind, files, pairs, phase, pos>>

(* build_report: the pages of all queries read the plan of each, and its   *)
(* optimizations.                                                          *)
BuildCostReport ==
  /\ phase = "charts" /\ tally.left = {} /\ Len(tally.drawn) = Len(Charts)
  /\ IF \E q \in {tally.query[h] : h \in DOMAIN tally.query} : q.plan = None \/ q.opts = None THEN Crash
     ELSE phase' = "published" /\ UNCHANGED <<kind, files, pairs, pos, tally>>

CostNext ==
  \/ GenerateCost
  \/ AddPlan \/ AddCostQuery \/ Through("add queries", "collect")
  \/ CollectPoints \/ Through("collect", "charts")
  \/ DrawChart \/ RemoveOutlier \/ BuildCostReport

-----------------------------------------------------------------------------
(* Properties. *)

CostPublished == phase = "published" /\ kind = "cost"

\* The last query with this text, in the order they are added.
LastWith(h) == pairs[CHOOSE n \in DOMAIN pairs :
                       pairs[n][1].hash = h /\ \A m \in DOMAIN pairs : pairs[m][1].hash = h => m <= n][1]

AddedTexts == {pairs[n][1].hash : n \in DOMAIN pairs}

\* The nodes of a plan's text before an arrow in an expression.
BeforeArrow(plan, n) ==
  n \in DOMAIN Pieces[plan] /\ \A m \in 1..n : Pieces[plan][m].header

Repaired(plan) ==
  \/ Pieces[plan][1].cost = "valid"
  \/ \A n \in DOMAIN Pieces[plan] : BeforeArrow(plan, n) => Pieces[plan][n].cost # "beyond"

\* The scans that the plans of a query executed, as far as they are read.
RanIn(q) ==
  UNION {LET plan == PlanOf(q, k)
         IN  {<<k, n>> : n \in {m \in DOMAIN Pieces[plan] :
                /\ BeforeArrow(plan, m) /\ Repaired(plan)
                /\ Pieces[plan][m].kind \in Scans /\ Pieces[plan][m].ran}} :
         k \in Processed(q)}

\* The points of a chart: the scans of its kind that all texts have.
AllPoints(chart) ==
  UNION {{[text |-> h, scan |-> s] : s \in {t \in ToSet(tally.scans[h]) : t.kind = chart.kind}} :
         h \in AddedTexts}

(* Each scan that a plan of a query executed comes into the charts once,   *)
(* and no other: not those of a plan whose costs are beyond repair, nor    *)
(* those after an arrow.  Of queries with the same text, the last remains. *)
(* In a chart it is either plotted or listed as an outlier, never both and *)
(* neither twice, and listed are the ones that were judged to be outliers. *)
ScansCharted ==
  CostPublished =>
    /\ \A h \in AddedTexts :
         /\ {<<s.plan, s.at>> : s \in ToSet(tally.scans[h])} = RanIn(LastWith(h))
         /\ IsInjective(tally.scans[h])
    /\ \A c \in DOMAIN Charts :
         LET d == tally.drawn[c]
         IN  /\ ToSet(d.plotted) \cup ToSet(d.outliers) = AllPoints(Charts[c])
             /\ ToSet(d.plotted) \cap ToSet(d.outliers) = {}
             /\ IsInjective(d.plotted) /\ IsInjective(d.outliers)
             /\ ToSet(d.outliers) = d.judged

(* What a query's classifiers say, by which charts choose queries, is true *)
(* of one of its plans by itself: the flags of one plan never reach into   *)
(* another's, and a plan without conditions is not hidden by another.      *)
(* That an index scan has no filter is missed where one before it has.     *)
FlagsTell ==
  CostPublished =>
    \A h \in AddedTexts :
      LET q == LastWith(h)
          Nodes(k) == {Pieces[PlanOf(q, k)][n] :
                         n \in {s.at : s \in {t \in ToSet(tally.scans[h]) : t.plan = k}}}
          used == {k \in Processed(q) : Nodes(k) # {}}
          Bare(n) == ~RemoteFilter(n) /\ ~TfbrFilter(n) /\ ~LocalFilter(n)
          Unconditional(n) == Bare(n) /\ ~(n.kind \in IndexScans /\ IndexCond(n))
      IN  /\ \A f \in Conditions :
               f \in tally.pc[h] <=> \E k \in used : \E n \in Nodes(k) : f \in FlagsOf(n)
          /\ "has_no_filter_index" \in tally.pc[h] =>
               \E k \in used : \E n \in Nodes(k) : n.kind \in IndexScans /\ Bare(n)
          /\ (\E k \in used : \A n \in Nodes(k) : n.kind \in IndexScans /\ Bare(n)) =>
               "has_no_filter_index" \in tally.pc[h]
          /\ (\E k \in used : \A n \in Nodes(k) : Unconditional(n)) =>
               "has_no_condition_scan" \in tally.pc[h]

(* What keeps the report from being published: a plan that was never       *)
(* analyzed, or a scan of a type the collector does not know; the plans or *)
(* the optimizations of a query missing; a scan timed at zero.             *)
CostObstacle ==
  \/ \E q \in ToSet(files.yb) : \E k \in Processed(q) : ~BeforeArrow(PlanOf(q, k), 1)
  \/ \E q \in ToSet(files.yb) : \E kn \in RanIn(q) :
       Pieces[PlanOf(q, kn[1])][kn[2]].kind = "other"
  \/ \E h \in AddedTexts : LastWith(h).plan = None \/ LastWith(h).opts = None
  \/ \E c \in {d \in ToSet(Charts) : ~d.box} : \E h \in AddedTexts : \E kn \in RanIn(LastWith(h)) :
       LET node == Pieces[PlanOf(LastWith(h), kn[1])][kn[2]]
       IN  node.kind = c.kind /\ node.ms = 0
=============================================================================
