-------------------------- MODULE RegressionReport --------------------------
(***************************************************************************)
(* The regression report: the results of two versions, files is [v1, v2],  *)
(* and the short summary for a build server.                               *)
(***************************************************************************)
EXTENDS ReportLoop

(* diffPlans and diffCounters are fields of the short summary; hasOpts is  *)
(* v2_has_optimizations, a switch that the first query without             *)
(* optimizations turns off for the rest of the report.                     *)
ZeroRegression ==
  [diffPlans |-> 0, diffCounters |-> 0, hasOpts |-> TRUE, v1Bests |-> 0, v2Bests |-> 0,
   betterDifferent |-> 0, worseDifferent |-> 0, betterSame |-> 0, worseSame |-> 0, same |-> 0,
   total |-> 0, ratios |-> {}, green |-> {}, ratioGreen |-> {}, equal |-> {}]

(* A query that the second version lacks is left out, with a warning.      *)
GenerateRegression ==
  /\ phase = "generate" /\ kind = "regression"
  /\ IF ~Readable(files.v1) \/ ~Readable(files.v2) THEN Crash
     ELSE LET paired == WithCounterpart(files.v1, files.v2)
          IN  Start(ByTag(paired, {n \in DOMAIN paired : paired[n][2] # None}),
                    "plan comparison", ZeroRegression)

Changed(p) == ~SamePlan(p[1], p[2])

(* Each tag's number of changed plans overwrites that of the tag before.   *)
PlanComparison ==
  /\ Turn("plan comparison")
  /\ Tallied([tally EXCEPT !.diffPlans = (IF FirstOfTag(pos) THEN 0 ELSE @)
                                         + Count(Changed(pairs[pos]))])

(* get_rpc_calls and its three likes: the pattern is removed from the plan *)
(* and what is left of the plan converted, which fails, and makes it 0.    *)
CounterOf(plan) == 0

(* The four tables of counters; the plans are read.                        *)
CounterTables ==
  /\ Turn("counters")
  /\ LET v1 == pairs[pos][1]  v2 == pairs[pos][2]
     IN  IF None \in {v1.plan, v2.plan} THEN Crash
         ELSE Tallied([tally EXCEPT !.diffCounters =
                (IF FirstOfTag(pos) THEN 0 ELSE @)
                + Count(CounterOf(v1.plan) # CounterOf(v2.plan))])

(* A line is fitted through the points of each version, its time not 0,    *)
(* which needs one at least.                                               *)
DefaultPlots ==
  /\ phase = "default plots"
  /\ IF \E v \in 1..2 : \A n \in DOMAIN pairs : pairs[n][v].time = 0 THEN Crash
     ELSE phase' = "qo score" /\ UNCHANGED <<kind, files, pairs, pos, tally>>

(* The best of the second version is that of the first, once the switch    *)
(* is off.                                                                 *)
BestOfV2(hasOpts, v1, v2) == IF hasOpts THEN Best(v2) ELSE Best(v1)

(* The classes of the summary, for queries that both versions executed.    *)
Classes(v1, v2) ==
  LET out == ~AllowedDiff(v1.time, v2.time) IN
  [betterDifferent |-> v1.time > v2.time /\ out /\ ~SamePlan(v1, v2),
   worseDifferent  |-> v1.time < v2.time /\ out /\ ~SamePlan(v1, v2),
   betterSame      |-> v1.time > v2.time /\ out /\ SamePlan(v1, v2),
   worseSame       |-> v1.time < v2.time /\ out /\ SamePlan(v1, v2),
   same            |-> SamePlan(v1, v2) /\ ~out]

Executed(v1, v2) == v1.time > 0 /\ v2.time > 0

\* Slip: an empty list of optimizations is none, here and not on the pages.
Slip_StillHasOpts(hasOpts, v2) == hasOpts /\ HasOpts(v2)

StillHasOpts(hasOpts, v2) == hasOpts /\ v2.opts # None

(* What the summary adds for a query of both versions.                     *)
Judged(t, v1, v2) ==
  LET has == StillHasOpts(t.hasOpts, v2)
      best1 == Best(v1)  best2 == BestOfV2(has, v1, v2)
      ran == Executed(v1, v2)
      class == Classes(v1, v2)
      New(f) == t[f] + Count(ran /\ class[f])
  IN  [t EXCEPT
         !.hasOpts = has, !.total = @ + 1,
         !.betterDifferent = New("betterDifferent"), !.worseDifferent = New("worseDifferent"),
         !.betterSame = New("betterSame"), !.worseSame = New("worseSame"), !.same = New("same"),
         !.v1Bests = @ + Count(SamePlan(v1, best1)),
         !.v2Bests = @ + Count(SamePlan(v2, best2)),
         !.ratios = @ \cup (IF ~ran THEN {<<1, 1>>}
                            ELSE {<<v2.time, v1.time>>, <<v1.time, best1.time>>,
                                  IF best2.time > 0 THEN <<v2.time, best2.time>>
                                  ELSE <<9999999, 1>>})]

QoScore == Turn("qo score") /\ Tallied(Judged(tally, pairs[pos][1], pairs[pos][2]))

\* Slip: each ratio is guarded by the time it divides by.
Slip_DividesByZero(v1, v2) == FALSE

(* The text of the ratio is guarded by the wrong one of the two times.     *)
DividesByZero(v1, v2) == v2.time > 0 /\ v1.time = 0

QeScore ==
  /\ Turn("qe score")
  /\ LET v1 == pairs[pos][1]  v2 == pairs[pos][2]
     IN  IF DividesByZero(v1, v2) THEN Crash
         ELSE Tallied([tally EXCEPT
                !.green = @ \cup {<<pos, side>> : side \in
                   (IF SamePlan(v1, Best(v1)) THEN {"v1"} ELSE {}) \cup
                   (IF v2.time > 0 /\ SamePlan(v2, BestOfV2(tally.hasOpts, v1, v2))
                    THEN {"v2"} ELSE {})},
                !.ratioGreen = IF v1.time > 0 /\ 100 * v2.time <= (100 + DeltaPct) * v1.time
                               THEN @ \cup {pos} ELSE @])

(* The page of a query asks that query alone whether it has optimizations. *)
RegressionPages ==
  /\ Turn("regression pages")
  /\ LET v1 == pairs[pos][1]  v2 == pairs[pos][2]
         best2 == BestOfV2(v2.opts # None, v1, v2)
     IN  Tallied([tally EXCEPT !.equal = @ \cup {<<pos, side>> : side \in
                    (IF SamePlan(v1, Best(v1)) THEN {"v1"} ELSE {}) \cup
                    (IF SamePlan(v2, best2) THEN {"v2"} ELSE {})}])

(* The spreadsheet; every ratio is guarded by the time it divides by.      *)
RegressionSheet == Turn("regression sheet") /\ Tallied(tally)

RegressionNext ==
  \/ GenerateRegression \/ PlanComparison \/ Through("plan comparison", "counters")
  \/ CounterTables \/ Through("counters", "default plots")
  \/ DefaultPlots
  \/ QoScore \/ Through("qo score", "qe score")
  \/ QeScore \/ Through("qe score", "regression pages")
  \/ RegressionPages \/ Through("regression pages", "regression sheet")
  \/ RegressionSheet \/ Through("regression sheet", "published")

-----------------------------------------------------------------------------
(* Properties. *)

RegressionPublished == phase = "published" /\ kind = "regression"

(* Every query both versions executed is in exactly one class of the       *)
(* summary, but for those that changed plan and not time: no class counts  *)
(* them; nor, if no difference is allowed, those that took the same time.  *)
EachInOneClass ==
  RegressionPublished =>
    tally.betterDifferent + tally.worseDifferent + tally.betterSame + tally.worseSame + tally.same
      = Cardinality({n \in DOMAIN pairs :
          LET v1 == pairs[n][1]  v2 == pairs[n][2]
          IN  Executed(v1, v2) /\ (IF AllowedDiff(v1.time, v2.time) THEN SamePlan(v1, v2)
                                   ELSE v1.time # v2.time)})

(* Summary, table and pages agree about where the best plan was picked, if *)
(* every query of the second version has optimizations and succeeded; if   *)
(* one has none, they may tell three different stories of the others.      *)
RegressionAgrees ==
  RegressionPublished =>
    /\ tally.v1Bests = Cardinality({m \in tally.green : m[2] = "v1"})
    /\ {m \in tally.green : m[2] = "v1"} = {m \in tally.equal : m[2] = "v1"}
    /\ (\A n \in DOMAIN pairs : pairs[n][2].opts # None /\ pairs[n][2].time > 0) =>
         /\ tally.green = tally.equal
         /\ tally.v2Bests = Cardinality({m \in tally.green : m[2] = "v2"})

(* The number of changed plans that the short summary publishes is that of *)
(* the last tag: with one tag only, it is that of the report.              *)
ShortSummaryTells ==
  RegressionPublished /\ pairs[1][1].tag = Last(pairs)[1].tag =>
    tally.diffPlans = Cardinality({n \in DOMAIN pairs :
      LET p == pairs[n]
      IN  IF None \in {p[1].off, p[2].off} THEN p[1].plan # p[2].plan
          ELSE p[1].off # p[2].off})
=============================================================================
