----------------------------- MODULE ScoreReport -----------------------------
(***************************************************************************)
(* The score report (YugabyteDB against PostgreSQL) and score_stats, its   *)
(* statistics alone, as JSON.  files is [yb, pg, server, serverSide]: the  *)
(* file of PostgreSQL's server-side times is preferred if the run under    *)
(* test is server side, too.  The same numbers are computed in four places,*)
(* the summary, the table, the page of each query and score_stats.         *)
(***************************************************************************)
EXTENDS ReportLoop

Results ==
  IF files.serverSide /\ files.server # None THEN files.server ELSE files.pg

(* Every query of YugabyteDB gets a partner, if need be a copy of itself   *)
(* that timed out and has no plan.                                         *)
Partnered(yb, results) ==
  LET found == IF results = None THEN [n \in DOMAIN yb |-> <<yb[n], None>>]
               ELSE WithCounterpart(yb, results)
  IN  [n \in DOMAIN yb |->
         <<yb[n], IF found[n][2] = None THEN CreateCopy(yb[n]) ELSE found[n][2]>>]

(* What the summary counts, the ratios it takes geometric means of, and    *)
(* the queries that the table and the pages mark as having the best plan.  *)
ZeroScore ==
  [ybBests |-> 0, pgBests |-> 0, timedOut |-> 0, slower |-> 0, bestSlower |-> 0,
   inconsistent |-> 0, total |-> 0, ratios |-> {},
   green |-> {}, equal |-> {}, ratioGreen |-> {}, bestGreen |-> {}]

(* report_config(pg_loq.config) needs the file that the loop could do without. *)
GenerateScore ==
  /\ phase = "generate" /\ kind = "score"
  /\ IF ~Readable(files.yb) \/ files.pg = None \/ Results = <<>> THEN Crash
     ELSE Start(ByTag(Partnered(files.yb, Results), DOMAIN files.yb), "plots", ZeroScore)

(* The plot of all queries reads the plan of each that has a time, -1      *)
(* included; the fitted line is left out if there is none.                 *)
ScorePlots ==
  /\ Turn("plots")
  /\ LET yb == pairs[pos][1]  pg == pairs[pos][2]
     IN  IF yb.time # 0 /\ pg.time # 0 /\ None \in {yb.plan, pg.plan} THEN Crash
         ELSE Tallied(tally)

AtLeast10(a, b) == IF b > 0 THEN a >= 10 * b ELSE b < 0 /\ a <= 10 * b

\* Slip: whether YugabyteDB's query has a time is not asked.
Slip_Ratios(yb, pg) ==
  LET y == Best(yb)  p == Best(pg)
  IN  IF pg.time > 0 THEN {<<yb.time, pg.time>>, <<y.time, p.time>>} ELSE {<<1, 1>>}

(* The ratios of the geometric means, QE default and best, QO default.     *)
Ratios(yb, pg) ==
  LET y == Best(yb)  p == Best(pg)
  IN  (IF pg.time > 0 /\ yb.time > 0 THEN {<<yb.time, pg.time>>, <<y.time, p.time>>}
       ELSE {<<1, 1>>})
      \cup (IF yb.time > 0 /\ y.time > 0 THEN {<<yb.time, y.time>>} ELSE {})
      \cup (IF pg.time > 0 /\ p.time > 0 THEN {<<pg.time, p.time>>} ELSE {})

Summed(t, yb, pg) ==
  [t EXCEPT !.ybBests = @ + Count(SamePlan(yb, Best(yb))),
            !.pgBests = @ + Count(pg.time > 0 /\ SamePlan(pg, Best(pg))),
            !.timedOut = @ + Count(yb.time = -1),
            !.slower = @ + Count(AtLeast10(yb.time, pg.time)),
            !.bestSlower = @ + Count(AtLeast10(Best(yb).time, pg.time)),
            !.inconsistent = @ + Count(Inconsistent(yb) # {}),
            !.total = @ + 1, !.ratios = @ \cup Ratios(yb, pg)]

ScoreSummary == Turn("summary") /\ Tallied(Summed(tally, pairs[pos][1], pairs[pos][2]))

(* A cell of the table is green up to three times the other's time; both   *)
(* guards look at YugabyteDB's best time, also where its own is divided.   *)
WithinThree(a, b) == a <= 3 * b

ScoreTable ==
  /\ Turn("table")
  /\ LET yb == pairs[pos][1]  pg == pairs[pos][2]
         ratio == Best(yb).time > 0 /\ pg.time > 0
     IN  Tallied([tally EXCEPT
           !.green = @ \cup {<<pos, side>> : side \in
              (IF SamePlan(yb, Best(yb)) THEN {"yb"} ELSE {})
              \cup (IF pg.time > 0 /\ SamePlan(pg, Best(pg)) THEN {"pg"} ELSE {})},
           !.ratioGreen = IF ratio /\ WithinThree(yb.time, pg.time) THEN @ \cup {pos} ELSE @,
           !.bestGreen = IF ratio /\ WithinThree(Best(yb).time, Best(pg).time)
                         THEN @ \cup {pos} ELSE @])

(* __report_query reads the plan of the query and of its best optimization;*)
(* PostgreSQL's only if it has a time.                                     *)
PlansRead(yb, pg) ==
  {yb.plan, Best(yb).plan} \cup (IF pg.time > 0 THEN {pg.plan, Best(pg).plan} ELSE {})

ScorePages ==
  /\ Turn("pages")
  /\ LET yb == pairs[pos][1]  pg == pairs[pos][2]
     IN  IF None \in PlansRead(yb, pg) THEN Crash
         ELSE Tallied([tally EXCEPT
                !.equal = @ \cup {<<pos, side>> : side \in
                   (IF SamePlan(yb, Best(yb)) THEN {"yb"} ELSE {})
                   \cup (IF pg.time > 0 /\ SamePlan(pg, Best(pg)) THEN {"pg"} ELSE {})}])

(* The spreadsheet guards each ratio with the times it divides, and reads  *)
(* a plan only if there is one: it is written whatever the queries are.    *)
ScoreSheet == Turn("score sheet") /\ Tallied(tally)

-----------------------------------------------------------------------------

(* score_stats counts again.  An exception in a turn would only cost that  *)
(* query its numbers; total counts it in any case.                         *)
ZeroStats ==
  [ybBests |-> 0, timedOut |-> 0, slower |-> 0, bestSlower |-> 0, total |-> 0, ratios |-> {}]

Stats(t, yb, pg) ==
  LET y == Best(yb)  p == Best(pg)
  IN  [ybBests    |-> t.ybBests + Count(SamePlan(yb, y)),
       timedOut   |-> t.timedOut + Count(yb.time = -1),
       slower     |-> t.slower + Count(AtLeast10(yb.time, pg.time)),
       bestSlower |-> t.bestSlower + Count(AtLeast10(y.time, pg.time)),
       total      |-> t.total + 1,
       ratios     |-> t.ratios \cup Ratios(yb, pg)]

GenerateStats ==
  /\ phase = "generate" /\ kind = "score_stats"
  /\ IF ~Readable(files.yb) \/ Results = <<>> THEN Crash
     ELSE Start(ByTag(Partnered(files.yb, Results), DOMAIN files.yb), "stats", ZeroStats)

ScoreStats == Turn("stats") /\ Tallied(Stats(tally, pairs[pos][1], pairs[pos][2]))

ScoreNext ==
  \/ GenerateScore \/ ScorePlots \/ Through("plots", "summary")
  \/ ScoreSummary \/ Through("summary", "table")
  \/ ScoreTable \/ Through("table", "pages")
  \/ ScorePages \/ Through("pages", "score sheet")
  \/ ScoreSheet \/ Through("score sheet", "published")
  \/ GenerateStats \/ ScoreStats \/ Through("stats", "published")

-----------------------------------------------------------------------------
(* Properties. *)

ScorePublished == phase = "published" /\ kind = "score"

(* The summary, the table and the pages of the queries, each computed from *)
(* the files anew, agree about where the best plan was picked.             *)
ScoreAgrees ==
  ScorePublished =>
    /\ tally.green = tally.equal
    /\ tally.ybBests = Cardinality({m \in tally.green : m[2] = "yb"})
    /\ tally.pgBests = Cardinality({m \in tally.green : m[2] = "pg"})

(* The score report and score_stats report the same of the same files:     *)
(* each number is how many of the queries are as it says.                  *)
ScoreStatsAgree ==
  phase = "published" /\ kind \in {"score", "score_stats"} =>
    /\ tally.total = Len(pairs)
    /\ tally.ybBests = Cardinality({n \in DOMAIN pairs : SamePlan(pairs[n][1], Best(pairs[n][1]))})
    /\ tally.timedOut = Cardinality({n \in DOMAIN pairs : pairs[n][1].time = -1})
    /\ tally.slower = Cardinality({n \in DOMAIN pairs : AtLeast10(pairs[n][1].time, pairs[n][2].time)})
    /\ tally.bestSlower =
         Cardinality({n \in DOMAIN pairs : AtLeast10(Best(pairs[n][1]).time, pairs[n][2].time)})
    /\ tally.ratios = UNION {Ratios(pairs[n][1], pairs[n][2]) : n \in DOMAIN pairs}

(* A green ratio means that YugabyteDB is not slower than PostgreSQL by    *)
(* more than a factor of three, both measured; except that a query with an *)
(* optimization that came back is also green when it timed out or failed.  *)
GreenMeansFast ==
  ScorePublished =>
    /\ \A n \in tally.ratioGreen :
         LET yb == pairs[n][1]
         IN  \/ 0 < yb.time /\ yb.time <= 3 * pairs[n][2].time
             \/ yb.time <= 0 /\ Best(yb) # yb
    /\ \A n \in tally.bestGreen :
         0 < Best(pairs[n][1]).time /\ Best(pairs[n][1]).time <= 3 * Best(pairs[n][2]).time
=============================================================================
