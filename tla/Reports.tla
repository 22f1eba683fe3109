------------------------------- MODULE Reports -------------------------------
(***************************************************************************)
(* The report action of the runner: loads the result files its type asks   *)
(* for and generates one report.                                           *)
(***************************************************************************)
EXTENDS ScoreReport, RegressionReport, TaqoReport, SelectivityReport, CostReport

CONSTANTS
  ScoreFiles,        \* what the files of each type may hold
  RegressionFiles,
  TaqoFiles,
  SelectivityFiles,
  CostFiles

ASSUME FilesAssumption ==
  /\ \A f \in ScoreFiles : ResultFile(f.yb) /\ ResultFile(f.pg) /\ ResultFile(f.server)
  /\ \A f \in RegressionFiles : ResultFile(f.v1) /\ ResultFile(f.v2)
  /\ \A f \in TaqoFiles : ResultFile(f.yb) /\ ResultFile(f.pg)
  /\ \A f \in SelectivityFiles : DOMAIN f = 1..6 /\ \A n \in 1..6 : ResultFile(f[n])
  /\ \A f \in CostFiles :
       /\ ResultFile(f.yb)
       /\ f.yb # None => \A n \in DOMAIN f.yb :
            /\ f.yb[n].tag \in ToSet(Tags)
            /\ \A k \in 0..LastPlan(f.yb[n]) : PlanOf(f.yb[n], k) \in {None} \cup DOMAIN Pieces

(* The result files named on the command line. *)
Loaded ==
  \/ kind \in {"score", "score_stats"} /\ files \in ScoreFiles
  \/ kind = "regression" /\ files \in RegressionFiles
  \/ kind = "taqo" /\ files \in TaqoFiles
  \/ kind = "selectivity" /\ files \in SelectivityFiles
  \/ kind = "cost" /\ files \in CostFiles

Init ==
  /\ Loaded
  /\ pairs = <<>> /\ phase = "generate" /\ pos = 1 /\ tally = {}

Over == phase \in {"published", "crashed"} /\ UNCHANGED loopVars

Next == ScoreNext \/ RegressionNext \/ TaqoNext \/ SelectivityNext \/ CostNext \/ Over

Spec == Init /\ [][Next]_loopVars

-----------------------------------------------------------------------------
(* Properties. *)

Phases == {"generate", "plots", "summary", "table", "pages", "score sheet", "stats",
           "plan comparison", "counters", "default plots", "qo score", "qe score",
           "regression pages", "regression sheet", "add", "taqo pages",
           "classify", "selectivity pages", "add queries", "collect", "charts", "published", "crashed"}

(* Every variable has its type. *)
TypeOK ==
  /\ phase \in Phases /\ pos \in 1..(Len(pairs) + 1)
  /\ \A n \in DOMAIN pairs : Storable(pairs[n][1])
  /\ phase \in {"generate", "crashed"} \/ pairs # <<>> \/ kind = "regression"

Given == CASE kind \in {"score", "score_stats"} -> <<files.yb>>
           [] kind = "regression"  -> <<files.v1, files.v2>>
           [] kind = "taqo"        -> IF files.pg = None THEN <<files.yb>> ELSE <<files.yb, files.pg>>
           [] kind = "selectivity" -> files
           [] kind = "cost"        -> <<files.yb>>

Hashes(file) == [n \in DOMAIN file |-> file[n].hash]

(* In the reports that look for the query_hash, each query is compared with*)
(* itself in the other results, and none is left out that all of them have,*)
(* in whatever order the files list their queries, and how often.  The taqo*)
(* and the selectivity report pair by position and promise no such thing.  *)
PairsMatch ==
  phase \notin {"generate", "crashed"} /\ kind \notin {"taqo", "selectivity"} =>
    /\ \A n \in DOMAIN pairs : \A f \in DOMAIN pairs[n] :
          pairs[n][f] # None => pairs[n][f].hash = pairs[n][1].hash
    /\ {pairs[n][1].hash : n \in DOMAIN pairs}
          = {h \in ToSet(Hashes(Given[1])) : \A f \in DOMAIN Given : Contains(Hashes(Given[f]), h)}

(* Every ratio that a geometric mean is taken of is positive, sentinels    *)
(* and missing counterparts notwithstanding: the logarithm is defined; and *)
(* the efficiency that the taqo report gives a query is a part of one.     *)
RatiosDefined ==
  /\ phase = "published" /\ kind \in {"score", "score_stats", "regression"} =>
       \A r \in tally.ratios : r[1] > 0 /\ r[2] > 0
  /\ EfficiencyIsPart

(* The places of a report where one thing is told, each computed from the  *)
(* files anew, tell the same: the summary, the table and the pages of the  *)
(* score and the regression report, score_stats, and the short summary.    *)
PlacesAgree == ScoreAgrees /\ ScoreStatsAgree /\ RegressionAgrees /\ ShortSummaryTells

(* What a list, a class or a colour of a report says of a query is true of *)
(* the times and results in the files, for each report as stated there.    *)
ListsTell ==
  /\ GreenMeansFast
  /\ EachInOneClass
  /\ BetterMeansBetter /\ NoGainIsMissed /\ FailedMeansDifferent
  /\ ListedAsItWent

NoPlan(file) == \E n \in DOMAIN file : file[n].plan = None

(* Why a report is never published. *)
Obstacle ==
  \/ \E f \in DOMAIN Given : ~Readable(Given[f])
  \/ kind = "score" /\ (files.pg = None \/ NoPlan(files.yb))
  \/ kind \in {"score", "score_stats"} /\ Results = <<>>
  \/ kind = "regression" /\
       LET known == {p \in ToSet(WithCounterpart(files.v1, files.v2)) : p[2] # None}
       IN  \/ \E p \in known : None \in {p[1].plan, p[2].plan}
           \/ \E p \in known : p[1].time = 0 /\ p[2].time > 0
           \/ \E v \in 1..2 : \A p \in known : p[v].time = 0
  \/ kind = "taqo" /\
       \/ \E n \in DOMAIN files.yb : files.yb[n].opts = None
       \/ files.pg # None /\ Len(files.pg) < Len(files.yb)
       \/ files.pg # None /\ NoPlan(SubSeq(files.pg, 1, Len(files.yb)))
  \/ kind = "selectivity" /\
       \E f \in 1..6 : NoPlan(SubSeq(files[f], 1, Min({Len(files[g]) : g \in 1..6})))
  \/ kind = "cost" /\ CostObstacle

(* A report is published unless one of its queries has no plan, or another *)
(* of the obstacles is in the files: one query of many is enough, and then *)
(* nothing is published of the others.  score_stats has no such query.     *)
PublishedOrObstacle ==
  /\ phase = "published" => ~Obstacle
  /\ phase = "crashed" => Obstacle
=============================================================================
