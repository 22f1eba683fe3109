-------------------------- MODULE SelectivityReport --------------------------
(***************************************************************************)
(* The selectivity report: one model measured with default statistics, with*)
(* analyzed tables, and with statistics objects, each with EXPLAIN and     *)
(* with EXPLAIN ANALYZE.  files is the sequence of the six results; zip    *)
(* pairs them by position and stops with the shortest.                     *)
(***************************************************************************)
EXTENDS ReportLoop

ZeroSelectivity ==
  [different |-> {}, same |-> {}, almost |-> {}, worse |-> {}, improved |-> {}]

GenerateSelectivity ==
  /\ phase = "generate" /\ kind = "selectivity"
  /\ IF \E f \in 1..6 : ~Readable(files[f]) THEN Crash
     ELSE Start([n \in 1..Min({Len(files[f]) : f \in 1..6}) |-> [f \in 1..6 |-> files[f][n]]],
                "classify", ZeroSelectivity)

(* Everything that is neither the same, close, nor slower, is an           *)
(* improvement.                                                            *)
Class(default, statsAnalyze) ==
  IF SamePlan(default, statsAnalyze) THEN "same"
  ELSE IF AllowedDiff(default.time, statsAnalyze.time) THEN "almost"
  ELSE IF default.time < statsAnalyze.time THEN "worse"
  ELSE "improved"

Classify ==
  /\ Turn("classify")
  /\ LET q == pairs[pos]
         class == Class(q[1], q[6])
     IN  Tallied([tally EXCEPT
           ![class] = @ \cup {pos},
           !.different = IF \A f \in {1, 3, 5} : SamePlan(q[f], q[f + 1]) THEN @
                         ELSE @ \cup {pos}])

(* The page of a query, in one list or two of them, reads all six plans.   *)
SelectivityPages ==
  /\ Turn("selectivity pages")
  /\ IF \E f \in 1..6 : pairs[pos][f].plan = None THEN Crash ELSE Tallied(tally)

SelectivityNext ==
  \/ GenerateSelectivity
  \/ Classify \/ Through("classify", "selectivity pages")
  \/ SelectivityPages \/ Through("selectivity pages", "published")

-----------------------------------------------------------------------------
(* Properties. *)

SelectivityPublished == phase = "published" /\ kind = "selectivity"

(* A query listed as improved by the statistics got faster, and one listed *)
(* as worse got slower, if it came to its end both times.  One that timed  *)
(* out or failed has a time below all others: with the statistics that is  *)
(* listed as improved, and without them as worse; and so is one that took  *)
(* as long as before, with another plan, if no difference is allowed.      *)
ListedAsItWent ==
  SelectivityPublished /\ DeltaPct > 0 =>
    /\ \A n \in tally.improved : pairs[n][6].time > 0 => pairs[n][6].time < pairs[n][1].time
    /\ \A n \in tally.worse : pairs[n][1].time > 0 => pairs[n][1].time < pairs[n][6].time
=============================================================================
