------------------------------ MODULE Outliers ------------------------------
(***************************************************************************)
(* utils._filter_outliers as operators.  A list of execution times is a    *)
(* finite set of samples <<t, k>>: the k-th sample taken with time t.  The *)
(* code only compares values, never positions, so nothing is lost.         *)
(*   ThresholdPct  threshold_pct (100);                                    *)
(*   MinMedian     min_median_ms (500).                                    *)
(***************************************************************************)
EXTENDS Integers, FiniteSets

CONSTANTS ThresholdPct, MinMedian

ASSUME OutliersAssumption == ThresholdPct \in Nat /\ MinMedian \in Nat

TimeOf(sample) == sample[1]

CountBelow(samples, t) == Cardinality({s \in samples : TimeOf(s) < t})

CountUpTo(samples, t) == Cardinality({s \in samples : TimeOf(s) <= t})

(* The k-th smallest time, k from 1. *)
KthTime(samples, k) ==
  CHOOSE t \in {TimeOf(s) : s \in samples} :
    CountBelow(samples, t) < k /\ k <= CountUpTo(samples, t)

(* Twice statistics.median, to stay within the integers: the two middle    *)
(* times, which are the same one when the number of samples is odd.        *)
TwiceMedian(samples) ==
  LET n == Cardinality(samples)
  IN  KthTime(samples, (n + 1) \div 2) + KthTime(samples, (n + 2) \div 2)

Distance(a, b) == IF a < b THEN b - a ELSE a - b

TooFew(samples) == Cardinality(samples) < 4

TooFast(median2) == median2 = 0 \/ median2 < 2 * MinMedian

(* deviation_pct > threshold_pct *)
Deviating(samples, median2) ==
  {s \in samples :
     Distance(2 * TimeOf(s), median2) * 100 > ThresholdPct * median2}

(* The samples _filter_outliers rejects; the rest are its clean_times.     *)
OutliersIn(samples) ==
  IF TooFew(samples) THEN {}
  ELSE LET median2 == TwiceMedian(samples)
           rejected == Deviating(samples, median2)
       IN  IF TooFast(median2) \/ Cardinality(samples \ rejected) < 2
           THEN {} ELSE rejected

CleanTimes(samples) == samples \ OutliersIn(samples)
=============================================================================
