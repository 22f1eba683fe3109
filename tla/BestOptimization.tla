-------------------------- MODULE BestOptimization --------------------------
(***************************************************************************)
(* PostgresQuery.get_best_optimization: one pass over the optimizations of *)
(* a collected query.  Every score, plot and comparison of the reports,    *)
(* and the timeout of a run with a baseline, is derived from its answer.   *)
(* Number 0 stands for the query itself, 1..count for its optimizations.   *)
(* Times are milliseconds, with the sentinels -1 (timed out) and 0 (failed,*)
(* not measured, or skipped as a duplicate).                               *)
(***************************************************************************)
EXTENDS Integers

CONSTANTS
  MaxOpts,      \* the most optimizations a query has
  Times,        \* the times a measurement may give
  Infinity,     \* 99999999 in the code
  DeltaPct      \* skip-percentage-delta, in percent

ASSUME BestAssumption ==
  /\ MaxOpts \in Nat /\ DeltaPct \in Nat
  /\ Infinity \in Nat /\ Times \subseteq {t \in Int : -1 <= t /\ t < Infinity}
  /\ Times # {}

VARIABLES
  count,        \* the number of optimizations
  time,         \* execution_time_ms, by number
  i,            \* the optimization looked at next
  best,         \* best_optimization
  answer        \* the number returned, -1 while the scan runs

vars == <<count, time, i, best, answer>>

(* utils.allowed_diff, with the division multiplied out. *)
Distance(a, b) == IF a < b THEN b - a ELSE a - b

AllowedDiff(originalTime, optimizationTime) ==
  /\ optimizationTime > 0
  /\ 100 * Distance(originalTime, optimizationTime) < DeltaPct * optimizationTime

\* Slip: a query that timed out has the best time of all.
Slip_BestTime == time[best]

(* A query that timed out is beaten by any time. *)
BestTime == IF time[best] # -1 THEN time[best] ELSE Infinity

Init ==
  /\ count \in 0..MaxOpts
  /\ time \in [0..count -> Times]
  /\ i = 1 /\ best = 0 /\ answer = -1

\* Slip: the guard against sentinels is forgotten.
Slip_Better(t) == t < BestTime

Better(t) == 0 < t /\ t < BestTime

Look ==
  /\ answer = -1 /\ i <= count
  /\ best' = IF Better(time[i]) THEN i ELSE best
  /\ i' = i + 1
  /\ UNCHANGED <<count, time, answer>>

(* A gain within the allowed difference is none: the query itself is best. *)
Answer == IF count > 0 /\ AllowedDiff(time[best], time[0]) THEN 0 ELSE best

Return ==
  /\ answer = -1 /\ i > count
  /\ answer' = Answer
  /\ UNCHANGED <<count, time, i, best>>

Returned == answer # -1 /\ UNCHANGED vars

Next == Look \/ Return \/ Returned

Spec == Init /\ [][Next]_vars

-----------------------------------------------------------------------------
(* Properties. *)

Numbers == 0..count

Succeeded == {n \in 1..count : time[n] > 0}

(* Every variable has its type. *)
TypeOK ==
  /\ count \in 0..MaxOpts /\ time \in [0..count -> Times]
  /\ i \in 1..(count + 1) /\ best \in 0..count /\ answer \in -1..count

(* The answer is the fastest: no optimization that succeeded is faster     *)
(* than it, but for a gain within the allowed difference over the query.   *)
(* A query that failed with a database error (time 0) beats them all.      *)
BestIsFastest ==
  answer # -1 /\ time[0] # 0 =>
    \A n \in Succeeded :
      \/ answer > 0 /\ time[answer] <= time[n]
      \/ answer = 0 /\ time[0] > 0 /\ (time[0] <= time[n] \/ AllowedDiff(time[n], time[0]))

(* The query is left only for an optimization that succeeded, and that is  *)
(* faster by more than the allowed difference, or if the query itself timed*)
(* out: not for one that failed, timed out or was skipped.                 *)
OnlyRealGains ==
  answer > 0 => /\ time[answer] > 0
                /\ \/ time[0] = -1
                   \/ time[answer] < time[0] /\ ~AllowedDiff(time[answer], time[0])
=============================================================================
