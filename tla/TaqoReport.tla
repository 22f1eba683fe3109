----------------------------- MODULE TaqoReport -----------------------------
(***************************************************************************)
(* The taqo report: which queries have a better plan than the one the      *)
(* optimizer chose.  files is [yb, pg]; PostgreSQL's queries are taken in  *)
(* the order they come in, and compare_with_pg is never set.               *)
(***************************************************************************)
EXTENDS ReportLoop

ZeroTaqo == [failed |-> {}, same |-> {}, better |-> {}, score |-> <<>>]

GenerateTaqo ==
  /\ phase = "generate" /\ kind = "taqo"
  /\ IF ~Readable(files.yb) \/ (files.pg # None /\ Len(files.pg) < Len(files.yb)) THEN Crash
     ELSE Start([n \in DOMAIN files.yb |->
                   <<files.yb[n], IF files.pg = None THEN None ELSE files.pg[n]>>],
                "add", ZeroTaqo)

\* Slip: any time that is not above the query's own is none of a gain.
Slip_NoBetter(q) == Best(q).time <= q.time

(* The best time differs from the query's own by no more than allowed.     *)
NoBetter(q) == AllowedDiff(q.time, Best(q).time)

Mismatch(q) == q.result # Best(q).result

(* add_query: len(None) if optimizations were never evaluated.             *)
AddQuery ==
  /\ Turn("add")
  /\ LET q == pairs[pos][1]
         several == q.opts # None /\ Len(q.opts) > 1
     IN  IF q.opts = None THEN Crash
         ELSE Tallied([tally EXCEPT
                !.failed = IF several /\ Mismatch(q) THEN @ \cup {pos} ELSE @,
                !.same   = IF several => NoBetter(q) THEN @ \cup {pos} ELSE @,
                !.better = IF several => NoBetter(q) THEN @ ELSE @ \cup {pos}])

(* calculate_score, the "optimizer efficiency", as a fraction.             *)
Score(q) == IF q.time = 0 THEN <<-1, 1>> ELSE <<Best(q).time, q.time>>

(* The page of a query, in one list or two of them, reads its own plan and *)
(* its counterpart's, and divides nothing by zero.                         *)
TaqoPages ==
  /\ Turn("taqo pages")
  /\ LET q == pairs[pos][1]  pg == pairs[pos][2]
     IN  IF q.plan = None \/ (pg # None /\ pg.plan = None) THEN Crash
         ELSE Tallied([tally EXCEPT !.score = Append(@, Score(q))])

TaqoNext ==
  \/ GenerateTaqo
  \/ AddQuery \/ Through("add", "taqo pages")
  \/ TaqoPages \/ Through("taqo pages", "published")

-----------------------------------------------------------------------------
(* Properties. *)

TaqoPublished == phase = "published" /\ kind = "taqo"

(* A query listed under "better plan found" has an optimization that is    *)
(* faster by more than the allowed difference, or did not come to a result *)
(* itself: those that failed are listed there, even if nothing succeeded.  *)
(* If no difference is allowed, even none is one, and all are listed there.*)
BetterMeansBetter ==
  TaqoPublished /\ DeltaPct > 0 =>
    \A n \in tally.better :
      LET q == pairs[n][1]
      IN  \/ q.time <= 0
          \/ \E o \in ToSet(q.opts) : 0 < o.time /\ o.time < q.time /\ ~AllowedDiff(q.time, o.time)

(* Every such query is listed there, too, if it has more than one          *)
(* optimization and its gain survives get_best_optimization.               *)
NoGainIsMissed ==
  TaqoPublished =>
    \A n \in tally.same :
      LET q == pairs[n][1]
      IN  q.time > 0 /\ Len(q.opts) > 1 =>
            \A o \in ToSet(q.opts) :
              0 < o.time /\ o.time < q.time =>
                AllowedDiff(q.time, o.time) \/ AllowedDiff(o.time, q.time)

(* A result validation failure is two results that differ, except that a   *)
(* query without a result of its own is listed, too, once an optimization  *)
(* has one.                                                                *)
FailedMeansDifferent ==
  TaqoPublished =>
    \A n \in tally.failed :
      LET q == pairs[n][1]
      IN  q.result # None => \E o \in ToSet(q.opts) : o.result \notin {None, q.result}

(* The efficiency is a part of one: at most 1 for a query that came to its *)
(* end; -1 says that it failed, and a negative fraction that it timed out. *)
EfficiencyIsPart ==
  TaqoPublished =>
    \A n \in DOMAIN pairs :
      pairs[n][1].time > 0 => 0 < tally.score[n][1] /\ tally.score[n][1] <= tally.score[n][2]
=============================================================================
