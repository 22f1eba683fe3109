---------------------------- MODULE StoredResults ----------------------------
(***************************************************************************)
(* What collect leaves in a result file and what the reports ask of it:    *)
(* the best optimization of a query, whether two queries have one plan,    *)
(* whose results differ, and the query of another file with the same hash. *)
(*                                                                         *)
(* A plan is a member of Plans, its text without costs and times; None     *)
(* stands for Python's None and, as cost_off_explain, for the empty plan.  *)
(***************************************************************************)
EXTENDS Integers, Sequences, SequencesExt

CONSTANTS
  None,
  Plans,         \* plans, by what is left of them without costs and times
  NotFound,      \* the plan "NOT FOUND" of a query that has no counterpart
  Infinity,      \* 99999999 in the code
  DeltaPct       \* skip-percentage-delta, in percent

ASSUME StoredAssumption ==
  /\ NotFound \notin Plans /\ None \notin Plans /\ NotFound # None
  /\ Infinity \in Nat /\ DeltaPct \in Nat

(* A query as it is stored: its times have the sentinels -1 (timed out)    *)
(* and 0 (failed, or not measured), opts is None where optimizations were  *)
(* never evaluated, and typed is FALSE for a plain Query, which only       *)
(* create_copy makes.                                                      *)
Stored(hash, tag, time, plan, off, result, opts) ==
  [hash |-> hash, tag |-> tag, time |-> time, plan |-> plan, off |-> off,
   result |-> result, opts |-> opts, typed |-> TRUE]

(* A query whose EXPLAIN failed has no plan, no time and no optimizations; *)
(* an optimization without a time may have no plan or result either, but   *)
(* one that was timed has been executed for its result first.              *)
Storable(q) ==
  /\ q.plan = None => q.time = 0 /\ q.opts = None
  /\ q.opts # None => \A n \in DOMAIN q.opts :
                       q.opts[n].time > 0 => None \notin {q.opts[n].plan, q.opts[n].result}

HasOpts(q) == q.opts # None /\ q.opts # <<>>

(* utils.allowed_diff, with the division multiplied out. *)
AllowedDiff(a, b) ==
  b > 0 /\ 100 * (IF a < b THEN b - a ELSE a - b) < DeltaPct * b

(* PostgresQuery.get_best_optimization, in one go (see BestOptimization):  *)
(* of those that succeeded and are faster than the query, the first of the *)
(* fastest, if it gains more than the allowed difference.                  *)
Limit(q) == IF q.time # -1 THEN q.time ELSE Infinity

Faster(q) == {n \in DOMAIN q.opts : 0 < q.opts[n].time /\ q.opts[n].time < Limit(q)}

Fastest(q) == {n \in Faster(q) : \A m \in Faster(q) : q.opts[n].time <= q.opts[m].time}

Best(q) ==
  IF ~q.typed \/ ~HasOpts(q) \/ Faster(q) = {} THEN q
  ELSE LET best == q.opts[Min(Fastest(q))]
       IN  IF AllowedDiff(best.time, q.time) THEN q ELSE best

(* compare_plans: by the plans without costs where both have one, else by  *)
(* the cleaned plans; get_clean_plan(None) gives the plan's own text, so a *)
(* plan equals a missing one.  A plain Query answers None.                 *)
SamePlan(q, r) ==
  /\ q.typed
  /\ IF q.off # None /\ r.off # None THEN q.off = r.off
     ELSE q.plan # None /\ r.plan \in {None, q.plan}

(* get_inconsistent_results: the optimizations that returned other rows.   *)
Inconsistent(q) ==
  IF ~q.typed \/ q.result = None \/ ~HasOpts(q) THEN {}
  ELSE {n \in DOMAIN q.opts : q.opts[n].result \notin {None, q.result}}

(* create_copy: what stands in for a query that the other file lacks.      *)
CreateCopy(q) ==
  [Stored(q.hash, q.tag, -1, NotFound, None, None, <<>>) EXCEPT !.typed = FALSE]

(* A result file, or none: queries with their optimizations, in the order  *)
(* of the model's files and of the statements in them.  Nothing sorts them *)
(* by hash, and two statements may have the same text and hash.            *)
IsSequence(s) == s \in Seq(ToSet(s))

IsStored(q) ==
  /\ q # None /\ q = Stored(q.hash, q.tag, q.time, q.plan, q.off, q.result, q.opts)
  /\ q.hash \in Nat /\ q.time \in Int /\ q.time >= -1

IsQuery(q) ==
  /\ IsStored(q) /\ Storable(q)
  /\ q.opts # None => IsSequence(q.opts) /\ \A n \in DOMAIN q.opts : IsStored(q.opts[n])

ResultFile(file) ==
  \/ file = None
  \/ /\ IsSequence(file)
     /\ \A n \in DOMAIN file : IsQuery(file[n])

\* Slip: the first query whose hash is not below.
Slip_FindByHash(file, hash) ==
  LET found == {n \in DOMAIN file : file[n].hash >= hash}
  IN  IF found = {} THEN None ELSE file[Min(found)]

(* find_query_by_hash *)
FindByHash(file, hash) ==
  LET found == {n \in DOMAIN file : file[n].hash = hash}
  IN  IF found = {} THEN None ELSE file[Min(found)]
=============================================================================
