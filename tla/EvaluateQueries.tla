--------------------------- MODULE EvaluateQueries ---------------------------
(***************************************************************************)
(* CollectAction.evaluate_testing_queries with evaluate_optimizations:     *)
(* every query of the model is explained, measured, measured again under   *)
(* each of its optimizations, and validated, all on one session.  The      *)
(* measurements are calls of calculate_avg_execution_time; what such a     *)
(* call may answer is Measurement!Justified, which AvgExecution implements.*)
(***************************************************************************)
EXTENDS Sequences, FiniteSets, Measurement, Phases

CONSTANTS
  NumQueries,     \* the number of queries of the model
  MaxOpts,        \* the most optimizations generated for a query
  Plans,          \* the plans an EXPLAIN (COSTS OFF) may show
  Hashes,         \* the result hashes
  Times,          \* the averages and cost estimates, in milliseconds
  TestTimeout,    \* test-query-timeout, in seconds
  Delta,          \* skip-timeout-delta, in seconds
  Configs,        \* the options to consider, a subset of Config
  Kinds           \* the queries to consider, a subset of Kind

(* plans_only, exit_on_fail, with_optimizations, look_near_best_plan, and  *)
(* whether a baseline run is given.                                        *)
Config == [plansOnly : BOOLEAN, exits : BOOLEAN, optimize : BOOLEAN,
           near : BOOLEAN, baseline : BOOLEAN]

(* A query: tagged dml, tagged skip_consistency_check, calling now(),      *)
(* with a max_timeout tip, known to the baseline; whether                  *)
(* get_list_optimizations raises a ValueError for it (its tables are as    *)
(* many as all-pairs-threshold, and two at most, see OptimizationList),    *)
(* and the number of optimizations it returns otherwise.                   *)
Kind == [dml : BOOLEAN, skipCheck : BOOLEAN, now : BOOLEAN, tip : BOOLEAN,
         known : BOOLEAN, raises : BOOLEAN, opts : 0..MaxOpts]

ASSUME EvaluateAssumption ==
  /\ NumQueries \in Nat \ {0} /\ MaxOpts \in Nat
  /\ Times \subseteq Nat /\ TestTimeout \in Nat \ {0} /\ Delta \in Nat
  /\ Configs \subseteq Config /\ Kinds \subseteq Kind
  /\ "none" \notin Plans /\ "none" \notin Hashes

VARIABLES
  config,      \* the options
  number,      \* the query at hand, from 1
  kind,        \* what kind of query it is
  pc,          \* the next thing done
  session,     \* the database session
  limit,       \* the seconds of the last SET statement_timeout, 0 for no limit
  flags,       \* config.has_failures, config.has_warnings
  exception,   \* the exception that ended the evaluation of this query
  original,    \* the fields of original_query
  opts,        \* original_query.optimizations
  minTime,     \* min_execution_time, or the baseline's execution time
  checked,     \* execution_plans_checked
  outcome      \* how the run over all queries ended

vars == <<config, number, kind, pc, session, limit, flags, exception, original,
          opts, minTime, checked, outcome>>

results == <<original, opts, minTime, checked>>

-----------------------------------------------------------------------------
(* Statements. *)

(* planOf: the execution_plan is the query's own (0) or was taken from     *)
(* this optimization; hints: the optimization whose hints explain the      *)
(* default plan, or 0.                                                     *)
NoQuery == [time |-> 0, hash |-> "none", error |-> "none", plan |-> "none",
            planOf |-> 0, hints |-> 0]

(* measured is history: calculate_avg_execution_time was called.           *)
NoOptimization == [time |-> 0, hash |-> "none", error |-> "none", plan |-> "none",
                   measured |-> FALSE]

Current == Len(opts)

WithCurrent(optimization) == [opts EXCEPT ![Current] = optimization]

(* One statement with reply r.  No SET statement_timeout outlives the      *)
(* transaction it was issued in.                                           *)
Settle(r, raised, next) ==
  /\ session' = r.session
  /\ flags' = flags \cup r.flags
  /\ exception' = raised
  /\ pc' = IF raised = "none" THEN next ELSE "except"

KeepLimit(r) == limit' = IF r.session.limit THEN limit ELSE 0

(* prepare_query_execution; next for the exception it may raise.           *)
Prepare(step, next) ==
  /\ pc = step
  /\ \E r \in PrepareQueryExecution(session, config.exits) :
       Settle(r, r.raised, next) /\ KeepLimit(r)
  /\ UNCHANGED <<config, number, kind, results, outcome>>

(* set_query_timeout. *)
SetTimeout(step, seconds, next) ==
  /\ pc = step
  /\ \E r \in EvaluateSql(session, Limited(session), FALSE, config.exits) :
       /\ Settle(r, r.raised, next)
       /\ limit' = IF r.rows THEN seconds ELSE 0
  /\ UNCHANGED <<config, number, kind, results, outcome>>

(* int(min_execution_time / 1000) + skip_timeout_delta.                    *)
\* Slip: the allowance is forgotten.
Slip_LimitFor(ms) == IF ms > 0 THEN ms \div 1000 ELSE 0

LimitFor(ms) == (IF ms > 0 THEN ms \div 1000 ELSE 0) + Delta

(* set_query_timeout_based_on_previous_execution.  A max_timeout tip holds *)
(* its own unit, "5s": the statement says '5ss', and the server rejects it.*)
SetTimeoutByMinimum(step, next) ==
  \/ ~kind.tip /\ SetTimeout(step, LimitFor(minTime), next)
  \/ /\ kind.tip /\ pc = step
     /\ \E r \in Rejected(session, FALSE, config.exits) :
          /\ Settle(r, IF r.raised = "DatabaseError" /\ r.flags # {}
                       THEN "InvalidTimeout" ELSE r.raised, next)
     /\ limit' = 0
     /\ UNCHANGED <<config, number, kind, results, outcome>>

-----------------------------------------------------------------------------
(* Calls of calculate_avg_execution_time. *)

TimesFor(kindOfTime) ==
  IF kindOfTime = "average" THEN Times ELSE IF kindOfTime = "timeout" THEN {-1} ELSE {0}

HashesFor(known) == IF known THEN Hashes ELSE {"none"}

RaisedBy(answer) == IF answer = "raised" THEN "InterfaceError"
                    ELSE IF answer = "exit" THEN "SystemExit" ELSE "none"

(* A call with this answer; fields is what it says of the object.          *)
Call(answer, fields, next) ==
  \E s \in HandedBack, f \in SUBSET Flags :
    /\ Justified(answer, config.exits, flags \cup f, s, fields)
    /\ Settle(Reply(s, f, "none", TRUE), RaisedBy(answer), next)
    /\ limit' = 0

(* The object q with what the call wrote into it.                          *)
WithResult(q, time, hash, error) ==
  [[[q EXCEPT !.time = time] EXCEPT !.hash = hash] EXCEPT !.error = error]

Measurements(q, fields) ==
  {WithResult(q, t, h, fields.error) :
     t \in TimesFor(fields.time), h \in HashesFor(fields.hash)}

-----------------------------------------------------------------------------
(* evaluate_testing_queries, up to the measurement.  It begins where the   *)
(* DDL phase ended, see Phases: on a live connection, with some flag set   *)
(* perhaps.                                                                *)

Init ==
  /\ config \in Configs
  /\ number = 1 /\ kind \in Kinds
  /\ pc = "connect"
  /\ session = Fresh /\ limit = 0
  /\ flags \in SUBSET Flags
  /\ exception = "none"
  /\ original = NoQuery /\ opts = <<>> /\ minTime = 0 /\ checked = {}
  /\ outcome = "none"

(* _reconnect; a refused connection ends the run.                          *)
Connect ==
  /\ pc = "connect"
  /\ \/ session.alive /\ pc' = "testTimeout" /\ UNCHANGED <<session, outcome>>
     \/ ~session.alive /\ session' = Fresh /\ pc' = "testTimeout" /\ UNCHANGED outcome
     \/ ~session.alive /\ outcome' = "aborted" /\ pc' = "ended" /\ UNCHANGED session
  /\ UNCHANGED <<config, number, kind, limit, flags, exception, results>>

SetTestTimeout == SetTimeout("testTimeout", TestTimeout, "prepare")

(* The default plan, and then the one without costs: each is prepared,     *)
(* explained and rolled back.                                              *)
PrepareDefault == Prepare("prepare", "explain")

Explain(step, shown, next) ==
  /\ pc = step
  /\ \E r \in EvaluateSql(session, Ran(session), FALSE, config.exits) :
       /\ Settle(r, Fetched(r), next) /\ KeepLimit(r)
       /\ original' \in IF Fetched(r) = "none" THEN shown ELSE {original}
  /\ UNCHANGED <<config, number, kind, opts, minTime, checked, outcome>>

ExplainDefault == Explain("explain", {original}, "rollback")

RollbackTo(step, next) ==
  /\ pc = step
  /\ \E r \in Rollback(session) : Settle(r, r.raised, next) /\ KeepLimit(r)
  /\ UNCHANGED <<config, number, kind, results, outcome>>

RollbackDefault == RollbackTo("rollback", "prepareOff")

PrepareCostsOff == Prepare("prepareOff", "explainOff")

ExplainOriginalOff ==
  Explain("explainOff", {[original EXCEPT !.plan = p] : p \in Plans}, "rollbackOff")

FirstLimit == IF config.baseline /\ kind.known THEN "baseline" ELSE "limit"

RollbackCostsOff == RollbackTo("rollbackOff", FirstLimit)

(* define_min_execution_time: the baseline's best optimization is measured *)
(* again to limit this query; without one the test timeout is.             *)
MeasureBaseline ==
  /\ pc = "baseline"
  /\ \E answer \in Answers, fields \in Fields :
       Call(answer, fields, "baselineLimit") /\ minTime' \in TimesFor(fields.time)
  /\ UNCHANGED <<config, number, kind, original, opts, checked, outcome>>

LimitByBaseline == SetTimeoutByMinimum("baselineLimit", "measure")

LimitByTestTimeout == SetTimeout("limit", TestTimeout, "measure")

(* What follows the measurement of the original.                           *)
AfterOriginal == IF config.optimize /\ ~kind.dml THEN "optimize" ELSE "between"

EstimateOriginal ==
  /\ pc = "measure" /\ config.plansOnly
  /\ \E cost \in Times : original' = [original EXCEPT !.time = cost]
  /\ pc' = AfterOriginal
  /\ UNCHANGED <<config, number, kind, session, limit, flags, exception, opts,
                 minTime, checked, outcome>>

MeasureOriginal ==
  /\ pc = "measure" /\ ~config.plansOnly
  /\ \E answer \in Answers, fields \in Fields :
       /\ Call(answer, fields, AfterOriginal)
       /\ original' \in Measurements(original, fields)
  /\ UNCHANGED <<config, number, kind, opts, minTime, checked, outcome>>

-----------------------------------------------------------------------------
(* evaluate_optimizations. *)

\* Slip: off by one.
Slip_NextOptimization == IF Current <= kind.opts THEN "append" ELSE "validate"

(* The optimization after the current one, if the list holds more.         *)
NextOptimization == IF Current < kind.opts THEN "append" ELSE "validate"

StartTime == IF original.time > 0 THEN original.time ELSE TestTimeout * 1000

BeginOptimizations ==
  /\ pc = "optimize"
  /\ \/ /\ ~kind.raises
        /\ minTime' = StartTime /\ opts' = <<>> /\ checked' = {}
        /\ pc' = IF kind.opts > 0 THEN "append" ELSE "validate"
        /\ UNCHANGED exception
     \/ /\ kind.raises /\ exception' = "ValueError" /\ pc' = "except"
        /\ UNCHANGED <<minTime, opts, checked>>
  /\ UNCHANGED <<config, number, kind, session, limit, flags, original, outcome>>

AppendOptimization ==
  /\ pc = "append"
  /\ opts' = Append(opts, NoOptimization)
  /\ pc' = IF config.near \/ Current = 0 THEN "limitOpt" ELSE "costsOff"
  /\ UNCHANGED <<config, number, kind, session, limit, flags, exception, original,
                 minTime, checked, outcome>>

LimitOptimization == SetTimeoutByMinimum("limitOpt", "costsOff")

\* Slip: a plan counts as checked from the second time it is met.
Slip_Checked(plan) == IF \E i \in 1..(Current - 1) : opts[i].plan = plan
                      THEN checked \cup {plan} ELSE checked

Checked(plan) == checked \cup {plan}

(* Is the plan new?  The exception of this EXPLAIN is nobody's but the     *)
(* query's: it leaves evaluate_optimizations.  The first optimization that *)
(* shows the default plan lends the query its hints.                       *)
ExplainCostsOff ==
  /\ pc = "costsOff"
  /\ \E r \in EvaluateSql(session, Ran(session), FALSE, config.exits), p \in Plans :
       /\ Settle(r, Fetched(r), IF p \in checked THEN "newMin" ELSE "prepareOpt")
       /\ KeepLimit(r)
       /\ IF Fetched(r) = "none"
          THEN /\ opts' = WithCurrent([opts[Current] EXCEPT !.plan = p])
               /\ checked' = Checked(p)
               /\ original' = IF original.hints = 0 /\ original.plan = p
                              THEN [original EXCEPT !.hints = Current] ELSE original
          ELSE UNCHANGED <<opts, checked, original>>
  /\ UNCHANGED <<config, number, kind, minTime, outcome>>

(* The plan with costs: a timeout only skips the optimization.             *)
SettleSkipping(r, raised, next) ==
  /\ IF raised = "QueryCanceled" THEN Settle(r, "none", NextOptimization)
     ELSE Settle(r, raised, next)
  /\ KeepLimit(r)

PrepareOptimization ==
  /\ pc = "prepareOpt"
  /\ \E r \in PrepareQueryExecution(session, config.exits) :
       SettleSkipping(r, r.raised, "explainOpt")
  /\ UNCHANGED <<config, number, kind, results, outcome>>

ExplainOptimization ==
  /\ pc = "explainOpt"
  /\ \E r \in EvaluateSql(session, Ran(session), FALSE, config.exits) :
       SettleSkipping(r, Fetched(r), "measureOpt")
  /\ UNCHANGED <<config, number, kind, results, outcome>>

(* With plans_only the original gets the plan and cost of the optimization.*)
EstimateOptimization ==
  /\ pc = "measureOpt" /\ config.plansOnly
  /\ \E cost \in Times :
       original' = [[original EXCEPT !.time = cost] EXCEPT !.planOf = Current]
  /\ pc' = "newMin"
  /\ UNCHANGED <<config, number, kind, session, limit, flags, exception, opts,
                 minTime, checked, outcome>>

MeasureOptimization ==
  /\ pc = "measureOpt" /\ ~config.plansOnly
  /\ \E answer \in Answers, fields \in Fields :
       /\ Call(answer, fields, "newMin")
       /\ \E o \in Measurements(opts[Current], fields) :
            opts' = WithCurrent([o EXCEPT !.measured = TRUE])
  /\ UNCHANGED <<config, number, kind, original, minTime, checked, outcome>>

\* Slip: the sentinels of failed measurements are times like any other.
Slip_Faster(time) == time < minTime

Faster(time) == 0 < time /\ time < minTime

NewMinimum ==
  /\ pc = "newMin"
  /\ minTime' = IF Faster(opts[Current].time) THEN opts[Current].time ELSE minTime
  /\ pc' = NextOptimization
  /\ UNCHANGED <<config, number, kind, session, limit, flags, exception, original,
                 opts, checked, outcome>>

-----------------------------------------------------------------------------
(* Validation and the end of a query. *)

Known(i) == opts[i].hash # "none"

(* The hash all others are compared with: the original's, or else the      *)
(* first one known.                                                        *)
ReferenceHash ==
  IF original.hash # "none" THEN original.hash
  ELSE opts[CHOOSE i \in 1..Current : Known(i) /\ \A j \in 1..(i - 1) : ~Known(j)].hash

\* Slip: without the original's hash nothing is compared.
Slip_Inconsistent ==
  original.hash # "none" /\ \E i \in 1..Current : Known(i) /\ opts[i].hash # original.hash

Inconsistent == \E i \in 1..Current : Known(i) /\ opts[i].hash # ReferenceHash

Complaint == Inconsistent /\ ~kind.skipCheck /\ ~kind.now

(* validate_result_hash and validate_execution_time; whether the plan's    *)
(* own execution time is too far off is not modelled, so either may be.    *)
Validate ==
  /\ pc = "validate"
  /\ \/ config.plansOnly /\ pc' = "between" /\ UNCHANGED <<flags, exception>>
     \/ /\ ~config.plansOnly /\ Complaint /\ config.exits
        /\ flags' = flags \cup {"failure"}
        /\ exception' = "SystemExit" /\ pc' = "except"
     \/ /\ ~config.plansOnly /\ ~(Complaint /\ config.exits)
        /\ \E w \in {{}, {"warning"}} :
             flags' = flags \cup w \cup IF Complaint THEN {"failure"} ELSE {}
        /\ pc' = "between" /\ UNCHANGED exception
  /\ UNCHANGED <<config, number, kind, session, limit, results, outcome>>

\* Slip: only operational errors are caught.
Slip_Caught == {"QueryCanceled"}

(* psycopg2.Error. *)
Caught == {"QueryCanceled", "DatabaseError", "InvalidTimeout", "InterfaceError"}

(* What leaves evaluate_testing_queries. *)
Raised == {"SystemExit", "ValueError"}

\* Slip: after a lost connection the query is tried again.
Slip_AfterException == IF exception = "InterfaceError" THEN "connect" ELSE "between"

AfterException == "between"

(* The except clauses: the exception is the message unless there is one,   *)
(* and what is no psycopg2.Error is raised again.  The query's transaction *)
(* stays as it is then.                                                    *)
Except ==
  /\ pc = "except"
  /\ original' = IF exception \in Caught /\ original.error = "none"
                 THEN [original EXCEPT !.error = exception] ELSE original
  /\ pc' = IF exception \in Caught THEN AfterException ELSE "ended"
  /\ outcome' = IF exception \in Caught THEN outcome
                ELSE IF exception = "SystemExit" THEN "exit" ELSE "aborted"
  /\ UNCHANGED <<config, number, kind, session, limit, flags, exception, opts,
                 minTime, checked>>

\* Slip: the query's transaction is left open.
Slip_EndTransaction == {Reply(session, {}, "none", FALSE)}

(* The rollback after a query, outside of its try.                         *)
EndTransaction ==
  IF session.alive THEN Rollback(session) ELSE {Reply(session, {}, "none", FALSE)}

(* Every query starts from nothing. *)
NextQuery ==
  /\ number < NumQueries
  /\ number' = number + 1 /\ kind' \in Kinds
  /\ original' = NoQuery /\ opts' = <<>> /\ minTime' = 0 /\ checked' = {}
  /\ exception' = "none" /\ pc' = "connect" /\ UNCHANGED outcome

EndQuery ==
  /\ pc = "between"
  /\ \E r \in EndTransaction :
       /\ session' = r.session /\ KeepLimit(r)
       /\ \/ r.raised = "none" /\ NextQuery
          \/ /\ r.raised = "none" /\ number = NumQueries
             /\ outcome' = "complete" /\ pc' = "ended"
             /\ UNCHANGED <<number, kind, results, exception>>
          \/ /\ r.raised # "none"
             /\ outcome' = "aborted" /\ pc' = "ended"
             /\ UNCHANGED <<number, kind, results, exception>>
  /\ UNCHANGED <<config, flags>>

Ended == pc = "ended" /\ UNCHANGED vars

Next ==
  \/ Connect \/ SetTestTimeout
  \/ PrepareDefault \/ ExplainDefault \/ RollbackDefault
  \/ PrepareCostsOff \/ ExplainOriginalOff \/ RollbackCostsOff
  \/ MeasureBaseline \/ LimitByBaseline \/ LimitByTestTimeout
  \/ EstimateOriginal \/ MeasureOriginal
  \/ BeginOptimizations \/ AppendOptimization \/ LimitOptimization
  \/ ExplainCostsOff \/ PrepareOptimization \/ ExplainOptimization
  \/ EstimateOptimization \/ MeasureOptimization \/ NewMinimum
  \/ Validate \/ Except \/ EndQuery
  \/ Ended

(* One thread: what can be done next is done.                              *)
Spec == Init /\ [][Next]_vars /\ WF_vars(Next)

-----------------------------------------------------------------------------
(* Properties. *)

LoopSteps == {"append", "limitOpt", "costsOff", "prepareOpt", "explainOpt", "measureOpt"}

Steps == LoopSteps \cup
  {"connect", "testTimeout", "prepare", "explain", "rollback", "prepareOff",
   "explainOff", "rollbackOff", "baseline", "baselineLimit", "limit", "measure",
   "optimize", "newMin", "validate", "except", "between", "ended"}

Errors == {"none", "Timeout", "PlanTimeout"} \cup Caught

ResultTimes == Times \cup {-1, 0}

(* Every variable has its type. *)
TypeOK ==
  /\ config \in Configs /\ number \in 1..NumQueries /\ kind \in Kinds
  /\ pc \in Steps /\ session \in Session /\ limit \in Nat /\ flags \in SUBSET Flags
  /\ exception \in Caught \cup Raised \cup {"none"}
  /\ original \in [time : ResultTimes, hash : Hashes \cup {"none"}, error : Errors,
                   plan : Plans \cup {"none"}, planOf : 0..MaxOpts, hints : 0..MaxOpts]
  /\ opts \in Seq([time : ResultTimes, hash : Hashes \cup {"none"}, error : Errors,
                   plan : Plans \cup {"none"}, measured : BOOLEAN])
  /\ Len(opts) <= MaxOpts
  /\ minTime \in ResultTimes \cup {TestTimeout * 1000} /\ checked \in SUBSET Plans
  /\ outcome \in {"none", "complete", "exit", "aborted"}

(* No transaction, timeout or session property of one query is seen by the *)
(* next, whatever became of the first.                                     *)
CleanStart == pc \in {"connect", "testTimeout"} /\ session.alive => session = Fresh

(* min_execution_time is the least of the original's time (or the test     *)
(* timeout) and the times of the optimizations that succeeded so far: the  *)
(* sentinels -1 and 0 never become a minimum.                              *)
Candidates == {StartTime} \cup {opts[i].time : i \in {j \in 1..Current : opts[j].time > 0}}

MinIsMinimum ==
  pc \in LoopSteps /\ ~config.plansOnly =>
    minTime \in Candidates /\ \A t \in Candidates : minTime <= t

(* While an optimization is explained and measured for the first time, and *)
(* nothing has failed, the timeout in force is the one of the current      *)
(* minimum and leaves room for a run as fast as it.                        *)
CurrentLimit ==
  pc \in {"costsOff", "prepareOpt", "explainOpt", "measureOpt"}
    /\ config.near /\ flags = {} /\ session.alive =>
      session.limit /\ (Delta > 0 => minTime < 1000 * limit)
                    /\ 1000 * limit <= minTime + 1000 * Delta

(* Optimizations with the same plan are measured once.                     *)
OncePerPlan ==
  \A i, j \in 1..Current :
    i # j /\ opts[i].measured /\ opts[j].measured => opts[i].plan # opts[j].plan

(* Different results of one query, the original's among them or not.       *)
ResultHashes == ({original.hash} \cup {opts[i].hash : i \in 1..Current}) \ {"none"}

Discrepancy == Cardinality(ResultHashes) > 1 /\ ~kind.skipCheck /\ ~kind.now

(* A query that was evaluated to its end with varying results fails the    *)
(* run, even when the original itself gave none.                           *)
DiscrepancyFails ==
  pc = "between" /\ exception = "none" /\ Discrepancy => "failure" \in flags

(* No error of the database stops the run: it ends after the last query,   *)
(* with a connection that cannot be had, because exit-on-fail was asked    *)
(* for, or at a query that was to be optimized and has no hints.           *)
Unhintable == kind.raises /\ config.optimize /\ ~kind.dml

NothingElseStopsTheRun ==
  /\ outcome = "complete" => number = NumQueries
  /\ QueriesMayEnd(outcome, config.exits, flags, session, Unhintable)

(* The run ends, however the database answers.                             *)
Termination == <>(pc = "ended")

-----------------------------------------------------------------------------
(* What the documentation says, and the code does not do.                  *)

(* README.md:184: "In the event that certain optimizations yield varying   *)
(* results, these discrepancies will be brought to attention."  A timeout  *)
(* of the EXPLAIN (COSTS OFF) of a later optimization skips the validation.*)
DiscrepancyReported == pc = "between" /\ Discrepancy => "failure" \in flags
=============================================================================
