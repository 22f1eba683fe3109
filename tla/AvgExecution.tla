---------------------------- MODULE AvgExecution ----------------------------
(***************************************************************************)
(* utils.calculate_avg_execution_time with collect_execution_plan: run one *)
(* query NumWarmup + max(NumRetries, 2) times in transactions that are     *)
(* always rolled back, collect its result hash, plan and times, replace    *)
(* outliers with up to MaxAdditional reruns, and answer with the average.  *)
(*                                                                         *)
(* Every statement goes through DbSession!EvaluateSql, so a timeout, a     *)
(* swallowed error, an error and a lost connection may happen anywhere.    *)
(***************************************************************************)
EXTENDS Outliers, DbSession, FiniteSetsExt

CONSTANTS
  NumRetries,     \* --num-retries
  NumWarmup,      \* --num-warmup
  MaxAdditional,  \* max_additional_runs, 5 in the code
  Times,          \* the times a run may take, in milliseconds
  Modes           \* the kinds of call to consider, a subset of Mode

(* A call: is the measured statement EXPLAIN ANALYZE (server side), does   *)
(* the text look like DML, has it a LIMIT without ORDER BY, are query      *)
(* statistics collected, is exit-on-fail on, has the caller just SET a     *)
(* statement_timeout.                                                      *)
Mode == [analyze : BOOLEAN, dml : BOOLEAN, limitOnly : BOOLEAN,
         stats : BOOLEAN, exits : BOOLEAN, timeout : BOOLEAN]

ASSUME AvgAssumption ==
  /\ NumRetries \in Nat /\ NumWarmup \in Nat /\ MaxAdditional \in Nat
  /\ Times \subseteq Nat /\ Times # {}
  /\ Modes \subseteq Mode

VARIABLES
  mode,           \* the call
  pc,             \* the next thing the call does
  iter,           \* iteration
  session,        \* the database session
  flags,          \* config.has_failures, config.has_warnings
  statsReset,     \* stats_reset
  planCollected,  \* execution_plan_collected
  all,            \* all_execution_times, as samples
  kept,           \* execution_times
  plans,          \* the samples whose plan is in execution_plans
  additional,     \* additional_runs
  needed,         \* reruns left of this batch, from runs_needed down
  rerunFailed,    \* rerun_failed
  query,          \* execution_time_ms, error_message, result_hash, execution_plan
  answer,         \* how the call ended, "none" while it runs
  failedSample    \* history: a sample was counted for a failed statement

vars == <<mode, pc, iter, session, flags, statsReset, planCollected, all, kept,
          plans, additional, needed, rerunFailed, query, answer, failedSample>>

-----------------------------------------------------------------------------
(* The loop's shape.                                                       *)

Retries == IF NumRetries > 2 THEN NumRetries ELSE 2

Iterations == Retries + NumWarmup

(* Where an iteration starts: statistics are reset once, before the first  *)
(* iteration that is not a warm-up.                                        *)
FirstStep(i) == IF mode.stats /\ i >= NumWarmup /\ ~statsReset
                THEN "reset" ELSE "prepare"

(* What an iteration does once prepared. *)
MainStep == IF iter = 0 THEN "result"
            ELSE IF iter < NumWarmup THEN "warmup"
            ELSE IF mode.analyze \/ planCollected THEN "measure" ELSE "plan"

(* An execution_plan: none yet, an EXPLAIN of its own, the empty one, or   *)
(* the output of the measured run that took this time.                     *)
Plan(kind, time) == [kind |-> kind, time |-> time]

NoPlan == Plan("none", 0)

\* Slip: a timeout ends the iteration, not the call.
Slip_AnswerTo(raised) == IF raised \in {"none", "QueryCanceled"} THEN "none"
                         ELSE IF raised = "DatabaseError" THEN "false"
                         ELSE IF raised = "InterfaceError" THEN "raised" ELSE "exit"

(* Which exception ends the call with which answer: QueryCanceled and      *)
(* DatabaseError are caught, the others leave the function.                *)
AnswerTo(raised) == IF raised = "none" THEN "none"
                    ELSE IF raised \in {"QueryCanceled", "DatabaseError"} THEN "false"
                    ELSE IF raised = "InterfaceError" THEN "raised" ELSE "exit"

\* Slip: a database error keeps its message to itself.
Slip_Recorded(q, raised) ==
  IF raised = "QueryCanceled" THEN [q EXCEPT !.time = "timeout", !.error = "Timeout"] ELSE q

Recorded(q, raised) ==
  IF raised = "QueryCanceled" THEN [q EXCEPT !.time = "timeout", !.error = "Timeout"]
  ELSE IF raised = "DatabaseError" THEN [q EXCEPT !.time = "zero", !.error = "DatabaseError"]
  ELSE q

(* The try of an iteration around one statement with reply r.              *)
Settle(r, raised, q, next) ==
  /\ session' = r.session
  /\ flags' = flags \cup r.flags
  /\ answer' = AnswerTo(raised)
  /\ query' = Recorded(q, raised)
  /\ pc' = IF raised = "none" THEN next ELSE "rollback"

-----------------------------------------------------------------------------
Init ==
  /\ mode \in Modes
  /\ flags \in {{}, {"failure"}}
  /\ session \in {s \in Session :
       \/ s.alive /\ s.limit = mode.timeout /\ (s.limit \/ s.props => s.txn)
       \/ s = Lost /\ "failure" \in flags /\ ~mode.exits}
  /\ iter = 0
  /\ statsReset = FALSE
  /\ planCollected = FALSE
  /\ pc = FirstStep(0)
  /\ all = {} /\ kept = {} /\ plans = {}
  /\ additional = 0 /\ needed = 0 /\ rerunFailed = FALSE
  /\ query = [time |-> "zero", error |-> "none", hash |-> FALSE, plan |-> NoPlan]
  /\ answer = "none"
  /\ failedSample = FALSE

ResetStats ==
  /\ pc = "reset"
  /\ \E r \in EvaluateSql(session, Ran(session), FALSE, mode.exits) :
       /\ Settle(r, r.raised, query, "prepare")
       /\ statsReset' = (r.raised = "none")
  /\ UNCHANGED <<mode, iter, planCollected, all, kept, plans, additional, needed,
                 rerunFailed, failedSample>>

Prepare ==
  /\ pc = "prepare"
  /\ \E r \in PrepareQueryExecution(session, mode.exits) :
       Settle(r, r.raised, query, MainStep)
  /\ UNCHANGED <<mode, iter, statsReset, planCollected, all, kept, plans,
                 additional, needed, rerunFailed, failedSample>>

(* Iteration 0: the query itself, for its cardinality and hash.  DML is    *)
(* hashed by its row count and LIMIT without ORDER BY by a constant: no    *)
(* row is read, so a swallowed error goes unnoticed here.                  *)
CollectResult ==
  /\ pc = "result"
  /\ \E r \in EvaluateSql(session, Ran(session), FALSE, mode.exits) :
       LET raised == IF mode.dml \/ mode.limitOnly THEN r.raised ELSE Fetched(r)
       IN  Settle(r, raised, [query EXCEPT !.hash = (raised = "none")], "rollback")
  /\ UNCHANGED <<mode, iter, statsReset, planCollected, all, kept, plans,
                 additional, needed, rerunFailed, failedSample>>

(* drain_result reads no row for DML. *)
Drained(r) == IF mode.dml THEN r.raised ELSE Fetched(r)

Warmup ==
  /\ pc = "warmup"
  /\ \E r \in EvaluateSql(session, Ran(session), FALSE, mode.exits) :
       Settle(r, Drained(r), query, "rollback")
  /\ UNCHANGED <<mode, iter, statsReset, planCollected, all, kept, plans,
                 additional, needed, rerunFailed, failedSample>>

(* collect_execution_plan catches only the timeout; its own rollback may   *)
(* fail like any other.                                                    *)
PlanTimedOut == [time |-> "zero", error |-> "PlanTimeout", hash |-> query.hash,
                 plan |-> Plan("empty", 0)]

\* Slip: nothing is prepared again after the plan's rollback.
Slip_AfterPlan == "measure"

AfterPlan == "reprepare"

CollectPlan ==
  /\ pc = "plan"
  /\ planCollected' = TRUE
  /\ \E r \in EvaluateSql(session, Ran(session), FALSE, mode.exits) :
       \/ /\ Fetched(r) = "none"
          /\ \E b \in Rollback(r.session) :
               Settle(b, b.raised, [query EXCEPT !.plan = Plan("explain", 0)], AfterPlan)
       \/ Fetched(r) = "QueryCanceled" /\ Settle(r, "none", PlanTimedOut, AfterPlan)
       \/ Fetched(r) \notin {"none", "QueryCanceled"} /\ Settle(r, Fetched(r), query, "rollback")
  /\ UNCHANGED <<mode, iter, statsReset, all, kept, plans, additional, needed,
                 rerunFailed, failedSample>>

PrepareAgain ==
  /\ pc = "reprepare"
  /\ \E r \in PrepareQueryExecution(session, mode.exits) :
       Settle(r, r.raised, query, "measure")
  /\ UNCHANGED <<mode, iter, statsReset, planCollected, all, kept, plans,
                 additional, needed, rerunFailed, failedSample>>

(* EXPLAIN ANALYZE of DML is read as "N updates", which holds no time: -1. *)
SampleTimes == IF mode.analyze /\ mode.dml THEN {-1} ELSE Times

NewSample(t) == <<t, Cardinality({s \in all : TimeOf(s) = t}) + 1>>

\* Slip: a sample is missing from the list of all of them.
Slip_Sampled(raised, sample) ==
  /\ kept' = IF raised = "none" THEN kept \cup {sample} ELSE kept
  /\ UNCHANGED <<all, plans>>

(* A sample is appended with its plan if the statement raised nothing.     *)
Sampled(raised, sample) ==
  IF raised = "none"
  THEN /\ all' = all \cup {sample}
       /\ kept' = kept \cup {sample}
       /\ plans' = IF mode.analyze THEN plans \cup {sample} ELSE plans
  ELSE UNCHANGED <<all, kept, plans>>

Measured ==
  /\ pc = "measure"
  /\ \E r \in EvaluateSql(session, Ran(session), FALSE, mode.exits), t \in SampleTimes :
       /\ Settle(r, Drained(r), query, "rollback")
       /\ Sampled(Drained(r), NewSample(t))
       /\ failedSample' = (failedSample \/ (Drained(r) = "none" /\ ~r.rows))
  /\ UNCHANGED <<mode, iter, statsReset, planCollected, additional, needed, rerunFailed>>

EndTransaction == \E r \in Rollback(session) : session' = r.session

\* Slip: a warm-up does not count as an iteration.
Slip_NextIteration == IF iter < NumWarmup THEN iter ELSE iter + 1

NextIteration == iter + 1

(* The finally of an iteration: up to five rollbacks, no failure of which  *)
(* is reported to anybody but the log.                                     *)
EndIteration ==
  /\ pc = "rollback"
  /\ EndTransaction
  /\ \/ /\ answer = "none"
        /\ iter' = NextIteration
        /\ pc' = IF NextIteration < Iterations THEN FirstStep(NextIteration) ELSE "outliers"
     \/ answer # "none" /\ pc' = "done" /\ UNCHANGED iter
  /\ UNCHANGED <<mode, flags, statsReset, planCollected, all, kept, plans,
                 additional, needed, rerunFailed, query, answer, failedSample>>

-----------------------------------------------------------------------------
(* Outlier detection. *)

\* Slip: the rejected times are compared, not the clean ones.
Slip_WithTimesOf(ps, samples) == {p \in ps : \A s \in samples : TimeOf(s) # TimeOf(p)}

(* execution_plans keeps the plans whose time is among those retained: the *)
(* code compares times, so equal times stand or fall together.             *)
WithTimesOf(ps, samples) == {p \in ps : \E s \in samples : TimeOf(s) = TimeOf(p)}

\* Slip: one rerun for every outlier, whatever was spent before.
Slip_RunsNeeded == Cardinality(OutliersIn(kept))

RunsNeeded ==
  LET n == Cardinality(OutliersIn(kept))
  IN  IF n < MaxAdditional - additional THEN n ELSE MaxAdditional - additional

DetectOutliers ==
  /\ pc = "outliers"
  /\ \/ /\ additional < MaxAdditional
        /\ OutliersIn(kept) # {}
        /\ kept' = CleanTimes(kept)
        /\ plans' = WithTimesOf(plans, CleanTimes(kept))
        /\ needed' = RunsNeeded
        /\ pc' = "rerunPrepare"
     \/ /\ additional >= MaxAdditional \/ OutliersIn(kept) = {}
        /\ pc' = "finish"
        /\ UNCHANGED <<kept, plans, needed>>
  /\ UNCHANGED <<mode, iter, session, flags, statsReset, planCollected, all,
                 additional, rerunFailed, query, answer, failedSample>>

(* The try of a rerun: a timeout or database error only ends the reruns.   *)
SettleRerun(r, raised, next) ==
  /\ session' = r.session
  /\ flags' = flags \cup r.flags
  /\ rerunFailed' = (raised \in {"QueryCanceled", "DatabaseError"})
  /\ answer' = IF raised \in {"InterfaceError", "SystemExit"} THEN AnswerTo(raised) ELSE "none"
  /\ pc' = IF raised = "none" THEN next ELSE "rerunRollback"

RerunPrepare ==
  /\ pc = "rerunPrepare"
  /\ additional' = additional + 1
  /\ \E r \in PrepareQueryExecution(session, mode.exits) : SettleRerun(r, r.raised, "rerun")
  /\ UNCHANGED <<mode, iter, statsReset, planCollected, all, kept, plans, needed,
                 query, failedSample>>

Rerun ==
  /\ pc = "rerun"
  /\ \E r \in EvaluateSql(session, Ran(session), FALSE, mode.exits), t \in SampleTimes :
       /\ SettleRerun(r, Drained(r), "rerunRollback")
       /\ Sampled(Drained(r), NewSample(t))
       /\ failedSample' = (failedSample \/ (Drained(r) = "none" /\ ~r.rows))
  /\ UNCHANGED <<mode, iter, statsReset, planCollected, additional, needed, query>>

\* Slip: the first clean batch ends the search.
Slip_AfterRerun == IF needed > 1 /\ ~rerunFailed THEN "rerunPrepare" ELSE "finish"

AfterRerun == IF rerunFailed THEN "finish"
              ELSE IF needed > 1 THEN "rerunPrepare" ELSE "outliers"

EndRerun ==
  /\ pc = "rerunRollback"
  /\ EndTransaction
  /\ needed' = needed - 1
  /\ pc' = IF answer = "none" THEN AfterRerun ELSE "done"
  /\ UNCHANGED <<mode, iter, flags, statsReset, planCollected, all, kept, plans,
                 additional, rerunFailed, query, answer, failedSample>>

-----------------------------------------------------------------------------
(* The average and the plan that stands for it. *)

FinalTimes == IF Cardinality(CleanTimes(kept)) >= 2 THEN CleanTimes(kept) ELSE kept

SumOfTimes(samples) == MapThenSumSet(TimeOf, samples)

(* |t - average|, scaled by the number of samples. *)
FromAverage(sample, samples) ==
  Distance(TimeOf(sample) * Cardinality(samples), SumOfTimes(samples))

\* Slip: any plan will do.
Slip_Representatives == WithTimesOf(plans, FinalTimes)

Representatives ==
  {p \in WithTimesOf(plans, FinalTimes) :
     \A o \in WithTimesOf(plans, FinalTimes) :
       FromAverage(p, FinalTimes) <= FromAverage(o, FinalTimes)}

(* The query with its average; "sample" is the run whose plan it shows.    *)
Averaged == [query EXCEPT !.time = "average"]

AveragedWithPlan(sample) ==
  [Averaged EXCEPT !.plan = Plan("sample", TimeOf(sample))]

(* "kept" is from here on the list the average is taken of, execution_times. *)
Finish ==
  /\ pc = "finish"
  /\ kept' = FinalTimes
  /\ \/ /\ mode.analyze
        /\ \E p \in Representatives : query' = AveragedWithPlan(p)
     \/ ~mode.analyze /\ query' = Averaged
  /\ pc' = IF mode.stats THEN "stats" ELSE "done"
  /\ answer' = IF mode.stats THEN "none" ELSE "true"
  /\ UNCHANGED <<mode, iter, session, flags, statsReset, planCollected, all, plans,
                 additional, needed, rerunFailed, failedSample>>

(* collect_query_statistics swallows every exception and leaves its        *)
(* transaction open; only exit-on-fail gets through.                       *)
CollectStatistics ==
  /\ pc = "stats"
  /\ \E r \in EvaluateSql(session, Ran(session), TRUE, mode.exits) :
       /\ session' = r.session
       /\ flags' = flags \cup r.flags
       /\ answer' = IF r.raised = "SystemExit" THEN "exit" ELSE "true"
  /\ pc' = "done"
  /\ UNCHANGED <<mode, iter, statsReset, planCollected, all, kept, plans,
                 additional, needed, rerunFailed, query, failedSample>>

Returned == pc = "done" /\ UNCHANGED vars

Next ==
  \/ ResetStats \/ Prepare \/ CollectResult \/ Warmup \/ CollectPlan
  \/ PrepareAgain \/ Measured \/ EndIteration
  \/ DetectOutliers \/ RerunPrepare \/ Rerun \/ EndRerun
  \/ Finish \/ CollectStatistics
  \/ Returned

(* The program is one thread and every call of the driver returns: what    *)
(* can be done next is done.                                               *)
Spec == Init /\ [][Next]_vars /\ WF_vars(Next)

-----------------------------------------------------------------------------
(* Properties. *)

Steps == {"reset", "prepare", "result", "warmup", "plan", "reprepare", "measure",
          "rollback", "outliers", "rerunPrepare", "rerun", "rerunRollback",
          "finish", "stats", "done"}

Samples == ({-1} \cup Times) \X (Nat \ {0})

Query == [time : {"zero", "timeout", "average"},
          error : {"none", "Timeout", "DatabaseError", "PlanTimeout"},
          hash : BOOLEAN,
          plan : [kind : {"none", "empty", "explain", "sample"}, time : Int]]

(* Every variable has its type. *)
TypeOK ==
  /\ mode \in Modes /\ pc \in Steps /\ iter \in 0..Iterations
  /\ session \in Session /\ flags \in SUBSET Flags
  /\ statsReset \in BOOLEAN /\ planCollected \in BOOLEAN
  /\ all \in SUBSET Samples /\ kept \in SUBSET all /\ plans \in SUBSET all
  /\ additional \in Nat /\ needed \in Int /\ rerunFailed \in BOOLEAN
  /\ query \in Query
  /\ answer \in {"none", "true", "false", "raised", "exit"}
  /\ failedSample \in BOOLEAN

(* A statement that is timed runs under the session properties and the     *)
(* query's own SETs, although every rollback, the plan's included, undoes  *)
(* them; only a run already flagged as failing may miss them.              *)
TimedUnderSessionProps ==
  pc \in {"measure", "rerun"} /\ session.alive => session.props \/ "failure" \in flags

(* A sample is counted for a statement that failed only in a run flagged   *)
(* as failing: evaluate_sql swallows the error, drain_result reads no row  *)
(* of DML, and the flag is all that tells.                                 *)
FailedSampleFlagged == failedSample => "failure" \in flags

(* The average is taken of at least one sample, whatever num-retries and   *)
(* num-warmup are: no division by zero.                                    *)
SomethingToAverage == pc = "finish" => kept # {}

(* Outlier reruns never exceed max_additional_runs in total.               *)
RerunBudget == additional <= MaxAdditional

(* Every retained time of an EXPLAIN ANALYZE still has its plan, through   *)
(* all filtering and rerunning: min() over retained_plans finds one.       *)
KeptHavePlans == mode.analyze => kept \subseteq plans

(* When the budget is not spent and no rerun failed, the list the average  *)
(* is taken of holds no outlier any more.                                  *)
SettledMeansClean ==
  pc = "finish" /\ additional < MaxAdditional /\ ~rerunFailed => OutliersIn(kept) = {}

(* The plan reported with an average is the output of a run that counts in *)
(* that average, and no other such run is nearer to it.                    *)
PlanStandsForAverage ==
  answer = "true" /\ mode.analyze =>
    \E p \in kept : /\ query.plan = Plan("sample", TimeOf(p))
                    /\ \A o \in kept : FromAverage(p, kept) <= FromAverage(o, kept)

(* The caller gets the session back without the measured transaction; only *)
(* the statistics query leaves one open.                                   *)
HandedBackRolledBack ==
  pc = "done" /\ session.txn => mode.stats /\ answer = "true" /\ ~session.props

(* Each call ends, however the database answers.                           *)
Termination == <>(pc = "done")

(* The call implements Measure: it ends once, in one of its four ways.     *)
Contract == INSTANCE Measure WITH exitOnFail <- mode.exits

MeasureSpec == Contract!Spec

-----------------------------------------------------------------------------
(* What the documentation says, and the code does not do.                  *)

(* README.md:177: all optimizations are evaluated "with maximum query      *)
(* timeout equal to current minimum execution time".  The SET is undone by *)
(* the rollback that ends iteration 0.                                     *)
TimedUnderTimeout ==
  pc \in {"measure", "rerun"} /\ session.alive /\ mode.timeout /\ flags = {} => session.limit
=============================================================================
