# TLA+ models of TAQO

TAQO measures the quality of a query optimizer: for every query of a model it
asks the database for the plan and the time of the query as it is and under
many hint sets, and reports how far the optimizer's own choice is from the best
one found. The program is one Python thread that drives an external database
over one connection; nothing in it runs concurrently. What makes it hard is the
other end of the connection: every statement may time out, fail, fail silently,
or lose the connection, every transaction is rolled back (and with it every
`SET`), and the outcome of each failure is carried by sentinels (`-1`, `0`,
`None`) stored where times and hashes are stored.

This directory holds specifications of that logic, TLC configurations that
check them on small instances, and TLAPS proofs for all instances.
Paths below are relative to the repository's `src/` unless they name a module.

## 1. Inventory

| component | code | state it keeps | operations | hard behaviours | what makes it correct |
|---|---|---|---|---|---|
| SQL execution, session | `utils.py` `evaluate_sql`, `_safe_rollback`; `db/postgres.py` `prepare_query_execution`, `set_query_timeout` | the connection, its open transaction, the `SET`s in force, `has_failures`, `has_warnings` | execute, fetch, roll back, prepare, set a timeout | `OperationalError` is swallowed; `QueryCanceled` flags nothing; a closed connection gives `InterfaceError`, which is no `DatabaseError`; a rollback undoes `SET`s | no failure goes unflagged; no statement runs under settings the code believes in and the server has dropped |
| Measuring | `utils.py` `calculate_avg_execution_time`, `collect_execution_plan`, `_filter_outliers` | samples, retained samples, their plans, rerun budget, fields of the query | warm-up, measure, collect the plan, filter, rerun, average | two lists kept in step by comparing times; loops with flags, breaks and returns inside `finally` | the average is of clean samples taken under the session properties; the plan shown belongs to it; a failed call leaves the right sentinel |
| Evaluating queries | `actions/collect.py` `evaluate_testing_queries`, `evaluate_optimizations`, `define_min_execution_time`, `validate_result_hash` | the query, its optimizations, the running minimum, the plans checked, the timeout in force | explain, measure, tighten the timeout, skip duplicates, validate | exceptions leave from the middle of the loop, and one that is no `psycopg2.Error` ends the run; one query's session reaches the next | one query never disturbs another; a plan is measured once; differing results are found |
| Best optimization | `db/postgres.py` `get_best_optimization`, `utils.py` `allowed_diff` | the best so far | one pass | sentinels among times; an asymmetric relative difference | the answer succeeded, is the fastest, and is a real gain |
| Collect run | `actions/collect.py` `evaluate`, `run_ddl_and_testing_queries`; `runner.py` | database created or dropped, results stored, exit code | create, load, evaluate, store, drop | a failure at any point with a `finally` that fails itself | results are stored when there are any, whatever the clean-up does; the exit code tells what happened |
| Model loading | `models/sql.py` | tables, recorded DDL | execute DDL files, load the catalog | endless retry on RPC errors, three attempts on serialization failures | each statement executed until it succeeds and recorded |
| Hint generation | `db/postgres.py` `Leading`, `PGListOfOptimizations`; `objects.py` `filter_optimization_tips` | joins, scan hints, the list of optimizations | three generators, tips, multiplication by GUCs | boundaries of `all-pairs-threshold`; one tips object shared by all optimizations | the list covers what the generator for its size promises; tips exclude what they say; a GUC stays with its copy |
| YugabyteDB operations | `db/yugabyte.py` | external processes | start, stop, flush, compact | retries with waiting | every table compacted or the run told |
| Plans and plan trees | `db/postgres.py` `parse_plan`, `compare_plans`; `objects.py`; `actions/reports/cost_metrics.py` | nodes, classifiers | clean, compare, parse, classify | plans missing or never analyzed; one classifier object for all plans | what a plan shows is what is recorded of it |
| Reports | `actions/reports/*.py` | pairs of queries, counters, lists | pair, classify, count, publish | sentinels and missing plans in several loops that nothing guards; the same number computed in several places; latched flags; pairing by position | a query is compared with itself, listed in the right class, and the places of a report agree; one query does not cost the others the report |
| Cost report | `actions/reports/cost.py`, `cost_metrics.py`, `cost_chart_specs.py` | scans by query text, classifiers, plot data | collect, classify, chart | plans skipped, cut or repaired; outliers taken out of the lists that are drawn | each scan executed comes into the charts once |
| Stored results | `collect.py`, `objects.py` `CollectResult` | JSON files | load, store, find by hash | queries one file lacks, has twice, or in another order | the counterpart found is the same query |
| Command line, configuration | `runner.py`, `config.py` | options | parse, dispatch | | |

How they interact: `runner` builds `Config` and calls `CollectAction.evaluate`,
which loads the model and calls `evaluate_testing_queries`; that calls the hint
generator and `calculate_avg_execution_time`, both on the one cursor; everything
goes through `evaluate_sql`, which writes the two flags that become the exit
code. The reports read the stored results and call `get_best_optimization`, and
so does a run with a baseline. A report is a sequence of loops over the pairs of
queries it compares; it is published after the last of them, and an exception in
any leaves nothing.

## 2. Modules

| module | stands for | extends |
|---|---|---|
| `DbSession` | the connection and `evaluate_sql`: for each kind of call the set of replies it may give. No variables | |
| `Outliers` | `_filter_outliers` as operators on sets of samples | |
| `Measurement` | how a measurement may end: answers, fields, sessions handed back | `DbSession` |
| `Measure` | the abstract specification of one measurement: it works, then returns once in one of four ways | `Measurement` |
| `AvgExecution` | `calculate_avg_execution_time`, one action per statement or block of it; implements `Measure` | `Outliers`, `DbSession` |
| `EvaluateQueries` | `evaluate_testing_queries` with all it calls in `collect.py`; a measurement is one step that ends as `Measurement` says | `Measurement`, `Phases` |
| `BestOptimization` | `get_best_optimization` with `allowed_diff` | |
| `Phases` | how the two long phases of a run may end | `DbSession` |
| `DdlSteps` | `create_tables`: the DDL files with their retries, and the catalog queries | `Phases` |
| `Compaction` | `run_compaction`: steps that `CollectRun` takes | |
| `CollectRun` | `evaluate` with all it calls, and the exit code | `Phases`, an instance of `Compaction` |
| `OptimizationList` | which optimizations a query gets: `Leading.construct`, the tips, the GUCs | |
| `StoredResults` | what result files hold, and what the reports ask of them: best optimization, same plan, counterpart. No variables | |
| `ReportLoop` | the loop over pairs of queries that all reports have, ended by the first exception | `StoredResults` |
| `ScoreReport`, `RegressionReport`, `TaqoReport`, `SelectivityReport` | one report each (`score_stats` with `score`): its loops, in order, and what each computes | `ReportLoop` |
| `PlanTree` | `parse_plan` and the classifiers of `cost_metrics.py`. No variables | |
| `CostReport` | the cost report, on the plans `PlanTree` reads | `ReportLoop`, `PlanTree` |
| `Reports` | the report action: its type, its files, one of the reports; the properties common to them | the five reports |
| `MC*` | the instances TLC checks | |
| `*_proofs` | theorems and their proofs | the module of that name |

`AvgExecution` and `EvaluateQueries` meet in `Measurement`: `AvgExecution`
checks that a call only ends in the ways it lists (`MeasureSpec`, a refinement),
and `EvaluateQueries` is built on those ways and no others.

`DdlSteps`, `EvaluateQueries` and `CollectRun` meet in `Phases` in the same way:
`DdlMayEnd` and `QueriesMayEnd` relate how a phase ends to the options, the flags,
the connection and, for the queries, whether one was met whose hints cannot be
generated. `DdlSteps` (`EndsAsAgreed`) and `EvaluateQueries`
(`NothingElseStopsTheRun`) keep these contracts, and in `CollectRun` each phase
is one step that ends in any way its contract allows.

### DbSession

A session is a record `alive`, `txn`, `props`, `limit`. `EvaluateSql(s, done, ..)`
is the set of replies to one statement: success (`done`), a timeout
(`QueryCanceled`, rolled back and raised, no flag), an error that is swallowed
(`OperationalError`, `ConfigurationLimitExceeded`: rolled back, flagged, not
raised, no rows), one that is raised again (rolled back, flagged), the exit when
`exit-on-fail` is on, and the server gone while the handler rolls back (raised
without a flag, because `_safe_rollback` lets an `OperationalError` through).
On a closed connection there is only `InterfaceError`. `Fetched` adds what
reading the rows of a swallowed failure does. Two things about the driver and
the server are assumed: with autocommit off the first statement opens a
transaction, and a rollback undoes the `SET`s of its transaction.
`PrepareQueryExecution` supposes at least one session property, as
`config/default.conf` has.

### AvgExecution

`pc` is the next block of the function; `iter`, `statsReset`, `planCollected`,
`additional` and `rerunFailed` are the locals of nearly the same name;
`all`, `kept` and `plans` are `all_execution_times`, `execution_times` and
`execution_plans`. A list of times is a set of samples `<<t, k>>`, the k-th
sample with time `t`; the code compares values and never positions. The
code's filter of `execution_plans` compares times, so `WithTimesOf` does too.
`query` keeps of the query object which kind of time, message, hash and plan it
has. `failedSample` is history and steers nothing.

### EvaluateQueries

`pc` walks through `evaluate_testing_queries` and `evaluate_optimizations`
statement by statement, `Except` is their except clauses, `EndQuery` the
rollback after a query with the step to the next one. A query is a `Kind`: what
the code asks of its text and tips. `opts` is `original_query.optimizations`,
of each its time, hash, message and costs-off plan, and (history) whether it was
measured. `get_list_optimizations` may raise a `ValueError` (`kind.raises`; when it
does is in `OptimizationList`): `except Exception: raise e` lets it out
(`actions/collect.py:198-200`), past the rollback after the query, and the run over
all queries is over. Left out: the reported plan texts, cardinalities,
`optimization.query_hash` (overwritten for `now()` queries at
`actions/collect.py:222`; afterwards only the links of the cost report read it),
progress bars and counters shown on them, and what parsing a plan may raise.

### BestOptimization

`time` is the list of times, 0 the query itself. Division in `allowed_diff` is
multiplied out.

### DdlSteps

The connection is in autocommit mode, so a failed statement leaves nothing to
roll back. A script gives for each of the four steps (drop, create, import,
analyze, in the order of the code) the kinds of statements of its file; a file
that is missing is empty. `ExecuteStatement` is an attempt after which the loop
`while not executed` is left, by success, by a failure `evaluate_sql` swallows, by
a CREATE STATISTICS whose failure is ignored, or by an exception;
`RetryStatement` is one whose error mentions RPC. A COPY is done by psycopg2 past
`evaluate_sql`: nothing is flagged. `recorded` is `model_queries`, as positions in
the file (the code records a statement again with every attempt); `fate` and
`applied` are history: what became of each statement, and how often it may have
taken effect. `answered` is the set of catalog queries that were answered; their
rows are only "tables found or not".

### Compaction

One action per call of `yb-admin`, in the order of the code; waiting is left out.
`retries` is the counter of the code; `asked`, `attempts` and `compacted` are
history. The module has no specification of its own: `CollectRun` takes its steps
(`C!Next`) while it is at `compact`.

### CollectRun

`pc` is the next call of `evaluate` or of its finally clause. `server`,
`database`, `connection` and `session` are the outside world: whether the server
runs, whether the test database exists, where the connection leads. An
exception (`Raise`) goes to the finally clause or, when raised before the `try` or
in the clause itself, out of the program. `stop_database` and `start_db` are
external commands: one step each, with any effect on the server. A `CREATE` or
`DROP DATABASE` whose answer is lost may have been carried out.

### OptimizationList

One action per pass over the list: `Construct` fills the two lists of `Leading`
with the generator that the number of tables selects, `AddJoins` and `AddScans`
are the loops of `PGListOfOptimizations` that filter them by tips, `Multiply`
adds the copies for the user's GUCs. A hint is the order of the tables, their
joins and their scans; a tip excludes or asks for a kind of join or scan. Of
`AllPairs` only what it promises is used: each two values of different
parameters occur together, the rest of a combination being anything.
`get_all_pairs_with_all_table_permutations` hands it the list of pairwise joins as
one parameter, so every join vector of that list meets every order. Tips are an
object the optimizations share with their query (`"shared"`), or a copy (`"own"`).

### StoredResults and ReportLoop

A stored query has a hash, a tag, a time with its sentinels, a plan, a
costs-off plan, a result and its optimizations. `ResultFile` is what `collect` can
have stored: queries in the order of the model's files and statements, their hashes
in any order and perhaps repeated (`CollectResult.append` would sort them, but has no
caller). `Storable` is what
its sentinels imply: a query whose EXPLAIN failed has neither time nor
optimizations, and an optimization that was timed has a plan and a result. `SamePlan`
is `compare_plans`: a plan equals a missing one, because `get_clean_plan(None)`
cleans the plan of the query itself. `Best` is `get_best_optimization` in one
step: the first of the fastest, if it gains enough (the scan is
`BestOptimization`). `Sorted` is Python's stable sort, by the place a member has
among the others; `ByTag` sorts by the first use of the tag, which is the order of
the dictionaries of the code. In `ReportLoop`, `pairs` are the queries put together by
`generate_report`, `phase` is the loop the report is in, `pos` the pair it has come
to, `tally` what it has counted and marked: a record of its own for each
report. `Crash` is any exception; nothing catches one.

### The reports

Each loop of a report is one action that looks at one pair (`Turn`); what it reads
that may be missing decides whether it crashes, in the order the code reads it.
Queries are grouped by tag (`ByTag`), as the dictionaries of the code are. The
score report takes the same decisions in the summary, the table, the pages and
`score_stats`; each is translated by itself, so that their agreement is a property
and no assumption. In the regression report `hasOpts` is `v2_has_optimizations`,
which latches, while the pages ask each query; a geometric mean is kept as
the set of ratios it is taken of. Nothing sets `compare_with_pg`, and nothing
`diff_scanned_rows`, so they are left out; the RPC counters of
`db/postgres.py:611-641` convert the whole plan instead of the number in it, which
fails, and are 0.

`PlacesAgree` (the places of a report that tell one thing tell the same) and
`ListsTell` (a list, class or colour says what is true of the query) are
conjunctions of a part for each report, stated in its module: `ScoreAgrees`,
`ScoreStatsAgree`, `RegressionAgrees`, `ShortSummaryTells`; `GreenMeansFast`,
`EachInOneClass`, `BetterMeansBetter`, `NoGainIsMissed`, `FailedMeansDifferent`,
`ListedAsItWent`.

### PlanTree and CostReport

A plan is the sequence of the pieces its text is cut into at every `->`: a node,
or a piece without a header, at which parsing ends (an arrow in an expression
makes one). All nodes of a parsed plan are visited in the order of the text
(`parse_plan` hangs every node below the root), so the tree is a sequence.
`Classified` is one traversal with the classifier object that the plan before it
has left behind: `FlagsUpTo` is what the nodes visited so far have set in it, and
`NoFilterIndex` the one flag that looks at that while it is set.

`add_query` is a step for each plan (`AddPlan`: `process_plan` and the merge after
it, or nothing for a plan that is skipped) and one for its entries
(`AddCostQuery`); `ctx` is its context, `ctx.at` the plan it has come to. The maps
have the text of the query as key, so that the last of two queries with one text
remains. The queries come sorted by tag
and text (`Rank`; a hash number stands for the text's place among the texts).
`CollectPoints` takes the points of one text into every series of a chart,
in the order of the dictionary (the code has the charts in the outer loop; the two
orders fill the same lists). `DrawChart` finds the outliers of one series, which
are any set that less than a fourth of the points can be; `RemoveOutlier` takes
one of them out of the points that are plotted, the last first, as the code does
to keep the indices of the others right. `left` are the indices still to come and
`judged` (history) the points that were found to be outliers.

## 3. Runs

| run | instance | asks |
|---|---|---|
| `avg_safety` | 5 runs, 1 warm-up, 5 reruns, times 200/600/700/2000 ms, all 64 kinds of call | `TypeOK`, `TimedUnderSessionProps`, `FailedSampleFlagged`, `RerunBudget`, `KeptHavePlans`, `SettledMeansClean`, `PlanStandsForAverage`, and the refinement `MeasureSpec` |
| `avg_ends` | 4 runs, 2 warm-ups, 3 reruns | `SomethingToAverage`, `Termination` |
| `best` | up to 4 optimizations, times on both sides of the 5 % difference, both sentinels | `BestIsFastest`, `OnlyRealGains` |
| `evaluate_queries` | 1 query, 3 optimizations, 2 plans, 2 hashes, 2 times | `MinIsMinimum`, `CurrentLimit`, `OncePerPlan`, `DiscrepancyFails` |
| `evaluate_options` | 2 queries, all options, 1 optimization | `TypeOK`, `CleanStart`, `NothingElseStopsTheRun`, `Termination` |
| `ddl_steps` | 4 models of up to 4 statements, every subset of the steps, `exit-on-fail` on and off | `NoStatementLost`, `RecordsFollowTheFile`, `CatalogRead`, `EndsAsAgreed`, `Termination` |
| `collect_run` | all options, up to 2 tables to compact | `ExitCodeTells`, `ResultsOutliveCleanup`, `CleanedUp`, `CompactedBeforeMeasured` |
| `hints` | no to four tables, thresholds -1, 1, 2, 3, indexes, tips, 2 GUCs | `HintsComplete`, `TipsObeyed`, `GucStaysWithCopy` |
| `reports` | files of up to two queries of seven kinds, listed in either order, one text twice; 13 kinds of plan; all six reports | `PairsMatch`, `PublishedOrObstacle`, `RatiosDefined`, `PlacesAgree`, `ListsTell`, `ScansCharted`, `FlagsTell` |

Bounds. The rerun logic compares a few times with a median: with five samples
every split into outliers and clean times occurs that leaves a run going, 500 ms
is the smallest median that is filtered, 200 ms lies below half of every other
median, and 5 reruns is the code's own number. Three optimizations over two
plans give a duplicate, a duplicate of a skipped one, and a new plan after a
duplicate. Two queries are enough for what one leaves to the next, as nothing
but session, limit and flags is carried over; that run has one plan and one
result, and leaves out the kinds of query that differ from others only in how
results are compared; a query without hints is a plain one otherwise, or a dml,
which is not optimized and never asks for them. Plans and hashes are interchangeable, so `evaluate_queries`
uses symmetry (`evaluate_options`, which checks liveness, does not). `collect_run`
has no bound but the tables, of which two show whether one costs the other an
attempt. The runs
terminate: the last step stutters explicitly (`Returned`, `Ended`), so deadlock
is checked everywhere. The four models of `ddl_steps` have every kind of
statement, a statement after an ignored one and after a repeated one, empty
files, and tables found by the create step, later, or never. A statement may be
repeated for ever, so `DdlSteps` keeps two records of one statement
(`MaxRepeats`) and counts its effects up to two: "once" and "more than once" are
all the properties tell apart.

Two queries a file are enough for the reports: what one query leaves to the next
is a counter, a latch or a group of a tag, and the pairing by position goes wrong
with two. The seven kinds of query are what `collect` can store: not optimized;
with a faster optimization and with one that was not measured; with a gain below
the allowed difference and differing results; timed out with an optimization that
came back and with none; failed when measured and failed when explained. For the
cost report the plans have every kind of scan and of condition, nodes not
executed, costs invalid and beyond repair, a plan that was not analyzed or not
collected, and nine scans of one kind, the fewest that can have two outliers, so
that taking out one may shift the other.
Four tables are the fewest above the default threshold 3 of the code; the
thresholds 1 and 2 are where `AllPairs` is given too few parameters.

Fairness, of the modules with a liveness property, is `WF_vars(Next)`: one thread, and every call of the driver returns.
Nothing is assumed of what the database answers, with one exception: the retry
loop of `DdlSteps` has no bound, so that it ends takes an assumption about the
database, that errors that mention RPC do not come back for ever. It is the
conjunct `WF_vars(ExecuteStatement)` of `DdlSteps!Spec`; the safety properties are
proved without fairness (`Safe`).

### What the documentation says and the code does not do

Each of these runs checks one sentence of the documentation, and TLC refutes it.

* `timed_under_timeout` - `README.md:177`: optimizations are evaluated with a
  timeout equal to the current minimum. The rollback that ends iteration 0 of
  the measurement (`utils.py:236`) undoes the `SET`, so no timed run has it (the `SET` of the DDL phase, made in
  autocommit mode, stays in force).
* `discrepancy_reported` - `README.md:184`: varying results are brought to
  attention. A timeout of a later costs-off `EXPLAIN` (`collect.py:294`) leaves
  the loop and skips the validation. `DiscrepancyFails`, which holds, is what is
  left: queries evaluated to their end.
* `joins_above_threshold` - `README.md:140-149`: above `all-pairs-threshold` the
  joins of a query are tried pairwise. `get_all_pairs_combinations`
  (`db/postgres.py:250`) pairs scans only and builds no join; the pairwise joins are
  built for queries of just as many tables as the threshold.

`timed_under_timeout` and `CurrentLimit` belong together: the limit is right
whenever an optimization is explained, and gone when it is timed.

Seen in the models, and not worth a run, or said by a property as an exception:

* Measuring: `utils.py:121` calls times below half the median outliers, and
  `abs(t - med) / med * 100` never exceeds 100 below the median. A tip
  `-- max_timeout: 5s` (`README.md:166`, `175`) becomes the timeout `'5ss'`. The
  `EXPLAIN (COSTS OFF)` that decides about uniqueness (`collect.py:294`) is made
  after the session properties were rolled back.
* Collecting: DDL that takes more than `ddl-query-timeout` is not skipped
  (`README.md:261`), it ends the run with exit code 1. A failed CREATE STATISTICS
  is said to be ignored (`models/sql.py:93`) but has set the flag that ends the run
  with exit code 1. The help of `--clean-db` says "Keep database after test"
  (`runner.py:195`), and it is the option that drops it (`collect.py:72`).
* Hints: at the threshold with one or two tables `AllPairs` raises a `ValueError`
  (`Construct`), which ends the whole collect run (`actions/collect.py:198-200`). The copies for the user's GUCs are plain `Query` objects
  (`create_copy`) whose `get_query` has no hints.
* Reports: `taqo` and `selectivity` pair by position, so files in different orders
  are compared wrongly, and nothing notices. A query that has no plan keeps `score`, `regression`, `taqo`,
  `selectivity` and `cost` from being published (`Obstacle` lists the rest).
  `ratio_x3_str` of `regression` is guarded by the wrong time. With
  `skip-percentage-delta` 0 no difference is allowed, not even none: `taqo` lists
  every query under "better plan found" and `selectivity` one that took as long as
  before as improved, while `regression` has no class for equal times. The short summary
  counts the changed plans of the last tag only. A missing plan equals any other.
* Cost: a link is made of the `query_hash` and the hints of what `get_query`
  returns (`cost.py:223-234`), its anchor of the query's own hash (`cost.py:364`):
  index 0 is taken for none, so that the first optimization's scans link to the
  query's own plan; the optimizations of `now()` queries may have another hash; and
  GUC copies share the anchor of their original. `warn_once` is no method of `PlanNodeCollector`, so
  that a Values or Function scan ends the report. A scan timed at 0.000 divides by
  zero. `has_no_filter_index` depends on the order of the nodes.

## 4. Proofs

All theorems hold for every value of the constants that the `ASSUME`s allow.

* `DbSession_proofs` has the lemmas about replies that all others rest on: their
  types, that nothing raised means done or flagged, that `InterfaceError` means
  a closed connection.
* `AvgExecution_proofs`. Types and session: `TypeCorrect` (`TypeOK`), from the
  inductive invariant `TypeInv`, which adds to the types that what is retained is a
  subset of what was measured and that the iteration stays below its bound;
  `TimedUnderProps` (`TimedUnderSessionProps`), which needs nothing stronger than
  itself and the types: only a preparation leads to a timed statement, and a
  preparation either succeeds or flags the run.
  The samples: `RetainedHavePlans` (`KeptHavePlans`, inductive alone: both
  filters keep equal times together); `FailuresAreFlagged`
  (`FailedSampleFlagged`); `RerunsWithinBudget` (`RerunBudget`), from `BudgetInv`:
  the reruns a batch still needs fit into what is left, the one under way being
  counted already; `SettledIsClean` (`SettledMeansClean`); `NoEmptyAverage`
  (`SomethingToAverage`), from `SampleInv`: an iteration past the first and past
  the warm-ups leaves a sample or an answer, and the filter never rejects all.
  It covers what the run does not, `--num-retries 0` and `--num-warmup 0`.
  The contract: `Implementation`, that a call implements `Measure`, from
  `RunInv`: while there is no answer there is no time and no message but the
  plan's timeout, and once there is one the session is already rolled back, so
  that the rollbacks after it change nothing. `ShownPlanStands`
  (`PlanStandsForAverage`) and `SessionHandedBack` (`HandedBackRolledBack`)
  follow from `ResultInv`, that both hold from the average on.
* `BestOptimization_proofs`: `BestTypes`, `BestGains` (`OnlyRealGains`),
  `BestFastest`, all from `ScanInv`: the best so far succeeded or is the query,
  nothing already looked at beats it, and once there is an answer it is the
  best's or the query's. `BestFastest` also needs that the allowed difference is
  convex: what lies between a time and another within the difference is
  within it (`AllowedBetween`).
* `EvaluateQueries_proofs`: `EvaluateTypes` (`TypeOK`), from `TypeInv`, which
  adds where the loop over the optimizations may be: below the end of the list
  when it appends, past the beginning when it has an optimization at hand;
  `OnlyTheseStopTheRun`
  (`NothingElseStopsTheRun`), from `StopInv`, which says what exception may
  still be on its way to the except clauses, and that only a query to be optimized
  is there for want of hints; `QueriesStartClean` (`CleanStart`),
  inductive with the types; `PlansMeasuredOnce` (`OncePerPlan`), from `OnceInv`:
  what was measured is among the plans checked, and between the check of a new
  plan and its measurement no earlier optimization measured it;
  `MinimumIsLeast` (`MinIsMinimum`), from `MinInv`: in the loop the minimum is the
  least over the optimizations passed (over all but the one at hand between its
  measurement and the new minimum), and the one at hand has no time yet;
  `DiscrepanciesFailTheRun` (`DiscrepancyFails`), from `HashInv`, that before the
  loop there are no optimizations, and `BetweenFrom`, that the flag set by the
  validation is there until the query ends; it rests on
  `ComplaintsAreDiscrepancies`, that comparing each hash with one
  reference finds every difference, wherever it is; `LimitIsCurrent`
  (`CurrentLimit`), from `LimitInv`: while nothing is flagged every statement since
  the `SET` was executed (`SilentlyEvaluated`), so the setting is still there.
* `DdlSteps_proofs`: `DdlTypes` (`TypeOK`), from `TypeInv`, which adds which step is
  at hand where the catalog is read, and that its file is done then;
  `DdlEndsAsAgreed` (`EndsAsAgreed`) and `DdlCatalogRead` (`CatalogRead`), from
  `EndInv`: the queries before the catalog query at hand are answered, and only
  the last of them completes the phase; `DdlLosesNoStatement`
  (`NoStatementLost`), from `LossInv`: every statement before the one at hand is
  accounted for; `DdlRecordsFollowTheFile` (`RecordsFollowTheFile`), from
  `RecInv`: the records end with the statement at hand or the one before it. All
  for files of any length.
* `CollectRun_proofs`: `CollectTypes` (`TypeOK`) and `CompactedFirst`
  (`CompactedBeforeMeasured`), from `CompactionInv`: flushes are asked for in the
  order of the tables; the tables before the one at hand have had all their
  attempts or are compacted, those after it none, and the counter `retries` is one
  ahead of the attempts of the table at hand. `ExitCodesTell` (`ExitCodeTells`),
  `ResultsOutlive` (`ResultsOutliveCleanup`) and `DatabaseDropped` (`CleanedUp`),
  from `RunInv`: an exception is known by the step it was raised at; before the
  clean-up nothing has been raised and nothing is stored, and from then on results
  are stored exactly if there are queries and what failed, if anything, was the
  clean-up; from the step after the drop on, a run without failures has dropped
  the database. For any number of tables.
* `OptimizationList_proofs`: `GucsStayWithCopies` (`GucStaysWithCopy`), from
  `ListInv`, which says after each pass what the list is: the joins that obey the
  tips, the scans if there are none, and a copy of each with each GUC.
  `TipsAreObeyed` (`TipsObeyed`) and `HintsAreComplete` (`HintsComplete`) follow
  from it with lemmas about combinations: a product has every combination of its
  factors' values, in an all-pairs list each value occurs, and each two of
  different parameters occur together, so every vector of the pairwise joins meets
  every order of the tables. `ListTypes` (`TypeOK`): a hint has a join for each table
  but the first, whichever generator made it. For queries of any number of tables.
* `Reports_proofs`: `ReportTypes` (`TypeOK`) and `QueriesMatch` (`PairsMatch`, of
  the reports that pair by hash), from
  `PairsInv` (`TypeInv` with the stored queries): from the first loop on, the pairs
  are those that the report begins with. What those are rests on `SortedFacts`:
  the sort by tag is a permutation of what it keeps, in the order of the keys and,
  among equals, of the file. The rest follows from one invariant for
  each report, all of one form: what the tally has is exactly what the loops have
  passed. `ScoreInv`, `RegressionInv`, `TaqoInv` and `SelectivityInv` say so of
  the counters, marks and lists; `PlacesAlwaysAgree` (`PlacesAgree`),
  `ListsAlwaysTell` (`ListsTell`) and `RatiosAreDefined` (`RatiosDefined`) follow,
  since at the end each loop has passed all pairs. In the regression report the
  latch is part of it: what is counted for the second version is known only
  while every query passed has optimizations; and that the first and the last query
  have one tag says that all have only because the pairs are sorted by the first
  use of the tag (`OneTagThroughout`). `ScoreRead`, `RegressionRead`, `TaqoRead`
  and `SelectivityRead` say that what a loop has passed had all that the loop
  reads, and that a crash has its reason in the files.
  Of the cost report, `CostInv` is the invariant. `AddInv`: the context has what the
  plans before `ctx.at` give it, each scan they executed once (`ScansTell`), the
  flags of each by itself (`FlagsMerged`), and none of them raises
  (`PlansRaiseNot`); the entry of each text is that of the last query with it.
  `SeriesInv`: the series have the points of the texts collected, each once.
  `ChartsInv`: of each chart drawn, what is plotted and what is listed are disjoint
  and together the points of its series, and what was judged is what is listed with
  what is at the indices left, which are still right because the last is taken out
  first (`OutlierTaken`). That the flags of one plan do not depend on those before it
  is `ClassifiedAnew`. `ScansAlwaysCharted` (`ScansCharted`) and `FlagsAlwaysTell`
  (`FlagsTell`) follow, for plans of any number
  of nodes, queries of any number of optimizations and any charts; with `CostRead`,
  that a crash of the cost report has its reason in the files,
  `PublishedUnlessObstacle` (`PublishedOrObstacle`) holds of all six reports.
  The proofs assume of the files what `FilesAssumption` says, that `collect`
  has stored them, in any order, and of the cost report's that the plans they name
  are among `Pieces`; of those (`PiecesAssumption`) that a plan's text is a finite
  sequence of pieces that have a header or not; of the charts
  (`ChartsAssumption`) that they are a list, of boxplots and others.

Some theorems are about formulas that no run lists: the types of
`BestOptimization`, `DdlSteps`, `CollectRun`, `OptimizationList` and `Reports`;
`HandedBackRolledBack`, which says a little more of the session than the contract
`MeasureSpec`; and `ComplaintsAreDiscrepancies`.

Every safety property that a run checks has a theorem. Only checked by TLC:

* `Termination` of measuring, evaluating and loading: liveness under fairness is
  outside what TLAPS proves.
* The three disagreements with the documentation: they are counterexamples.

## 5. Not modelled

`PROJECT.json` lists every component and every hazard, the ones without a
property too. Not modelled:

* Text: cleaning plans and queries by regular expressions, parsing SQL files, tips
  and catalog rows, the layout of AsciiDoc, XLSX and JSON. What depends on it is a
  kind, a plan, or a piece with a header or without.
* Data: the tables of metrics and of chart specifications
  (`cost_metric_metadata.py`, `cost_chart_specs.py`). They decide which points a chart
  shows, by filters that are each one expression; `Charts` stands for them.
* The links of the cost report: texts of the AsciiDoc that nothing in the program
  follows. What `get_query` returns is otherwise read for
  the widths of tables and the labels of charts, which are data.
* Drawing, the interactive mode of the cost report and its expression analyzer.
* Arguments and HOCON: options are constants and variables of the models.
* External commands of `db/yugabyte.py` other than the compaction: one step of
  `CollectRun` each.
* Scenarios, shell scripts and packaging.
* `AllPairs`, `psycopg2` and the database, but for what the code relies on.
