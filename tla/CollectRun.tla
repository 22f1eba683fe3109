------------------------------ MODULE CollectRun ------------------------------
(***************************************************************************)
(* CollectAction.evaluate and what the runner makes of it: the database is *)
(* started and created, the model loaded, its queries evaluated, the       *)
(* results stored, and the program exits with a code.  Loading and         *)
(* evaluating are DdlSteps and EvaluateQueries; they end as Phases says.   *)
(* The steps of the compaction in between are those of Compaction.         *)
(***************************************************************************)
EXTENDS Phases

CONSTANT MaxTables   \* the most tables of a model

ASSUME CollectAssumption == MaxTables \in Nat

(* exit_on_fail, clean_db, DATABASE and COMPACT in ddls, and whether the   *)
(* tool runs the server itself (a revision is given).                      *)
Config == [exits : BOOLEAN, clean : BOOLEAN, create : BOOLEAN, compact : BOOLEAN,
           managed : BOOLEAN]

VARIABLES
  config,      \* the options
  pc,          \* the next thing done
  server,      \* the server runs
  database,    \* the test database exists
  connection,  \* where self.connection.conn leads
  session,     \* the session on it
  flags,       \* config.has_failures, config.has_warnings
  queries,     \* the model has queries
  stored,      \* the results are in the report folder
  raised,      \* the exception under way
  failedAt,    \* history: what raised the first exception
  dropFailed,  \* history: how the DROP DATABASE failed
  code,        \* the exit code, -1 before the end
  tables, colocated, at, table, retries, asked, attempts, compacted   \* see Compaction

compaction == <<tables, colocated, at, table, retries, asked, attempts, compacted>>

vars == <<config, pc, server, database, connection, session, flags, queries, stored,
          raised, failedAt, dropFailed, code, compaction>>

fixed == <<config, queries, stored, dropFailed, code, compaction>>

C == INSTANCE Compaction WITH pc <- at

Cleanup == {"close", "connectDrop", "drop", "stop"}

Steps == {"start", "connectCreate", "create", "connect", "describe", "load", "compact",
          "evaluate", "store", "finally", "exit", "ended"} \cup Cleanup

\* Slip: what was evaluated until an exception is stored.
Slip_AfterRaise == IF pc = "start" \/ pc \in Cleanup THEN "exit"
                   ELSE IF pc = "evaluate" THEN "store" ELSE "finally"

(* An exception goes to the finally clause, unless it was raised before    *)
(* the try or in the clause itself.                                        *)

AfterRaise == IF pc = "start" \/ pc \in Cleanup THEN "exit" ELSE "finally"

Raise(exception) ==
  /\ raised' = exception /\ pc' = AfterRaise
  /\ failedAt' = IF failedAt = "none" THEN pc ELSE failedAt

GoOn(next) == pc' = next /\ UNCHANGED <<raised, failedAt>>

Init ==
  /\ config \in Config
  /\ pc = "start"
  /\ server \in BOOLEAN /\ (server \/ config.managed)
  /\ database \in BOOLEAN
  /\ connection = "none" /\ session = Lost /\ flags = {}
  /\ queries \in BOOLEAN /\ stored = FALSE
  /\ raised = "none" /\ failedAt = "none" /\ dropFailed = "none" /\ code = -1
  /\ C!Init

-----------------------------------------------------------------------------

(* start_db: external commands, which may fail half way.  Starting from an *)
(* emptied data directory leaves no test database.                         *)
StartDb ==
  /\ pc = "start"
  /\ \/ ~config.managed /\ GoOn("connectCreate") /\ UNCHANGED <<server, database>>
     \/ /\ config.managed
        /\ server' \in BOOLEAN /\ database' \in {FALSE, database}
        /\ GoOn("connectCreate") \/ Raise("exception")
  /\ UNCHANGED <<connection, session, flags, fixed>>

(* establish_connection.  The old connection object is gone either way.    *)
Connect(step, to, next) ==
  /\ pc = step
  /\ \/ /\ server /\ (to = "test" => database)
        /\ connection' = to /\ session' = Fresh /\ GoOn(next)
     \/ connection' = "none" /\ session' = Lost /\ Raise("exception")
  /\ UNCHANGED <<server, database, flags, fixed>>

ConnectToCreate == config.create /\ Connect("connectCreate", "postgres", "create")

SkipCreate ==
  /\ pc = "connectCreate" /\ ~config.create /\ GoOn("connect")
  /\ UNCHANGED <<server, database, connection, session, flags, fixed>>

(* One statement outside of the phases, in autocommit mode.                *)
Took(r) == session' = r.session /\ flags' = flags \cup r.flags

(* A statement whose answer was lost may have taken effect.                *)
Unanswered(r, effect) == IF r.session = Lost THEN {database, effect} ELSE {database}

(* create_test_database: only an exit gets out.  That the database exists  *)
(* already is no failure at all.                                           *)
CreateDatabase ==
  /\ pc = "create"
  /\ \/ /\ database /\ session' = Fresh /\ GoOn("connect") /\ UNCHANGED <<database, flags>>
     \/ \E r \in Autocommitted(session, FALSE, config.exits) :
          /\ r.rows => ~database
          /\ Took(r)
          /\ database' \in IF r.rows THEN {TRUE} ELSE Unanswered(r, TRUE)
          /\ IF r.raised = "SystemExit" THEN Raise("SystemExit") ELSE GoOn("connect")
  /\ UNCHANGED <<server, connection, fixed>>

ConnectToTest == Connect("connect", "test", "describe")

(* The version and the configuration of the database, the former by a      *)
(* query on PostgreSQL.                                                    *)
Describe ==
  /\ pc = "describe"
  /\ \E r \in Autocommitted(session, FALSE, config.exits) :
       /\ Took(r)
       /\ IF Fetched(r) = "none" THEN GoOn("load")
          ELSE IF r.raised = "SystemExit" THEN Raise("SystemExit") ELSE Raise("exception")
  /\ UNCHANGED <<server, database, connection, fixed>>

(* create_tables and get_queries.  Any exception becomes an exit.          *)
LoadModel ==
  /\ pc = "load"
  /\ \E how \in Endings, f \in SUBSET Flags, s \in {Fresh, Lost} :
       /\ DdlMayEnd(how, config.exits, flags \cup f, s)
       /\ flags' = flags \cup f /\ session' = s
       /\ \/ how = "complete" /\ GoOn(IF config.compact THEN "compact" ELSE "evaluate")
          \/ Raise("SystemExit")
  /\ UNCHANGED <<server, database, connection, fixed>>

(* run_compaction.  Any exception becomes an exit.                         *)
Compact ==
  /\ pc = "compact"
  /\ C!Next
  /\ \/ at' \notin {"complete", "raised"} /\ GoOn("compact")
     \/ at' = "complete" /\ GoOn("evaluate")
     \/ at' = "raised" /\ Raise("SystemExit")
  /\ UNCHANGED <<config, server, database, connection, session, flags, queries, stored,
                 dropFailed, code>>

(* evaluate_testing_queries, for queries that can be given hints or not;   *)
(* the unit test files that are written then never fail the run.  Of the   *)
(* session it leaves only matters whether it is alive: a transaction that  *)
(* an exception leaves open is given up with the connection.               *)
EvaluateQueries ==
  /\ pc = "evaluate"
  /\ \E how \in Endings, f \in SUBSET Flags, s \in {Fresh, Lost}, unhintable \in BOOLEAN :
       /\ QueriesMayEnd(how, config.exits, flags \cup f, s, unhintable)
       /\ ~queries => how = "complete" /\ f = {} /\ s = session
       /\ flags' = flags \cup f /\ session' = s
       /\ \/ how = "complete" /\ GoOn("store")
          \/ how = "exit" /\ Raise("SystemExit")
          \/ how = "aborted" /\ Raise("exception")
  /\ UNCHANGED <<server, database, connection, fixed>>

(* Results are stored if there are any. *)
Store ==
  /\ pc = "store"
  /\ \/ stored' = queries /\ GoOn("finally")
     \/ queries /\ stored' = FALSE /\ Raise("exception")
  /\ UNCHANGED <<config, server, database, connection, session, flags, queries,
                 dropFailed, code, compaction>>

-----------------------------------------------------------------------------
(* The finally clause. *)

Finally ==
  /\ pc = "finally"
  /\ pc' = (IF config.clean THEN "close" ELSE "exit") /\ UNCHANGED <<raised, failedAt>>
  /\ UNCHANGED <<server, database, connection, session, flags, fixed>>

(* drop_test_database: an error of the close is only logged, as is one of  *)
(* the DROP; but not one of the connection made for it, nor an exit.       *)
Close ==
  /\ pc = "close"
  /\ session' = Lost /\ GoOn("connectDrop")
  /\ UNCHANGED <<server, database, connection, flags, fixed>>

ConnectToDrop == Connect("connectDrop", "postgres", "drop")

\* Slip: the failure of the DROP is muted.
Slip_DropReplies ==
  {Reply(r.session, {}, r.raised, r.rows) :
     r \in Autocommitted(session, FALSE, config.exits)}

DropReplies == Autocommitted(session, FALSE, config.exits)

DropDatabase ==
  /\ pc = "drop"
  /\ \E r \in DropReplies :
       /\ r.rows => database
       /\ Took(r)
       /\ database' \in IF r.rows THEN {FALSE} ELSE Unanswered(r, FALSE)
       /\ dropFailed' = IF r.rows THEN "none"
                        ELSE IF r.raised = "QueryCanceled" THEN "cancelled" ELSE "failed"
       /\ IF r.raised = "SystemExit" THEN Raise("SystemExit") ELSE GoOn("stop")
  /\ UNCHANGED <<config, server, connection, queries, stored, code, compaction>>

(* stop_database: whether it had an effect is only logged.                 *)
StopDatabase ==
  /\ pc = "stop"
  /\ \/ server' \in (IF config.managed THEN BOOLEAN ELSE {server}) /\ GoOn("exit")
     \/ config.managed /\ server' \in BOOLEAN /\ Raise("exception")
  /\ UNCHANGED <<database, connection, session, flags, fixed>>

\* Slip: warnings are looked at first.
Slip_ExitCode == IF raised # "none" THEN 1 ELSE IF "warning" \in flags THEN 2
                 ELSE IF "failure" \in flags THEN 1 ELSE 0

(* The end of the runner, or of the interpreter.                           *)
ExitCode == IF raised # "none" \/ "failure" \in flags THEN 1
            ELSE IF "warning" \in flags THEN 2 ELSE 0

Exit ==
  /\ pc = "exit"
  /\ code' = ExitCode /\ pc' = "ended"
  /\ UNCHANGED <<config, server, database, connection, session, flags, queries, stored,
                 raised, failedAt, dropFailed, compaction>>

Ended == pc = "ended" /\ UNCHANGED vars

Next ==
  \/ StartDb \/ ConnectToCreate \/ SkipCreate \/ CreateDatabase \/ ConnectToTest
  \/ Describe \/ LoadModel \/ Compact \/ EvaluateQueries \/ Store
  \/ Finally \/ Close \/ ConnectToDrop \/ DropDatabase \/ StopDatabase
  \/ Exit \/ Ended

(* One thread; every call returns, the phases as their modules show.       *)
Spec == Init /\ [][Next]_vars

-----------------------------------------------------------------------------
(* Properties. *)

(* Every variable has its type. *)
TypeOK ==
  /\ config \in Config /\ pc \in Steps
  /\ server \in BOOLEAN /\ database \in BOOLEAN
  /\ connection \in {"none", "postgres", "test"} /\ session \in {Fresh, Lost}
  /\ flags \in SUBSET Flags /\ queries \in BOOLEAN /\ stored \in BOOLEAN
  /\ raised \in {"none", "exception", "SystemExit"}
  /\ failedAt \in Steps \cup {"none"} /\ dropFailed \in {"none", "failed", "cancelled"}
  /\ code \in {-1, 0, 1, 2}
  /\ C!TypeOK

(* Exit codes 0 and 2 mean that the run came to its end with no failure,   *)
(* and that its results, if there are queries, are stored; and 0 that not  *)
(* even a warning was raised.                                              *)
ExitCodeTells ==
  code \in {0, 2} =>
    /\ raised = "none" /\ "failure" \notin flags /\ (queries => stored)
    /\ code = 0 <=> flags = {}

(* Once all queries are evaluated and stored, no failure of the clean-up   *)
(* costs the results; and results are never stored of an evaluation that   *)
(* did not come to its end.                                                *)
ResultsOutliveCleanup ==
  pc = "ended" => (stored <=> queries /\ failedAt \in Cleanup \cup {"none"})

(* A run that was to clean up and reports no failure has dropped the test  *)
(* database, whatever happened to it before; only a DROP that was          *)
(* cancelled goes unnoticed.                                               *)
CleanedUp ==
  code \in {0, 2} /\ config.clean => ~database \/ dropFailed = "cancelled"

(* With compaction asked for, queries are measured, and results stored,    *)
(* only after it was tried for every table as often as it may be.          *)
CompactedBeforeMeasured ==
  config.compact /\ (pc = "evaluate" \/ stored) => C!EveryTableTried
=============================================================================
