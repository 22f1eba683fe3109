------------------------------- MODULE DdlSteps -------------------------------
(***************************************************************************)
(* SQLModel.create_tables: the DDL files of a model are executed, or only  *)
(* recorded, one after the other, and the catalog is read.  The connection *)
(* is in autocommit mode.                                                  *)
(***************************************************************************)
EXTENDS Sequences, Phases

CONSTANTS
  Scripts,   \* the models to consider: for each step the statements of its file
  Configs    \* the options to consider, a subset of Config

(* The order of create_tables: drop, create, import, analyze.              *)
Step == 1..4

CREATE == 2

(* exit_on_fail, and the steps named in ddls.                              *)
Config == [exits : BOOLEAN, ddls : SUBSET Step]

(* What the code, or the server, tells apart: a statement that cannot be   *)
(* repeated once it took effect (CREATE TABLE), one that can (INSERT),     *)
(* ANALYZE, CREATE STATISTICS, and a COPY that the client performs.        *)
Statement == {"create", "insert", "analyze", "statistics", "copy"}

ASSUME DdlAssumption ==
  Scripts \subseteq [Step -> Seq(Statement)] /\ Configs \subseteq Config

VARIABLES
  config,      \* the options
  script,      \* the statements of the model's files
  step,        \* the step at hand
  next,        \* the statement at hand in its file
  pc,          \* the next thing done
  session,     \* the database session
  flags,       \* config.has_failures, config.has_warnings
  recorded,    \* model_queries of each step, as positions in the file
  applied,     \* how often the statement at hand took effect on the server
  fate,        \* history: what became of the statements left behind
  attempt,     \* of run_catalog_query
  tables,      \* created_tables is not empty
  answered,    \* the catalog queries that were answered
  exception,   \* the exception that ended the phase
  outcome      \* how the phase ended

vars == <<config, script, step, next, pc, session, flags, recorded, applied,
          fate, attempt, tables, answered, exception, outcome>>

catalog == <<attempt, tables, answered>>

-----------------------------------------------------------------------------

Executed == step \in config.ddls

File == script[step]

Kind == File[next]

(* Bound: of the records of one statement executed again only two are      *)
(* kept.                                                                   *)
MaxRepeats == 2

Noted(seq) ==
  IF Len(seq) >= MaxRepeats /\ \A i \in Len(seq) - MaxRepeats + 1 .. Len(seq) : seq[i] = next
  THEN seq ELSE Append(seq, next)

\* Slip: only what is not executed is recorded.
Slip_Note == recorded' = [recorded EXCEPT ![step] = IF Executed THEN @ ELSE Noted(@)]

Note == recorded' = [recorded EXCEPT ![step] = Noted(@)]

(* Bound: "more than once" is all that is known of an effect repeated.     *)
MoreOften(n) == IF n < 2 THEN n + 1 ELSE n

(* A COPY is done by psycopg2 itself, past evaluate_sql: nothing is        *)
(* flagged, and every error is raised.                                     *)
Copied ==
  IF session.alive
  THEN {Reply(session, {}, "none", TRUE), Reply(session, {}, "QueryCanceled", FALSE)}
         \cup {Reply(t, {}, "DatabaseError", FALSE) : t \in {session, Lost}}
  ELSE {Reply(Lost, {}, "InterfaceError", FALSE)}

Tried ==
  IF Kind = "copy" THEN Copied ELSE Autocommitted(session, Kind = "analyze", config.exits)

(* A statement that failed, or whose answer was lost, may have taken       *)
(* effect all the same; one that was cancelled did not.                    *)
Effects(r) ==
  LET again == IF Kind = "create" /\ applied > 0 THEN {} ELSE {MoreOften(applied)}
  IN IF r.rows THEN again
     ELSE IF ~session.alive \/ r.raised = "QueryCanceled" THEN {applied}
     ELSE {applied} \cup again

\* Slip: whatever happened, the program exits.
Slip_EndBy(raised) == exception' = raised /\ outcome' = "exit" /\ pc' = "ended"

(* The phase ends with an exception; SystemExit passes every handler.      *)
EndBy(raised) ==
  /\ exception' = raised
  /\ outcome' = IF raised = "SystemExit" THEN "exit" ELSE "aborted"
  /\ pc' = "ended"

Init ==
  /\ config \in Configs /\ script \in Scripts
  /\ step = 1 /\ next = 1 /\ pc = "open"
  /\ session = Fresh /\ flags = {}
  /\ recorded = [s \in Step |-> <<>>] /\ applied = 0
  /\ fate = [s \in Step |-> <<>>]
  /\ attempt = 1 /\ tables = FALSE /\ answered = {}
  /\ exception = "none" /\ outcome = "none"

-----------------------------------------------------------------------------
(* evaluate_ddl_queries. *)

(* A cursor for the file, and the statement_timeout if it is executed.     *)
OpenFile ==
  /\ pc = "open"
  /\ \E r \in IF ~session.alive THEN {Reply(Lost, {}, "InterfaceError", FALSE)}
              ELSE IF Executed THEN Autocommitted(session, FALSE, config.exits)
              ELSE {Reply(session, {}, "none", FALSE)} :
       /\ session' = r.session /\ flags' = flags \cup r.flags
       /\ IF r.raised = "none" THEN pc' = "statement" /\ UNCHANGED <<exception, outcome>>
          ELSE EndBy(r.raised)
  /\ UNCHANGED <<config, script, step, next, recorded, applied, fate, catalog>>

(* The step is not in ddls: its statements are recorded only.              *)
RecordStatement ==
  /\ pc = "statement" /\ next <= Len(File) /\ ~Executed
  /\ Note /\ next' = next + 1
  /\ UNCHANGED <<config, script, step, pc, session, flags, applied, fate, catalog,
                 exception, outcome>>

\* Slip: a statement whose failure is ignored does not count as executed.
Slip_LeaveStatement(how, effect, flagged) ==
  /\ IF how = "ignored" THEN UNCHANGED <<fate, next, applied>>
     ELSE /\ fate' = [fate EXCEPT ![step] =
                        Append(@, [how |-> how, applied |-> effect, flagged |-> flagged])]
          /\ next' = next + 1 /\ applied' = 0
  /\ UNCHANGED <<pc, exception, outcome>>

LeaveStatement(how, effect, flagged) ==
  /\ fate' = [fate EXCEPT ![step] =
                Append(@, [how |-> how, applied |-> effect, flagged |-> flagged])]
  /\ next' = next + 1 /\ applied' = 0
  /\ UNCHANGED <<pc, exception, outcome>>

\* Slip: no error of a statement is minded.
Slip_Ignored == TRUE

(* Errors of this statement are ignored.                                   *)
Ignored == Kind = "statistics"

(* A statement is executed and that is the end of it, one way or another.  *)
ExecuteStatement ==
  /\ pc = "statement" /\ next <= Len(File) /\ Executed
  /\ Note
  /\ \E r \in Tried : \E effect \in Effects(r) :
       /\ session' = r.session /\ flags' = flags \cup r.flags
       /\ \/ /\ r.raised = "none"
             /\ LeaveStatement(IF r.rows THEN "done" ELSE "swallowed", effect, r.flags # {})
          \/ /\ r.raised \notin {"none", "SystemExit"} /\ Ignored
             /\ LeaveStatement("ignored", effect, r.flags # {})
          \/ /\ r.raised # "none" /\ (r.raised = "SystemExit" \/ ~Ignored)
             /\ EndBy(r.raised) /\ UNCHANGED <<next, applied, fate>>
  /\ UNCHANGED <<config, script, step, catalog>>

(* The message of the error mentions RPC: the statement is executed again. *)
RetryStatement ==
  /\ pc = "statement" /\ next <= Len(File) /\ Executed
  /\ Note
  /\ \E r \in Tried :
       /\ r.raised = "DatabaseError" /\ ~Ignored
       /\ session' = r.session /\ flags' = flags \cup r.flags
       /\ applied' \in Effects(r)
  /\ UNCHANGED <<config, script, step, next, pc, fate, catalog, exception, outcome>>

(* The next step, or the end of the last one.                              *)
CloseFile ==
  /\ pc = "statement" /\ next > Len(File)
  /\ IF step = CREATE /\ Executed THEN pc' = "load" /\ UNCHANGED <<step, next>>
     ELSE IF step = 4 THEN pc' = (IF tables THEN "rows" ELSE "reload") /\ UNCHANGED <<step, next>>
     ELSE pc' = "open" /\ step' = step + 1 /\ next' = 1
  /\ UNCHANGED <<config, script, session, flags, recorded, applied, fate, catalog,
                 exception, outcome>>

-----------------------------------------------------------------------------
(* The catalog. *)

CatalogQueryAttempts == 3

AttemptsLeft == attempt < CatalogQueryAttempts

\* Slip: after the last attempt the loop is simply over.
Slip_GiveUp ==
  /\ attempt = CatalogQueryAttempts
  /\ attempt' = 1 /\ UNCHANGED <<session, exception>>
  /\ pc' = CASE pc = "load" -> "open" [] pc = "reload" -> "rows"
             [] pc = "rows" -> "widths" [] pc = "widths" -> "ended"
  /\ outcome' = IF pc = "widths" THEN "complete" ELSE outcome

(* The last serialization failure is raised.                               *)
GiveUp ==
  /\ attempt = CatalogQueryAttempts
  /\ EndBy("DatabaseError") /\ UNCHANGED <<session, attempt>>

(* run_catalog_query: only serialization failures are tried again; any     *)
(* other error is raised, and none is flagged.                             *)
FailCatalog ==
  /\ pc \in {"load", "reload", "rows", "widths"}
  /\ \/ /\ session.alive /\ AttemptsLeft
        /\ attempt' = attempt + 1 /\ UNCHANGED <<pc, session, exception, outcome>>
     \/ session.alive /\ GiveUp
     \/ /\ session.alive /\ session' \in {session, Lost}
        /\ EndBy("DatabaseError") /\ UNCHANGED attempt
     \/ ~session.alive /\ EndBy("InterfaceError") /\ UNCHANGED <<session, attempt>>
  /\ UNCHANGED <<config, script, step, next, flags, recorded, applied, fate, tables,
                 answered>>

AnswerCatalog(query) ==
  /\ session.alive
  /\ answered' = answered \cup {query} /\ attempt' = 1
  /\ UNCHANGED <<config, script, session, flags, recorded, applied, fate, exception>>

(* load_tables_from_public, after the create step.                         *)
LoadTables ==
  /\ pc = "load" /\ AnswerCatalog("tables")
  /\ tables' \in BOOLEAN
  /\ pc' = "open" /\ step' = step + 1 /\ next' = 1 /\ UNCHANGED outcome

(* load_tables_from_public, when no table has been found yet.              *)
ReloadTables ==
  /\ pc = "reload" /\ AnswerCatalog("tables")
  /\ tables' \in BOOLEAN
  /\ pc' = "rows" /\ UNCHANGED <<step, next, outcome>>

(* load_table_stats: the rows of the tables, and the widths of the columns.*)
LoadRows ==
  /\ pc = "rows" /\ AnswerCatalog("rows")
  /\ pc' = "widths" /\ UNCHANGED <<step, next, tables, outcome>>

LoadWidths ==
  /\ pc = "widths" /\ AnswerCatalog("widths")
  /\ pc' = "ended" /\ outcome' = "complete" /\ UNCHANGED <<step, next, tables>>

Ended == pc = "ended" /\ UNCHANGED vars

Next ==
  \/ OpenFile \/ RecordStatement \/ ExecuteStatement \/ RetryStatement \/ CloseFile
  \/ FailCatalog \/ LoadTables \/ ReloadTables \/ LoadRows \/ LoadWidths
  \/ Ended

Safe == Init /\ [][Next]_vars

(* One thread; and the environment's part: an error that mentions RPC does *)
(* not come back for ever.                                                 *)
Spec == Safe /\ WF_vars(Next) /\ WF_vars(ExecuteStatement)

-----------------------------------------------------------------------------
(* Properties. *)

Fate == [how : {"done", "swallowed", "ignored"}, applied : 0..2, flagged : BOOLEAN]

(* Every variable has its type. *)
TypeOK ==
  /\ config \in Configs /\ script \in Scripts
  /\ step \in Step /\ next \in 1..(Len(File) + 1)
  /\ pc \in {"open", "statement", "load", "reload", "rows", "widths", "ended"}
  /\ session \in {Fresh, Lost} /\ flags \in SUBSET Flags
  /\ recorded \in [Step -> Seq(Nat)] /\ applied \in 0..2 /\ fate \in [Step -> Seq(Fate)]
  /\ attempt \in 1..CatalogQueryAttempts /\ tables \in BOOLEAN
  /\ answered \in SUBSET {"tables", "rows", "widths"}
  /\ exception \in Exceptions \cup {"none"} /\ outcome \in Endings \cup {"none"}

(* A model that was loaded had every statement of its executed steps take  *)
(* effect at least once, unless its failure was flagged or it was a        *)
(* CREATE STATISTICS: retries and swallowed errors lose none.              *)
NoStatementLost ==
  outcome = "complete" =>
    \A s \in config.ddls :
      /\ Len(fate[s]) = Len(script[s])
      /\ \A i \in 1..Len(script[s]) :
           LET f == fate[s][i] IN
           \/ f.how = "done" /\ f.applied > 0
           \/ f.how = "swallowed" /\ f.flagged /\ flags # {}
           \/ f.how = "ignored" /\ script[s][i] = "statistics"

(* What is recorded of a step is its file, in order and from the start,    *)
(* with a statement possibly repeated; once loaded, all of it.             *)
RecordsFollowTheFile ==
  \A s \in Step :
    LET r == recorded[s] IN
    /\ Len(r) > 0 => r[1] = 1
    /\ \A i \in 1..(Len(r) - 1) : r[i + 1] \in {r[i], r[i] + 1}
    /\ outcome = "complete" =>
         IF script[s] = <<>> THEN r = <<>> ELSE Len(r) > 0 /\ r[Len(r)] = Len(script[s])

(* A model is not loaded before the whole catalog has been read.           *)
CatalogRead == outcome = "complete" => answered = {"tables", "rows", "widths"}

(* The phase ends as CollectRun supposes: with a live connection if it is  *)
(* complete, although some failures of statements are ignored.             *)
EndsAsAgreed == DdlMayEnd(outcome, config.exits, flags, session)

(* The phase ends, if RPC errors do.                                       *)
Termination == <>(pc = "ended")
=============================================================================
