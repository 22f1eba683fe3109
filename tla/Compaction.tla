------------------------------ MODULE Compaction ------------------------------
(***************************************************************************)
(* Yugabyte.run_compaction: the tables of a model are flushed and then     *)
(* compacted by calls of yb-admin, each compaction with a few attempts.    *)
(* CollectRun takes these steps between the DDL and the queries.           *)
(***************************************************************************)
EXTENDS Naturals

CONSTANT MaxTables   \* the most tables of a model

VARIABLES
  tables,      \* the number of tables outside the catalog
  colocated,   \* the colocated option
  pc,          \* the next thing done
  table,       \* the table at hand
  retries,     \* the attempt to compact it
  asked,       \* history: the tables a flush was asked for
  attempts,    \* history: how often compaction of each table was attempted
  compacted    \* the tables that have been compacted

vars == <<tables, colocated, pc, table, retries, asked, attempts, compacted>>

MaxAttempts == 4

(* With a colocated database the first table stands for all of them.       *)
TablesToOptimize == 1 .. IF colocated THEN 1 ELSE tables

Init ==
  /\ tables \in 0..MaxTables /\ colocated \in BOOLEAN
  /\ pc = "begin" /\ table = 1 /\ retries = 1
  /\ asked = {} /\ attempts = [t \in 1..MaxTables |-> 0] /\ compacted = {}

(* tables[0] of no tables.                                                 *)
Begin ==
  /\ pc = "begin"
  /\ pc' = IF colocated /\ tables = 0 THEN "raised" ELSE "flush"
  /\ UNCHANGED <<tables, colocated, table, retries, asked, attempts, compacted>>

(* What a flush answers is not looked at; it may fail to start.            *)
Flush ==
  /\ pc = "flush" /\ table \in TablesToOptimize
  /\ \/ asked' = asked \cup {table} /\ table' = table + 1 /\ UNCHANGED pc
     \/ pc' = "raised" /\ UNCHANGED <<asked, table>>
  /\ UNCHANGED <<tables, colocated, retries, attempts, compacted>>

(* The system catalog is flushed and compacted in between.                 *)
Catalog ==
  /\ pc = "flush" /\ table \notin TablesToOptimize
  /\ pc' \in {"compact", "raised"} /\ table' = 1
  /\ UNCHANGED <<tables, colocated, retries, asked, attempts, compacted>>

\* Slip: the counter is reset before the loop, not for each table.
Slip_NextTable == table' = table + 1 /\ UNCHANGED retries

NextTable == table' = table + 1 /\ retries' = 1

(* A failed attempt; after the last one the next table is taken up.        *)
AfterFailure ==
  IF retries < MaxAttempts THEN retries' = retries + 1 /\ UNCHANGED table ELSE NextTable

(* Bound: beyond MaxAttempts + 1 attempts are not counted.                 *)
Compact ==
  /\ pc = "compact" /\ table \in TablesToOptimize
  /\ attempts' = [attempts EXCEPT ![table] = IF @ < MaxAttempts + 1 THEN @ + 1 ELSE @]
  /\ \/ compacted' = compacted \cup {table} /\ NextTable
     \/ UNCHANGED compacted /\ AfterFailure
  /\ UNCHANGED <<tables, colocated, pc, asked>>

End ==
  /\ pc = "compact" /\ table \notin TablesToOptimize
  /\ pc' = "complete"
  /\ UNCHANGED <<tables, colocated, table, retries, asked, attempts, compacted>>

Next == Begin \/ Flush \/ Catalog \/ Compact \/ End

-----------------------------------------------------------------------------
(* Properties. *)

(* Every variable has its type. *)
TypeOK ==
  /\ tables \in 0..MaxTables /\ colocated \in BOOLEAN
  /\ pc \in {"begin", "flush", "compact", "complete", "raised"}
  /\ table \in 1..(MaxTables + 1) /\ retries \in 1..MaxAttempts
  /\ asked \in SUBSET (1..MaxTables) /\ compacted \in SUBSET (1..MaxTables)
  /\ attempts \in [1..MaxTables -> 0..(MaxAttempts + 1)]

(* A flush was asked for of every table, and it is compacted or was tried  *)
(* as often as it may be: the failures of one table cost the next one no   *)
(* attempt.                                                                *)
EveryTableTried ==
  \A t \in TablesToOptimize :
    /\ t \in asked
    /\ t \in compacted \/ attempts[t] = MaxAttempts
=============================================================================
