-------------------------------- MODULE Phases --------------------------------
(***************************************************************************)
(* How the two long phases of a collect run may end: the contract that     *)
(* DdlSteps and EvaluateQueries keep, and CollectRun is built on.  Either  *)
(* is "complete", an "exit" (SystemExit), or "aborted" by an exception.    *)
(***************************************************************************)
EXTENDS DbSession

Endings == {"complete", "exit", "aborted"}

(* create_tables: the queries start on a live connection.                  *)
DdlMayEnd(how, exits, flags, session) ==
  /\ how = "complete" => session = Fresh
  /\ how = "exit" => exits /\ flags # {}

(* evaluate_testing_queries: no database error of a query gets out, only   *)
(* an exit that was asked for, a connection that cannot be had again, and  *)
(* what is no psycopg2.Error: the ValueError for a query whose hints cannot*)
(* be generated, which leaves the connection as it is.                     *)
QueriesMayEnd(how, exits, flags, session, unhintable) ==
  /\ how = "exit" => exits /\ flags # {}
  /\ how = "aborted" => ~session.alive \/ unhintable
=============================================================================
