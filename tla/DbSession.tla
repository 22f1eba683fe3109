------------------------------ MODULE DbSession ------------------------------
(***************************************************************************)
(* The database session every component of the tool talks through: one     *)
(* psycopg2 connection with autocommit off, and utils.evaluate_sql, the    *)
(* function all statements go through.  The module has no variables; it    *)
(* gives the replies a call may produce, and the component that makes the  *)
(* call picks one of them.                                                 *)
(*                                                                         *)
(* A session is a record:                                                  *)
(*   alive  the connection is open (psycopg2 conn.closed = 0);             *)
(*   txn    a transaction is open on it;                                   *)
(*   props  the session properties and the query's own SET statements have *)
(*          been issued in this transaction;                               *)
(*   limit  a statement_timeout has been issued in this transaction.       *)
(* A SET issued inside a transaction is undone when the transaction rolls  *)
(* back, so props and limit never outlive a rollback.                      *)
(***************************************************************************)
EXTENDS Integers

Session == [alive : BOOLEAN, txn : BOOLEAN, props : BOOLEAN, limit : BOOLEAN]

Flags == {"failure", "warning"}

Exceptions == {"QueryCanceled", "DatabaseError", "InterfaceError", "SystemExit"}

(* What one call leaves behind: the session, the has_failures/has_warnings *)
(* flags it raises, the exception it throws and whether rows can be read.  *)
Replies == [session : Session, flags : SUBSET Flags,
            raised : Exceptions \cup {"none"}, rows : BOOLEAN]

Reply(s, f, x, rows) == [session |-> s, flags |-> f, raised |-> x, rows |-> rows]

Fresh == [alive |-> TRUE, txn |-> FALSE, props |-> FALSE, limit |-> FALSE]

Lost == [Fresh EXCEPT !.alive = FALSE]

RolledBack(s) == IF s.alive THEN Fresh ELSE Lost

Ran(s) == [s EXCEPT !.txn = TRUE]

Prepared(s) == [s EXCEPT !.txn = TRUE, !.props = TRUE]

Limited(s) == [s EXCEPT !.txn = TRUE, !.limit = TRUE]

-----------------------------------------------------------------------------
(* evaluate_sql.  "done" is the session a successful execution leaves.     *)

Flagged(warn) == IF warn THEN {"warning"} ELSE {"failure"}

\* Slip: an OperationalError is swallowed and nobody is told.
Slip_SilentOperationalError(s, warn, exitOnFail) ==
  {Reply(t, {}, "none", FALSE) : t \in {RolledBack(s), Lost}}

(* OperationalError and ConfigurationLimitExceeded: rolled back, flagged,  *)
(* and not raised again.  The connection itself may be gone.               *)
Swallowed(s, warn, exitOnFail) ==
  {Reply(t, Flagged(warn), IF exitOnFail THEN "SystemExit" ELSE "none", FALSE) :
     t \in {RolledBack(s), Lost}}

(* Any other exception: rolled back, flagged and raised again.  On a       *)
(* connection that is already closed this is psycopg2's InterfaceError,    *)
(* which is not a DatabaseError.                                           *)
Reraised(s, warn, exitOnFail) ==
  {Reply(RolledBack(s), Flagged(warn),
         IF exitOnFail THEN "SystemExit"
         ELSE IF s.alive THEN "DatabaseError" ELSE "InterfaceError", FALSE)}

(* A statement timeout is raised and flags nothing.  So does the rollback  *)
(* of any handler when it finds the server gone: _safe_rollback lets an    *)
(* OperationalError through.                                               *)
Unflagged(s) ==
  {Reply(RolledBack(s), {}, "QueryCanceled", FALSE),
   Reply(Lost, {}, "DatabaseError", FALSE)}

EvaluateSql(s, done, warn, exitOnFail) ==
  IF s.alive
  THEN {Reply(done, {}, "none", TRUE)} \cup Unflagged(s)
         \cup Swallowed(s, warn, exitOnFail) \cup Reraised(s, warn, exitOnFail)
  ELSE Reraised(s, warn, exitOnFail)

(* With autocommit on no transaction is open: the rollback of a handler    *)
(* does nothing and cannot fail, and a SET stays in force.                 *)
Autocommitted(s, warn, exitOnFail) ==
  EvaluateSql(s, s, warn, exitOnFail) \ {Reply(Lost, {}, "DatabaseError", FALSE)}

(* A statement the server rejects for its text, unless it is gone by then. *)
Rejected(s, warn, exitOnFail) ==
  Reraised(s, warn, exitOnFail) \cup
  IF s.alive
  THEN {Reply(Lost, {}, "DatabaseError", FALSE)} \cup
       {r \in Swallowed(s, warn, exitOnFail) : r.session = Lost}
  ELSE {}

(* Reading rows after the call: nothing to read is a ProgrammingError,     *)
(* on a closed connection an InterfaceError.                               *)
Fetched(r) ==
  IF r.raised # "none" THEN r.raised
  ELSE IF r.rows THEN "none"
  ELSE IF r.session.alive THEN "DatabaseError" ELSE "InterfaceError"

(* prepare_query_execution issues several statements.  When a later one    *)
(* follows a swallowed error, the earlier SETs are already undone.         *)
PrepareQueryExecution(s, exitOnFail) ==
  EvaluateSql(s, Prepared(s), FALSE, exitOnFail) \cup
  IF s.alive /\ ~exitOnFail
  THEN {Reply(Ran(Fresh), {"failure"}, "none", FALSE),
        Reply(Lost, {"failure"}, "InterfaceError", FALSE)}
  ELSE {}

(* connection.rollback() itself: it may find the server gone, and raises   *)
(* InterfaceError on a closed connection.  With no transaction open        *)
(* psycopg2 does not talk to the server at all.                            *)
Rollback(s) ==
  IF ~s.alive THEN {Reply(s, {}, "InterfaceError", FALSE)}
  ELSE {Reply(RolledBack(s), {}, "none", FALSE)} \cup
       IF s.txn THEN {Reply(Lost, {}, "DatabaseError", FALSE)} ELSE {}
=============================================================================
