----------------------------- MODULE Measurement -----------------------------
(***************************************************************************)
(* How a call of calculate_avg_execution_time may end: the contract that   *)
(* Measure states as a specification, AvgExecution implements, and         *)
(* EvaluateQueries is built on.                                            *)
(***************************************************************************)
EXTENDS Integers, DbSession

Answers == {"true", "false", "raised", "exit"}

(* The fields of the query object a call writes: which kind of time, which *)
(* message, and whether the result hash is known.                          *)
Fields == [time : {"zero", "timeout", "average"},
           error : {"none", "Timeout", "DatabaseError", "PlanTimeout"},
           hash : BOOLEAN]

(* The measured transactions are rolled back, so no SET survives.  Query   *)
(* statistics may leave a transaction open.                                *)
HandedBack == {Fresh, Ran(Fresh), Lost}

(* "true": an average is stored and the result hash is known.              *)
(* "false": the time is the timeout sentinel -1, or 0 after a database     *)
(* error, and the query carries the message.                               *)
(* "raised": an InterfaceError; the connection is closed, the run flagged. *)
(* "exit": only with exit-on-fail, and the run is flagged.                 *)
Justified(a, exits, f, s, q) ==
  /\ a = "true" => q.time = "average" /\ q.hash /\ q.error \in {"none", "PlanTimeout"}
  /\ a = "false" => \/ q.time = "timeout" /\ q.error = "Timeout"
                    \/ q.time = "zero" /\ q.error = "DatabaseError"
  /\ a = "raised" => /\ s = Lost /\ "failure" \in f
                     /\ q.time = "zero" /\ q.error \in {"none", "PlanTimeout"}
  /\ a = "exit" => exits /\ f # {}
=============================================================================
