------------------------------- MODULE Measure -------------------------------
(***************************************************************************)
(* What calculate_avg_execution_time promises its callers, and nothing     *)
(* about how: one call, one answer.                                        *)
(*   exitOnFail   the exit-on-fail option;                                 *)
(*   flags        has_failures / has_warnings;                             *)
(*   session      the session the caller gets back;                        *)
(*   query        the fields of the query object the call writes.          *)
(***************************************************************************)
EXTENDS Measurement

VARIABLES answer, exitOnFail, flags, session, query

vars == <<answer, exitOnFail, flags, session, query>>

Init ==
  /\ answer = "none"
  /\ exitOnFail \in BOOLEAN
  /\ flags \in SUBSET Flags
  /\ session \in Session
  /\ query.time = "zero" /\ query.error = "none" /\ ~query.hash

(* The call is still running: it may move the session and the fields.      *)
Work ==
  /\ answer = "none" /\ answer' = "none"
  /\ exitOnFail' = exitOnFail
  /\ flags \subseteq flags'

(* The call has its answer and hands the session back; no flag was dropped. *)
Return ==
  /\ answer = "none"
  /\ answer' \in Answers
  /\ exitOnFail' = exitOnFail
  /\ flags \subseteq flags'
  /\ session' \in HandedBack
  /\ Justified(answer', exitOnFail', flags', session', query')

Next == Work \/ Return

Spec == Init /\ [][Next]_vars
=============================================================================
