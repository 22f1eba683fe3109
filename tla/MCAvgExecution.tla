--------------------------- MODULE MCAvgExecution ---------------------------
(* Instances of AvgExecution for TLC. *)
EXTENDS AvgExecution

(* Every kind of call. *)
MCModes == Mode

(* Reading calls with statistics, measured on the server or in the client, *)
(* with and without exit-on-fail.                                          *)
MCFewModes ==
  {m \in Mode : ~m.dml /\ ~m.limitOnly /\ m.stats /\ m.timeout}
=============================================================================
