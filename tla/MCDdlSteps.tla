------------------------------ MODULE MCDdlSteps ------------------------------
(* Instances of DdlSteps for TLC. *)
EXTENDS DdlSteps

(* A model with one statement of each step, one with a CREATE STATISTICS   *)
(* before the tables are loaded, one with it at the end, and one that only *)
(* imports.                                                                *)
MCScripts ==
  { << <<"insert">>, <<"create">>, <<"copy">>, <<"analyze">> >>,
    << <<>>, <<"create", "statistics">>, <<>>, <<"analyze">> >>,
    << <<>>, <<"create">>, <<>>, <<"statistics", "analyze">> >>,
    << <<>>, <<>>, <<"copy", "insert">>, <<>> >> }

(* Every choice of steps, with and without exit-on-fail.                   *)
MCConfigs == Config
=============================================================================
