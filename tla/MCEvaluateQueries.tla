-------------------------- MODULE MCEvaluateQueries --------------------------
(* Instances of EvaluateQueries for TLC. *)
EXTENDS EvaluateQueries, TLC

CONSTANTS p1, p2, h1, h2

MCPlans == {p1, p2}

MCHashes == {h1, h2}

MCSymmetry == Permutations(MCPlans) \cup Permutations(MCHashes)

(* Everything is measured, with and without look-near-best-plan.           *)
MCMeasuring ==
  {c \in Config : ~c.plansOnly /\ c.optimize /\ ~c.baseline}

(* Plain queries with the full number of optimizations.                    *)
MCPlain == {k \in Kind : ~k.dml /\ ~k.skipCheck /\ ~k.now /\ ~k.tip /\ ~k.known /\ ~k.raises /\ k.opts = MaxOpts}

(* All options, and all kinds of query but for those that are not compared *)
(* for consistency: with one result there is nothing to compare.  A query  *)
(* whose hints cannot be generated is a plain one otherwise, or a dml.     *)
MCConfigs == Config

MCKinds ==
  {k \in Kind : /\ ~k.skipCheck /\ ~k.now
                /\ k.raises => k.opts = 0 /\ ~k.tip /\ ~k.known}
=============================================================================
