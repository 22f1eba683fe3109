-------------------------- MODULE MCOptimizationList --------------------------
(* An instance of OptimizationList for TLC.                                *)
EXTENDS OptimizationList

Query(tables, indexes, accept, reject) ==
  [tables |-> tables, indexes |-> [t \in 1..tables |-> indexes],
   accept |-> accept, reject |-> reject]

(* No table (SELECT of a constant) to four, the last an index each for up  *)
(* to two; tips for joins, for scans, and ones that exclude all joins.     *)
MCQueries ==
  {Query(n, ix, {}, {}) : n \in 0..2, ix \in {{}, {"pk"}}}
  \cup {Query(3, {"pk"}, {}, {}), Query(4, {}, {}, {})}
  \cup {Query(n, {}, {"NestLoop"}, {"HashJoin", "MergeJoin"}) : n \in 1..3}
  \cup {Query(n, {}, {"IndexScan"}, {"SeqScan"}) : n \in 1..3}
  \cup {Query(n, {}, {"NestLoop", "HashJoin"}, {}) : n \in 2..3}

MCFourTables == {Query(4, {}, {}, {})}

MCDefaultThreshold == {3}

MCThresholds == {-1, 1, 2, 3}
=============================================================================
