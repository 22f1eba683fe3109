------------------------------ MODULE PlanTree ------------------------------
(***************************************************************************)
(* Execution plans as the cost report reads them.  parse_plan cuts the text*)
(* of a plan at every "->", an arrow in an expression included, and makes  *)
(* a node of each piece that begins with a node's header: costs, and times *)
(* of ANALYZE or "never executed".  A visitor comes to the nodes in the    *)
(* order of the text, so the tree is the sequence of its nodes here.       *)
(***************************************************************************)
EXTENDS Integers, Sequences, SequencesExt

CONSTANT
  Pieces   \* the text of each plan, as the sequence of its pieces

(* What tells a piece with a header from one without, and a node that was  *)
(* executed from one that was not, is known of every piece.                *)
ASSUME PiecesAssumption ==
  \A plan \in DOMAIN Pieces :
    /\ Pieces[plan] \in Seq(ToSet(Pieces[plan]))
    /\ \A n \in DOMAIN Pieces[plan] : Pieces[plan][n].header \in BOOLEAN

IndexScans == {"primary", "secondary", "index only"}
Scans == {"seq", "bitmap", "other"} \cup IndexScans

(* kind tells what make_node and the accessor do: an Index Scan is by the  *)
(* primary key or by a secondary index, other is a scan of another type;   *)
(* props are the labels of its lines; cost is its total: valid, with what  *)
(* a disabled node adds, or too large to take that away again.             *)
PlanNode(kind, ran, props, cost, ms) ==
  [header |-> TRUE, kind |-> kind, ran |-> ran, props |-> props, cost |-> cost, ms |-> ms]

NoHeader == [header |-> FALSE]

(* The nodes before the first piece that has no header; none, where Python *)
(* returns None.                                                           *)
ParsePlan(pieces) ==
  LET cuts == {n \in DOMAIN pieces : ~pieces[n].header}
  IN  IF cuts = {} THEN pieces ELSE SubSeq(pieces, 1, Min(cuts) - 1)

\* Slip: only the root is looked at.
Slip_Unfixable(nodes) == nodes[1].cost = "beyond"

(* InvalidCostFixer, for plans whose root has no valid cost.               *)
Unfixable(nodes) ==
  nodes[1].cost # "valid" /\ \E n \in DOMAIN nodes : nodes[n].cost = "beyond"

IndexCond(n) == n.kind \in Scans /\ "Index Cond" \in n.props
RemoteFilter(n) ==
  /\ n.kind \in Scans
  /\ (IF n.kind = "secondary" THEN "Remote Index Filter" ELSE "Remote Filter") \in n.props
TfbrFilter(n) == n.kind = "secondary" /\ "Remote Filter" \in n.props
LocalFilter(n) == n.kind \in Scans /\ "Filter" \in n.props

IndexFilters == {"has_scan_filter_index", "has_tfbr_filter_index", "has_local_filter"}
Conditions == {"has_key_access_index", "has_table_filter_seqscan"} \cup IndexFilters

(* PlanClassifiers.update, what one node adds. *)
FlagsOf(n) ==
  {f \in {"has_join", "has_aggregate", "has_sort"} \cup Conditions :
     CASE f = "has_join"                 -> n.kind = "join"
       [] f = "has_aggregate"            -> n.kind = "aggregate"
       [] f = "has_sort"                 -> n.kind = "sort"
       [] f = "has_table_filter_seqscan" -> n.kind = "seq" /\ RemoteFilter(n)
       [] f = "has_local_filter"         -> LocalFilter(n)
       [] f = "has_key_access_index"     -> n.kind \in IndexScans /\ IndexCond(n)
       [] f = "has_scan_filter_index"    -> n.kind \in IndexScans /\ RemoteFilter(n)
       [] f = "has_tfbr_filter_index"    -> TfbrFilter(n)}

(* A scan that was never executed is counted, and else passed by. *)
Visited(n) == n.kind \in Scans => n.ran

\* Slip: the flags of the plan before are kept.
Slip_Enter(pc) == pc

(* PlanNodeCollector.__enter *)
Enter(pc) == {}

(* ... and what the nodes up to the n-th have added to an empty one.       *)
FlagsUpTo(pc, nodes, n) ==
  Enter(pc) \cup UNION {FlagsOf(nodes[m]) : m \in {k \in 1..n : Visited(nodes[k])}}

(* An index scan looks for filters in what there is up to itself.          *)
NoFilterIndex(pc, nodes) ==
  \E n \in DOMAIN nodes : /\ nodes[n].kind \in IndexScans /\ Visited(nodes[n])
                          /\ FlagsUpTo(pc, nodes, n) \cap IndexFilters = {}

(* The classifiers of a plan, with pc those of the one visited before it;  *)
(* the last two are found by __exit.                                       *)
Classified(pc, nodes) ==
  LET flags == FlagsUpTo(pc, nodes, Len(nodes))
  IN  flags
      \cup (IF NoFilterIndex(pc, nodes) THEN {"has_no_filter_index"} ELSE {})
      \cup (IF Cardinality({n \in DOMAIN nodes : nodes[n].kind \in Scans}) = 1
            THEN {"has_single_scan_node"} ELSE {})
      \cup (IF flags \cap Conditions = {} THEN {"has_no_condition_scan"} ELSE {})
=============================================================================
