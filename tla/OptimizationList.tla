--------------------------- MODULE OptimizationList ---------------------------
(***************************************************************************)
(* Which optimizations of a query are evaluated: Leading generates hints   *)
(* for its joins and scans, with all combinations or pairwise ones by the  *)
(* number of tables, PGListOfOptimizations drops those that the query's    *)
(* tips exclude and multiplies the rest by the user's GUCs.  A hint is the *)
(* order of the tables, a join for each but the first, and a scan for each;*)
(* a tip excludes or asks for a kind of join or scan.                      *)
(***************************************************************************)
EXTENDS Integers, Sequences, SequencesExt

CONSTANTS
  Queries,     \* [tables, indexes, accept, reject]: table count, indexes by table, tips
  Thresholds,  \* values of all-pairs-threshold
  Gucs         \* the statements of --user-optimization-guc

Joins == {"HashJoin", "MergeJoin", "NestLoop", "YbBatchedNL"}
PlainScans == {"SeqScan", "IndexScan", "IndexOnlyScan"}

ASSUME ListAssumption ==
  /\ Thresholds \subseteq Int
  /\ \A q \in Queries :
       /\ q.tables \in Nat /\ DOMAIN q.indexes = 1..q.tables
       /\ q.accept \cup q.reject \subseteq Joins \cup PlainScans \cup {"BitmapScan"}

VARIABLES
  query, threshold, bitmap, allIndexes,   \* the query and the configuration
  pc,
  joins,       \* Leading.joins
  scans,       \* Leading.table_scan_hints
  debug,       \* optimizer_tips.debug_queries of the query
  opts         \* the optimizations: hints, their tips, and their class

vars == <<query, threshold, bitmap, allIndexes, pc, joins, scans, debug, opts>>

given == <<query, threshold, bitmap, allIndexes>>

Hint(order, js, ss) == [order |-> order, joins |-> js, scans |-> ss]

Orders == SetToSeqs(1..query.tables)

(* get_table_scan_hints; an index is named only with all-index-check.      *)
ScansOf(table) ==
  LET kinds == PlainScans \cup (IF bitmap THEN {"BitmapScan"} ELSE {})
  IN  {<<kind, "any">> : kind \in kinds}
      \cup (IF allIndexes THEN (kinds \ {"SeqScan"}) \X query.indexes[table] ELSE {})

ScanLists == [t \in 1..query.tables |-> ScansOf(t)]

(* One value from each of a sequence of sets. *)
Product(sets) ==
  {c \in [DOMAIN sets -> UNION {sets[k] : k \in DOMAIN sets}] :
     \A k \in DOMAIN sets : c[k] \in sets[k]}

(* A combination with two of its values given. *)
With(sets, i, a, j, b) ==
  [k \in DOMAIN sets |-> IF k = i THEN a ELSE IF k = j THEN b ELSE CHOOSE v \in sets[k] : TRUE]

\* Slip: only the first two sets are paired.
Slip_AllPairs(sets) == {With(sets, 1, a, 2, b) : a \in sets[1], b \in sets[2]}

(* allpairspy: combinations such that every two values of different sets   *)
(* occur in one of them; the other values in it are the library's choice.  *)
AllPairs(sets) ==
  UNION {{With(sets, ij[1], a, ij[2], b) : a \in sets[ij[1]], b \in sets[ij[2]]} :
           ij \in {p \in (DOMAIN sets) \X (DOMAIN sets) : p[1] < p[2]}}

(* get_all_combinations: every order with every join at every place, and   *)
(* apart from them, every combination of scans.                            *)
AllJoins ==
  IF query.tables < 2 THEN {}
  ELSE {Hint(order, js, <<>>) : order \in Orders, js \in [1..(query.tables - 1) -> Joins]}

ScanHints(combinations) == {Hint(<<>>, <<>>, c) : c \in combinations}

(* get_all_pairs_with_all_table_permutations                               *)
PairwiseJoins ==
  LET joinProduct == AllPairs([n \in 1..(query.tables - 1) |-> Joins])
  IN  {Hint(c[1], c[2], c[3]) : c \in AllPairs(<<Orders, joinProduct, AllPairs(ScanLists)>>)}

(* Leading.construct.  allpairspy wants two parameters at least, and       *)
(* raises a ValueError where it gets one, or none.                         *)
Construct ==
  /\ pc = "construct"
  /\ \/ /\ threshold = -1 \/ query.tables < threshold
        /\ joins' = AllJoins /\ scans' = ScanHints(Product(ScanLists)) /\ pc' = "joins"
     \/ /\ threshold # -1 /\ query.tables = threshold
        /\ IF query.tables > 2 THEN joins' = PairwiseJoins /\ scans' = {} /\ pc' = "joins"
           ELSE pc' = "raised" /\ UNCHANGED <<joins, scans>>
     \/ /\ threshold # -1 /\ query.tables > threshold
        /\ joins' = {} /\ pc' = "joins"
        /\ scans' = IF query.tables <= 1 THEN {} ELSE ScanHints(AllPairs(ScanLists))
  /\ UNCHANGED <<given, debug, opts>>

Kinds(hint) == ToSet(hint.joins) \cup {s[1] : s \in ToSet(hint.scans)}

\* Slip: one accepted kind is enough.
Slip_Skipped(hint) ==
  \/ query.accept # {} /\ query.accept \cap Kinds(hint) = {}
  \/ query.reject \cap Kinds(hint) # {}

(* filter_optimization_tips: every accepted text must occur, no rejected.  *)
Skipped(hint) == ~(query.accept \subseteq Kinds(hint)) \/ query.reject \cap Kinds(hint) # {}

(* add_optimization: the tips are those of the query, the same object.     *)
Added(hints) == {[hints |-> h, tips |-> "shared", own |-> {}, hinted |-> TRUE] :
                   h \in {g \in hints : ~Skipped(g)}}

AddJoins ==
  /\ pc = "joins"
  /\ opts' = Added(joins) /\ pc' = "scans"
  /\ UNCHANGED <<given, joins, scans, debug>>

(* "case w/o any joins", and the one in which the tips exclude all joins.  *)
AddScans ==
  /\ pc = "scans"
  /\ opts' = IF opts = {} THEN Added(scans) ELSE opts
  /\ pc' = "gucs"
  /\ UNCHANGED <<given, joins, scans, debug>>

DebugOf(o) == IF o.tips = "shared" THEN debug ELSE o.own

\* Slip: the GUC is appended to the tips that the copy shares.
Slip_Multiplied(gucs) ==
  [debug |-> debug \cup (IF opts = {} THEN {} ELSE gucs),
   copies |-> {[o EXCEPT !.hinted = FALSE] : o \in opts}]

(* The tips are copied before the GUC is appended to them.  create_copy    *)
(* makes a plain Query, whose get_query does not put the hints in front.   *)
Multiplied(gucs) ==
  [debug |-> debug,
   copies |-> {[hints |-> o.hints, tips |-> "own", own |-> DebugOf(o) \cup {guc}, hinted |-> FALSE] :
                 o \in opts, guc \in gucs}]

Multiply ==
  /\ pc = "gucs"
  /\ opts' = opts \cup Multiplied(Gucs).copies
  /\ debug' = Multiplied(Gucs).debug
  /\ pc' = "listed"
  /\ UNCHANGED <<given, joins, scans>>

Init ==
  /\ query \in Queries /\ threshold \in Thresholds /\ bitmap \in BOOLEAN /\ allIndexes \in BOOLEAN
  /\ pc = "construct" /\ joins = {} /\ scans = {} /\ debug = {} /\ opts = {}

Over == pc \in {"listed", "raised"} /\ UNCHANGED vars

Next == Construct \/ AddJoins \/ AddScans \/ Multiply \/ Over

Spec == Init /\ [][Next]_vars

-----------------------------------------------------------------------------
(* Properties. *)

(* Every variable has its type. *)
TypeOK ==
  /\ pc \in {"construct", "joins", "scans", "gucs", "listed", "raised"}
  /\ debug \subseteq Gucs
  /\ \A o \in opts : /\ o.tips \in {"shared", "own"} /\ o.own \subseteq Gucs
                     /\ Len(o.hints.joins) = (IF o.hints.order = <<>> THEN 0 ELSE query.tables - 1)

(* The hints that reach the server and, with them, the GUCs. *)
Evaluated == {[hints |-> o.hints, debug |-> DebugOf(o)] : o \in {p \in opts : p.hinted}}

Untipped == query.accept = {} /\ query.reject = {}

JoinTried(order, place, join) ==
  \E e \in Evaluated : e.hints.order = order /\ e.hints.joins[place] = join

EveryJoinTried ==
  \A order \in SetToSeqs(1..query.tables) : \A place \in 1..(query.tables - 1) : \A join \in Joins :
    JoinTried(order, place, join)

EveryScanTried ==
  \A t \in 1..query.tables : \A s \in ScansOf(t) :
    \E e \in Evaluated : e.hints.scans[t] = s

(* For a query without tips, every order of its tables is evaluated with   *)
(* every join at every place, without a GUC, up to the threshold; and where*)
(* a combination of scans is evaluated at all, every scan of every table   *)
(* is, whatever the configuration.                                         *)
HintsComplete ==
  pc = "listed" /\ Untipped =>
    /\ query.tables >= 2 /\ (threshold = -1 \/ query.tables <= threshold) => EveryJoinTried
    /\ (\E o \in opts : o.hints.scans # <<>>) => EveryScanTried

(* What README.md:140-149 says of queries with more tables, too: they "will*)
(* be tried to be joined by each join type".                               *)
JoinsAboveThreshold ==
  pc = "listed" /\ query.tables >= 2 /\ Untipped => EveryJoinTried

(* Every hint evaluated contains all the tips ask for, and nothing they    *)
(* reject; and a query is left without optimizations only if the tips      *)
(* exclude all of its hints, or no hints were made for its one table.      *)
TipsObeyed ==
  pc = "listed" =>
    /\ \A o \in opts : \A kind \in query.accept : kind \in Kinds(o.hints)
    /\ \A o \in opts : Kinds(o.hints) \cap query.reject = {}
    /\ opts = {} => /\ \A h \in joins \cup scans : Skipped(h)
                    /\ joins \cup scans = {} => query.tables <= 1

(* A GUC changes the statements of one copy of each optimization only: not *)
(* those of the query, of other optimizations, or of another GUC's copies. *)
GucStaysWithCopy ==
  /\ debug = {}
  /\ \A o \in opts : Cardinality(DebugOf(o)) <= 1 /\ (o.hinted => DebugOf(o) = {})
  /\ pc = "listed" =>
       \A o \in opts : \A guc \in Gucs :
         \E p \in opts : p.hints = o.hints /\ DebugOf(p) = {guc}
=============================================================================
