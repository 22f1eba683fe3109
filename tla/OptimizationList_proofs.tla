----------------------- MODULE OptimizationList_proofs -----------------------
(***************************************************************************)
(* Proofs about OptimizationList, for queries of any number of tables with *)
(* any tips and indexes, any threshold and any GUCs.                       *)
(***************************************************************************)
EXTENDS OptimizationList, FiniteSetTheorems, TLAPS

(* The hints that Leading constructs.                                      *)
Exhaustive ==
  /\ threshold = -1 \/ query.tables < threshold
  /\ joins = AllJoins /\ scans = ScanHints(Product(ScanLists))

Pairwise ==
  /\ threshold # -1 /\ query.tables = threshold /\ query.tables > 2
  /\ joins = PairwiseJoins /\ scans = {}

ScansOnly ==
  /\ threshold # -1 /\ query.tables > threshold
  /\ joins = {}
  /\ scans = IF query.tables <= 1 THEN {} ELSE ScanHints(AllPairs(ScanLists))

(* The optimizations without GUCs, and their copies with one.              *)
Listed == IF Added(joins) = {} THEN Added(scans) ELSE Added(joins)

WithGuc(o, guc) == [hints |-> o.hints, tips |-> "own", own |-> {guc}, hinted |-> FALSE]

Copies == {WithGuc(o, guc) : o \in Listed, guc \in Gucs}

ListInv ==
  /\ query \in Queries /\ threshold \in Thresholds
  /\ debug = {}
  /\ pc \in {"construct", "joins", "scans", "gucs", "listed", "raised"}
  /\ pc \in {"construct", "raised"} => joins = {} /\ scans = {}
  /\ pc \in {"joins", "scans", "gucs", "listed"} => Exhaustive \/ Pairwise \/ ScansOnly
  /\ pc \in {"construct", "joins", "raised"} => opts = {}
  /\ pc = "scans" => opts = Added(joins)
  /\ pc = "gucs" => opts = Listed
  /\ pc = "listed" => opts = Listed \cup Copies

-----------------------------------------------------------------------------
(* What is made of the query and the configuration does not change.        *)
LEMMA AddedKept ==
  ASSUME query' = query, NEW hints
  PROVE  Added(hints)' = Added(hints)
  BY DEF Added, Skipped, Kinds

LEMMA GivenKept ==
  ASSUME UNCHANGED given
  PROVE  /\ AllJoins' = AllJoins /\ PairwiseJoins' = PairwiseJoins
         /\ ScanHints(Product(ScanLists))' = ScanHints(Product(ScanLists))
         /\ ScanHints(AllPairs(ScanLists))' = ScanHints(AllPairs(ScanLists))
<1>1. /\ query' = query /\ bitmap' = bitmap /\ allIndexes' = allIndexes
  BY DEF given
<1>2. Orders' = Orders
  BY <1>1 DEF Orders
<1>3. ScanLists' = ScanLists
  BY <1>1 DEF ScanLists, ScansOf
<1> QED
  BY <1>1, <1>2, <1>3 DEF AllJoins, PairwiseJoins

LEMMA ListedKept ==
  ASSUME UNCHANGED <<query, joins, scans>>
  PROVE  Listed' = Listed /\ Copies' = Copies
<1>1. Added(joins)' = Added(joins) /\ Added(scans)' = Added(scans)
  BY DEF Added, Skipped, Kinds
<1>2. Listed' = Listed
  BY <1>1 DEF Listed
<1> QED
  BY <1>2 DEF Copies

LEMMA ListedShared ==
  ASSUME NEW o \in Listed
  PROVE  o.tips = "shared" /\ o.own = {} /\ o.hinted
  BY DEF Listed, Added

LEMMA ListInvInit == Init => ListInv
  BY DEF Init, ListInv

LEMMA ListInvNext == ListInv /\ [Next]_vars => ListInv'
<1> SUFFICES ASSUME ListInv, [Next]_vars PROVE ListInv'
  OBVIOUS
<1>0. query \in Queries /\ threshold \in Thresholds /\ debug = {}
  BY DEF ListInv
<1>1. CASE Construct
  <2>1. /\ pc = "construct" /\ opts = {} /\ opts' = {} /\ UNCHANGED given
        /\ joins = {} /\ scans = {}
        /\ query' = query /\ threshold' = threshold /\ debug' = {}
    BY <1>0, <1>1 DEF Construct, given, ListInv
  <2>2. CASE pc' = "joins"
    <3>1. (Exhaustive \/ Pairwise \/ ScansOnly)'
      BY <1>1, <2>1, <2>2, GivenKept DEF Construct, Exhaustive, Pairwise, ScansOnly
    <3> QED
      BY <1>0, <2>1, <2>2, <3>1 DEF ListInv
  <2>3. CASE pc' = "raised" /\ UNCHANGED <<joins, scans>>
    BY <1>0, <2>1, <2>3 DEF ListInv
  <2> QED
    BY <1>1, <2>2, <2>3 DEF Construct
<1>2. ASSUME UNCHANGED given, UNCHANGED <<joins, scans>>,
             pc \in {"joins", "scans", "gucs", "listed"}
      PROVE  (Exhaustive \/ Pairwise \/ ScansOnly)'
  <2>1. Exhaustive \/ Pairwise \/ ScansOnly
    BY <1>2 DEF ListInv
  <2> QED
    BY <1>2, <2>1, GivenKept DEF Exhaustive, Pairwise, ScansOnly, given
<1>3. CASE AddJoins
  <2>1. /\ pc = "joins" /\ pc' = "scans" /\ UNCHANGED given /\ UNCHANGED <<joins, scans>>
        /\ query' = query /\ threshold' = threshold /\ debug' = {} /\ opts' = Added(joins)
    BY <1>0, <1>3 DEF AddJoins, given
  <2>2. Added(joins)' = Added(joins)
    BY <2>1 DEF Added, Skipped, Kinds
  <2> QED
    BY <1>0, <1>2, <2>1, <2>2 DEF ListInv
<1>4. CASE AddScans
  <2>1. /\ pc = "scans" /\ pc' = "gucs" /\ UNCHANGED given /\ UNCHANGED <<joins, scans>>
        /\ query' = query /\ threshold' = threshold /\ debug' = {} /\ opts' = Listed
    BY <1>0, <1>4 DEF AddScans, given, Listed, ListInv
  <2> QED
    BY <1>0, <1>2, <2>1, ListedKept DEF ListInv
<1>5. CASE Multiply
  <2>1. /\ pc = "gucs" /\ pc' = "listed" /\ UNCHANGED given /\ UNCHANGED <<joins, scans>>
        /\ query' = query /\ threshold' = threshold /\ opts = Listed
        /\ opts' = opts \cup Multiplied(Gucs).copies /\ debug' = Multiplied(Gucs).debug
    BY <1>0, <1>5 DEF Multiply, given, ListInv
  <2>2. \A o \in Listed : DebugOf(o) = {}
    BY <1>0, ListedShared DEF DebugOf
  <2>3. Multiplied(Gucs).copies =
          {[hints |-> o.hints, tips |-> "own", own |-> DebugOf(o) \cup {guc}, hinted |-> FALSE] :
             o \in Listed, guc \in Gucs}
    BY <2>1 DEF Multiplied
  <2>4. Multiplied(Gucs).copies = Copies
    BY <2>2, <2>3 DEF Copies, WithGuc
  <2>5. debug' = {}
    BY <1>0, <2>1 DEF Multiplied
  <2> QED
    BY <1>0, <1>2, <2>1, <2>4, <2>5, ListedKept DEF ListInv
<1>6. CASE UNCHANGED vars
  <2>1. UNCHANGED given /\ UNCHANGED <<joins, scans>> /\ UNCHANGED <<query, threshold, debug, pc, opts>>
    BY <1>6 DEF vars, given
  <2>2. Added(joins)' = Added(joins)
    BY <2>1 DEF Added, Skipped, Kinds
  <2> QED
    BY <1>2, <2>1, <2>2, ListedKept DEF ListInv
<1> QED
  BY <1>1, <1>3, <1>4, <1>5, <1>6 DEF Next, Over

LEMMA AlwaysListed == Spec => []ListInv
  BY ListInvInit, ListInvNext, PTL DEF Spec

-----------------------------------------------------------------------------
(* GUCs. *)

(* A GUC changes the statements of one copy of each optimization only: not *)
(* those of the query, of other optimizations, or of another GUC's copies  *)
(* (the copies of get_all_optimizations and QueryTips.copy).               *)
THEOREM GucsStayWithCopies == Spec => []GucStaysWithCopy
<1>1. ListInv => GucStaysWithCopy
  <2> SUFFICES ASSUME ListInv PROVE GucStaysWithCopy
    OBVIOUS
  <2>1. debug = {}
    BY DEF ListInv
  <2>2. \A o \in Listed : DebugOf(o) = {}
    BY <2>1, ListedShared DEF DebugOf
  <2>3. \A o \in Copies : (\E guc \in Gucs : DebugOf(o) = {guc}) /\ ~o.hinted
    BY DEF Copies, WithGuc, DebugOf
  <2>4. opts \subseteq Listed \cup Copies
    BY DEF ListInv, Listed
  <2>5. \A guc : Cardinality({guc}) = 1 /\ Cardinality({}) = 0
    BY FS_Singleton, FS_EmptySet
  <2>6. ASSUME NEW o \in opts
        PROVE  Cardinality(DebugOf(o)) <= 1 /\ (o.hinted => DebugOf(o) = {})
    <3>1. CASE o \in Listed
      BY <2>2, <2>5, <3>1
    <3>2. CASE o \in Copies
      BY <2>3, <2>5, <3>2
    <3> QED
      BY <2>4, <3>1, <3>2
  <2>7. ASSUME pc = "listed", NEW o \in opts, NEW guc \in Gucs
        PROVE  \E p \in opts : p.hints = o.hints /\ DebugOf(p) = {guc}
    <3>1. opts = Listed \cup Copies
      BY <2>7 DEF ListInv
    <3>2. PICK l \in Listed : l.hints = o.hints
      BY <3>1 DEF Copies, WithGuc
    <3>3. WithGuc(l, guc) \in opts
      BY <3>1 DEF Copies
    <3>4. WithGuc(l, guc).hints = o.hints /\ DebugOf(WithGuc(l, guc)) = {guc}
      BY <3>2 DEF WithGuc, DebugOf
    <3> QED
      BY <3>3, <3>4
  <2> QED
    BY <2>1, <2>6, <2>7 DEF GucStaysWithCopy
<1> QED
  BY <1>1, AlwaysListed, PTL

-----------------------------------------------------------------------------
(* Combinations.  There is one with any two values of different sets, and  *)
(* with any one value, if no set is empty.                                 *)

LEMMA WithBoth ==
  ASSUME NEW sets, NEW i \in DOMAIN sets, NEW j \in DOMAIN sets, i # j, NEW a, NEW b
  PROVE  With(sets, i, a, j, b)[i] = a /\ With(sets, i, a, j, b)[j] = b
  BY DEF With

LEMMA PairTogether ==
  ASSUME NEW sets, DOMAIN sets \subseteq Int,
         NEW i \in DOMAIN sets, NEW j \in DOMAIN sets, i < j,
         NEW a \in sets[i], NEW b \in sets[j]
  PROVE  With(sets, i, a, j, b) \in AllPairs(sets)
<1> DEFINE P == {p \in (DOMAIN sets) \X (DOMAIN sets) : p[1] < p[2]}
           Of(ij) == {With(sets, ij[1], x, ij[2], y) : x \in sets[ij[1]], y \in sets[ij[2]]}
<1>1. <<i, j>> \in P
  OBVIOUS
<1>2. Of(<<i, j>>) = {With(sets, i, x, j, y) : x \in sets[i], y \in sets[j]}
  OBVIOUS
<1>3. With(sets, i, a, j, b) \in Of(<<i, j>>)
  BY <1>2
<1>4. AllPairs(sets) = UNION {Of(ij) : ij \in P}
  BY DEF AllPairs
<1> HIDE DEF P, Of
<1> QED
  BY <1>1, <1>3, <1>4

LEMMA PairFound ==
  ASSUME NEW sets, DOMAIN sets \subseteq Int,
         NEW i \in DOMAIN sets, NEW j \in DOMAIN sets, i < j,
         NEW a \in sets[i], NEW b \in sets[j]
  PROVE  \E c \in AllPairs(sets) : c[i] = a /\ c[j] = b
<1>1. i # j
  OBVIOUS
<1> QED
  BY <1>1, PairTogether, WithBoth

(* A combination takes each of its values from the set of that place.      *)
LEMMA PairsWithin ==
  ASSUME NEW sets, \A k \in DOMAIN sets : sets[k] # {}, NEW c \in AllPairs(sets)
  PROVE  /\ c = [k \in DOMAIN sets |-> c[k]]
         /\ \A k \in DOMAIN sets : c[k] \in sets[k]
<1>1. PICK i \in DOMAIN sets, j \in DOMAIN sets :
        \E a \in sets[i], b \in sets[j] : c = With(sets, i, a, j, b)
  <2> DEFINE P == {p \in (DOMAIN sets) \X (DOMAIN sets) : p[1] < p[2]}
  <2>1. PICK ij \in P : \E a \in sets[ij[1]], b \in sets[ij[2]] :
                          c = With(sets, ij[1], a, ij[2], b)
    BY DEF AllPairs
  <2>2. ij[1] \in DOMAIN sets /\ ij[2] \in DOMAIN sets
    OBVIOUS
  <2> QED
    BY <2>1, <2>2
<1>2. PICK a \in sets[i], b \in sets[j] : c = With(sets, i, a, j, b)
  BY <1>1
<1>3. \A k \in DOMAIN sets : (CHOOSE v \in sets[k] : TRUE) \in sets[k]
  OBVIOUS
<1> QED
  BY <1>2, <1>3 DEF With

LEMMA ValueFound ==
  ASSUME NEW sets, NEW n \in Nat, n >= 2, DOMAIN sets = 1..n,
         \A k \in 1..n : sets[k] # {},
         NEW i \in 1..n, NEW a \in sets[i]
  PROVE  \E c \in AllPairs(sets) : c[i] = a
<1>1. CASE i < n
  <2>1. PICK b : b \in sets[n]
    OBVIOUS
  <2> QED
    BY <1>1, <2>1, PairFound
<1>2. CASE i = n
  <2>1. PICK b : b \in sets[1]
    OBVIOUS
  <2>2. 1 < i /\ 1 \in 1..n
    BY <1>2
  <2> QED
    BY <2>1, <2>2, PairFound
<1> QED
  BY <1>1, <1>2

LEMMA ProductFound ==
  ASSUME NEW sets, \A k \in DOMAIN sets : sets[k] # {},
         NEW i \in DOMAIN sets, NEW a \in sets[i]
  PROVE  \E c \in Product(sets) : c[i] = a
<1> DEFINE c == [k \in DOMAIN sets |-> IF k = i THEN a ELSE CHOOSE v \in sets[k] : TRUE]
<1>1. \A k \in DOMAIN sets : (CHOOSE v \in sets[k] : TRUE) \in sets[k]
  OBVIOUS
<1>2. \A k \in DOMAIN sets : c[k] \in sets[k]
  BY <1>1
<1>3. c \in [DOMAIN sets -> UNION {sets[k] : k \in DOMAIN sets}]
  BY <1>2
<1>4. c \in Product(sets) /\ c[i] = a
  BY <1>2, <1>3 DEF Product
<1> QED
  BY <1>4

LEMMA ProductNotEmpty ==
  ASSUME NEW sets, \A k \in DOMAIN sets : sets[k] # {}
  PROVE  Product(sets) # {}
<1> DEFINE c == [k \in DOMAIN sets |-> CHOOSE v \in sets[k] : TRUE]
<1>1. \A k \in DOMAIN sets : (CHOOSE v \in sets[k] : TRUE) \in sets[k]
  OBVIOUS
<1>2. c \in Product(sets)
  BY <1>1 DEF Product
<1> QED
  BY <1>2

-----------------------------------------------------------------------------
(* The hints of a query. *)

TheTables == 1..query.tables

LEMMA TablesNatural ==
  ASSUME query \in Queries, threshold \in Thresholds
  PROVE  query.tables \in Nat /\ threshold \in Int
  BY ListAssumption

LEMMA OrdersPermute ==
  ASSUME query.tables \in Nat
  PROVE  /\ Orders = {f \in [TheTables -> TheTables] :
                        \A i, j \in TheTables : i # j => f[i] # f[j]}
         /\ Orders # {}
<1>1. Cardinality(1..query.tables) = query.tables
  BY FS_Interval
<1>2. Orders = {f \in [TheTables -> TheTables] : \A i, j \in TheTables : i # j => f[i] # f[j]}
  BY <1>1 DEF Orders, SetToSeqs, TheTables
<1>3. [k \in TheTables |-> k] \in Orders
  BY <1>2
<1> QED
  BY <1>2, <1>3

LEMMA ScansOfTables ==
  /\ DOMAIN ScanLists = TheTables
  /\ \A t \in TheTables : ScanLists[t] = ScansOf(t) /\ ScansOf(t) # {}
<1>1. \A t : <<"SeqScan", "any">> \in ScansOf(t)
  BY DEF ScansOf, PlainScans
<1> QED
  BY <1>1 DEF ScanLists, TheTables

(* Every join at every place of the joins. *)
JoinProduct == AllPairs([n \in 1..(query.tables - 1) |-> Joins])

Triples == AllPairs(<<Orders, JoinProduct, AllPairs(ScanLists)>>)

LEMMA JoinsPaired ==
  ASSUME query.tables \in Nat, query.tables > 2,
         NEW place \in 1..(query.tables - 1), NEW join \in Joins
  PROVE  \E js \in JoinProduct : js[place] = join
<1> DEFINE n == query.tables - 1
           sets == [k \in 1..n |-> Joins]
<1>1. n \in Nat /\ n >= 2 /\ place \in 1..n
  OBVIOUS
<1>2. DOMAIN sets = 1..n /\ join \in sets[place]
  OBVIOUS
<1>3. \A k \in 1..n : sets[k] # {}
  BY DEF Joins
<1>4. JoinProduct = AllPairs(sets)
  BY DEF JoinProduct
<1> HIDE DEF sets, n
<1>5. \E js \in AllPairs(sets) : js[place] = join
  BY <1>1, <1>2, <1>3, ValueFound
<1> QED
  BY <1>4, <1>5

LEMMA ScansPaired ==
  ASSUME query.tables \in Nat, query.tables >= 2,
         NEW t \in TheTables, NEW s \in ScansOf(t)
  PROVE  \E ss \in AllPairs(ScanLists) : ss[t] = s
<1> DEFINE n == query.tables
<1>1. n \in Nat /\ n >= 2 /\ t \in 1..n
  BY DEF TheTables
<1>2. DOMAIN ScanLists = 1..n /\ s \in ScanLists[t] /\ \A k \in 1..n : ScanLists[k] # {}
  BY ScansOfTables DEF TheTables
<1> HIDE DEF n
<1> QED
  BY <1>1, <1>2, ValueFound

LEMMA PairedNotEmpty ==
  ASSUME query.tables \in Nat, query.tables > 2
  PROVE  Orders # {} /\ JoinProduct # {} /\ AllPairs(ScanLists) # {}
<1>1. 1 \in 1..(query.tables - 1) /\ "HashJoin" \in Joins /\ 1 \in TheTables
  BY DEF Joins, TheTables
<1>2. JoinProduct # {}
  BY <1>1, JoinsPaired
<1>3. PICK s : s \in ScansOf(1)
  BY <1>1, ScansOfTables
<1>4. AllPairs(ScanLists) # {}
  BY <1>1, <1>3, ScansPaired
<1> QED
  BY <1>2, <1>4, OrdersPermute

LEMMA TriplesPaired ==
  ASSUME query.tables \in Nat, query.tables > 2
  PROVE  /\ \A order \in Orders, js \in JoinProduct :
              \E c \in Triples : c[1] = order /\ c[2] = js
         /\ \A ss \in AllPairs(ScanLists) : \E c \in Triples : c[3] = ss
         /\ Triples # {}
<1> DEFINE sets == <<Orders, JoinProduct, AllPairs(ScanLists)>>
<1>1. /\ DOMAIN sets = 1..3
      /\ sets[1] = Orders /\ sets[2] = JoinProduct /\ sets[3] = AllPairs(ScanLists)
  OBVIOUS
<1>2. Triples = AllPairs(sets)
  BY DEF Triples
<1>3. Orders # {} /\ JoinProduct # {} /\ AllPairs(ScanLists) # {}
  BY PairedNotEmpty
<1> HIDE DEF sets
<1>4. \A order \in Orders, js \in JoinProduct : \E c \in Triples : c[1] = order /\ c[2] = js
  BY <1>1, <1>2, PairFound
<1>5. \A ss \in AllPairs(ScanLists) : \E c \in Triples : c[3] = ss
  <2>1. PICK order : order \in sets[1]
    BY <1>1, <1>3
  <2> QED
    BY <1>1, <1>2, <2>1, PairFound
<1> QED
  BY <1>3, <1>4, <1>5

-----------------------------------------------------------------------------
(* Tips. *)

LEMMA AddedHints ==
  ASSUME NEW hints
  PROVE  /\ \A o \in Added(hints) : o.hints \in hints /\ ~Skipped(o.hints)
         /\ \A h \in hints : Skipped(h) \/ \E o \in Added(hints) : o.hints = h
<1> DEFINE Option(h) == [hints |-> h, tips |-> "shared", own |-> {}, hinted |-> TRUE]
<1>1. Added(hints) = {Option(h) : h \in {g \in hints : ~Skipped(g)}}
  BY DEF Added
<1>2. \A h : Option(h).hints = h
  OBVIOUS
<1> HIDE DEF Option
<1> QED
  BY <1>1, <1>2

LEMMA OptionHints ==
  ASSUME ListInv, NEW o \in opts
  PROVE  \E l \in Listed : l.hints = o.hints
<1>1. opts \subseteq Listed \cup Copies
  BY DEF ListInv, Listed
<1>2. ASSUME NEW c \in Copies PROVE \E l \in Listed : l.hints = c.hints
  BY DEF Copies, WithGuc
<1> QED
  BY <1>1, <1>2

LEMMA ListedHints ==
  ASSUME NEW l \in Listed
  PROVE  l.hints \in joins \cup scans /\ ~Skipped(l.hints)
  BY AddedHints DEF Listed

LEMMA HintsMade ==
  ASSUME ListInv, pc = "listed", joins \cup scans = {}
  PROVE  query.tables <= 1
<1>1. query.tables \in Nat /\ threshold \in Int
  BY TablesNatural DEF ListInv
<1>2. Exhaustive \/ Pairwise \/ ScansOnly
  BY DEF ListInv
<1>3. CASE Exhaustive
  <2>1. Product(ScanLists) # {}
    BY ProductNotEmpty, ScansOfTables
  <2> QED
    BY <1>3, <2>1 DEF Exhaustive, ScanHints
<1>4. CASE Pairwise
  <2>1. PICK c : c \in Triples
    BY <1>1, <1>4, TriplesPaired DEF Pairwise
  <2>2. PairwiseJoins = {Hint(t[1], t[2], t[3]) : t \in Triples}
    BY DEF PairwiseJoins, Triples, JoinProduct
  <2> QED
    BY <1>4, <2>1, <2>2 DEF Pairwise
<1>5. CASE ScansOnly /\ query.tables >= 2
  <2>1. 1 \in TheTables
    BY <1>1, <1>5 DEF TheTables
  <2>2. PICK s : s \in ScansOf(1)
    BY <2>1, ScansOfTables
  <2>3. AllPairs(ScanLists) # {}
    BY <1>1, <1>5, <2>1, <2>2, ScansPaired
  <2> QED
    BY <1>1, <1>5, <2>3 DEF ScansOnly, ScanHints
<1> QED
  BY <1>1, <1>2, <1>3, <1>4, <1>5

(* Every hint evaluated contains all the tips ask for, and nothing they    *)
(* reject; and a query is left without optimizations only if the tips      *)
(* exclude all of its hints, and hints are made for any two tables         *)
(* (filter_optimization_tips, get_all_optimizations and Leading).          *)
THEOREM TipsAreObeyed == Spec => []TipsObeyed
<1>1. ListInv => TipsObeyed
  <2> SUFFICES ASSUME ListInv, pc = "listed" PROVE TipsObeyed
    BY DEF TipsObeyed
  <2>1. \A o \in opts : ~Skipped(o.hints)
    BY OptionHints, ListedHints
  <2>2. ASSUME opts = {} PROVE \A h \in joins \cup scans : Skipped(h)
    <3>1. Listed = {}
      BY <2>2 DEF ListInv
    <3>2. Added(joins) = {} /\ Added(scans) = {}
      BY <3>1 DEF Listed
    <3> QED
      BY <3>2, AddedHints
  <2> QED
    BY <2>1, <2>2, HintsMade DEF TipsObeyed, Skipped
<1> QED
  BY <1>1, AlwaysListed, PTL

-----------------------------------------------------------------------------
(* Completeness. *)

LEMMA HintsEvaluated ==
  ASSUME ListInv, pc = "listed", Untipped,
         NEW h \in joins \cup scans, h \in joins \/ joins = {}
  PROVE  \E e \in Evaluated : e.hints = h
<1>1. ~Skipped(h)
  BY DEF Untipped, Skipped
<1>2. PICK o \in Listed : o.hints = h
  <2>1. CASE h \in joins
    BY <1>1, <2>1, AddedHints DEF Listed
  <2>2. CASE joins = {} /\ h \in scans
    <3>1. Added(joins) = {}
      BY <2>2 DEF Added
    <3> QED
      BY <1>1, <2>2, <3>1, AddedHints DEF Listed
  <2> QED
    BY <2>1, <2>2
<1>3. o \in opts /\ o.hinted
  BY ListedShared DEF ListInv
<1>4. [hints |-> o.hints, debug |-> DebugOf(o)] \in Evaluated
  BY <1>3 DEF Evaluated
<1> QED
  BY <1>2, <1>4

LEMMA JoinsComplete ==
  ASSUME ListInv, pc = "listed", Untipped,
         query.tables >= 2, threshold = -1 \/ query.tables <= threshold
  PROVE  EveryJoinTried
<1>0. query.tables \in Nat /\ threshold \in Int
  BY TablesNatural DEF ListInv
<1> SUFFICES ASSUME NEW order \in Orders, NEW place \in 1..(query.tables - 1), NEW join \in Joins
             PROVE  \E h \in joins : h.order = order /\ h.joins[place] = join
  BY HintsEvaluated DEF EveryJoinTried, JoinTried, Orders
<1>1. Exhaustive \/ Pairwise
  BY <1>0 DEF ListInv, ScansOnly
<1>2. CASE Exhaustive
  <2> DEFINE js == [k \in 1..(query.tables - 1) |-> join]
  <2>1. js \in [1..(query.tables - 1) -> Joins] /\ js[place] = join
    OBVIOUS
  <2>2. Hint(order, js, <<>>) \in joins
    BY <1>0, <1>2, <2>1 DEF Exhaustive, AllJoins
  <2> QED
    BY <2>1, <2>2 DEF Hint
<1>3. CASE Pairwise
  <2>1. PICK js \in JoinProduct : js[place] = join
    BY <1>0, <1>3, JoinsPaired DEF Pairwise
  <2>2. PICK c \in Triples : c[1] = order /\ c[2] = js
    BY <1>0, <1>3, TriplesPaired DEF Pairwise
  <2>3. Hint(c[1], c[2], c[3]) \in PairwiseJoins
    BY DEF PairwiseJoins, Triples, JoinProduct
  <2> QED
    BY <1>3, <2>1, <2>2, <2>3 DEF Pairwise, Hint
<1> QED
  BY <1>1, <1>2, <1>3

LEMMA ScansComplete ==
  ASSUME ListInv, pc = "listed", Untipped, NEW o \in opts, o.hints.scans # <<>>
  PROVE  EveryScanTried
<1>0. query.tables \in Nat /\ threshold \in Int
  BY TablesNatural DEF ListInv
<1> SUFFICES ASSUME NEW t \in TheTables, NEW s \in ScansOf(t)
             PROVE  \E h \in joins \cup scans : h.scans[t] = s /\ (h \in joins \/ joins = {})
  BY HintsEvaluated DEF EveryScanTried, TheTables
<1>1. Exhaustive \/ Pairwise \/ ScansOnly
  BY DEF ListInv
<1>2. CASE Exhaustive
  <2>1. \A h \in AllJoins : h.scans = <<>>
    BY DEF AllJoins, Hint
  <2>2. joins = {}
    <3>1. SUFFICES ASSUME joins # {} PROVE FALSE
      OBVIOUS
    <3>2. Added(joins) # {}
      BY <3>1, AddedHints DEF Untipped, Skipped
    <3>3. PICK l \in Listed : l.hints = o.hints
      BY OptionHints
    <3>4. l.hints \in joins
      BY <3>2, <3>3, AddedHints DEF Listed
    <3> QED
      BY <1>2, <2>1, <3>3, <3>4 DEF Exhaustive
  <2>3. PICK ss \in Product(ScanLists) : ss[t] = s
    BY ProductFound, ScansOfTables
  <2>4. Hint(<<>>, <<>>, ss) \in scans
    BY <1>2 DEF Exhaustive, ScanHints
  <2> QED
    BY <2>2, <2>3, <2>4 DEF Hint
<1>3. CASE Pairwise
  <2>1. PICK ss \in AllPairs(ScanLists) : ss[t] = s
    BY <1>0, <1>3, ScansPaired DEF Pairwise
  <2>2. PICK c \in Triples : c[3] = ss
    BY <1>0, <1>3, TriplesPaired DEF Pairwise
  <2>3. Hint(c[1], c[2], c[3]) \in PairwiseJoins
    BY DEF PairwiseJoins, Triples, JoinProduct
  <2> QED
    BY <1>3, <2>1, <2>2, <2>3 DEF Pairwise, Hint
<1>4. CASE ScansOnly
  <2>1. query.tables >= 2
    <3>1. PICK l \in Listed : l.hints = o.hints
      BY OptionHints
    <3>2. scans # {}
      BY <1>4, <3>1, ListedHints DEF ScansOnly
    <3> QED
      BY <1>0, <1>4, <3>2 DEF ScansOnly
  <2>2. PICK ss \in AllPairs(ScanLists) : ss[t] = s
    BY <1>0, <2>1, ScansPaired
  <2>3. Hint(<<>>, <<>>, ss) \in scans
    BY <1>0, <1>4, <2>1 DEF ScansOnly, ScanHints
  <2> QED
    BY <1>4, <2>2, <2>3 DEF ScansOnly, Hint
<1> QED
  BY <1>1, <1>2, <1>3, <1>4

(* For a query without tips, every order of its tables is evaluated with   *)
(* every join at every place, without a GUC, up to the threshold; and where*)
(* a combination of scans is evaluated at all, every scan of every table   *)
(* is, whatever the configuration (Leading's three generators).            *)
THEOREM HintsAreComplete == Spec => []HintsComplete
<1>1. ListInv => HintsComplete
  BY JoinsComplete, ScansComplete DEF HintsComplete
<1> QED
  BY <1>1, AlwaysListed, PTL

-----------------------------------------------------------------------------
(* Types. *)

(* The joins of a hint: one for each table but the first, unless no order  *)
(* is given at all.                                                        *)
Shaped(h) == Len(h.joins) = IF h.order = <<>> THEN 0 ELSE query.tables - 1

LEMMA JoinsShaped ==
  ASSUME query.tables \in Nat, query.tables >= 2,
         NEW order \in Orders, NEW js \in [1..(query.tables - 1) -> Joins], NEW ss
  PROVE  Shaped(Hint(order, js, ss))
<1>1. query.tables - 1 \in Nat
  OBVIOUS
<1>2. js \in Seq(Joins) /\ Len(js) = query.tables - 1
  BY <1>1
<1>3. order # <<>>
  <2>1. DOMAIN order = 1..query.tables
    BY OrdersPermute DEF TheTables
  <2>2. 1 \in DOMAIN order
    BY <2>1
  <2> QED
    BY <2>2
<1> QED
  BY <1>2, <1>3 DEF Shaped, Hint

LEMMA HintsShaped ==
  ASSUME ListInv, NEW h \in joins \cup scans
  PROVE  Shaped(h)
<1>0. query.tables \in Nat /\ threshold \in Int
  BY TablesNatural DEF ListInv
<1>1. Exhaustive \/ Pairwise \/ ScansOnly
  BY DEF ListInv
<1>2. \A ss : Shaped(Hint(<<>>, <<>>, ss))
  BY DEF Shaped, Hint
<1>3. CASE h \in scans
  BY <1>1, <1>2, <1>3 DEF Exhaustive, Pairwise, ScansOnly, ScanHints
<1>4. CASE Exhaustive /\ h \in joins
  BY <1>0, <1>4, JoinsShaped DEF Exhaustive, AllJoins
<1>5. CASE Pairwise /\ h \in joins
  <2>0. query.tables > 2
    BY <1>5 DEF Pairwise
  <2> DEFINE sets == <<Orders, JoinProduct, AllPairs(ScanLists)>>
  <2>1. PICK c \in AllPairs(sets) : h = Hint(c[1], c[2], c[3])
    BY <1>5 DEF Pairwise, PairwiseJoins, JoinProduct
  <2>2. \A k \in DOMAIN sets : sets[k] # {}
    <3>1. DOMAIN sets = 1..3
      OBVIOUS
    <3>2. Orders # {} /\ JoinProduct # {} /\ AllPairs(ScanLists) # {}
      BY <1>0, <2>0, PairedNotEmpty
    <3> QED
      BY <3>1, <3>2
  <2>3. c[1] \in Orders /\ c[2] \in JoinProduct
    <3>1. /\ 1 \in DOMAIN sets /\ sets[1] = Orders
          /\ 2 \in DOMAIN sets /\ sets[2] = JoinProduct
      OBVIOUS
    <3> HIDE DEF sets
    <3> QED
      BY <2>2, <3>1, PairsWithin
  <2>4. c[2] \in [1..(query.tables - 1) -> Joins]
    <3> DEFINE js == [n \in 1..(query.tables - 1) |-> Joins]
    <3>1. \A k \in DOMAIN js : js[k] = Joins /\ js[k] # {}
      BY DEF Joins
    <3>2. c[2] \in AllPairs(js) /\ DOMAIN js = 1..(query.tables - 1)
      BY <2>3 DEF JoinProduct
    <3> HIDE DEF js
    <3>3. c[2] = [k \in DOMAIN js |-> c[2][k]] /\ \A k \in DOMAIN js : c[2][k] \in js[k]
      BY <3>1, <3>2, PairsWithin
    <3>4. \A k \in DOMAIN js : c[2][k] \in Joins
      BY <3>1, <3>3
    <3> QED
      BY <3>2, <3>3, <3>4
  <2> QED
    BY <1>0, <2>0, <2>1, <2>3, <2>4, JoinsShaped
<1> QED
  BY <1>1, <1>3, <1>4, <1>5 DEF ScansOnly

(* Every variable keeps its type: the hints have a join for each table but *)
(* the first, whichever generator made them.                               *)
THEOREM ListTypes == Spec => []TypeOK
<1>1. ListInv => TypeOK
  <2> SUFFICES ASSUME ListInv PROVE TypeOK
    OBVIOUS
  <2>1. pc \in {"construct", "joins", "scans", "gucs", "listed", "raised"} /\ debug \subseteq Gucs
    BY DEF ListInv
  <2>2. ASSUME NEW o \in opts PROVE Shaped(o.hints)
    BY OptionHints, ListedHints, HintsShaped
  <2>3. ASSUME NEW o \in opts PROVE o.tips \in {"shared", "own"} /\ o.own \subseteq Gucs
    <3>1. opts \subseteq Listed \cup Copies
      BY DEF ListInv, Listed
    <3>2. \A c \in Copies : c.tips = "own" /\ c.own \subseteq Gucs
      BY DEF Copies, WithGuc
    <3> QED
      BY <3>1, <3>2, ListedShared
  <2> QED
    BY <2>1, <2>2, <2>3 DEF TypeOK, Shaped
<1> QED
  BY <1>1, AlwaysListed, PTL
=============================================================================
