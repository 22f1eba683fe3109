---------------------------- MODULE Reports_proofs ----------------------------
(***************************************************************************)
(* Proofs about Reports: what the score, the regression, the taqo, the     *)
(* selectivity and the cost report say is true of files of any length, of  *)
(* any times and plans, and for any allowed difference and any charts.     *)
(***************************************************************************)
EXTENDS Reports, FiniteSetTheorems, SequenceTheorems, WellFoundedInduction, TLAPS

-----------------------------------------------------------------------------
(* Least elements, counting, and the stable sort.                          *)
LEMMA LeastNatural ==
  ASSUME NEW S, S \subseteq Nat, S # {}
  PROVE  Min(S) \in S /\ \A k \in S : Min(S) <= k
<1> DEFINE R == OpToRel(<, Nat)
<1>1. IsWellFoundedOn(R, Nat)
  BY NatLessThanWellFounded
<1>2. \A k, m \in Nat : k < m => <<k, m>> \in R
  BY DEF OpToRel
<1> HIDE DEF R
<1>3. PICK m \in S : \A k \in S : <<k, m>> \notin R
  BY <1>1, WFMin
<1>4. \A k \in S : ~(k < m)
  BY <1>2, <1>3, Zenon
<1>5. m \in Int /\ S \subseteq Int
  OBVIOUS
<1>6. \E x \in S : \A k \in S : x <= k
  BY <1>4, <1>5
<1> QED
  BY <1>6, Zenon DEF Min

LEMMA SequenceFacts ==
  ASSUME NEW s, IsSequence(s)
  PROVE  Len(s) \in Nat /\ DOMAIN s = 1..Len(s) /\ (s = <<>> <=> Len(s) = 0)
  BY DEF IsSequence

(* A function on 1..n is a sequence of length n.                           *)
LEMMA FunctionIsSequence ==
  ASSUME NEW n \in Nat, NEW s, DOMAIN s = 1..n, s = [k \in 1..n |-> s[k]]
  PROVE  IsSequence(s) /\ Len(s) = n
<1>1. \A k \in 1..n : s[k] \in ToSet(s)
  BY DEF ToSet
<1> QED
  BY <1>1 DEF IsSequence

(* One more element of A is seen, or not.                                  *)
LEMMA CountStep ==
  ASSUME NEW A, NEW n \in Nat, n >= 1
  PROVE  /\ Cardinality((1..n) \cap A) = Cardinality((1..(n - 1)) \cap A) + Count(n \in A)
         /\ Cardinality((1..(n - 1)) \cap A) \in Nat
<1> DEFINE S == (1..(n - 1)) \cap A
<1>1. IsFiniteSet(S)
  <2>1. IsFiniteSet(1..(n - 1)) /\ S \in SUBSET (1..(n - 1))
    BY FS_Interval
  <2> QED
    BY <2>1, FS_Subset
<1>2. n \notin S
  OBVIOUS
<1>3. CASE n \in A
  <2>1. (1..n) \cap A = S \cup {n}
    BY <1>3
  <2> QED
    BY <1>1, <1>2, <1>3, <2>1, FS_AddElement, FS_CardinalityType DEF Count
<1>4. CASE n \notin A
  <2>1. (1..n) \cap A = S
    BY <1>4
  <2>2. Count(n \in A) = 0
    BY <1>4 DEF Count
  <2>3. Cardinality(S) \in Nat
    BY <1>1, FS_CardinalityType
  <2> QED
    BY <2>1, <2>2, <2>3
<1> QED
  BY <1>3, <1>4

LEMMA CountNone == \A A : Cardinality((1..0) \cap A) = 0
<1> SUFFICES ASSUME NEW A
             PROVE  Cardinality((1..0) \cap A) = 0
  OBVIOUS
<1>1. (1..0) \cap A = {}
  OBVIOUS
<1> QED
  BY <1>1, FS_EmptySet

LEMMA EarlierPlace ==
  ASSUME NEW kept, IsFiniteSet(kept), kept \subseteq Nat, NEW key, \A n \in kept : key[n] \in Nat,
         NEW a \in kept, NEW b \in kept, Earlier(key, a, b)
  PROVE  Place(kept, key, a) < Place(kept, key, b)
<1> DEFINE Before(n) == {m \in kept : Earlier(key, m, n)}
<1>1. ASSUME NEW m \in kept, Earlier(key, m, a)
      PROVE  Earlier(key, m, b)
  <2>1. /\ key[m] \in Nat /\ key[a] \in Nat /\ key[b] \in Nat
        /\ m \in Nat /\ a \in Nat /\ b \in Nat
    OBVIOUS
  <2> QED
    BY <1>1, <2>1 DEF Earlier
<1>2. a \in Before(b) /\ a \notin Before(a)
  BY DEF Earlier
<1>3. IsFiniteSet(Before(b)) /\ IsFiniteSet(Before(a))
  BY FS_Subset
<1>4. Cardinality(Before(a)) <= Cardinality(Before(b)) /\ Cardinality(Before(b)) # Cardinality(Before(a))
  BY <1>1, <1>2, <1>3, FS_Subset
<1> QED
  BY <1>3, <1>4, FS_CardinalityType DEF Place

(* The sort puts every member kept at one place, and an earlier one first. *)
SortedBy(s, queries, kept, key) ==
  /\ IsSequence(s) /\ Cardinality(kept) \in Nat /\ Len(s) = Cardinality(kept)
  /\ \E order \in [1..Len(s) -> kept] :
       /\ \A k \in 1..Len(s) : s[k] = queries[order[k]]
       /\ \A n \in kept : \E k \in 1..Len(s) : order[k] = n
       /\ \A j, k \in 1..Len(s) : j < k => Earlier(key, order[j], order[k])

LEMMA SortedFacts ==
  ASSUME NEW queries, NEW kept, IsFiniteSet(kept), kept \subseteq Nat,
         NEW key, \A n \in kept : key[n] \in Nat
  PROVE  SortedBy(Sorted(queries, kept, key), queries, kept, key)
<1> DEFINE c == Cardinality(kept)
           s == Sorted(queries, kept, key)
           P(n) == Place(kept, key, n)
           Before(n) == {m \in kept : Earlier(key, m, n)}
<1>1. c \in Nat
  BY FS_CardinalityType
<1>2. ASSUME NEW n \in kept
      PROVE  P(n) \in 1..c
  <2>1. n \notin Before(n)
    BY DEF Earlier
  <2>2. Before(n) \in SUBSET kept /\ Before(n) # kept
    BY <2>1
  <2>3. /\ IsFiniteSet(Before(n)) /\ Cardinality(Before(n)) <= c
        /\ Cardinality(Before(n)) # c
    BY <2>2, FS_Subset
  <2>4. Cardinality(Before(n)) \in Nat
    BY <2>3, FS_CardinalityType
  <2> QED
    BY <1>1, <2>3, <2>4 DEF Place
<1>3. ASSUME NEW a \in kept, NEW b \in kept, a # b
      PROVE  Earlier(key, a, b) \/ Earlier(key, b, a)
  <2>1. key[a] \in Nat /\ key[b] \in Nat /\ a \in Nat /\ b \in Nat
    OBVIOUS
  <2> QED
    BY <1>3, <2>1 DEF Earlier
<1>4. ASSUME NEW a \in kept, NEW b \in kept, Earlier(key, a, b)
      PROVE  P(a) < P(b)
  BY <1>4, EarlierPlace
<1> HIDE DEF P
<1>5. \A a, b \in kept : P(a) = P(b) => a = b
  BY <1>2, <1>3, <1>4
<1> DEFINE f == [n \in kept |-> P(n)]
<1>6. f \in Injection(kept, 1..c)
  BY <1>2, <1>5 DEF Injection, IsInjective
<1>7. IsFiniteSet(1..c) /\ Cardinality(1..c) = c
  BY <1>1, FS_Interval
<1>8. f \in Surjection(kept, 1..c)
  BY <1>6, <1>7, FS_Injection
<1>9. \A k \in 1..c : \E n \in kept : P(n) = k
  BY <1>8 DEF Surjection
<1> DEFINE order == [k \in 1..c |-> CHOOSE n \in kept : P(n) = k]
<1>10. \A k \in 1..c : order[k] \in kept /\ P(order[k]) = k
  BY <1>9
<1>11. order \in [1..c -> kept]
  BY <1>10
<1>12. \A k \in 1..c : s[k] = queries[order[k]]
  BY DEF Sorted, P
<1>13. \A n \in kept : \E k \in 1..c : order[k] = n
  BY <1>2, <1>5, <1>10
<1>14. ASSUME NEW j \in 1..c, NEW k \in 1..c, j < k
       PROVE  Earlier(key, order[j], order[k])
  <2>1. order[j] # order[k]
    BY <1>10, <1>14
  <2>2. ~Earlier(key, order[k], order[j])
    <3> SUFFICES ASSUME Earlier(key, order[k], order[j])
                 PROVE  FALSE
      OBVIOUS
    <3>1. P(order[k]) < P(order[j])
      BY <1>4, <1>10
    <3> QED
      BY <1>10, <1>14, <3>1
  <2> QED
    BY <1>3, <1>10, <2>1, <2>2
<1>15. DOMAIN s = 1..c /\ s = [k \in 1..c |-> s[k]]
  BY DEF Sorted
<1>16. IsSequence(s) /\ Len(s) = c
  BY <1>1, <1>15, FunctionIsSequence, Zenon
<1> HIDE DEF order
<1> QED
  BY <1>1, <1>11, <1>12, <1>13, <1>14, <1>16 DEF SortedBy

-----------------------------------------------------------------------------
(* Queries, their best optimizations, and their counterparts.              *)
LEMMA FastestFacts ==
  ASSUME NEW q, IsQuery(q), HasOpts(q), Faster(q) # {}
  PROVE  /\ Min(Fastest(q)) \in DOMAIN q.opts
         /\ 0 < q.opts[Min(Fastest(q))].time /\ q.opts[Min(Fastest(q))].time < Limit(q)
         /\ \A m \in Faster(q) : q.opts[Min(Fastest(q))].time <= q.opts[m].time
<1>1. /\ IsSequence(q.opts)
      /\ \A n \in DOMAIN q.opts : q.opts[n].time \in Int
  BY DEF IsQuery, HasOpts, IsStored
<1>2. Len(q.opts) \in Nat /\ DOMAIN q.opts = 1..Len(q.opts)
  BY <1>1, SequenceFacts
<1> DEFINE T == {q.opts[n].time : n \in Faster(q)}
<1>3. T \subseteq Nat /\ T # {}
  BY <1>1 DEF Faster
<1>4. Min(T) \in T /\ \A t \in T : Min(T) <= t
  BY <1>3, LeastNatural
<1>5. PICK n \in Faster(q) : q.opts[n].time = Min(T)
  BY <1>4
<1>6. n \in Fastest(q)
  BY <1>4, <1>5 DEF Fastest
<1>7. Fastest(q) \subseteq Nat
  BY <1>2 DEF Fastest, Faster
<1>8. Min(Fastest(q)) \in Fastest(q)
  BY <1>6, <1>7, LeastNatural
<1> QED
  BY <1>8 DEF Fastest, Faster

(* The best of a query is the query itself or a success that beats it.     *)
IsGain(q, o) ==
  /\ 0 < o.time /\ o.time < Limit(q) /\ ~AllowedDiff(o.time, q.time)
  /\ \A m \in DOMAIN q.opts :
       0 < q.opts[m].time /\ q.opts[m].time < Limit(q) => o.time <= q.opts[m].time

LEMMA BestFacts ==
  ASSUME NEW q, IsQuery(q)
  PROVE  \/ Best(q) = q
         \/ HasOpts(q) /\ \E n \in DOMAIN q.opts : Best(q) = q.opts[n] /\ IsGain(q, q.opts[n])
<1>1. CASE ~q.typed \/ ~HasOpts(q) \/ Faster(q) = {}
  BY <1>1 DEF Best
<1>2. CASE q.typed /\ HasOpts(q) /\ Faster(q) # {}
  <2> DEFINE n == Min(Fastest(q))
  <2>1. /\ n \in DOMAIN q.opts
        /\ 0 < q.opts[n].time /\ q.opts[n].time < Limit(q)
        /\ \A m \in Faster(q) : q.opts[n].time <= q.opts[m].time
    BY <1>2, FastestFacts
  <2>2. Best(q) = IF AllowedDiff(q.opts[n].time, q.time) THEN q ELSE q.opts[n]
    BY <1>2 DEF Best
  <2> HIDE DEF n
  <2>3. \A m \in DOMAIN q.opts :
          0 < q.opts[m].time /\ q.opts[m].time < Limit(q) => q.opts[n].time <= q.opts[m].time
    BY <2>1 DEF Faster
  <2> QED
    BY <1>2, <2>1, <2>2, <2>3 DEF IsGain
<1> QED
  BY <1>1, <1>2

(* If the query itself is the best, every faster success is within the     *)
(* allowed difference of it.                                               *)
LEMMA OwnBestFacts ==
  ASSUME NEW q, IsQuery(q), Best(q) = q, HasOpts(q), q.time > 0,
         NEW o \in DOMAIN q.opts, 0 < q.opts[o].time, q.opts[o].time < q.time
  PROVE  AllowedDiff(q.opts[o].time, q.time)
<1> DEFINE n == Min(Fastest(q))
<1>1. q.typed = TRUE /\ q.time \in Int /\ \A m \in DOMAIN q.opts : q.opts[m].time \in Int
  BY DEF IsQuery, IsStored, Stored, HasOpts
<1>2. Limit(q) = q.time /\ o \in Faster(q)
  BY <1>1 DEF Limit, Faster
<1>3. /\ n \in DOMAIN q.opts
      /\ 0 < q.opts[n].time /\ q.opts[n].time < q.time
      /\ q.opts[n].time <= q.opts[o].time
  BY <1>2, FastestFacts
<1>4. Best(q) = IF AllowedDiff(q.opts[n].time, q.time) THEN q ELSE q.opts[n]
  BY <1>1, <1>2 DEF Best
<1> HIDE DEF n
<1>5. q.opts[n] # q
  BY <1>1, <1>3
<1>6. AllowedDiff(q.opts[n].time, q.time)
  BY <1>4, <1>5
<1>7. DeltaPct * q.time \in Int
  BY <1>1, StoredAssumption
<1> QED
  BY <1>1, <1>3, <1>6, <1>7 DEF AllowedDiff

(* What the reports need to know of the best of a query.                   *)
LEMMA BestTimes ==
  ASSUME NEW q, IsQuery(q)
  PROVE  /\ q.time \in Int /\ q.time >= -1 /\ Best(q).time \in Int /\ Best(q).time >= -1
         /\ Best(q) # q => Best(q).time > 0
         /\ q.time > 0 => Best(q).time > 0 /\ Best(q).time <= q.time
<1>1. q.time \in Int /\ q.time >= -1
  BY DEF IsQuery, IsStored
<1>2. CASE Best(q) = q
  BY <1>1, <1>2
<1>3. ASSUME HasOpts(q), NEW n \in DOMAIN q.opts, Best(q) = q.opts[n], IsGain(q, q.opts[n])
      PROVE  /\ Best(q).time \in Int /\ Best(q).time >= -1
             /\ Best(q).time > 0
             /\ q.time > 0 => Best(q).time <= q.time
  <2>1. q.opts[n].time \in Int
    BY <1>3 DEF IsQuery, IsStored, HasOpts
  <2>2. q.time > 0 => Limit(q) = q.time
    BY <1>1 DEF Limit
  <2> QED
    BY <1>1, <1>3, <2>1, <2>2 DEF IsGain
<1> QED
  BY <1>1, <1>2, <1>3, BestFacts

(* The counterpart of a query is one with its hash, if there is one.       *)
LEMMA FoundFacts ==
  ASSUME NEW file, ResultFile(file), file # None, NEW hash
  PROVE  /\ FindByHash(file, hash) = None =>
              \A n \in DOMAIN file : file[n].hash # hash
         /\ FindByHash(file, hash) # None =>
              \E n \in DOMAIN file : file[n].hash = hash /\ FindByHash(file, hash) = file[n]
<1>1. IsSequence(file) /\ \A n \in DOMAIN file : file[n] # None
  BY DEF ResultFile, IsQuery, IsStored
<1> DEFINE found == {n \in DOMAIN file : file[n].hash = hash}
<1>2. found \subseteq Nat
  BY <1>1, SequenceFacts
<1>3. CASE found = {}
  <2>1. FindByHash(file, hash) = None
    BY <1>3 DEF FindByHash
  <2> QED
    BY <1>3, <2>1
<1>4. CASE found # {}
  <2>1. Min(found) \in found
    BY <1>2, <1>4, LeastNatural
  <2>2. FindByHash(file, hash) = file[Min(found)]
    BY <1>4 DEF FindByHash
  <2> QED
    BY <1>1, <2>1, <2>2
<1> QED
  BY <1>3, <1>4

(* A copy stands for the query that it lacks a counterpart for.            *)
LEMMA CopyFacts ==
  ASSUME NEW q
  PROVE  LET c == CreateCopy(q)
         IN  /\ c.hash = q.hash /\ c.tag = q.tag /\ c.time = -1 /\ c.plan = NotFound /\ ~c.typed
             /\ Best(c) = c
  BY DEF CreateCopy, Stored, Best

-----------------------------------------------------------------------------
(* The loops of the reports.                                               *)
ScoreLoops == {"plots", "summary", "table", "pages", "score sheet"}
StatsLoops == {"stats"}
RegressionLoops == {"plan comparison", "counters", "default plots", "qo score", "qe score",
                    "regression pages", "regression sheet"}
TaqoLoops == {"add", "taqo pages"}
SelectivityLoops == {"classify", "selectivity pages"}
CostLoops == {"add queries", "collect", "charts"}

Ends == {"generate", "crashed", "published"}

PhaseFits ==
  \/ phase \in Ends
  \/ kind = "score" /\ phase \in ScoreLoops
  \/ kind = "score_stats" /\ phase \in StatsLoops
  \/ kind = "regression" /\ phase \in RegressionLoops
  \/ kind = "taqo" /\ phase \in TaqoLoops
  \/ kind = "selectivity" /\ phase \in SelectivityLoops
  \/ kind = "cost" /\ phase \in CostLoops

LoopInv ==
  /\ Loaded /\ PhaseFits
  /\ IsSequence(pairs) /\ pos \in 1..(Len(pairs) + 1)
  /\ phase = "generate" => pairs = <<>> /\ pos = 1

(* A turn of a loop, and what follows the last, but for the tally.         *)
Turned(loop) == Turn(loop) /\ (Crash \/ \E new : Tallied(new))

LoopStep(loops) ==
  \E loop \in loops : Turned(loop) \/ \E next \in loops \cup {"published"} : Through(loop, next)

LEMMA ScoreSteps ==
  ScoreNext => GenerateScore \/ GenerateStats \/ LoopStep(ScoreLoops) \/ LoopStep(StatsLoops)
<1>1. ScorePlots => Turned("plots")
  BY DEF ScorePlots, Turned
<1>2. ScoreSummary => Turned("summary")
  BY DEF ScoreSummary, Turned
<1>3. ScoreTable => Turned("table")
  BY DEF ScoreTable, Turned
<1>4. ScorePages => Turned("pages")
  BY DEF ScorePages, Turned
<1>5. ScoreSheet => Turned("score sheet")
  BY DEF ScoreSheet, Turned
<1>6. ScoreStats => Turned("stats")
  BY DEF ScoreStats, Turned
<1> QED
  BY <1>1, <1>2, <1>3, <1>4, <1>5, <1>6, Zenon DEF ScoreNext, LoopStep, ScoreLoops, StatsLoops

LEMMA RegressionSteps ==
  RegressionNext => GenerateRegression \/ DefaultPlots \/ LoopStep(RegressionLoops)
<1>1. PlanComparison => Turned("plan comparison")
  BY DEF PlanComparison, Turned
<1>2. CounterTables => Turned("counters")
  BY DEF CounterTables, Turned
<1>3. QoScore => Turned("qo score")
  BY DEF QoScore, Turned
<1>4. QeScore => Turned("qe score")
  BY DEF QeScore, Turned
<1>5. RegressionPages => Turned("regression pages")
  BY DEF RegressionPages, Turned
<1>6. RegressionSheet => Turned("regression sheet")
  BY DEF RegressionSheet, Turned
<1> QED
  BY <1>1, <1>2, <1>3, <1>4, <1>5, <1>6, Zenon DEF RegressionNext, LoopStep, RegressionLoops

LEMMA TaqoSteps == TaqoNext => GenerateTaqo \/ LoopStep(TaqoLoops)
<1>1. AddQuery => Turned("add")
  BY DEF AddQuery, Turned
<1>2. TaqoPages => Turned("taqo pages")
  BY DEF TaqoPages, Turned
<1> QED
  BY <1>1, <1>2, Zenon DEF TaqoNext, LoopStep, TaqoLoops

LEMMA SelectivitySteps ==
  SelectivityNext => GenerateSelectivity \/ LoopStep(SelectivityLoops)
<1>1. Classify => Turned("classify")
  BY DEF Classify, Turned
<1>2. SelectivityPages => Turned("selectivity pages")
  BY DEF SelectivityPages, Turned
<1> QED
  BY <1>1, <1>2, Zenon DEF SelectivityNext, LoopStep, SelectivityLoops

(* The plans of a query and the charts of the cost report, but for the     *)
(* tally.                                                                  *)
InnerStep ==
  /\ phase \in {"add queries", "charts"} /\ phase' \in {phase, "crashed", "published"}
  /\ UNCHANGED <<kind, files, pairs, pos>>

LEMMA CostSteps == CostNext => GenerateCost \/ LoopStep(CostLoops) \/ InnerStep
<1>1. AddCostQuery => Turned("add queries")
  BY DEF AddCostQuery, Turned
<1>2. CollectPoints => Turned("collect")
  BY DEF CollectPoints, Turned
<1>3. AddPlan => InnerStep
  BY DEF AddPlan, InnerStep, Turn, Crash
<1>4. DrawChart => InnerStep
  BY DEF DrawChart, InnerStep, Crash
<1>5. RemoveOutlier => InnerStep
  BY DEF RemoveOutlier, InnerStep
<1>6. BuildCostReport => InnerStep
  BY DEF BuildCostReport, InnerStep, Crash
<1> QED
  BY <1>1, <1>2, <1>3, <1>4, <1>5, <1>6, Zenon DEF CostNext, LoopStep, CostLoops

(* The pairs that each report begins with. *)
ScorePairs == ByTag(Partnered(files.yb, Results), DOMAIN files.yb)

Kept == {n \in DOMAIN files.v1 : WithCounterpart(files.v1, files.v2)[n][2] # None}

RegressionPairs == ByTag(WithCounterpart(files.v1, files.v2), Kept)

TaqoPairs ==
  [n \in DOMAIN files.yb |-> <<files.yb[n], IF files.pg = None THEN None ELSE files.pg[n]>>]

Shortest == Min({Len(files[f]) : f \in 1..6})

SelectivityPairs == [n \in 1..Shortest |-> [f \in 1..6 |-> files[f][n]]]

CostPairs ==
  Sorted([n \in DOMAIN files.yb |-> <<files.yb[n]>>], DOMAIN files.yb,
         [n \in DOMAIN files.yb |-> Rank(files.yb, n)])

(* ... each a sequence, whatever is in the files.                          *)
LEMMA TagKeys ==
  ASSUME NEW paired, NEW kept, kept \subseteq Nat
  PROVE  \A n \in kept : FirstUse(paired, kept, n) \in {m \in kept : paired[m][1].tag = paired[n][1].tag}
<1> SUFFICES ASSUME NEW n \in kept
             PROVE  FirstUse(paired, kept, n) \in {m \in kept : paired[m][1].tag = paired[n][1].tag}
  OBVIOUS
<1> DEFINE S == {m \in kept : paired[m][1].tag = paired[n][1].tag}
<1>1. S \subseteq Nat /\ S # {}
  OBVIOUS
<1>2. Min(S) \in S
  BY <1>1, LeastNatural
<1> QED
  BY <1>2 DEF FirstUse

LEMMA ByTagFacts ==
  ASSUME NEW paired, NEW N \in Nat, NEW kept, kept \subseteq 1..N
  PROVE  SortedBy(ByTag(paired, kept), paired, kept, [n \in kept |-> FirstUse(paired, kept, n)])
<1> DEFINE key == [n \in kept |-> FirstUse(paired, kept, n)]
<1>1. IsFiniteSet(kept) /\ kept \subseteq Nat
  <2>1. IsFiniteSet(1..N) /\ kept \in SUBSET (1..N) /\ 1..N \subseteq Nat
    BY FS_Interval
  <2>2. IsFiniteSet(kept)
    BY <2>1, FS_Subset
  <2> QED
    BY <2>1, <2>2
<1>2. \A n \in kept : key[n] \in Nat
  BY <1>1, TagKeys
<1>3. ByTag(paired, kept) = Sorted(paired, kept, key)
  BY DEF ByTag
<1> HIDE DEF key
<1>4. SortedBy(Sorted(paired, kept, key), paired, kept, key)
  BY <1>1, <1>2, SortedFacts
<1> QED
  BY <1>3, <1>4, Zenon DEF key

LEMMA FileFacts ==
  ASSUME NEW file, ResultFile(file), Readable(file)
  PROVE  /\ Len(file) \in Nat /\ Len(file) > 0 /\ DOMAIN file = 1..Len(file)
         /\ \A n \in DOMAIN file : IsQuery(file[n])
BY SequenceFacts DEF ResultFile, Readable

LEMMA LoadedFacts ==
  ASSUME Loaded
  PROVE  /\ kind \in {"score", "score_stats", "regression", "taqo", "selectivity", "cost"}
         /\ kind \in {"score", "score_stats"} => ResultFile(files.yb) /\ ResultFile(Results)
         /\ kind = "regression" => ResultFile(files.v1) /\ ResultFile(files.v2)
         /\ kind = "taqo" => ResultFile(files.yb) /\ ResultFile(files.pg)
         /\ kind = "selectivity" => DOMAIN files = 1..6 /\ \A f \in 1..6 : ResultFile(files[f])
         /\ kind = "cost" => ResultFile(files.yb) /\
                             (files.yb # None => \A n \in DOMAIN files.yb : files.yb[n].tag \in ToSet(Tags))
BY FilesAssumption DEF Loaded, Results

LEMMA ScoreSorted ==
  ASSUME Loaded, kind \in {"score", "score_stats"}, Readable(files.yb)
  PROVE  LET paired == Partnered(files.yb, Results)
         IN  SortedBy(ScorePairs, paired, DOMAIN files.yb,
                      [n \in DOMAIN files.yb |-> FirstUse(paired, DOMAIN files.yb, n)])
<1>1. Len(files.yb) \in Nat /\ DOMAIN files.yb = 1..Len(files.yb)
  BY LoadedFacts, FileFacts
<1> QED
  BY <1>1, ByTagFacts DEF ScorePairs

LEMMA RegressionSorted ==
  ASSUME Loaded, kind = "regression", Readable(files.v1)
  PROVE  LET paired == WithCounterpart(files.v1, files.v2)
         IN  SortedBy(RegressionPairs, paired, Kept, [n \in Kept |-> FirstUse(paired, Kept, n)])
<1>1. Len(files.v1) \in Nat /\ DOMAIN files.v1 = 1..Len(files.v1)
  BY LoadedFacts, FileFacts
<1>2. Kept \subseteq 1..Len(files.v1)
  BY <1>1 DEF Kept
<1> QED
  BY <1>1, <1>2, ByTagFacts DEF RegressionPairs

LEMMA TaqoSequence ==
  ASSUME Loaded, kind = "taqo", Readable(files.yb)
  PROVE  IsSequence(TaqoPairs) /\ Len(TaqoPairs) = Len(files.yb)
<1>1. Len(files.yb) \in Nat /\ DOMAIN files.yb = 1..Len(files.yb)
  BY LoadedFacts, FileFacts
<1>2. DOMAIN TaqoPairs = 1..Len(files.yb) /\ TaqoPairs = [n \in 1..Len(files.yb) |-> TaqoPairs[n]]
  BY <1>1 DEF TaqoPairs
<1> QED
  BY <1>1, <1>2, FunctionIsSequence

LEMMA ShortestFacts ==
  ASSUME Loaded, kind = "selectivity", \A f \in 1..6 : Readable(files[f])
  PROVE  /\ Shortest \in Nat /\ Shortest > 0 /\ \A f \in 1..6 : Shortest <= Len(files[f])
         /\ \E f \in 1..6 : Shortest = Len(files[f])
<1> DEFINE S == {Len(files[f]) : f \in 1..6}
<1>1. \A f \in 1..6 : Len(files[f]) \in Nat /\ Len(files[f]) > 0
  BY LoadedFacts, FileFacts
<1>2. S \subseteq Nat /\ S # {}
  <2>1. Len(files[1]) \in S
    OBVIOUS
  <2>2. S \subseteq Nat
    BY <1>1
  <2> QED
    BY <2>1, <2>2
<1>3. Min(S) \in S /\ \A k \in S : Min(S) <= k
  BY <1>2, LeastNatural
<1> QED
  BY <1>1, <1>3 DEF Shortest

LEMMA SelectivitySequence ==
  ASSUME Loaded, kind = "selectivity", \A f \in 1..6 : Readable(files[f])
  PROVE  IsSequence(SelectivityPairs) /\ Len(SelectivityPairs) = Shortest
<1>1. Shortest \in Nat
  BY ShortestFacts
<1>2. /\ DOMAIN SelectivityPairs = 1..Shortest
      /\ SelectivityPairs = [n \in 1..Shortest |-> SelectivityPairs[n]]
  BY DEF SelectivityPairs
<1> QED
  BY <1>1, <1>2, FunctionIsSequence

LEMMA CostSorted ==
  ASSUME Loaded, kind = "cost", Readable(files.yb)
  PROVE  SortedBy(CostPairs, [n \in DOMAIN files.yb |-> <<files.yb[n]>>], DOMAIN files.yb,
                  [n \in DOMAIN files.yb |-> Rank(files.yb, n)])
<1> DEFINE kept == DOMAIN files.yb
           key == [n \in kept |-> Rank(files.yb, n)]
           queries == [n \in kept |-> <<files.yb[n]>>]
<1>1. Len(files.yb) \in Nat /\ kept = 1..Len(files.yb)
  BY LoadedFacts, FileFacts
<1>2. IsFiniteSet(kept) /\ kept \subseteq Nat
  BY <1>1, FS_Interval
<1>5. ASSUME NEW n \in kept PROVE key[n] \in Nat
  <2> DEFINE before == {m \in kept : Precedes(files.yb[m], files.yb[n])}
  <2>1. IsFiniteSet(before)
    BY <1>2, FS_Subset
  <2>2. Cardinality(before) \in Nat
    BY <2>1, FS_CardinalityType
  <2> QED
    BY <2>2 DEF Rank
<1>6. CostPairs = Sorted(queries, kept, key)
  BY DEF CostPairs
<1> HIDE DEF kept, key, queries
<1>7. SortedBy(CostPairs, queries, kept, key)
  BY <1>2, <1>5, <1>6, SortedFacts
<1> QED
  BY <1>7, Zenon DEF kept, key, queries

-----------------------------------------------------------------------------
(* Each report keeps to its loops, and to the pairs it began with.         *)
Generated ==
  phase \notin {"generate", "crashed"} =>
    /\ kind \in {"score", "score_stats"} =>
         Readable(files.yb) /\ Results # <<>> /\ pairs = ScorePairs
    /\ kind = "score" => files.pg # None
    /\ kind = "regression" =>
         Readable(files.v1) /\ Readable(files.v2) /\ pairs = RegressionPairs
    /\ kind = "taqo" =>
         Readable(files.yb) /\ (files.pg # None => Len(files.pg) >= Len(files.yb)) /\ pairs = TaqoPairs
    /\ kind = "selectivity" => (\A f \in 1..6 : Readable(files[f])) /\ pairs = SelectivityPairs
    /\ kind = "cost" => Readable(files.yb) /\ pairs = CostPairs

PairsInv == LoopInv /\ Generated

(* A report begins, or it is over at once. *)
Begun(first, paired) ==
  /\ phase = "generate" /\ phase' \in {first, "crashed"}
  /\ UNCHANGED <<kind, files, pos>>
  /\ IF phase' = "crashed" THEN pairs' = pairs ELSE pairs' = paired

LEMMA GenerateBegins ==
  /\ GenerateScore => /\ kind = "score" /\ Begun("plots", ScorePairs)
                      /\ phase' # "crashed" => /\ Readable(files.yb) /\ Results # <<>>
                                               /\ files.pg # None /\ tally' = ZeroScore
  /\ GenerateStats => /\ kind = "score_stats" /\ Begun("stats", ScorePairs)
                      /\ phase' # "crashed" => /\ Readable(files.yb) /\ Results # <<>>
                                               /\ tally' = ZeroStats
  /\ GenerateRegression => /\ kind = "regression" /\ Begun("plan comparison", RegressionPairs)
                           /\ phase' # "crashed" => /\ Readable(files.v1) /\ Readable(files.v2)
                                                    /\ tally' = ZeroRegression
  /\ GenerateTaqo => /\ kind = "taqo" /\ Begun("add", TaqoPairs)
                     /\ phase' # "crashed" =>
                          /\ Readable(files.yb) /\ tally' = ZeroTaqo
                          /\ files.pg # None => ~(Len(files.pg) < Len(files.yb))
  /\ GenerateSelectivity => /\ kind = "selectivity" /\ Begun("classify", SelectivityPairs)
                            /\ phase' # "crashed" => /\ \A f \in 1..6 : Readable(files[f])
                                                     /\ tally' = ZeroSelectivity
  /\ GenerateCost => /\ kind = "cost" /\ Begun("add queries", CostPairs)
                     /\ phase' # "crashed" => Readable(files.yb)
<1>1. GenerateScore => /\ kind = "score" /\ Begun("plots", ScorePairs)
                       /\ phase' # "crashed" => /\ Readable(files.yb) /\ Results # <<>>
                                                /\ files.pg # None /\ tally' = ZeroScore
  BY DEF GenerateScore, Begun, ScorePairs, Crash, Start
<1>2. GenerateStats => /\ kind = "score_stats" /\ Begun("stats", ScorePairs)
                       /\ phase' # "crashed" => /\ Readable(files.yb) /\ Results # <<>>
                                                /\ tally' = ZeroStats
  BY DEF GenerateStats, Begun, ScorePairs, Crash, Start
<1>3. GenerateRegression => /\ kind = "regression" /\ Begun("plan comparison", RegressionPairs)
                            /\ phase' # "crashed" => /\ Readable(files.v1) /\ Readable(files.v2)
                                                     /\ tally' = ZeroRegression
  <2> DEFINE P == WithCounterpart(files.v1, files.v2)
  <2>1. RegressionPairs = ByTag(P, {n \in DOMAIN P : P[n][2] # None})
    <3>1. DOMAIN P = DOMAIN files.v1
      BY DEF WithCounterpart
    <3>2. Kept = {n \in DOMAIN P : P[n][2] # None}
      BY <3>1 DEF Kept
    <3> QED
      BY <3>2 DEF RegressionPairs
  <2> QED
    BY <2>1 DEF GenerateRegression, Begun, Crash, Start
<1>4. GenerateTaqo => /\ kind = "taqo" /\ Begun("add", TaqoPairs)
                      /\ phase' # "crashed" =>
                           /\ Readable(files.yb) /\ tally' = ZeroTaqo
                           /\ files.pg # None => ~(Len(files.pg) < Len(files.yb))
  BY DEF GenerateTaqo, Begun, TaqoPairs, Crash, Start
<1>5. GenerateSelectivity => /\ kind = "selectivity" /\ Begun("classify", SelectivityPairs)
                             /\ phase' # "crashed" => /\ \A f \in 1..6 : Readable(files[f])
                                                      /\ tally' = ZeroSelectivity
  BY DEF GenerateSelectivity, Begun, SelectivityPairs, Shortest, Crash, Start
<1>6. GenerateCost => /\ kind = "cost" /\ Begun("add queries", CostPairs)
                      /\ phase' # "crashed" => Readable(files.yb)
  BY DEF GenerateCost, Begun, CostPairs, Crash, Start
<1> QED
  BY <1>1, <1>2, <1>3, <1>4, <1>5, <1>6

(* The steps of a report by what they do to its loops.                     *)
LEMMA ReportSteps ==
  ASSUME Next
  PROVE  \/ GenerateScore \/ GenerateStats \/ GenerateRegression
         \/ GenerateTaqo \/ GenerateSelectivity \/ GenerateCost
         \/ \E loops \in {ScoreLoops, StatsLoops, RegressionLoops, TaqoLoops,
                          SelectivityLoops, CostLoops} : LoopStep(loops)
         \/ DefaultPlots \/ InnerStep \/ Over
<1>1. ScoreNext \/ RegressionNext \/ TaqoNext \/ SelectivityNext \/ CostNext \/ Over
  BY DEF Next
<1> QED
  BY <1>1, ScoreSteps, RegressionSteps, TaqoSteps, SelectivitySteps, CostSteps

LEMMA PairsInvInit == Init => PairsInv
<1> SUFFICES ASSUME Init
             PROVE  PairsInv
  OBVIOUS
<1>1. IsSequence(pairs) /\ Len(pairs) = 0
  BY DEF Init, IsSequence, ToSet
<1> QED
  BY <1>1 DEF Init, PairsInv, LoopInv, Generated, PhaseFits, Ends

(* What is in the files is so in the next state.                           *)
LEMMA FilesKept ==
  ASSUME files' = files, kind' = kind
  PROVE  /\ Loaded' = Loaded /\ Results' = Results /\ ScorePairs' = ScorePairs
         /\ RegressionPairs' = RegressionPairs /\ TaqoPairs' = TaqoPairs
         /\ Shortest' = Shortest /\ SelectivityPairs' = SelectivityPairs /\ CostPairs' = CostPairs
<1>1. Loaded' = Loaded /\ Results' = Results
  BY DEF Loaded, Results
<1>2. Shortest' = Shortest
  BY DEF Shortest
<1> QED
  BY <1>1, <1>2 DEF ScorePairs, RegressionPairs, Kept, TaqoPairs, SelectivityPairs, CostPairs

LEMMA BegunKeeps ==
  ASSUME PairsInv, NEW first, NEW paired, Begun(first, paired), phase' # "crashed" => IsSequence(paired),
         first \notin Ends,
         \/ kind = "score" /\ first \in ScoreLoops
         \/ kind = "score_stats" /\ first \in StatsLoops
         \/ kind = "regression" /\ first \in RegressionLoops
         \/ kind = "taqo" /\ first \in TaqoLoops
         \/ kind = "selectivity" /\ first \in SelectivityLoops
         \/ kind = "cost" /\ first \in CostLoops
  PROVE  LoopInv'
<1>1. Loaded' /\ PhaseFits'
  BY FilesKept DEF PairsInv, LoopInv, Begun, PhaseFits, Ends
<1>2. IsSequence(pairs') /\ pos' = 1
  BY DEF PairsInv, LoopInv, Begun
<1>3. Len(pairs') \in Nat
  BY <1>2, SequenceFacts
<1>4. phase' # "generate"
  BY DEF Begun, Ends
<1> QED
  BY <1>1, <1>2, <1>3, <1>4 DEF LoopInv

LEMMA PairsInvBegun ==
  ASSUME PairsInv,
         \/ GenerateScore \/ GenerateStats \/ GenerateRegression
         \/ GenerateTaqo \/ GenerateSelectivity \/ GenerateCost
  PROVE  PairsInv'
<1>1. Loaded
  BY DEF PairsInv, LoopInv
<1>2. CASE GenerateScore
  <2>1. /\ kind = "score" /\ Begun("plots", ScorePairs)
        /\ phase' # "crashed" => Readable(files.yb) /\ Results # <<>> /\ files.pg # None
    BY <1>2, GenerateBegins
  <2>2. phase' # "crashed" => IsSequence(ScorePairs)
    BY <1>1, <2>1, ScoreSorted DEF SortedBy
  <2>3. LoopInv'
    BY <2>1, <2>2, BegunKeeps DEF ScoreLoops, Ends
  <2> QED
    BY <2>1, <2>3, FilesKept DEF PairsInv, Generated, Begun
<1>3. CASE GenerateStats
  <2>1. /\ kind = "score_stats" /\ Begun("stats", ScorePairs)
        /\ phase' # "crashed" => Readable(files.yb) /\ Results # <<>>
    BY <1>3, GenerateBegins
  <2>2. phase' # "crashed" => IsSequence(ScorePairs)
    BY <1>1, <2>1, ScoreSorted DEF SortedBy
  <2>3. LoopInv'
    BY <2>1, <2>2, BegunKeeps DEF StatsLoops, Ends
  <2> QED
    BY <2>1, <2>3, FilesKept DEF PairsInv, Generated, Begun
<1>4. CASE GenerateRegression
  <2>1. /\ kind = "regression" /\ Begun("plan comparison", RegressionPairs)
        /\ phase' # "crashed" => Readable(files.v1) /\ Readable(files.v2)
    BY <1>4, GenerateBegins
  <2>2. phase' # "crashed" => IsSequence(RegressionPairs)
    BY <1>1, <2>1, RegressionSorted DEF SortedBy
  <2>3. LoopInv'
    BY <2>1, <2>2, BegunKeeps DEF RegressionLoops, Ends
  <2> QED
    BY <2>1, <2>3, FilesKept DEF PairsInv, Generated, Begun
<1>5. CASE GenerateTaqo
  <2>1. /\ kind = "taqo" /\ Begun("add", TaqoPairs)
        /\ phase' # "crashed" => /\ Readable(files.yb)
                                 /\ files.pg # None => ~(Len(files.pg) < Len(files.yb))
    BY <1>5, GenerateBegins
  <2>2. phase' # "crashed" => IsSequence(TaqoPairs)
    BY <1>1, <2>1, TaqoSequence
  <2>3. LoopInv'
    BY <2>1, <2>2, BegunKeeps DEF TaqoLoops, Ends
  <2>4. /\ files.pg # None => Len(files.pg) \in Nat
        /\ phase' # "crashed" => Len(files.yb) \in Nat
    BY <1>1, <2>1, LoadedFacts, SequenceFacts DEF ResultFile, Readable
  <2>5. phase' # "crashed" /\ files.pg # None => Len(files.pg) >= Len(files.yb)
    BY <2>1, <2>4
  <2> QED
    BY <2>1, <2>3, <2>5, FilesKept DEF PairsInv, Generated, Begun
<1>6. CASE GenerateSelectivity
  <2>1. /\ kind = "selectivity" /\ Begun("classify", SelectivityPairs)
        /\ phase' # "crashed" => \A f \in 1..6 : Readable(files[f])
    BY <1>6, GenerateBegins
  <2>2. phase' # "crashed" => IsSequence(SelectivityPairs)
    BY <1>1, <2>1, SelectivitySequence
  <2>3. LoopInv'
    BY <2>1, <2>2, BegunKeeps DEF SelectivityLoops, Ends
  <2> QED
    BY <2>1, <2>3, FilesKept DEF PairsInv, Generated, Begun
<1>7. CASE GenerateCost
  <2>1. /\ kind = "cost" /\ Begun("add queries", CostPairs)
        /\ phase' # "crashed" => Readable(files.yb)
    BY <1>7, GenerateBegins
  <2>2. phase' # "crashed" => IsSequence(CostPairs)
    BY <1>1, <2>1, CostSorted DEF SortedBy
  <2>3. LoopInv'
    BY <2>1, <2>2, BegunKeeps DEF CostLoops, Ends
  <2> QED
    BY <2>1, <2>3, FilesKept DEF PairsInv, Generated, Begun
<1> QED
  BY <1>2, <1>3, <1>4, <1>5, <1>6, <1>7

LEMMA PairsInvLoop ==
  ASSUME PairsInv,
         NEW loops \in {ScoreLoops, StatsLoops, RegressionLoops, TaqoLoops,
                        SelectivityLoops, CostLoops},
         LoopStep(loops)
  PROVE  PairsInv'
<1>1. PICK loop \in loops : Turned(loop) \/ \E next \in loops \cup {"published"} : Through(loop, next)
  BY DEF LoopStep
<1>2. phase = loop /\ UNCHANGED <<kind, files, pairs>>
  BY <1>1 DEF Turned, Turn, Tallied, Crash, Through
<1>3. phase' \in loops \cup {"published", "crashed"}
  BY <1>1, <1>2 DEF Turned, Turn, Tallied, Crash, Through
<1>4. phase' # "generate"
  BY <1>3 DEF ScoreLoops, StatsLoops, RegressionLoops, TaqoLoops, SelectivityLoops, CostLoops
<1>5. Loaded' /\ PhaseFits'
  BY <1>2, <1>3, FilesKept
  DEF PairsInv, LoopInv, PhaseFits, Ends,
      ScoreLoops, StatsLoops, RegressionLoops, TaqoLoops, SelectivityLoops, CostLoops
<1>6. Len(pairs) \in Nat /\ pos \in 1..(Len(pairs) + 1)
  BY SequenceFacts DEF PairsInv, LoopInv
<1>7. pos' \in 1..(Len(pairs) + 1)
  BY <1>1, <1>6 DEF Turned, Turn, Tallied, Crash, Through
<1>8. LoopInv'
  BY <1>2, <1>4, <1>5, <1>7 DEF PairsInv, LoopInv
<1>9. phase \notin {"generate", "crashed"}
  BY <1>2 DEF ScoreLoops, StatsLoops, RegressionLoops, TaqoLoops, SelectivityLoops, CostLoops
<1>10. Generated'
  BY <1>2, <1>9, FilesKept DEF PairsInv, Generated
<1> QED
  BY <1>8, <1>10 DEF PairsInv

LEMMA PairsInvNext == PairsInv /\ [Next]_loopVars => PairsInv'
<1> SUFFICES ASSUME PairsInv, [Next]_loopVars
             PROVE  PairsInv'
  OBVIOUS
<1>1. CASE DefaultPlots
  <2>1. /\ phase = "default plots" /\ phase' \in {"crashed", "qo score"}
        /\ UNCHANGED <<kind, files, pairs, pos>>
    BY <1>1 DEF DefaultPlots, Crash
  <2>2. PhaseFits' /\ Loaded'
    BY <2>1, FilesKept
    DEF PairsInv, LoopInv, PhaseFits, Ends,
        ScoreLoops, StatsLoops, RegressionLoops, TaqoLoops, SelectivityLoops, CostLoops
  <2> QED
    BY <2>1, <2>2, FilesKept DEF PairsInv, LoopInv, Generated
<1>2. CASE InnerStep
  <2>1. PhaseFits' /\ Loaded'
    BY <1>2, FilesKept
    DEF InnerStep, PairsInv, LoopInv, PhaseFits, Ends,
        ScoreLoops, StatsLoops, RegressionLoops, TaqoLoops, SelectivityLoops, CostLoops
  <2> QED
    BY <1>2, <2>1, FilesKept DEF InnerStep, PairsInv, LoopInv, Generated
<1>3. CASE UNCHANGED loopVars
  BY <1>3, FilesKept DEF loopVars, PairsInv, LoopInv, Generated, PhaseFits
<1>4. CASE Over
  BY <1>3, <1>4 DEF Over
<1> QED
  BY <1>1, <1>2, <1>3, <1>4, ReportSteps, PairsInvBegun, PairsInvLoop

-----------------------------------------------------------------------------
(* What the pairs are of.                                                  *)
Working == phase \notin {"generate", "crashed"}

LEMMA PositionFacts ==
  ASSUME PairsInv
  PROVE  /\ Len(pairs) \in Nat /\ DOMAIN pairs = 1..Len(pairs)
         /\ pos \in Nat /\ 1 <= pos /\ pos <= Len(pairs) + 1
  BY SequenceFacts DEF PairsInv, LoopInv

(* A pair of the score report, and one of the regression report.           *)
Partners(p) ==
  /\ DOMAIN p = 1..2 /\ IsQuery(p[1]) /\ p[2].hash = p[1].hash
  /\ IsQuery(p[2]) \/ p[2] = CreateCopy(p[1])

Versions(p) ==
  /\ DOMAIN p = 1..2 /\ IsQuery(p[1]) /\ IsQuery(p[2]) /\ p[2].hash = p[1].hash

LEMMA PartneredFacts ==
  ASSUME Loaded, kind \in {"score", "score_stats"}, Readable(files.yb), Results # <<>>,
         NEW n \in DOMAIN files.yb
  PROVE  LET p == Partnered(files.yb, Results)[n]  IN  Partners(p) /\ p[1] = files.yb[n]
<1> DEFINE q == files.yb[n]
           found == IF Results = None THEN None ELSE FindByHash(Results, q.hash)
           p == Partnered(files.yb, Results)[n]
<1>1. IsQuery(q) /\ ResultFile(Results)
  BY LoadedFacts, FileFacts
<1>2. p = <<q, IF found = None THEN CreateCopy(q) ELSE found>>
  BY DEF Partnered, WithCounterpart
<1>3. found # None => IsQuery(found) /\ found.hash = q.hash
  <2> SUFFICES ASSUME found # None
               PROVE  IsQuery(found) /\ found.hash = q.hash
    OBVIOUS
  <2>1. PICK m \in DOMAIN Results : Results[m].hash = q.hash /\ found = Results[m]
    BY <1>1, FoundFacts
  <2> QED
    BY <1>1, <2>1 DEF ResultFile
<1> HIDE DEF q, found
<1>4. DOMAIN p = 1..2 /\ p[1] = q /\ p[2] = IF found = None THEN CreateCopy(q) ELSE found
  BY <1>2
<1> HIDE DEF p
<1>5. Partners(p) /\ p[1] = q
  BY <1>1, <1>3, <1>4, CopyFacts DEF Partners
<1> QED
  BY <1>5 DEF p, q

LEMMA ScorePairFacts ==
  ASSUME PairsInv, Working, kind \in {"score", "score_stats"}
  PROVE  /\ \A n \in DOMAIN pairs : Partners(pairs[n]) /\ \E m \in DOMAIN files.yb : pairs[n][1] = files.yb[m]
         /\ \A m \in DOMAIN files.yb : \E n \in DOMAIN pairs : pairs[n][1] = files.yb[m]
         /\ pairs # <<>>
<1> DEFINE P == Partnered(files.yb, Results)
           key == [n \in DOMAIN files.yb |-> FirstUse(P, DOMAIN files.yb, n)]
<1>1. Loaded /\ Readable(files.yb) /\ Results # <<>> /\ pairs = ScorePairs
  BY DEF PairsInv, LoopInv, Generated, Working
<1>2. SortedBy(pairs, P, DOMAIN files.yb, key)
  BY <1>1, ScoreSorted
<1>3. \A m \in DOMAIN files.yb : Partners(P[m]) /\ P[m][1] = files.yb[m]
  BY <1>1, PartneredFacts
<1>4. Len(files.yb) > 0 /\ Len(files.yb) \in Nat /\ DOMAIN files.yb = 1..Len(files.yb)
  BY <1>1, LoadedFacts, FileFacts
<1> HIDE DEF P, key
<1>5. PICK order \in [1..Len(pairs) -> DOMAIN files.yb] :
        /\ \A k \in 1..Len(pairs) : pairs[k] = P[order[k]]
        /\ \A n \in DOMAIN files.yb : \E k \in 1..Len(pairs) : order[k] = n
  BY <1>2 DEF SortedBy
<1>6. DOMAIN pairs = 1..Len(pairs) /\ Len(pairs) \in Nat
  BY PositionFacts
<1>7. \A n \in DOMAIN pairs : Partners(pairs[n]) /\ \E m \in DOMAIN files.yb : pairs[n][1] = files.yb[m]
  BY <1>3, <1>5, <1>6
<1>8. \A m \in DOMAIN files.yb : \E n \in DOMAIN pairs : pairs[n][1] = files.yb[m]
  BY <1>3, <1>5, <1>6
<1>9. 1 \in DOMAIN files.yb
  BY <1>4
<1>10. pairs # <<>>
  BY <1>8, <1>9
<1> QED
  BY <1>7, <1>8, <1>10

LEMMA RegressionPairFacts ==
  ASSUME PairsInv, Working, kind = "regression"
  PROVE  /\ \A n \in DOMAIN pairs : /\ Versions(pairs[n])
                                    /\ \E m \in Kept : pairs[n] = WithCounterpart(files.v1, files.v2)[m]
         /\ \A m \in Kept : \E n \in DOMAIN pairs : pairs[n] = WithCounterpart(files.v1, files.v2)[m]
<1> DEFINE P == WithCounterpart(files.v1, files.v2)
           key == [n \in Kept |-> FirstUse(P, Kept, n)]
<1>1. Loaded /\ Readable(files.v1) /\ Readable(files.v2) /\ pairs = RegressionPairs
  BY DEF PairsInv, LoopInv, Generated, Working
<1>2. SortedBy(pairs, P, Kept, key)
  BY <1>1, RegressionSorted
<1>3. ASSUME NEW m \in Kept
      PROVE  Versions(P[m])
  <2> DEFINE q == files.v1[m]
             found == FindByHash(files.v2, q.hash)
  <2>1. m \in DOMAIN files.v1 /\ P[m] = <<q, found>> /\ found # None
    BY DEF Kept, WithCounterpart
  <2>2. IsQuery(q) /\ ResultFile(files.v2) /\ files.v2 # None
    BY <1>1, <2>1, LoadedFacts, FileFacts DEF Readable
  <2>3. PICK k \in DOMAIN files.v2 : files.v2[k].hash = q.hash /\ found = files.v2[k]
    BY <2>1, <2>2, FoundFacts
  <2>4. IsQuery(found) /\ found.hash = q.hash
    BY <2>2, <2>3 DEF ResultFile
  <2> HIDE DEF q, found
  <2> QED
    BY <2>1, <2>2, <2>4 DEF Versions
<1>4. DOMAIN pairs = 1..Len(pairs)
  BY PositionFacts
<1> HIDE DEF P, key
<1>5. PICK order \in [1..Len(pairs) -> Kept] :
        /\ \A k \in 1..Len(pairs) : pairs[k] = P[order[k]]
        /\ \A n \in Kept : \E k \in 1..Len(pairs) : order[k] = n
  BY <1>2 DEF SortedBy
<1>6. /\ \A n \in DOMAIN pairs : Versions(pairs[n]) /\ \E m \in Kept : pairs[n] = P[m]
      /\ \A m \in Kept : \E n \in DOMAIN pairs : pairs[n] = P[m]
  BY <1>3, <1>4, <1>5
<1> QED
  BY <1>6 DEF P

LEMMA TaqoPairFacts ==
  ASSUME PairsInv, Working, kind = "taqo"
  PROVE  /\ Len(pairs) = Len(files.yb) /\ Len(pairs) > 0 /\ DOMAIN pairs = DOMAIN files.yb
         /\ \A n \in DOMAIN pairs :
              /\ DOMAIN pairs[n] = 1..2
              /\ pairs[n][1] = files.yb[n] /\ IsQuery(pairs[n][1])
              /\ pairs[n][2] = IF files.pg = None THEN None ELSE files.pg[n]
<1>1. Loaded /\ Readable(files.yb) /\ pairs = TaqoPairs
  BY DEF PairsInv, LoopInv, Generated, Working
<1>2. /\ Len(files.yb) \in Nat /\ Len(files.yb) > 0 /\ DOMAIN files.yb = 1..Len(files.yb)
      /\ \A n \in DOMAIN files.yb : IsQuery(files.yb[n])
  BY <1>1, LoadedFacts, FileFacts
<1>3. Len(pairs) = Len(files.yb) /\ DOMAIN pairs = 1..Len(pairs)
  BY <1>1, TaqoSequence, PositionFacts
<1>4. ASSUME NEW n \in DOMAIN pairs
      PROVE  /\ DOMAIN pairs[n] = 1..2
             /\ pairs[n][1] = files.yb[n]
             /\ pairs[n][2] = IF files.pg = None THEN None ELSE files.pg[n]
  BY <1>1, <1>2, <1>3 DEF TaqoPairs
<1> QED
  BY <1>2, <1>3, <1>4

LEMMA SelectivityPairFacts ==
  ASSUME PairsInv, Working, kind = "selectivity"
  PROVE  /\ Len(pairs) = Shortest /\ Len(pairs) > 0
         /\ \A n \in DOMAIN pairs :
              /\ DOMAIN pairs[n] = 1..6
              /\ \A f \in 1..6 : pairs[n][f] = files[f][n] /\ n \in DOMAIN files[f] /\ IsQuery(pairs[n][f])
<1>1. Loaded /\ (\A f \in 1..6 : Readable(files[f])) /\ pairs = SelectivityPairs
  BY DEF PairsInv, LoopInv, Generated, Working
<1>2. \A f \in 1..6 : /\ Len(files[f]) \in Nat /\ DOMAIN files[f] = 1..Len(files[f])
                      /\ \A n \in DOMAIN files[f] : IsQuery(files[f][n])
  BY <1>1, LoadedFacts, FileFacts
<1>3. Shortest \in Nat /\ Shortest > 0 /\ \A f \in 1..6 : Shortest <= Len(files[f])
  BY <1>1, ShortestFacts
<1>4. Len(pairs) = Shortest /\ DOMAIN pairs = 1..Shortest
  BY <1>1, SelectivitySequence, PositionFacts
<1>5. ASSUME NEW n \in DOMAIN pairs
      PROVE  DOMAIN pairs[n] = 1..6 /\ \A f \in 1..6 : pairs[n][f] = files[f][n] /\ n \in DOMAIN files[f]
  <2>1. pairs[n] = [f \in 1..6 |-> files[f][n]]
    BY <1>1, <1>4 DEF SelectivityPairs
  <2>2. \A f \in 1..6 : n \in DOMAIN files[f]
    BY <1>2, <1>3, <1>4
  <2> QED
    BY <2>1, <2>2
<1> QED
  BY <1>2, <1>3, <1>4, <1>5

LEMMA CostPairFacts ==
  ASSUME PairsInv, Working, kind = "cost"
  PROVE  /\ \A n \in DOMAIN pairs : DOMAIN pairs[n] = {1} /\ \E m \in DOMAIN files.yb : pairs[n][1] = files.yb[m]
         /\ \A m \in DOMAIN files.yb : \E n \in DOMAIN pairs : pairs[n][1] = files.yb[m]
         /\ pairs # <<>>
<1> DEFINE P == [n \in DOMAIN files.yb |-> <<files.yb[n]>>]
           key == [n \in DOMAIN files.yb |-> Rank(files.yb, n)]
<1>1. Loaded /\ Readable(files.yb) /\ pairs = CostPairs
  BY DEF PairsInv, LoopInv, Generated, Working
<1>2. SortedBy(pairs, P, DOMAIN files.yb, key)
  BY <1>1, CostSorted
<1>3. \A m \in DOMAIN files.yb : DOMAIN P[m] = {1} /\ P[m][1] = files.yb[m]
  OBVIOUS
<1>4. Len(files.yb) > 0 /\ Len(files.yb) \in Nat /\ DOMAIN files.yb = 1..Len(files.yb)
  BY <1>1, LoadedFacts, FileFacts
<1> HIDE DEF P, key
<1>5. PICK order \in [1..Len(pairs) -> DOMAIN files.yb] :
        /\ \A k \in 1..Len(pairs) : pairs[k] = P[order[k]]
        /\ \A n \in DOMAIN files.yb : \E k \in 1..Len(pairs) : order[k] = n
  BY <1>2 DEF SortedBy
<1>6. DOMAIN pairs = 1..Len(pairs)
  BY PositionFacts
<1>7. \A n \in DOMAIN pairs : DOMAIN pairs[n] = {1} /\ \E m \in DOMAIN files.yb : pairs[n][1] = files.yb[m]
  BY <1>3, <1>5, <1>6
<1>8. \A m \in DOMAIN files.yb : \E n \in DOMAIN pairs : pairs[n][1] = files.yb[m]
  BY <1>3, <1>5, <1>6
<1>9. 1 \in DOMAIN files.yb
  BY <1>4
<1>10. pairs # <<>>
  BY <1>8, <1>9
<1> QED
  BY <1>7, <1>8, <1>10

(* The first of each pair comes from a file. *)
LEMMA FirstsAreQueries ==
  ASSUME PairsInv, Working
  PROVE  /\ \A n \in DOMAIN pairs : IsQuery(pairs[n][1])
         /\ kind # "regression" => pairs # <<>>
<1>1. kind \in {"score", "score_stats", "regression", "taqo", "selectivity", "cost"}
  BY LoadedFacts DEF PairsInv, LoopInv
<1>2. CASE kind \in {"score", "score_stats"}
  BY <1>2, ScorePairFacts DEF Partners
<1>3. CASE kind = "regression"
  BY <1>3, RegressionPairFacts DEF Versions
<1>4. CASE kind = "taqo"
  <2>1. pairs # <<>>
    BY <1>4, TaqoPairFacts
  <2> QED
    BY <1>4, <2>1, TaqoPairFacts
<1>5. CASE kind = "selectivity"
  <2>1. pairs # <<>>
    BY <1>5, SelectivityPairFacts
  <2> QED
    BY <1>5, <2>1, SelectivityPairFacts
<1>6. CASE kind = "cost"
  <2>1. \A m \in DOMAIN files.yb : IsQuery(files.yb[m])
    BY <1>6, LoadedFacts, FileFacts DEF PairsInv, LoopInv, Generated, Working
  <2> QED
    BY <1>6, <2>1, CostPairFacts
<1> QED
  BY <1>1, <1>2, <1>3, <1>4, <1>5, <1>6

TypeInv == PairsInv /\ \A n \in DOMAIN pairs : IsQuery(pairs[n][1])

LEMMA TypeInvInit == Init => TypeInv
  BY PairsInvInit DEF TypeInv, Init

LEMMA TypeInvNext == TypeInv /\ [Next]_loopVars => TypeInv'
<1> SUFFICES ASSUME TypeInv, [Next]_loopVars
             PROVE  TypeInv'
  OBVIOUS
<1>1. PairsInv'
  BY PairsInvNext DEF TypeInv
<1>2. CASE phase' \in {"generate", "crashed"}
  <2>1. CASE phase' = "generate"
    BY <1>1, <2>1 DEF PairsInv, LoopInv, TypeInv
  <2>2. CASE phase' = "crashed"
    <3>1. pairs' = pairs
      <4>1. CASE DefaultPlots
        BY <4>1 DEF DefaultPlots, Crash
      <4>2. CASE InnerStep
        BY <4>2 DEF InnerStep
      <4>3. CASE Over \/ UNCHANGED loopVars
        BY <4>3 DEF Over, loopVars
      <4>4. ASSUME NEW loops, LoopStep(loops)
            PROVE  pairs' = pairs
        BY <4>4 DEF LoopStep, Turned, Turn, Tallied, Crash, Through
      <4>5. CASE \/ GenerateScore \/ GenerateStats \/ GenerateRegression
                 \/ GenerateTaqo \/ GenerateSelectivity \/ GenerateCost
        BY <2>2, <4>5, GenerateBegins DEF Begun
      <4> QED
        BY <4>1, <4>2, <4>3, <4>4, <4>5, ReportSteps
    <3> QED
      BY <1>1, <3>1 DEF TypeInv
  <2> QED
    BY <1>2, <2>1, <2>2
<1>3. CASE phase' \notin {"generate", "crashed"}
  <2>1. (PairsInv /\ Working => \A n \in DOMAIN pairs : IsQuery(pairs[n][1]))'
    BY FirstsAreQueries, PTL
  <2> QED
    BY <1>1, <1>3, <2>1 DEF TypeInv, Working
<1> QED
  BY <1>2, <1>3

LEMMA AlwaysTyped == Spec => []TypeInv
  BY TypeInvInit, TypeInvNext, PTL DEF Spec

(* The reports keep their types: positions stay inside the pairs, every    *)
(* pair begins with a query of a file, and no report works on no queries   *)
(* but the regression report, whose versions may have none in common.      *)
THEOREM ReportTypes == Spec => []TypeOK
<1>1. TypeInv => TypeOK
  <2> SUFFICES ASSUME TypeInv
               PROVE  TypeOK
    OBVIOUS
  <2>1. phase \in Phases
    BY DEF TypeInv, PairsInv, LoopInv, PhaseFits, Ends, Phases,
           ScoreLoops, StatsLoops, RegressionLoops, TaqoLoops, SelectivityLoops, CostLoops
  <2>2. pos \in 1..(Len(pairs) + 1)
    BY DEF TypeInv, PairsInv, LoopInv
  <2>3. \A n \in DOMAIN pairs : Storable(pairs[n][1])
    BY DEF TypeInv, IsQuery
  <2>4. phase \in {"generate", "crashed"} \/ pairs # <<>> \/ kind = "regression"
    BY FirstsAreQueries DEF TypeInv, Working
  <2> QED
    BY <2>1, <2>2, <2>3, <2>4 DEF TypeOK
<1> QED
  BY <1>1, AlwaysTyped, PTL

-----------------------------------------------------------------------------
(* Each query is compared with itself.                                     *)
LEMMA HashFacts ==
  ASSUME NEW file, ResultFile(file), Readable(file)
  PROVE  /\ DOMAIN Hashes(file) = DOMAIN file /\ Len(Hashes(file)) = Len(file)
         /\ \A n \in DOMAIN file : Hashes(file)[n] = file[n].hash
         /\ \A h : h \in ToSet(Hashes(file)) <=> \E n \in DOMAIN file : file[n].hash = h
         /\ \A h : Contains(Hashes(file), h) <=> \E n \in DOMAIN file : file[n].hash = h
<1>1. Len(file) \in Nat /\ DOMAIN file = 1..Len(file)
  BY FileFacts
<1>2. /\ DOMAIN Hashes(file) = 1..Len(file)
      /\ Hashes(file) = [n \in 1..Len(file) |-> Hashes(file)[n]]
      /\ \A n \in DOMAIN file : Hashes(file)[n] = file[n].hash
  BY <1>1 DEF Hashes
<1>3. Len(Hashes(file)) = Len(file)
  BY <1>1, <1>2, FunctionIsSequence
<1>4. \A h : h \in ToSet(Hashes(file)) <=> \E n \in DOMAIN file : file[n].hash = h
  BY <1>1, <1>2 DEF ToSet
<1>5. \A h : Contains(Hashes(file), h) <=> \E n \in DOMAIN file : file[n].hash = h
  BY <1>1, <1>2, <1>3 DEF Contains
<1> QED
  BY <1>1, <1>2, <1>3, <1>4, <1>5

(* Where all files list the same queries, one of them tells the hashes of  *)
(* all.                                                                    *)
LEMMA OneTellsAll ==
  ASSUME NEW given, NEW file, DOMAIN given # {}, 1 \in DOMAIN given, given[1] = file,
         ResultFile(file), Readable(file),
         \A f \in DOMAIN given : Hashes(given[f]) = Hashes(file)
  PROVE  {h \in ToSet(Hashes(given[1])) : \A f \in DOMAIN given : Contains(Hashes(given[f]), h)}
           = {file[n].hash : n \in DOMAIN file}
  BY HashFacts

LEMMA ScorePairsMatch ==
  ASSUME PairsInv, Working, kind \in {"score", "score_stats"}
  PROVE  PairsMatch
<1>1. Readable(files.yb) /\ ResultFile(files.yb)
  BY LoadedFacts DEF PairsInv, LoopInv, Generated, Working
<1>2. Given = <<files.yb>>
  BY DEF Given
<1>3. DOMAIN Given = {1} /\ Given[1] = files.yb
  BY <1>2
<1>4. {h \in ToSet(Hashes(Given[1])) : \A f \in DOMAIN Given : Contains(Hashes(Given[f]), h)}
        = {files.yb[n].hash : n \in DOMAIN files.yb}
  BY <1>1, <1>3, OneTellsAll
<1>5. {pairs[n][1].hash : n \in DOMAIN pairs} = {files.yb[n].hash : n \in DOMAIN files.yb}
  <2>1. /\ \A n \in DOMAIN pairs : \E m \in DOMAIN files.yb : pairs[n][1] = files.yb[m]
        /\ \A m \in DOMAIN files.yb : \E n \in DOMAIN pairs : pairs[n][1] = files.yb[m]
    BY ScorePairFacts
  <2> QED
    BY <2>1
<1>6. \A n \in DOMAIN pairs : \A f \in DOMAIN pairs[n] : pairs[n][f].hash = pairs[n][1].hash
  BY ScorePairFacts DEF Partners
<1> QED
  BY <1>4, <1>5, <1>6 DEF PairsMatch

LEMMA RegressionPairsMatch ==
  ASSUME PairsInv, Working, kind = "regression"
  PROVE  PairsMatch
<1> DEFINE P == WithCounterpart(files.v1, files.v2)
<1>1. /\ Readable(files.v1) /\ ResultFile(files.v1)
      /\ Readable(files.v2) /\ ResultFile(files.v2)
  BY LoadedFacts DEF PairsInv, LoopInv, Generated, Working
<1>2. Given = <<files.v1, files.v2>>
  BY DEF Given
<1>3. DOMAIN Given = 1..2 /\ Given[1] = files.v1 /\ Given[2] = files.v2
  BY <1>2
<1>4. \A n \in DOMAIN pairs : \A f \in DOMAIN pairs[n] : pairs[n][f].hash = pairs[n][1].hash
  BY RegressionPairFacts DEF Versions
<1>5. /\ \A n \in DOMAIN pairs : \E m \in Kept : pairs[n] = P[m]
      /\ \A m \in Kept : \E n \in DOMAIN pairs : pairs[n] = P[m]
  BY RegressionPairFacts
<1>6. \A m \in DOMAIN files.v1 :
        /\ P[m][1] = files.v1[m]
        /\ m \in Kept <=> \E k \in DOMAIN files.v2 : files.v2[k].hash = files.v1[m].hash
  <2> SUFFICES ASSUME NEW m \in DOMAIN files.v1
               PROVE  /\ P[m][1] = files.v1[m]
                      /\ m \in Kept <=> \E k \in DOMAIN files.v2 : files.v2[k].hash = files.v1[m].hash
    OBVIOUS
  <2> DEFINE found == FindByHash(files.v2, files.v1[m].hash)
  <2>1. P[m] = <<files.v1[m], found>>
    BY DEF WithCounterpart
  <2>2. found # None <=> \E k \in DOMAIN files.v2 : files.v2[k].hash = files.v1[m].hash
    BY <1>1, FoundFacts DEF Readable
  <2> HIDE DEF found
  <2>3. P[m][1] = files.v1[m] /\ P[m][2] = found
    BY <2>1
  <2> QED
    BY <2>2, <2>3 DEF Kept
<1>7. Kept \subseteq DOMAIN files.v1
  BY DEF Kept
<1> HIDE DEF P
<1>8. {pairs[n][1].hash : n \in DOMAIN pairs} = {files.v1[m].hash : m \in Kept}
  BY <1>5, <1>6, <1>7
<1>9. {h \in ToSet(Hashes(Given[1])) : \A f \in DOMAIN Given : Contains(Hashes(Given[f]), h)}
        = {files.v1[m].hash : m \in Kept}
  <2>1. \A h : (\A f \in DOMAIN Given : Contains(Hashes(Given[f]), h)) <=>
                 Contains(Hashes(files.v1), h) /\ Contains(Hashes(files.v2), h)
    BY <1>3
  <2>2. \A h : Contains(Hashes(files.v2), h) <=> \E k \in DOMAIN files.v2 : files.v2[k].hash = h
    BY <1>1, HashFacts
  <2>3. \A h : /\ h \in ToSet(Hashes(Given[1])) <=> \E n \in DOMAIN files.v1 : files.v1[n].hash = h
               /\ Contains(Hashes(files.v1), h) <=> \E n \in DOMAIN files.v1 : files.v1[n].hash = h
    BY <1>1, <1>3, HashFacts
  <2> QED
    BY <1>6, <1>7, <2>1, <2>2, <2>3
<1> QED
  BY <1>4, <1>8, <1>9 DEF PairsMatch

LEMMA CostPairsMatch ==
  ASSUME PairsInv, Working, kind = "cost"
  PROVE  PairsMatch
<1>1. Readable(files.yb) /\ ResultFile(files.yb)
  BY LoadedFacts DEF PairsInv, LoopInv, Generated, Working
<1>2. Given = <<files.yb>>
  BY DEF Given
<1>3. DOMAIN Given = {1} /\ Given[1] = files.yb
  BY <1>2
<1>4. {h \in ToSet(Hashes(Given[1])) : \A f \in DOMAIN Given : Contains(Hashes(Given[f]), h)}
        = {files.yb[n].hash : n \in DOMAIN files.yb}
  <2>1. /\ DOMAIN Given # {} /\ 1 \in DOMAIN Given
        /\ \A f \in DOMAIN Given : Hashes(Given[f]) = Hashes(files.yb)
    BY <1>3
  <2> QED
    BY <1>1, <1>3, <2>1, OneTellsAll
<1>5. /\ \A n \in DOMAIN pairs : DOMAIN pairs[n] = {1} /\ \E m \in DOMAIN files.yb : pairs[n][1] = files.yb[m]
      /\ \A m \in DOMAIN files.yb : \E n \in DOMAIN pairs : pairs[n][1] = files.yb[m]
  BY CostPairFacts
<1>6. {pairs[n][1].hash : n \in DOMAIN pairs} = {files.yb[n].hash : n \in DOMAIN files.yb}
  BY <1>5
<1> QED
  BY <1>4, <1>5, <1>6 DEF PairsMatch

(* The score reports, the regression and the cost report compare each query*)
(* with itself and leave none out that all files have, in whatever order   *)
(* and how often the files list them.                                      *)
THEOREM QueriesMatch == Spec => []PairsMatch
<1>1. TypeInv => PairsMatch
  <2> SUFFICES ASSUME TypeInv, Working, kind \notin {"taqo", "selectivity"}
               PROVE  PairsMatch
    BY DEF PairsMatch, Working
  <2>1. PairsInv /\ kind \in {"score", "score_stats", "regression", "cost"}
    BY LoadedFacts DEF TypeInv, PairsInv, LoopInv, Loaded
  <2> QED
    BY <2>1, ScorePairsMatch, RegressionPairsMatch, CostPairsMatch
<1> QED
  BY <1>1, AlwaysTyped, PTL

-----------------------------------------------------------------------------
(* The score report and score_stats.                                       *)

(* A report only takes steps of its own. *)
LEMMA LoopPhase ==
  ASSUME NEW loops, LoopStep(loops)
  PROVE  phase \in loops
  BY DEF LoopStep, Turned, Turn, Through

LEMMA StepsOfKind ==
  ASSUME PairsInv, [Next]_loopVars
  PROVE  /\ kind \in {"score", "score_stats"} => ScoreNext \/ UNCHANGED loopVars
         /\ kind = "regression" => RegressionNext \/ UNCHANGED loopVars
         /\ kind = "taqo" => TaqoNext \/ UNCHANGED loopVars
         /\ kind = "selectivity" => SelectivityNext \/ UNCHANGED loopVars
         /\ kind = "cost" => CostNext \/ UNCHANGED loopVars
         /\ kind' = kind /\ files' = files
<1>1. PhaseFits
  BY DEF PairsInv, LoopInv
<1>2. ScoreNext => kind \in {"score", "score_stats"}
  BY <1>1, ScoreSteps, GenerateBegins, LoopPhase
  DEF PhaseFits, Ends, ScoreLoops, StatsLoops, RegressionLoops, TaqoLoops, SelectivityLoops, CostLoops
<1>3. RegressionNext => kind = "regression"
  BY <1>1, RegressionSteps, GenerateBegins, LoopPhase
  DEF DefaultPlots, PhaseFits, Ends, ScoreLoops, StatsLoops, RegressionLoops, TaqoLoops,
      SelectivityLoops, CostLoops
<1>4. TaqoNext => kind = "taqo"
  BY <1>1, TaqoSteps, GenerateBegins, LoopPhase
  DEF PhaseFits, Ends, ScoreLoops, StatsLoops, RegressionLoops, TaqoLoops, SelectivityLoops, CostLoops
<1>5. SelectivityNext => kind = "selectivity"
  BY <1>1, SelectivitySteps, GenerateBegins, LoopPhase
  DEF PhaseFits, Ends, ScoreLoops, StatsLoops, RegressionLoops, TaqoLoops, SelectivityLoops, CostLoops
<1>6. CostNext => kind = "cost"
  BY <1>1, CostSteps, GenerateBegins, LoopPhase
  DEF InnerStep, PhaseFits, Ends, ScoreLoops, StatsLoops, RegressionLoops, TaqoLoops,
      SelectivityLoops, CostLoops
<1>7. \/ ScoreNext \/ RegressionNext \/ TaqoNext \/ SelectivityNext \/ CostNext
      \/ UNCHANGED loopVars
  BY DEF Next, Over
<1>8. kind' = kind /\ files' = files
  <2>1. CASE \/ GenerateScore \/ GenerateStats \/ GenerateRegression
             \/ GenerateTaqo \/ GenerateSelectivity \/ GenerateCost
    BY <2>1, GenerateBegins DEF Begun
  <2>2. ASSUME NEW loops, LoopStep(loops)
        PROVE  kind' = kind /\ files' = files
    BY <2>2 DEF LoopStep, Turned, Turn, Tallied, Crash, Through
  <2>3. CASE DefaultPlots
    BY <2>3 DEF DefaultPlots, Crash
  <2>4. CASE InnerStep
    BY <2>4 DEF InnerStep
  <2>5. CASE Over \/ UNCHANGED loopVars
    BY <2>5 DEF Over, loopVars
  <2> QED
    BY <2>1, <2>2, <2>3, <2>4, <2>5, ReportSteps
<1>9. /\ kind \in {"score", "score_stats"} => ~(kind \in {"regression", "taqo", "selectivity", "cost"})
      /\ kind = "regression" => ~(kind \in {"score", "score_stats", "taqo", "selectivity", "cost"})
      /\ kind = "taqo" => ~(kind \in {"score", "score_stats", "regression", "selectivity", "cost"})
      /\ kind = "selectivity" => ~(kind \in {"score", "score_stats", "regression", "taqo", "cost"})
      /\ kind = "cost" => ~(kind \in {"score", "score_stats", "regression", "taqo", "selectivity"})
  OBVIOUS
<1> QED
  BY <1>2, <1>3, <1>4, <1>5, <1>6, <1>7, <1>8, <1>9

(* The pairs a loop has passed, when before are the loops before it.       *)
Passed(before, loop) ==
  IF phase \in before THEN {} ELSE IF phase = loop THEN 1..(pos - 1) ELSE 1..Len(pairs)

Counted == IF kind = "score_stats" THEN Passed({}, "stats") ELSE Passed({"plots"}, "summary")
Tabled == Passed({"plots", "summary"}, "table")
Paged == Passed({"plots", "summary", "table"}, "pages")

(* The queries that the numbers count.                                     *)
YbBests == {n \in DOMAIN pairs : SamePlan(pairs[n][1], Best(pairs[n][1]))}
PgBests == {n \in DOMAIN pairs : pairs[n][2].time > 0 /\ SamePlan(pairs[n][2], Best(pairs[n][2]))}
TimedOut == {n \in DOMAIN pairs : pairs[n][1].time = -1}
Slower == {n \in DOMAIN pairs : AtLeast10(pairs[n][1].time, pairs[n][2].time)}
BestSlower == {n \in DOMAIN pairs : AtLeast10(Best(pairs[n][1]).time, pairs[n][2].time)}
RatioGreen ==
  {n \in DOMAIN pairs : /\ Best(pairs[n][1]).time > 0 /\ pairs[n][2].time > 0
                        /\ WithinThree(pairs[n][1].time, pairs[n][2].time)}
BestGreen ==
  {n \in DOMAIN pairs : /\ Best(pairs[n][1]).time > 0 /\ pairs[n][2].time > 0
                        /\ WithinThree(Best(pairs[n][1]).time, Best(pairs[n][2]).time)}

RatiosOf(done) == UNION {Ratios(pairs[n][1], pairs[n][2]) : n \in done}

Marks(done) == ((done \cap YbBests) \X {"yb"}) \cup ((done \cap PgBests) \X {"pg"})

Numbers(t, done) ==
  /\ t.ybBests = Cardinality(done \cap YbBests)
  /\ t.timedOut = Cardinality(done \cap TimedOut)
  /\ t.slower = Cardinality(done \cap Slower)
  /\ t.bestSlower = Cardinality(done \cap BestSlower)
  /\ t.total = Cardinality(done \cap DOMAIN pairs)
  /\ t.ratios = RatiosOf(done)

ScoreFields == {"ybBests", "pgBests", "timedOut", "slower", "bestSlower", "inconsistent", "total",
                "ratios", "green", "equal", "ratioGreen", "bestGreen"}

ScoreTells(t, counted, tabled, paged) ==
  /\ DOMAIN t = ScoreFields
  /\ Numbers(t, counted) /\ t.pgBests = Cardinality(counted \cap PgBests)
  /\ t.green = Marks(tabled) /\ t.equal = Marks(paged)
  /\ t.ratioGreen = tabled \cap RatioGreen /\ t.bestGreen = tabled \cap BestGreen

(* Each loop has counted and marked what it passed, and nothing else.      *)
ScoreInv ==
  /\ Working /\ kind = "score" => ScoreTells(tally, Counted, Tabled, Paged)
  /\ Working /\ kind = "score_stats" => Numbers(tally, Counted)

LEMMA QueriesKept ==
  ASSUME pairs' = pairs
  PROVE  /\ YbBests' = YbBests /\ PgBests' = PgBests /\ TimedOut' = TimedOut
         /\ Slower' = Slower /\ BestSlower' = BestSlower
         /\ RatioGreen' = RatioGreen /\ BestGreen' = BestGreen
         /\ \A done : RatiosOf(done)' = RatiosOf(done)
         /\ \A done : Marks(done)' = Marks(done)
<1>1. YbBests' = YbBests /\ PgBests' = PgBests
  BY DEF YbBests, PgBests
<1>2. TimedOut' = TimedOut /\ Slower' = Slower /\ BestSlower' = BestSlower
  BY DEF TimedOut, Slower, BestSlower
<1>3. RatioGreen' = RatioGreen /\ BestGreen' = BestGreen
  BY DEF RatioGreen, BestGreen
<1> QED
  BY <1>1, <1>2, <1>3 DEF RatiosOf, Marks

LEMMA RatiosStep ==
  ASSUME NEW n \in Nat, n >= 1
  PROVE  RatiosOf(1..n) = RatiosOf(1..(n - 1)) \cup Ratios(pairs[n][1], pairs[n][2])
<1>1. 1..n = (1..(n - 1)) \cup {n}
  OBVIOUS
<1> QED
  BY <1>1 DEF RatiosOf

LEMMA MarksStep ==
  ASSUME NEW n \in DOMAIN pairs, n \in Nat, n >= 1
  PROVE  Marks(1..n) = Marks(1..(n - 1))
           \cup {<<n, side>> : side \in
                   (IF SamePlan(pairs[n][1], Best(pairs[n][1])) THEN {"yb"} ELSE {})
                   \cup (IF pairs[n][2].time > 0 /\ SamePlan(pairs[n][2], Best(pairs[n][2]))
                         THEN {"pg"} ELSE {})}
<1> DEFINE sides == (IF n \in YbBests THEN {"yb"} ELSE {}) \cup (IF n \in PgBests THEN {"pg"} ELSE {})
<1>1. /\ n \in YbBests <=> SamePlan(pairs[n][1], Best(pairs[n][1]))
      /\ n \in PgBests <=> pairs[n][2].time > 0 /\ SamePlan(pairs[n][2], Best(pairs[n][2]))
  BY DEF YbBests, PgBests
<1>2. 1..n = (1..(n - 1)) \cup {n}
  OBVIOUS
<1>3. Marks(1..n) = Marks(1..(n - 1)) \cup {<<n, side>> : side \in sides}
  BY <1>2 DEF Marks
<1> QED
  BY <1>1, <1>3

LEMMA NoneCounted ==
  /\ \A A : Cardinality({} \cap A) = 0
  /\ RatiosOf({}) = {} /\ Marks({}) = {}
<1>1. \A A : {} \cap A = {}
  OBVIOUS
<1> QED
  BY <1>1, FS_EmptySet DEF RatiosOf, Marks

LEMMA ScoreBegins ==
  /\ phase = "plots" /\ kind = "score" /\ tally = ZeroScore => ScoreInv
  /\ phase = "stats" /\ kind = "score_stats" /\ pos = 1 /\ tally = ZeroStats => ScoreInv
<1>1. ASSUME phase = "plots", kind = "score", tally = ZeroScore
      PROVE  ScoreInv
  <2>1. Counted = {} /\ Tabled = {} /\ Paged = {}
    BY <1>1 DEF Counted, Tabled, Paged, Passed
  <2>2. ScoreTells(tally, {}, {}, {})
    BY <1>1, NoneCounted DEF ScoreTells, Numbers, ZeroScore, ScoreFields
  <2> QED
    BY <1>1, <2>1, <2>2 DEF ScoreInv
<1>2. ASSUME phase = "stats", kind = "score_stats", pos = 1, tally = ZeroStats
      PROVE  ScoreInv
  <2>1. Counted = {}
    BY <1>2 DEF Counted, Passed
  <2>2. Numbers(tally, {})
    BY <1>2, NoneCounted DEF Numbers, ZeroStats
  <2> QED
    BY <1>2, <2>1, <2>2 DEF ScoreInv
<1> QED
  BY <1>1, <1>2

LEMMA ScoreInvKept ==
  ASSUME pairs' = pairs,
         (Working /\ kind = "score")' => ScoreTells(tally', Counted', Tabled', Paged'),
         (Working /\ kind = "score_stats")' => Numbers(tally', Counted')
  PROVE  ScoreInv'
<1>1. Numbers(tally, Counted)' <=> Numbers(tally', Counted')
  BY QueriesKept DEF Numbers, RatiosOf
<1>2. ScoreTells(tally, Counted, Tabled, Paged)' <=> ScoreTells(tally', Counted', Tabled', Paged')
  BY <1>1, QueriesKept DEF ScoreTells, Marks
<1> QED
  BY <1>1, <1>2 DEF ScoreInv

(* One more pair is counted by the summary, and by score_stats.            *)
NumbersAdded(t, new, yb, pg) ==
  /\ new.ybBests = t.ybBests + Count(SamePlan(yb, Best(yb)))
  /\ new.timedOut = t.timedOut + Count(yb.time = -1)
  /\ new.slower = t.slower + Count(AtLeast10(yb.time, pg.time))
  /\ new.bestSlower = t.bestSlower + Count(AtLeast10(Best(yb).time, pg.time))
  /\ new.total = t.total + 1
  /\ new.ratios = t.ratios \cup Ratios(yb, pg)

LEMMA NumbersStep ==
  ASSUME NEW t, NEW new, NEW n \in DOMAIN pairs, n \in Nat, n >= 1,
         Numbers(t, 1..(n - 1)), NumbersAdded(t, new, pairs[n][1], pairs[n][2])
  PROVE  Numbers(new, 1..n)
<1>1. /\ n \in YbBests <=> SamePlan(pairs[n][1], Best(pairs[n][1]))
      /\ n \in TimedOut <=> pairs[n][1].time = -1
      /\ n \in Slower <=> AtLeast10(pairs[n][1].time, pairs[n][2].time)
      /\ n \in BestSlower <=> AtLeast10(Best(pairs[n][1]).time, pairs[n][2].time)
  BY DEF YbBests, TimedOut, Slower, BestSlower
<1>2. new.ybBests = Cardinality((1..n) \cap YbBests)
  <2>1. Count(n \in YbBests) = Count(SamePlan(pairs[n][1], Best(pairs[n][1])))
    BY <1>1 DEF Count
  <2> QED
    BY <2>1, CountStep DEF Numbers, NumbersAdded
<1>3. new.timedOut = Cardinality((1..n) \cap TimedOut)
  <2>1. Count(n \in TimedOut) = Count(pairs[n][1].time = -1)
    BY <1>1 DEF Count
  <2> QED
    BY <2>1, CountStep DEF Numbers, NumbersAdded
<1>4. new.slower = Cardinality((1..n) \cap Slower)
  <2>1. Count(n \in Slower) = Count(AtLeast10(pairs[n][1].time, pairs[n][2].time))
    BY <1>1 DEF Count
  <2> QED
    BY <2>1, CountStep DEF Numbers, NumbersAdded
<1>5. new.bestSlower = Cardinality((1..n) \cap BestSlower)
  <2>1. Count(n \in BestSlower) = Count(AtLeast10(Best(pairs[n][1]).time, pairs[n][2].time))
    BY <1>1 DEF Count
  <2> QED
    BY <2>1, CountStep DEF Numbers, NumbersAdded
<1>6. new.total = Cardinality((1..n) \cap DOMAIN pairs)
  <2>1. Count(n \in DOMAIN pairs) = 1
    BY DEF Count
  <2> QED
    BY <2>1, CountStep DEF Numbers, NumbersAdded
<1>7. new.ratios = RatiosOf(1..n)
  BY RatiosStep DEF Numbers, NumbersAdded
<1> QED
  BY <1>2, <1>3, <1>4, <1>5, <1>6, <1>7 DEF Numbers

LEMMA SummaryStep ==
  ASSUME NEW t, NEW n \in DOMAIN pairs, n \in Nat, n >= 1, ScoreTells(t, 1..(n - 1), {}, {})
  PROVE  ScoreTells(Summed(t, pairs[n][1], pairs[n][2]), 1..n, {}, {})
<1> DEFINE yb == pairs[n][1]
           pg == pairs[n][2]
           new == Summed(t, yb, pg)
<1>1. DOMAIN t = ScoreFields
  BY DEF ScoreTells
<1>2. DOMAIN new = ScoreFields
  BY <1>1 DEF Summed
<1>3. /\ NumbersAdded(t, new, yb, pg)
      /\ new.pgBests = t.pgBests + Count(pg.time > 0 /\ SamePlan(pg, Best(pg)))
      /\ new.green = t.green /\ new.equal = t.equal
      /\ new.ratioGreen = t.ratioGreen /\ new.bestGreen = t.bestGreen
  BY <1>1 DEF Summed, NumbersAdded, ScoreFields
<1> HIDE DEF new
<1>4. Numbers(new, 1..n)
  BY <1>3, NumbersStep DEF ScoreTells
<1>5. n \in PgBests <=> pg.time > 0 /\ SamePlan(pg, Best(pg))
  BY DEF PgBests
<1>6. new.pgBests = Cardinality((1..n) \cap PgBests)
  <2>1. Count(n \in PgBests) = Count(pg.time > 0 /\ SamePlan(pg, Best(pg)))
    BY <1>5 DEF Count
  <2> QED
    BY <1>3, <2>1, CountStep DEF ScoreTells
<1>7. ScoreTells(new, 1..n, {}, {})
  BY <1>2, <1>3, <1>4, <1>6 DEF ScoreTells
<1> QED
  BY <1>7 DEF new

LEMMA OneMore ==
  ASSUME NEW A, NEW n \in Nat, n >= 1
  PROVE  (1..n) \cap A = IF n \in A THEN ((1..(n - 1)) \cap A) \cup {n} ELSE (1..(n - 1)) \cap A
<1>1. 1..n = (1..(n - 1)) \cup {n}
  OBVIOUS
<1> QED
  BY <1>1

LEMMA TableStep ==
  ASSUME ScoreTable, pos \in DOMAIN pairs, pos \in Nat, pos >= 1,
         NEW counted, ScoreTells(tally, counted, 1..(pos - 1), {})
  PROVE  ScoreTells(tally', counted, 1..pos, {})
<1> DEFINE yb == pairs[pos][1]
           pg == pairs[pos][2]
           ratio == Best(yb).time > 0 /\ pg.time > 0
<1>1. DOMAIN tally = ScoreFields
  BY DEF ScoreTells
<1>2. tally' = [tally EXCEPT
         !.green = @ \cup {<<pos, side>> : side \in
            (IF SamePlan(yb, Best(yb)) THEN {"yb"} ELSE {})
            \cup (IF pg.time > 0 /\ SamePlan(pg, Best(pg)) THEN {"pg"} ELSE {})},
         !.ratioGreen = IF ratio /\ WithinThree(yb.time, pg.time) THEN @ \cup {pos} ELSE @,
         !.bestGreen = IF ratio /\ WithinThree(Best(yb).time, Best(pg).time)
                       THEN @ \cup {pos} ELSE @]
  BY DEF ScoreTable, Tallied
<1>3. DOMAIN tally' = ScoreFields
  BY <1>1, <1>2
<1>4. /\ \A f \in ScoreFields \ {"green", "ratioGreen", "bestGreen"} : tally'[f] = tally[f]
      /\ tally'.green = tally.green \cup {<<pos, side>> : side \in
            (IF SamePlan(yb, Best(yb)) THEN {"yb"} ELSE {})
            \cup (IF pg.time > 0 /\ SamePlan(pg, Best(pg)) THEN {"pg"} ELSE {})}
      /\ tally'.ratioGreen = IF ratio /\ WithinThree(yb.time, pg.time)
                             THEN tally.ratioGreen \cup {pos} ELSE tally.ratioGreen
      /\ tally'.bestGreen = IF ratio /\ WithinThree(Best(yb).time, Best(pg).time)
                            THEN tally.bestGreen \cup {pos} ELSE tally.bestGreen
  BY <1>1, <1>2 DEF ScoreFields
<1>5. /\ pos \in RatioGreen <=> ratio /\ WithinThree(yb.time, pg.time)
      /\ pos \in BestGreen <=> ratio /\ WithinThree(Best(yb).time, Best(pg).time)
  BY DEF RatioGreen, BestGreen
<1>6. tally'.green = Marks(1..pos)
  BY <1>4, MarksStep DEF ScoreTells
<1>7. tally'.ratioGreen = (1..pos) \cap RatioGreen /\ tally'.bestGreen = (1..pos) \cap BestGreen
  BY <1>4, <1>5, OneMore DEF ScoreTells
<1>8. Numbers(tally', counted) /\ tally'.pgBests = tally.pgBests /\ tally'.equal = tally.equal
  BY <1>4 DEF ScoreTells, Numbers, ScoreFields
<1> QED
  BY <1>3, <1>6, <1>7, <1>8 DEF ScoreTells

LEMMA PagesStep ==
  ASSUME ScorePages, phase' # "crashed", pos \in DOMAIN pairs, pos \in Nat, pos >= 1,
         NEW counted, NEW tabled, ScoreTells(tally, counted, tabled, 1..(pos - 1))
  PROVE  ScoreTells(tally', counted, tabled, 1..pos)
<1> DEFINE yb == pairs[pos][1]
           pg == pairs[pos][2]
<1>1. DOMAIN tally = ScoreFields
  BY DEF ScoreTells
<1>2. tally' = [tally EXCEPT
         !.equal = @ \cup {<<pos, side>> : side \in
            (IF SamePlan(yb, Best(yb)) THEN {"yb"} ELSE {})
            \cup (IF pg.time > 0 /\ SamePlan(pg, Best(pg)) THEN {"pg"} ELSE {})}]
  BY DEF ScorePages, Tallied, Crash
<1>3. DOMAIN tally' = ScoreFields
  BY <1>1, <1>2
<1>4. /\ \A f \in ScoreFields \ {"equal"} : tally'[f] = tally[f]
      /\ tally'.equal = tally.equal \cup {<<pos, side>> : side \in
            (IF SamePlan(yb, Best(yb)) THEN {"yb"} ELSE {})
            \cup (IF pg.time > 0 /\ SamePlan(pg, Best(pg)) THEN {"pg"} ELSE {})}
  BY <1>1, <1>2 DEF ScoreFields
<1>5. tally'.equal = Marks(1..pos)
  BY <1>4, MarksStep DEF ScoreTells
<1>6. /\ Numbers(tally', counted) /\ tally'.pgBests = tally.pgBests /\ tally'.green = tally.green
      /\ tally'.ratioGreen = tally.ratioGreen /\ tally'.bestGreen = tally.bestGreen
  BY <1>4 DEF ScoreTells, Numbers, ScoreFields
<1> QED
  BY <1>3, <1>5, <1>6 DEF ScoreTells

LEMMA ScoreInvNext == PairsInv /\ ScoreInv /\ [Next]_loopVars => ScoreInv'
<1> SUFFICES ASSUME PairsInv, ScoreInv, [Next]_loopVars, Working', kind' \in {"score", "score_stats"}
             PROVE  ScoreInv'
  BY DEF ScoreInv
<1>1. kind \in {"score", "score_stats"} /\ kind' = kind /\ (ScoreNext \/ UNCHANGED loopVars)
  BY StepsOfKind
<1>2. /\ Len(pairs) \in Nat /\ DOMAIN pairs = 1..Len(pairs)
      /\ pos \in Nat /\ 1 <= pos /\ pos <= Len(pairs) + 1
  BY PositionFacts
<1>3. PhaseFits
  BY DEF PairsInv, LoopInv
<1>4. CASE UNCHANGED loopVars
  <2>1. /\ pairs' = pairs /\ tally' = tally /\ phase' = phase
        /\ Counted' = Counted /\ Tabled' = Tabled /\ Paged' = Paged
    BY <1>4 DEF loopVars, Counted, Tabled, Paged, Passed
  <2> QED
    BY <1>1, <2>1, ScoreInvKept DEF ScoreInv, Working
<1>5. CASE GenerateScore
  <2>1. phase' = "plots" /\ kind' = "score" /\ tally' = ZeroScore
    BY <1>5, GenerateBegins DEF Begun, Working
  <2>2. (phase = "plots" /\ kind = "score" /\ tally = ZeroScore => ScoreInv)'
    BY ScoreBegins, PTL
  <2> QED
    BY <2>1, <2>2 DEF ZeroScore
<1>6. CASE GenerateStats
  <2>1. phase' = "stats" /\ kind' = "score_stats" /\ tally' = ZeroStats /\ pos' = 1
    BY <1>6, GenerateBegins DEF Begun, Working, PairsInv, LoopInv
  <2>2. (phase = "stats" /\ kind = "score_stats" /\ pos = 1 /\ tally = ZeroStats => ScoreInv)'
    BY ScoreBegins, PTL
  <2> QED
    BY <2>1, <2>2 DEF ZeroStats
<1>7. CASE ScorePlots
  <2>1. /\ phase = "plots" /\ pairs' = pairs /\ phase' = phase /\ tally' = tally
    BY <1>7 DEF ScorePlots, Turn, Tallied, Crash, Working
  <2>2. Working /\ kind = "score"
    BY <1>3, <2>1 DEF Working, PhaseFits, Ends, ScoreLoops, StatsLoops, RegressionLoops,
                      TaqoLoops, SelectivityLoops, CostLoops
  <2>3. /\ Counted' = Counted /\ Tabled' = Tabled /\ Paged' = Paged
    BY <1>1, <2>1, <2>2 DEF Counted, Tabled, Paged, Passed
  <2> QED
    BY <1>1, <2>1, <2>2, <2>3, ScoreInvKept DEF ScoreInv
<1>8. CASE ScoreSummary
  <2>1. /\ phase = "summary" /\ pairs' = pairs /\ phase' = phase /\ pos <= Len(pairs) /\ pos' = pos + 1
        /\ tally' = Summed(tally, pairs[pos][1], pairs[pos][2])
    BY <1>8 DEF ScoreSummary, Turn, Tallied
  <2>2. Working /\ kind = "score"
    BY <1>3, <2>1 DEF Working, PhaseFits, Ends, ScoreLoops, StatsLoops, RegressionLoops,
                      TaqoLoops, SelectivityLoops, CostLoops
  <2>3. /\ Counted = 1..(pos - 1) /\ Tabled = {} /\ Paged = {}
        /\ Counted' = 1..pos /\ Tabled' = {} /\ Paged' = {}
    BY <1>1, <1>2, <2>1, <2>2 DEF Counted, Tabled, Paged, Passed
  <2>4. ScoreTells(tally, 1..(pos - 1), {}, {})
    BY <2>2, <2>3 DEF ScoreInv
  <2>5. pos \in DOMAIN pairs /\ pos \in Nat /\ pos >= 1
    BY <1>2, <2>1
  <2>6. ScoreTells(Summed(tally, pairs[pos][1], pairs[pos][2]), 1..pos, {}, {})
    BY <2>4, <2>5, SummaryStep, Zenon
  <2>7. ScoreTells(tally', 1..pos, {}, {})
    BY <2>1, <2>6, Zenon
  <2> QED
    BY <1>1, <2>1, <2>2, <2>3, <2>7, ScoreInvKept
<1>9. CASE ScoreTable
  <2>1. phase = "table" /\ pairs' = pairs /\ phase' = phase /\ pos <= Len(pairs) /\ pos' = pos + 1
    BY <1>9 DEF ScoreTable, Turn, Tallied
  <2>2. Working /\ kind = "score"
    BY <1>3, <2>1 DEF Working, PhaseFits, Ends, ScoreLoops, StatsLoops, RegressionLoops,
                      TaqoLoops, SelectivityLoops, CostLoops
  <2>3. /\ Tabled = 1..(pos - 1) /\ Paged = {}
        /\ Counted' = Counted /\ Tabled' = 1..pos /\ Paged' = {}
    BY <1>1, <1>2, <2>1, <2>2 DEF Counted, Tabled, Paged, Passed
  <2>4. ScoreTells(tally', Counted, 1..pos, {})
    BY <1>2, <1>9, <2>1, <2>2, <2>3, TableStep DEF ScoreInv
  <2> QED
    BY <1>1, <2>1, <2>2, <2>3, <2>4, ScoreInvKept
<1>10. CASE ScorePages
  <2>1. phase = "pages" /\ pairs' = pairs /\ phase' = phase /\ pos <= Len(pairs) /\ pos' = pos + 1
    BY <1>10 DEF ScorePages, Turn, Tallied, Crash, Working
  <2>2. Working /\ kind = "score"
    BY <1>3, <2>1 DEF Working, PhaseFits, Ends, ScoreLoops, StatsLoops, RegressionLoops,
                      TaqoLoops, SelectivityLoops, CostLoops
  <2>3. /\ Paged = 1..(pos - 1)
        /\ Counted' = Counted /\ Tabled' = Tabled /\ Paged' = 1..pos
    BY <1>1, <1>2, <2>1, <2>2 DEF Counted, Tabled, Paged, Passed
  <2>4. ScoreTells(tally', Counted, Tabled, 1..pos)
    BY <1>2, <1>10, <2>1, <2>2, <2>3, PagesStep DEF ScoreInv
  <2> QED
    BY <1>1, <2>1, <2>2, <2>3, <2>4, ScoreInvKept
<1>11. CASE ScoreSheet
  <2>1. phase = "score sheet" /\ pairs' = pairs /\ phase' = phase /\ tally' = tally
    BY <1>11 DEF ScoreSheet, Turn, Tallied
  <2>2. Working /\ kind = "score"
    BY <1>3, <2>1 DEF Working, PhaseFits, Ends, ScoreLoops, StatsLoops, RegressionLoops,
                      TaqoLoops, SelectivityLoops, CostLoops
  <2>3. /\ Counted' = Counted /\ Tabled' = Tabled /\ Paged' = Paged
    BY <1>1, <2>1, <2>2 DEF Counted, Tabled, Paged, Passed
  <2> QED
    BY <1>1, <2>1, <2>2, <2>3, ScoreInvKept DEF ScoreInv
<1>12. CASE ScoreStats
  <2>1. /\ phase = "stats" /\ pairs' = pairs /\ phase' = phase /\ pos <= Len(pairs) /\ pos' = pos + 1
        /\ tally' = Stats(tally, pairs[pos][1], pairs[pos][2])
    BY <1>12 DEF ScoreStats, Turn, Tallied
  <2>2. Working /\ kind = "score_stats"
    BY <1>3, <2>1 DEF Working, PhaseFits, Ends, ScoreLoops, StatsLoops, RegressionLoops,
                      TaqoLoops, SelectivityLoops, CostLoops
  <2>3. Counted = 1..(pos - 1) /\ Counted' = 1..pos
    BY <1>1, <1>2, <2>1, <2>2 DEF Counted, Passed
  <2>4. NumbersAdded(tally, tally', pairs[pos][1], pairs[pos][2])
    BY <2>1 DEF Stats, NumbersAdded
  <2>5. Numbers(tally', 1..pos)
    BY <1>2, <2>1, <2>2, <2>3, <2>4, NumbersStep DEF ScoreInv
  <2> QED
    BY <1>1, <2>1, <2>2, <2>3, <2>5, ScoreInvKept
<1>13. ASSUME NEW loop, NEW next, Through(loop, next),
              <<loop, next>> \in {<<"plots", "summary">>, <<"summary", "table">>, <<"table", "pages">>,
                                  <<"pages", "score sheet">>, <<"score sheet", "published">>,
                                  <<"stats", "published">>}
       PROVE  ScoreInv'
  <2>1. /\ phase = loop /\ phase' = next /\ pos > Len(pairs) /\ pos' = 1
        /\ pairs' = pairs /\ tally' = tally
    BY <1>13 DEF Through
  <2>2. Working /\ kind = IF loop = "stats" THEN "score_stats" ELSE "score"
    BY <1>3, <1>13, <2>1 DEF Working, PhaseFits, Ends, ScoreLoops, StatsLoops, RegressionLoops,
                      TaqoLoops, SelectivityLoops, CostLoops
  <2>3. 1..(pos - 1) = 1..Len(pairs) /\ 1..(pos' - 1) = {}
    BY <1>2, <2>1
  <2>4. /\ Counted' = Counted
        /\ kind = "score" => Tabled' = Tabled /\ Paged' = Paged
    BY <1>1, <1>13, <2>1, <2>2, <2>3 DEF Counted, Tabled, Paged, Passed
  <2> QED
    BY <1>1, <2>1, <2>2, <2>4, ScoreInvKept DEF ScoreInv
<1> QED
  BY <1>1, <1>4, <1>5, <1>6, <1>7, <1>8, <1>9, <1>10, <1>11, <1>12, <1>13, Zenon DEF ScoreNext

LEMMA AlwaysScore == Spec => [](TypeInv /\ ScoreInv)
<1>1. Init => ScoreInv
  BY DEF Init, ScoreInv, Working
<1>2. TypeInv /\ ScoreInv /\ [Next]_loopVars => ScoreInv'
  BY ScoreInvNext DEF TypeInv
<1> QED
  BY <1>1, <1>2, TypeInvInit, TypeInvNext, PTL DEF Spec

-----------------------------------------------------------------------------
(* What follows for the published score.                                   *)
LEMMA SideCount ==
  ASSUME NEW A, IsFiniteSet(A), NEW x
  PROVE  Cardinality(A \X {x}) = Cardinality(A)
<1> DEFINE f == [m \in A \X {x} |-> m[1]]
<1>1. f \in Injection(A \X {x}, A)
  BY DEF Injection, IsInjective
<1>2. f \in Surjection(A \X {x}, A)
  <2>1. ASSUME NEW a \in A
        PROVE  \E m \in A \X {x} : f[m] = a
    <3>1. <<a, x>> \in A \X {x} /\ f[<<a, x>>] = a
      OBVIOUS
    <3> QED
      BY <3>1
  <2> QED
    BY <2>1 DEF Surjection
<1> QED
  BY <1>1, <1>2, FS_Injection

LEMMA MarkedSides ==
  /\ \A done : {m \in Marks(done) : m[2] = "yb"} = (done \cap YbBests) \X {"yb"}
  /\ \A done : {m \in Marks(done) : m[2] = "pg"} = (done \cap PgBests) \X {"pg"}
  BY DEF Marks

LEMMA PublishedScore ==
  ASSUME TypeInv, ScoreInv, phase = "published"
  PROVE  /\ DOMAIN pairs = 1..Len(pairs) /\ Len(pairs) \in Nat
         /\ kind = "score" => LET all == 1..Len(pairs)  IN  ScoreTells(tally, all, all, all)
         /\ kind = "score_stats" => Numbers(tally, 1..Len(pairs))
<1>1. DOMAIN pairs = 1..Len(pairs) /\ Len(pairs) \in Nat
  BY PositionFacts DEF TypeInv
<1>2. /\ Counted = 1..Len(pairs) /\ Tabled = 1..Len(pairs) /\ Paged = 1..Len(pairs)
  BY DEF Counted, Tabled, Paged, Passed
<1> QED
  BY <1>1, <1>2 DEF ScoreInv, Working

(* Where YugabyteDB, and where PostgreSQL, picked the best plan: the       *)
(* summary counts the cells that the table colours, and the pages of the   *)
(* queries mark the same ones.                                             *)
THEOREM ScorePlacesAgree == Spec => []ScoreAgrees
<1>1. TypeInv /\ ScoreInv => ScoreAgrees
  <2> SUFFICES ASSUME TypeInv, ScoreInv, ScorePublished
               PROVE  /\ tally.green = tally.equal
                      /\ tally.ybBests = Cardinality({m \in tally.green : m[2] = "yb"})
                      /\ tally.pgBests = Cardinality({m \in tally.green : m[2] = "pg"})
    BY DEF ScoreAgrees
  <2> DEFINE all == 1..Len(pairs)
  <2>1. Len(pairs) \in Nat /\ ScoreTells(tally, all, all, all)
    BY PublishedScore DEF ScorePublished
  <2>2. IsFiniteSet(all)
    BY <2>1, FS_Interval
  <2> HIDE DEF all
  <2>3. IsFiniteSet(all \cap YbBests) /\ IsFiniteSet(all \cap PgBests)
    BY <2>2, FS_Subset
  <2>4. /\ Cardinality({m \in Marks(all) : m[2] = "yb"}) = Cardinality(all \cap YbBests)
        /\ Cardinality({m \in Marks(all) : m[2] = "pg"}) = Cardinality(all \cap PgBests)
    BY <2>3, MarkedSides, SideCount
  <2> QED
    BY <2>1, <2>4 DEF ScoreTells, Numbers
<1> QED
  BY <1>1, AlwaysScore, PTL

(* The score report and score_stats both publish the true numbers of the   *)
(* files: so they agree with each other about the same files.              *)
THEOREM StatisticsAgree == Spec => []ScoreStatsAgree
<1>1. TypeInv /\ ScoreInv => ScoreStatsAgree
  <2> SUFFICES ASSUME TypeInv, ScoreInv, phase = "published", kind \in {"score", "score_stats"}
               PROVE  ScoreStatsAgree
    BY DEF ScoreStatsAgree
  <2> DEFINE all == 1..Len(pairs)
  <2>1. DOMAIN pairs = all /\ Len(pairs) \in Nat /\ Numbers(tally, all)
    BY PublishedScore DEF ScoreTells
  <2>2. Cardinality(all) = Len(pairs)
    <3>1. 1 \in Int /\ Len(pairs) \in Int /\ Len(pairs) >= 0
      BY <2>1
    <3>2. Cardinality(1..Len(pairs)) = IF 1 > Len(pairs) THEN 0 ELSE Len(pairs) - 1 + 1
      BY <3>1, FS_Interval, Zenon
    <3> QED
      BY <3>1, <3>2
  <2> HIDE DEF all
  <2>3. /\ all \cap YbBests = YbBests /\ all \cap TimedOut = TimedOut /\ all \cap Slower = Slower
        /\ all \cap BestSlower = BestSlower /\ all \cap DOMAIN pairs = all
    BY <2>1 DEF YbBests, TimedOut, Slower, BestSlower
  <2> QED
    BY <2>1, <2>2, <2>3 DEF ScoreStatsAgree, Numbers, YbBests, TimedOut, Slower, BestSlower, RatiosOf
<1> QED
  BY <1>1, AlwaysScore, PTL

(* The times of a pair of the score report.                                *)
LEMMA PartnerTimes ==
  ASSUME NEW p, Partners(p)
  PROVE  /\ p[1].time \in Int /\ p[2].time \in Int
         /\ Best(p[1]).time \in Int /\ Best(p[2]).time \in Int
         /\ Best(p[1]) # p[1] => Best(p[1]).time > 0
         /\ p[1].time > 0 => Best(p[1]).time > 0
         /\ p[2].time > 0 => Best(p[2]).time > 0
<1>1. IsQuery(p[1]) /\ (IsQuery(p[2]) \/ p[2] = CreateCopy(p[1]))
  BY DEF Partners
<1>2. CASE IsQuery(p[2])
  BY <1>1, <1>2, BestTimes
<1>3. CASE p[2] = CreateCopy(p[1])
  <2>1. p[2].time = -1 /\ Best(p[2]) = p[2]
    BY <1>3, CopyFacts, Zenon
  <2> QED
    BY <1>1, <2>1, BestTimes
<1> QED
  BY <1>1, <1>2, <1>3

(* What a green cell of the table tells is so: YugabyteDB took at most     *)
(* three times as long as PostgreSQL, or it is one of the queries that     *)
(* have no time themselves and are coloured by their optimization's.       *)
THEOREM GreenIsFast == Spec => []GreenMeansFast
<1>1. TypeInv /\ ScoreInv => GreenMeansFast
  <2> SUFFICES ASSUME TypeInv, ScoreInv, ScorePublished
               PROVE  GreenMeansFast
    BY DEF GreenMeansFast
  <2>1. tally.ratioGreen \subseteq RatioGreen /\ tally.bestGreen \subseteq BestGreen
    BY PublishedScore DEF ScorePublished, ScoreTells
  <2>2. \A n \in DOMAIN pairs : Partners(pairs[n])
    BY ScorePairFacts DEF TypeInv, ScorePublished, Working
  <2>3. ASSUME NEW n \in tally.ratioGreen
        PROVE  \/ 0 < pairs[n][1].time /\ pairs[n][1].time <= 3 * pairs[n][2].time
               \/ pairs[n][1].time <= 0 /\ Best(pairs[n][1]) # pairs[n][1]
    <3>1. /\ n \in DOMAIN pairs /\ Best(pairs[n][1]).time > 0
          /\ pairs[n][1].time <= 3 * pairs[n][2].time
      BY <2>1 DEF RatioGreen, WithinThree
    <3>2. pairs[n][1].time \in Int
      BY <2>2, <3>1, PartnerTimes
    <3> QED
      BY <3>1, <3>2
  <2>4. ASSUME NEW n \in tally.bestGreen
        PROVE  /\ 0 < Best(pairs[n][1]).time
               /\ Best(pairs[n][1]).time <= 3 * Best(pairs[n][2]).time
    <3>1. n \in BestGreen
      BY <2>1
    <3>2. Best(pairs[n][1]).time \in Int
      BY <2>2, <3>1, PartnerTimes DEF BestGreen
    <3> QED
      BY <3>1, <3>2 DEF BestGreen, WithinThree
  <2> QED
    BY <2>3, <2>4 DEF GreenMeansFast
<1> QED
  BY <1>1, AlwaysScore, PTL

LEMMA ScoreRatios ==
  ASSUME TypeInv, ScoreInv, phase = "published", kind \in {"score", "score_stats"}
  PROVE  \A r \in tally.ratios : r[1] > 0 /\ r[2] > 0
<1>1. DOMAIN pairs = 1..Len(pairs) /\ tally.ratios = RatiosOf(1..Len(pairs))
  BY PublishedScore DEF ScoreTells, Numbers
<1>2. ASSUME NEW n \in DOMAIN pairs, NEW r \in Ratios(pairs[n][1], pairs[n][2])
      PROVE  r[1] > 0 /\ r[2] > 0
  <2>1. Partners(pairs[n])
    BY ScorePairFacts DEF TypeInv, Working
  <2> QED
    BY <1>2, <2>1, PartnerTimes DEF Ratios
<1> QED
  BY <1>1, <1>2 DEF RatiosOf

-----------------------------------------------------------------------------
(* The taqo report. *)

Added == Passed({}, "add")
Shown == Passed({"add"}, "taqo pages")

Several(q) == q.opts # None /\ Len(q.opts) > 1

Failures == {n \in DOMAIN pairs : Several(pairs[n][1]) /\ Mismatch(pairs[n][1])}
NoGains == {n \in DOMAIN pairs : Several(pairs[n][1]) => NoBetter(pairs[n][1])}
Gains == {n \in DOMAIN pairs : ~(Several(pairs[n][1]) => NoBetter(pairs[n][1]))}

TaqoFields == {"failed", "same", "better", "score"}

TaqoTells(t, added, shown) ==
  /\ DOMAIN t = TaqoFields
  /\ t.failed = added \cap Failures /\ t.same = added \cap NoGains /\ t.better = added \cap Gains
  /\ \A n \in added : pairs[n][1].opts # None
  /\ t.score \in Seq(Int \X Int) /\ 1..Len(t.score) = shown
  /\ \A n \in shown : t.score[n] = Score(pairs[n][1])

(* The lists hold the queries they are to hold of those that were added,   *)
(* and every query shown so far has its score.                             *)
TaqoInv == Working /\ kind = "taqo" => TaqoTells(tally, Added, Shown)

LEMMA TaqoInvKept ==
  ASSUME pairs' = pairs,
         (Working /\ kind = "taqo")' => TaqoTells(tally', Added', Shown')
  PROVE  TaqoInv'
<1>1. Failures' = Failures /\ NoGains' = NoGains /\ Gains' = Gains
  BY DEF Failures, NoGains, Gains
<1>2. TaqoTells(tally, Added, Shown)' <=> TaqoTells(tally', Added', Shown')
  BY <1>1 DEF TaqoTells
<1> QED
  BY <1>2 DEF TaqoInv

LEMMA TaqoBegins ==
  phase = "add" /\ pos = 1 /\ tally = ZeroTaqo => TaqoInv
<1> SUFFICES ASSUME phase = "add", pos = 1, tally = ZeroTaqo
             PROVE  TaqoInv
  OBVIOUS
<1>1. Added = {} /\ Shown = {}
  BY DEF Added, Shown, Passed
<1>2. TaqoTells(tally, {}, {})
  BY DEF TaqoTells, TaqoFields, ZeroTaqo
<1> QED
  BY <1>1, <1>2 DEF TaqoInv

LEMMA AddStep ==
  ASSUME AddQuery, phase' # "crashed", pos \in DOMAIN pairs, pos \in Nat, pos >= 1,
         TaqoTells(tally, 1..(pos - 1), {})
  PROVE  TaqoTells(tally', 1..pos, {})
<1> DEFINE q == pairs[pos][1]
<1>1. DOMAIN tally = TaqoFields
  BY DEF TaqoTells
<1>2. /\ q.opts # None
      /\ tally' = [tally EXCEPT
           !.failed = IF Several(q) /\ Mismatch(q) THEN @ \cup {pos} ELSE @,
           !.same   = IF Several(q) => NoBetter(q) THEN @ \cup {pos} ELSE @,
           !.better = IF Several(q) => NoBetter(q) THEN @ ELSE @ \cup {pos}]
  BY DEF AddQuery, Tallied, Crash, Several
<1>3. DOMAIN tally' = TaqoFields
  BY <1>1, <1>2
<1>4. /\ tally'.failed = IF Several(q) /\ Mismatch(q) THEN tally.failed \cup {pos} ELSE tally.failed
      /\ tally'.same = IF Several(q) => NoBetter(q) THEN tally.same \cup {pos} ELSE tally.same
      /\ tally'.better = IF Several(q) => NoBetter(q) THEN tally.better ELSE tally.better \cup {pos}
      /\ tally'.score = tally.score
  BY <1>1, <1>2 DEF TaqoFields
<1>5. /\ pos \in Failures <=> Several(q) /\ Mismatch(q)
      /\ pos \in NoGains <=> (Several(q) => NoBetter(q))
      /\ pos \in Gains <=> ~(Several(q) => NoBetter(q))
  BY DEF Failures, NoGains, Gains
<1>6. /\ tally'.failed = (1..pos) \cap Failures /\ tally'.same = (1..pos) \cap NoGains
      /\ tally'.better = (1..pos) \cap Gains
  BY <1>4, <1>5, OneMore DEF TaqoTells
<1>7. \A n \in 1..pos : pairs[n][1].opts # None
  <2>1. \A n \in 1..pos : n = pos \/ n \in 1..(pos - 1)
    OBVIOUS
  <2> QED
    BY <1>2, <2>1 DEF TaqoTells
<1> QED
  BY <1>3, <1>4, <1>6, <1>7 DEF TaqoTells

LEMMA ShowStep ==
  ASSUME TaqoPages, phase' # "crashed", pos \in DOMAIN pairs, pos \in Nat, pos >= 1,
         IsQuery(pairs[pos][1]), NEW added, TaqoTells(tally, added, 1..(pos - 1))
  PROVE  TaqoTells(tally', added, 1..pos)
<1> DEFINE q == pairs[pos][1]
           s == tally.score
<1>1. DOMAIN tally = TaqoFields
  BY DEF TaqoTells
<1>2. tally' = [tally EXCEPT !.score = Append(@, Score(q))]
  BY DEF TaqoPages, Tallied, Crash
<1>3. /\ DOMAIN tally' = TaqoFields /\ tally'.score = Append(s, Score(q))
      /\ tally'.failed = tally.failed /\ tally'.same = tally.same /\ tally'.better = tally.better
  BY <1>1, <1>2 DEF TaqoFields
<1>4. Score(q) \in Int \X Int
  BY BestTimes DEF Score
<1>5. s \in Seq(Int \X Int) /\ Len(s) \in Nat /\ 1..Len(s) = 1..(pos - 1)
  BY DEF TaqoTells
<1>6. Len(s) = pos - 1
  <2>1. /\ Len(s) \in 1..Len(s) \/ Len(s) = 0
        /\ pos - 1 \in 1..(pos - 1) \/ pos - 1 = 0
    BY <1>5
  <2>2. /\ \A k \in 1..(pos - 1) : 1 <= k /\ k <= Len(s)
        /\ \A k \in 1..Len(s) : 1 <= k /\ k <= pos - 1
    BY <1>5
  <2> QED
    BY <1>5, <2>1, <2>2
<1>7. /\ tally'.score \in Seq(Int \X Int) /\ Len(tally'.score) = pos
      /\ tally'.score[pos] = Score(q)
      /\ \A k \in 1..(pos - 1) : tally'.score[k] = s[k]
  BY <1>3, <1>4, <1>5, <1>6
<1>8. \A n \in 1..pos : tally'.score[n] = Score(pairs[n][1])
  <2>1. \A n \in 1..pos : n = pos \/ n \in 1..(pos - 1)
    OBVIOUS
  <2> QED
    BY <1>7, <2>1 DEF TaqoTells
<1> QED
  BY <1>3, <1>7, <1>8 DEF TaqoTells

LEMMA TaqoInvNext == TypeInv /\ TaqoInv /\ [Next]_loopVars => TaqoInv'
<1> SUFFICES ASSUME TypeInv, TaqoInv, [Next]_loopVars, Working', kind' = "taqo"
             PROVE  TaqoInv'
  BY DEF TaqoInv
<1>1. kind = "taqo" /\ (TaqoNext \/ UNCHANGED loopVars) /\ PairsInv
  BY StepsOfKind DEF TypeInv
<1>2. /\ Len(pairs) \in Nat /\ DOMAIN pairs = 1..Len(pairs)
      /\ pos \in Nat /\ 1 <= pos /\ pos <= Len(pairs) + 1
  BY <1>1, PositionFacts
<1>3. CASE UNCHANGED loopVars
  <2>1. pairs' = pairs /\ tally' = tally /\ phase' = phase /\ Added' = Added /\ Shown' = Shown
    BY <1>3 DEF loopVars, Added, Shown, Passed
  <2> QED
    BY <1>1, <2>1, TaqoInvKept DEF TaqoInv, Working
<1>4. CASE GenerateTaqo
  <2>1. phase' = "add" /\ tally' = ZeroTaqo /\ pos' = 1
    BY <1>1, <1>4, GenerateBegins DEF Begun, Working, PairsInv, LoopInv
  <2>2. (phase = "add" /\ pos = 1 /\ tally = ZeroTaqo => TaqoInv)'
    BY TaqoBegins, PTL
  <2> QED
    BY <2>1, <2>2 DEF ZeroTaqo
<1>5. CASE AddQuery
  <2>1. phase = "add" /\ pairs' = pairs /\ phase' = phase /\ pos <= Len(pairs) /\ pos' = pos + 1
    BY <1>5 DEF AddQuery, Turn, Tallied, Crash, Working
  <2>2. Working /\ pos \in DOMAIN pairs
    BY <1>2, <2>1 DEF Working
  <2>3. Added = 1..(pos - 1) /\ Shown = {} /\ Added' = 1..pos /\ Shown' = {}
    BY <1>2, <2>1 DEF Added, Shown, Passed
  <2>4. TaqoTells(tally, 1..(pos - 1), {})
    BY <1>1, <2>2, <2>3 DEF TaqoInv
  <2>5. TaqoTells(tally', 1..pos, {})
    BY <1>2, <1>5, <2>1, <2>2, <2>4, AddStep
  <2> QED
    BY <2>1, <2>3, <2>5, TaqoInvKept
<1>6. CASE TaqoPages
  <2>1. pairs' = pairs /\ phase' = phase /\ pos <= Len(pairs) /\ pos' = pos + 1
    BY <1>6 DEF TaqoPages, Turn, Tallied, Crash, Working
  <2>2. pos \in DOMAIN pairs /\ pos' - 1 = pos
    BY <1>2, <2>1
  <2>3. IsQuery(pairs[pos][1])
    BY <2>2 DEF TypeInv
  <2>4. phase = "taqo pages" /\ Working
    BY <1>6, Zenon DEF TaqoPages, Turn, Working
  <2>5. Shown = 1..(pos - 1) /\ Shown' = 1..pos /\ Added' = Added
    BY <2>1, <2>2, <2>4, Zenon DEF Shown, Added, Passed
  <2>6. TaqoTells(tally, Added, 1..(pos - 1))
    BY <1>1, <2>4, <2>5 DEF TaqoInv
  <2>7. phase' # "crashed"
    BY DEF Working
  <2>8. TaqoTells(tally', Added, 1..pos)
    BY <1>2, <1>6, <2>2, <2>3, <2>6, <2>7, ShowStep
  <2> QED
    BY <2>1, <2>5, <2>8, TaqoInvKept
<1>7. ASSUME NEW loop, NEW next, Through(loop, next),
             <<loop, next>> \in {<<"add", "taqo pages">>, <<"taqo pages", "published">>}
      PROVE  TaqoInv'
  <2>1. /\ phase = loop /\ phase' = next /\ pos > Len(pairs) /\ pos' = 1
        /\ pairs' = pairs /\ tally' = tally
    BY <1>7 DEF Through
  <2>2. 1..(pos - 1) = 1..Len(pairs) /\ 1..(pos' - 1) = {}
    BY <1>2, <2>1
  <2>3. Added' = Added /\ Shown' = Shown /\ Working
    BY <1>7, <2>1, <2>2 DEF Added, Shown, Passed, Working
  <2> QED
    BY <1>1, <2>1, <2>3, TaqoInvKept DEF TaqoInv
<1> QED
  BY <1>1, <1>3, <1>4, <1>5, <1>6, <1>7, Zenon DEF TaqoNext

LEMMA AlwaysTaqo == Spec => [](TypeInv /\ TaqoInv)
<1>1. Init => TaqoInv
  BY DEF Init, TaqoInv, Working
<1> QED
  BY <1>1, TaqoInvNext, TypeInvInit, TypeInvNext, PTL DEF Spec

LEMMA PublishedTaqo ==
  ASSUME TypeInv, TaqoInv, TaqoPublished
  PROVE  /\ TaqoTells(tally, DOMAIN pairs, DOMAIN pairs)
         /\ \A n \in DOMAIN pairs : IsQuery(pairs[n][1])
<1>1. DOMAIN pairs = 1..Len(pairs)
  BY PositionFacts DEF TypeInv
<1>2. Added = 1..Len(pairs) /\ Shown = 1..Len(pairs)
  BY DEF Added, Shown, Passed, TaqoPublished
<1> QED
  BY <1>1, <1>2 DEF TaqoInv, TaqoPublished, Working, TypeInv

(* A query listed under "better plan found" has one, or has no time.       *)
LEMMA BetterListed == TypeInv /\ TaqoInv => BetterMeansBetter
<1> SUFFICES ASSUME TypeInv, TaqoInv, TaqoPublished, DeltaPct > 0, NEW n \in tally.better,
                    ~(pairs[n][1].time <= 0)
             PROVE  \E o \in ToSet(pairs[n][1].opts) :
                      /\ 0 < o.time /\ o.time < pairs[n][1].time
                      /\ ~AllowedDiff(pairs[n][1].time, o.time)
  BY DEF BetterMeansBetter
<1> DEFINE q == pairs[n][1]
<1>1. n \in Gains /\ IsQuery(q)
  BY PublishedTaqo DEF TaqoTells, Gains
<1>2. ~NoBetter(q)
  BY <1>1 DEF Gains
<1>3. q.time \in Int /\ q.time > 0
  BY <1>1, BestTimes
<1> HIDE DEF q
<1>4. Best(q) # q
  <2>1. AllowedDiff(q.time, q.time)
    <3>1. DeltaPct \in Nat /\ DeltaPct > 0
      BY StoredAssumption
    <3>2. DeltaPct * q.time > 0
      BY <1>3, <3>1
    <3> QED
      BY <1>3, <3>2 DEF AllowedDiff
  <2> QED
    BY <1>2, <2>1 DEF NoBetter
<1>5. PICK m \in DOMAIN q.opts : Best(q) = q.opts[m] /\ IsGain(q, q.opts[m])
  BY <1>1, <1>4, BestFacts
<1>6. q.opts[m] \in ToSet(q.opts)
  BY DEF ToSet
<1>7. Limit(q) = q.time
  BY <1>3 DEF Limit
<1> QED
  BY <1>2, <1>5, <1>6, <1>7 DEF IsGain, NoBetter, q

(* Times between a best time and a time it may differ from may differ, too.*)
LEMMA DiffBetween ==
  ASSUME NEW a \in Int, NEW b \in Int, NEW c \in Int, 0 < a, a <= b, b < c, AllowedDiff(c, a)
  PROVE  AllowedDiff(c, b)
<1>1. DeltaPct \in Nat
  BY StoredAssumption
<1>2. 100 * (c - a) < DeltaPct * a
  BY DEF AllowedDiff
<1>3. DeltaPct * a <= DeltaPct * b
  BY <1>1
<1>4. DeltaPct * a \in Int /\ DeltaPct * b \in Int
  BY <1>1
<1> QED
  BY <1>2, <1>3, <1>4 DEF AllowedDiff

LEMMA GainsListed == TypeInv /\ TaqoInv => NoGainIsMissed
<1> SUFFICES ASSUME TypeInv, TaqoInv, TaqoPublished, NEW n \in tally.same,
                    pairs[n][1].time > 0, Len(pairs[n][1].opts) > 1,
                    NEW o \in ToSet(pairs[n][1].opts), 0 < o.time, o.time < pairs[n][1].time
             PROVE  AllowedDiff(pairs[n][1].time, o.time) \/ AllowedDiff(o.time, pairs[n][1].time)
  BY DEF NoGainIsMissed
<1> DEFINE q == pairs[n][1]
<1>1. n \in NoGains /\ IsQuery(q) /\ q.opts # None
  BY PublishedTaqo DEF TaqoTells, NoGains
<1>2. NoBetter(q)
  BY <1>1 DEF NoGains, Several
<1>3. q.time \in Int /\ q.time > 0 /\ Best(q).time \in Int /\ Best(q).time > 0
  BY <1>1, BestTimes
<1>4. PICK m \in DOMAIN q.opts : o = q.opts[m]
  BY DEF ToSet
<1>5. 0 < o.time /\ o.time < q.time
  OBVIOUS
<1>6. HasOpts(q)
  BY <1>1 DEF HasOpts
<1> HIDE DEF q
<1>7. o.time \in Int
  BY <1>1, <1>4 DEF IsQuery, IsStored
<1>8. CASE Best(q) = q
  <2>1. AllowedDiff(o.time, q.time)
    BY <1>1, <1>3, <1>4, <1>5, <1>6, <1>8, OwnBestFacts
  <2> QED
    BY <2>1 DEF q
<1>9. CASE Best(q) # q
  <2>1. PICK k \in DOMAIN q.opts : Best(q) = q.opts[k] /\ IsGain(q, q.opts[k])
    BY <1>1, <1>9, BestFacts
  <2>2. Limit(q) = q.time
    BY <1>3 DEF Limit
  <2>3. Best(q).time <= o.time
    BY <1>4, <1>5, <2>1, <2>2 DEF IsGain
  <2>4. AllowedDiff(q.time, o.time)
    BY <1>2, <1>3, <1>5, <1>7, <2>3, DiffBetween DEF NoBetter
  <2> QED
    BY <2>4 DEF q
<1> QED
  BY <1>8, <1>9

LEMMA FailuresDiffer == TypeInv /\ TaqoInv => FailedMeansDifferent
<1> SUFFICES ASSUME TypeInv, TaqoInv, TaqoPublished, NEW n \in tally.failed, pairs[n][1].result # None
             PROVE  \E o \in ToSet(pairs[n][1].opts) : o.result \notin {None, pairs[n][1].result}
  BY DEF FailedMeansDifferent
<1> DEFINE q == pairs[n][1]
<1>1. n \in Failures /\ IsQuery(q)
  BY PublishedTaqo DEF TaqoTells, Failures
<1>2. q.result # Best(q).result
  BY <1>1 DEF Failures, Mismatch
<1> HIDE DEF q
<1>3. PICK m \in DOMAIN q.opts : HasOpts(q) /\ Best(q) = q.opts[m] /\ IsGain(q, q.opts[m])
  BY <1>1, <1>2, BestFacts
<1>4. q.opts[m].time \in Int /\ 0 < q.opts[m].time
  BY <1>1, <1>3 DEF IsQuery, IsStored, HasOpts, IsGain
<1>5. q.opts[m].result \notin {None, q.result}
  BY <1>1, <1>2, <1>3, <1>4 DEF IsQuery, Storable, HasOpts
<1>6. q.opts[m] \in ToSet(q.opts)
  BY DEF ToSet
<1> QED
  BY <1>5, <1>6 DEF q

LEMMA EfficiencyParts == TypeInv /\ TaqoInv => EfficiencyIsPart
<1> SUFFICES ASSUME TypeInv, TaqoInv, TaqoPublished, NEW n \in DOMAIN pairs, pairs[n][1].time > 0
             PROVE  0 < tally.score[n][1] /\ tally.score[n][1] <= tally.score[n][2]
  BY DEF EfficiencyIsPart
<1>1. tally.score[n] = Score(pairs[n][1]) /\ IsQuery(pairs[n][1])
  BY PublishedTaqo DEF TaqoTells
<1> QED
  BY <1>1, BestTimes DEF Score

(* The lists of the taqo report tell the truth: what is listed as better   *)
(* is faster by more than the allowed difference, or was never timed; no   *)
(* such gain is missed that get_best_optimization sees; and a result       *)
(* listed as failed differs.                                               *)
THEOREM TaqoTellsTrue == Spec => [](BetterMeansBetter /\ NoGainIsMissed /\ FailedMeansDifferent)
  BY BetterListed, GainsListed, FailuresDiffer, AlwaysTaqo, PTL

-----------------------------------------------------------------------------
(* The selectivity report. *)

Classed == Passed({}, "classify")

OfClass(class) == {n \in DOMAIN pairs : Class(pairs[n][1], pairs[n][6]) = class}

SelectivityFields == {"different", "same", "almost", "worse", "improved"}

SelectivityTells(t, done) ==
  /\ DOMAIN t = SelectivityFields
  /\ \A class \in SelectivityFields \ {"different"} : t[class] = done \cap OfClass(class)

(* Each list holds the queries of its class, of those classified so far.   *)
SelectivityInv == Working /\ kind = "selectivity" => SelectivityTells(tally, Classed)

LEMMA SelectivityInvKept ==
  ASSUME pairs' = pairs,
         (Working /\ kind = "selectivity")' => SelectivityTells(tally', Classed')
  PROVE  SelectivityInv'
<1>1. \A class : OfClass(class)' = OfClass(class)
  BY DEF OfClass
<1>2. SelectivityTells(tally, Classed)' <=> SelectivityTells(tally', Classed')
  BY <1>1 DEF SelectivityTells
<1> QED
  BY <1>2 DEF SelectivityInv

LEMMA SelectivityBegins ==
  phase = "classify" /\ pos = 1 /\ tally = ZeroSelectivity => SelectivityInv
<1> SUFFICES ASSUME phase = "classify", pos = 1, tally = ZeroSelectivity
             PROVE  SelectivityInv
  OBVIOUS
<1>1. Classed = {}
  BY DEF Classed, Passed
<1>2. SelectivityTells(tally, {})
  BY DEF SelectivityTells, SelectivityFields, ZeroSelectivity
<1> QED
  BY <1>1, <1>2 DEF SelectivityInv

LEMMA ClassifyStep ==
  ASSUME Classify, pos \in DOMAIN pairs, pos \in Nat, pos >= 1,
         SelectivityTells(tally, 1..(pos - 1))
  PROVE  SelectivityTells(tally', 1..pos)
<1> DEFINE class == Class(pairs[pos][1], pairs[pos][6])
           others == SelectivityFields \ {"different"}
<1>1. DOMAIN tally = SelectivityFields
  BY DEF SelectivityTells
<1>2. class \in others
  BY DEF Class, SelectivityFields
<1>3. PICK different : tally' = [tally EXCEPT ![class] = @ \cup {pos}, !.different = different]
  BY DEF Classify, Tallied
<1> HIDE DEF class
<1>4. DOMAIN tally' = SelectivityFields
  BY <1>1, <1>3
<1>5. \A c \in others : tally'[c] = IF c = class THEN tally[c] \cup {pos} ELSE tally[c]
  BY <1>1, <1>2, <1>3
<1>6. \A c : pos \in OfClass(c) <=> c = class
  BY DEF OfClass, class
<1>7. \A c \in others : tally'[c] = (1..pos) \cap OfClass(c)
  BY <1>5, <1>6, OneMore DEF SelectivityTells
<1> QED
  BY <1>4, <1>7 DEF SelectivityTells

LEMMA SelectivityInvNext == PairsInv /\ SelectivityInv /\ [Next]_loopVars => SelectivityInv'
<1> SUFFICES ASSUME PairsInv, SelectivityInv, [Next]_loopVars, Working', kind' = "selectivity"
             PROVE  SelectivityInv'
  BY DEF SelectivityInv
<1>1. kind = "selectivity" /\ (SelectivityNext \/ UNCHANGED loopVars)
  BY StepsOfKind
<1>2. /\ Len(pairs) \in Nat /\ DOMAIN pairs = 1..Len(pairs)
      /\ pos \in Nat /\ 1 <= pos /\ pos <= Len(pairs) + 1
  BY PositionFacts
<1>3. CASE UNCHANGED loopVars
  <2>1. pairs' = pairs /\ tally' = tally /\ phase' = phase /\ Classed' = Classed
    BY <1>3 DEF loopVars, Classed, Passed
  <2> QED
    BY <1>1, <2>1, SelectivityInvKept DEF SelectivityInv, Working
<1>4. CASE GenerateSelectivity
  <2>1. phase' = "classify" /\ tally' = ZeroSelectivity /\ pos' = 1
    BY <1>4, GenerateBegins DEF Begun, Working, PairsInv, LoopInv
  <2>2. (phase = "classify" /\ pos = 1 /\ tally = ZeroSelectivity => SelectivityInv)'
    BY SelectivityBegins, PTL
  <2> QED
    BY <2>1, <2>2 DEF ZeroSelectivity
<1>5. CASE Classify
  <2>1. phase = "classify" /\ pairs' = pairs /\ phase' = phase /\ pos <= Len(pairs) /\ pos' = pos + 1
    BY <1>5 DEF Classify, Turn, Tallied
  <2>2. Working /\ pos \in DOMAIN pairs
    BY <1>2, <2>1 DEF Working
  <2>3. Classed = 1..(pos - 1) /\ Classed' = 1..pos
    BY <1>2, <2>1 DEF Classed, Passed
  <2>4. SelectivityTells(tally, 1..(pos - 1))
    BY <1>1, <2>2, <2>3 DEF SelectivityInv
  <2>5. SelectivityTells(tally', 1..pos)
    BY <1>2, <1>5, <2>2, <2>4, ClassifyStep
  <2> QED
    BY <2>1, <2>3, <2>5, SelectivityInvKept
<1>6. CASE SelectivityPages
  <2>1. pairs' = pairs /\ phase' = phase /\ tally' = tally
    BY <1>6 DEF SelectivityPages, Tallied, Crash, Working
  <2>2. phase = "selectivity pages" /\ Working
    BY <1>6, Zenon DEF SelectivityPages, Turn, Working
  <2>3. Classed' = Classed
    BY <2>1, <2>2, Zenon DEF Classed, Passed
  <2> QED
    BY <1>1, <2>1, <2>2, <2>3, SelectivityInvKept, Zenon DEF SelectivityInv
<1>7. ASSUME NEW loop, NEW next, Through(loop, next),
             <<loop, next>> \in {<<"classify", "selectivity pages">>, <<"selectivity pages", "published">>}
      PROVE  SelectivityInv'
  <2>1. /\ phase = loop /\ phase' = next /\ pos > Len(pairs)
        /\ pairs' = pairs /\ tally' = tally
    BY <1>7 DEF Through
  <2>2. 1..(pos - 1) = 1..Len(pairs)
    BY <1>2, <2>1
  <2>3. Classed' = Classed /\ Working
    BY <1>7, <2>1, <2>2, Zenon DEF Classed, Passed, Working
  <2> QED
    BY <1>1, <2>1, <2>3, SelectivityInvKept DEF SelectivityInv
<1> QED
  BY <1>1, <1>3, <1>4, <1>5, <1>6, <1>7, Zenon DEF SelectivityNext

(* What the selectivity report lists as improved by the statistics got     *)
(* faster, and what it lists as worse slower, if it came to its end both   *)
(* times.                                                                  *)
THEOREM SelectivityTellsTrue == Spec => []ListedAsItWent
<1>1. Init => SelectivityInv
  BY DEF Init, SelectivityInv, Working
<1>2. TypeInv /\ SelectivityInv => ListedAsItWent
  <2> SUFFICES ASSUME TypeInv, SelectivityInv, SelectivityPublished, DeltaPct > 0
               PROVE  /\ \A n \in tally.improved :
                           pairs[n][6].time > 0 => pairs[n][6].time < pairs[n][1].time
                      /\ \A n \in tally.worse :
                           pairs[n][1].time > 0 => pairs[n][1].time < pairs[n][6].time
    BY DEF ListedAsItWent
  <2>1. Working /\ PairsInv
    BY DEF TypeInv, Working, SelectivityPublished
  <2>2. /\ tally.improved \subseteq OfClass("improved") /\ tally.worse \subseteq OfClass("worse")
    BY <2>1 DEF SelectivityInv, SelectivityPublished, SelectivityTells, SelectivityFields
  <2>3. \A n \in DOMAIN pairs : IsQuery(pairs[n][1]) /\ IsQuery(pairs[n][6])
    BY <2>1, SelectivityPairFacts DEF SelectivityPublished
  <2>4. ASSUME NEW n \in OfClass("improved"), pairs[n][6].time > 0
        PROVE  pairs[n][6].time < pairs[n][1].time
    <3>1. /\ pairs[n][1].time \in Int /\ pairs[n][6].time \in Int
      BY <2>3, BestTimes DEF OfClass
    <3>2. /\ ~AllowedDiff(pairs[n][1].time, pairs[n][6].time)
          /\ ~(pairs[n][1].time < pairs[n][6].time)
      BY DEF OfClass, Class
    <3>3. DeltaPct \in Nat /\ DeltaPct * pairs[n][6].time > 0
      BY <2>4, <3>1, StoredAssumption
    <3> QED
      BY <2>4, <3>1, <3>2, <3>3 DEF AllowedDiff
  <2>5. ASSUME NEW n \in OfClass("worse")
        PROVE  pairs[n][1].time < pairs[n][6].time
    BY DEF OfClass, Class
  <2> QED
    BY <2>2, <2>4, <2>5
<1> QED
  BY <1>1, <1>2, SelectivityInvNext, TypeInvInit, TypeInvNext, PTL DEF Spec, TypeInv

-----------------------------------------------------------------------------
(* The regression report. *)

Beforehand == {"plan comparison", "counters", "default plots"}
Compared == Passed({}, "plan comparison")
Rated == Passed(Beforehand, "qo score")
Coloured == Passed(Beforehand \cup {"qo score"}, "qe score")
Detailed == Passed(Beforehand \cup {"qo score", "qe score"}, "regression pages")

(* The queries that the numbers and the marks are about.                   *)
ChangedPlans == {n \in DOMAIN pairs : Changed(pairs[n])}
V1Bests == {n \in DOMAIN pairs : SamePlan(pairs[n][1], Best(pairs[n][1]))}
V2Bests == {n \in DOMAIN pairs : SamePlan(pairs[n][2], Best(pairs[n][2]))}

ClassNames == {"betterDifferent", "worseDifferent", "betterSame", "worseSame", "same"}

InClass(f) ==
  {n \in DOMAIN pairs : /\ Executed(pairs[n][1], pairs[n][2])
                        /\ Classes(pairs[n][1], pairs[n][2])[f]}

AllOfOneTag == \A n \in DOMAIN pairs : n > 1 => pairs[n - 1][1].tag = pairs[n][1].tag

AllGood == \A n \in DOMAIN pairs : pairs[n][2].opts # None /\ pairs[n][2].time > 0

SideOf(marks, side) == {m \in marks : m[2] = side}

BothMarks(done) == ((done \cap V1Bests) \X {"v1"}) \cup ((done \cap V2Bests) \X {"v2"})

ComparedTells(t, done) == AllOfOneTag => t.diffPlans = Cardinality(done \cap ChangedPlans)

RatedTells(t, done) ==
  /\ t.hasOpts = (\A n \in done : pairs[n][2].opts # None)
  /\ \A f \in ClassNames : t[f] = Cardinality(done \cap InClass(f))
  /\ t.v1Bests = Cardinality(done \cap V1Bests)
  /\ AllGood => t.v2Bests = Cardinality(done \cap V2Bests)
  /\ \A r \in t.ratios : r[1] > 0 /\ r[2] > 0

MarksTell(marks, done) ==
  /\ SideOf(marks, "v1") = (done \cap V1Bests) \X {"v1"}
  /\ AllGood => marks = BothMarks(done)

RegressionFields ==
  {"diffPlans", "diffCounters", "hasOpts", "v1Bests", "v2Bests", "betterDifferent",
   "worseDifferent", "betterSame", "worseSame", "same", "total", "ratios", "green",
   "ratioGreen", "equal"}

RegressionTells(t, compared, rated, coloured, detailed) ==
  /\ DOMAIN t = RegressionFields
  /\ ComparedTells(t, compared) /\ RatedTells(t, rated)
  /\ MarksTell(t.green, coloured) /\ MarksTell(t.equal, detailed)

(* The switch v2_has_optimizations tells whether a query passed so far had *)
(* none; the numbers and marks of version 2 are as they are to be if all   *)
(* queries have them and succeeded, those of version 1 in any case.        *)
RegressionInv ==
  Working /\ kind = "regression" =>
    /\ RegressionTells(tally, Compared, Rated, Coloured, Detailed)
    /\ phase = "default plots" => pos = 1

LEMMA RegressionInvKept ==
  ASSUME pairs' = pairs,
         (Working /\ kind = "regression")' =>
           /\ RegressionTells(tally', Compared', Rated', Coloured', Detailed')
           /\ phase' = "default plots" => pos' = 1
  PROVE  RegressionInv'
<1>1. /\ ChangedPlans' = ChangedPlans /\ V1Bests' = V1Bests /\ V2Bests' = V2Bests
      /\ AllOfOneTag' = AllOfOneTag /\ AllGood' = AllGood
  BY DEF ChangedPlans, V1Bests, V2Bests, AllOfOneTag, AllGood
<1>2. \A f : InClass(f)' = InClass(f)
  BY DEF InClass
<1>3. ComparedTells(tally, Compared)' <=> ComparedTells(tally', Compared')
  BY <1>1 DEF ComparedTells
<1>4. RatedTells(tally, Rated)' <=> RatedTells(tally', Rated')
  BY <1>1, <1>2 DEF RatedTells
<1>5. /\ MarksTell(tally.green, Coloured)' <=> MarksTell(tally'.green, Coloured')
      /\ MarksTell(tally.equal, Detailed)' <=> MarksTell(tally'.equal, Detailed')
  BY <1>1 DEF MarksTell, BothMarks, SideOf
<1>6. RegressionTells(tally, Compared, Rated, Coloured, Detailed)'
        <=> RegressionTells(tally', Compared', Rated', Coloured', Detailed')
  BY <1>3, <1>4, <1>5 DEF RegressionTells
<1> QED
  BY <1>6, Zenon DEF RegressionInv

LEMMA RegressionBegins ==
  phase = "plan comparison" /\ pos = 1 /\ tally = ZeroRegression => RegressionInv
<1>1. /\ DOMAIN ZeroRegression = RegressionFields
      /\ ZeroRegression.diffPlans = 0 /\ ZeroRegression.hasOpts = TRUE
      /\ ZeroRegression.v1Bests = 0 /\ ZeroRegression.v2Bests = 0
      /\ ZeroRegression.ratios = {} /\ ZeroRegression.green = {} /\ ZeroRegression.equal = {}
      /\ \A f \in ClassNames : ZeroRegression[f] = 0
  BY DEF ZeroRegression, ClassNames, RegressionFields
<1>2. \A A : Cardinality({} \cap A) = 0
  BY NoneCounted
<1>3. ComparedTells(ZeroRegression, {}) /\ RatedTells(ZeroRegression, {})
  BY <1>1, <1>2 DEF ComparedTells, RatedTells
<1>4. MarksTell({}, {})
  BY DEF MarksTell, BothMarks, SideOf
<1>5. RegressionTells(ZeroRegression, {}, {}, {}, {})
  BY <1>1, <1>3, <1>4 DEF RegressionTells
<1>6. 1..(1 - 1) = {}
  OBVIOUS
<1> SUFFICES ASSUME phase = "plan comparison", pos = 1, tally = ZeroRegression
             PROVE  RegressionInv
  OBVIOUS
<1>7. Compared = {}
  BY <1>6, Zenon DEF Compared, Passed
<1>8. Rated = {} /\ Coloured = {} /\ Detailed = {}
  BY Zenon DEF Rated, Coloured, Detailed, Passed, Beforehand
<1> QED
  BY <1>5, <1>7, <1>8, Zenon DEF RegressionInv

LEMMA CompareStep ==
  ASSUME PlanComparison, pos \in DOMAIN pairs, pos \in Nat, pos >= 1,
         RegressionTells(tally, 1..(pos - 1), {}, {}, {})
  PROVE  RegressionTells(tally', 1..pos, {}, {}, {})
<1> DEFINE new == (IF FirstOfTag(pos) THEN 0 ELSE tally.diffPlans) + Count(Changed(pairs[pos]))
<1>1. DOMAIN tally = RegressionFields
  BY DEF RegressionTells
<1>2. tally' = [tally EXCEPT !.diffPlans = new]
  BY DEF PlanComparison, Tallied
<1> HIDE DEF new
<1>3. /\ DOMAIN tally' = RegressionFields /\ tally'.diffPlans = new
      /\ \A f \in RegressionFields \ {"diffPlans"} : tally'[f] = tally[f]
  BY <1>1, <1>2 DEF RegressionFields
<1>4. /\ tally'.hasOpts = tally.hasOpts /\ tally'.v1Bests = tally.v1Bests
      /\ tally'.v2Bests = tally.v2Bests /\ tally'.ratios = tally.ratios
      /\ tally'.green = tally.green /\ tally'.equal = tally.equal
      /\ \A f \in ClassNames : tally'[f] = tally[f]
  BY <1>3 DEF RegressionFields, ClassNames
<1>5. ASSUME AllOfOneTag
      PROVE  new = Cardinality((1..pos) \cap ChangedPlans)
  <2>1. Count(pos \in ChangedPlans) = Count(Changed(pairs[pos]))
    BY DEF Count, ChangedPlans
  <2>2. CASE pos = 1
    <3>1. FirstOfTag(pos)
      BY <2>2 DEF FirstOfTag
    <3>2. Cardinality((1..(pos - 1)) \cap ChangedPlans) = 0
      BY <2>2, CountNone
    <3>3. /\ Cardinality((1..pos) \cap ChangedPlans)
               = Cardinality((1..(pos - 1)) \cap ChangedPlans) + Count(pos \in ChangedPlans)
      BY CountStep
    <3> QED
      BY <2>1, <3>1, <3>2, <3>3 DEF new
  <2>3. CASE pos # 1
    <3>1. ~FirstOfTag(pos)
      BY <1>5, <2>3 DEF FirstOfTag, AllOfOneTag
    <3>2. tally.diffPlans = Cardinality((1..(pos - 1)) \cap ChangedPlans)
      BY <1>5 DEF RegressionTells, ComparedTells
    <3>3. /\ Cardinality((1..pos) \cap ChangedPlans)
               = Cardinality((1..(pos - 1)) \cap ChangedPlans) + Count(pos \in ChangedPlans)
      BY CountStep
    <3> QED
      BY <2>1, <3>1, <3>2, <3>3 DEF new
  <2> QED
    BY <2>2, <2>3
<1>6. ComparedTells(tally', 1..pos)
  BY <1>3, <1>5 DEF ComparedTells
<1>7. RatedTells(tally', {})
  BY <1>4 DEF RegressionTells, RatedTells
<1> QED
  BY <1>3, <1>4, <1>6, <1>7 DEF RegressionTells

LEMMA RateStep ==
  ASSUME NEW t, NEW n \in DOMAIN pairs, n \in Nat, n >= 1, Versions(pairs[n]),
         \A m \in 1..n : m \in DOMAIN pairs, NEW compared, RegressionTells(t, compared, 1..(n - 1), {}, {})
  PROVE  RegressionTells(Judged(t, pairs[n][1], pairs[n][2]), compared, 1..n, {}, {})
<1> DEFINE v1 == pairs[n][1]
           v2 == pairs[n][2]
           has == StillHasOpts(t.hasOpts, v2)
           best2 == BestOfV2(has, v1, v2)
           ran == Executed(v1, v2)
           new == Judged(t, v1, v2)
           more == IF ~ran THEN {<<1, 1>>}
                   ELSE {<<v2.time, v1.time>>, <<v1.time, Best(v1).time>>,
                         IF best2.time > 0 THEN <<v2.time, best2.time>> ELSE <<9999999, 1>>}
<1>1. DOMAIN t = RegressionFields
  BY DEF RegressionTells
<1> DEFINE plus == [f \in ClassNames |-> Count(ran /\ Classes(v1, v2)[f])]
           plus1 == Count(SamePlan(v1, Best(v1)))
           plus2 == Count(SamePlan(v2, best2))
<1> DEFINE t1 == [t EXCEPT !.hasOpts = has, !.total = @ + 1,
                           !.betterDifferent = @ + plus["betterDifferent"],
                           !.worseDifferent = @ + plus["worseDifferent"]]
           t2 == [t1 EXCEPT !.betterSame = t.betterSame + plus["betterSame"],
                            !.worseSame = t.worseSame + plus["worseSame"],
                            !.same = t.same + plus["same"]]
           t3 == [t2 EXCEPT !.v1Bests = t.v1Bests + plus1, !.v2Bests = t.v2Bests + plus2,
                            !.ratios = t.ratios \cup more]
<1>2. new = t3
  <2>1. /\ plus["betterDifferent"] = Count(ran /\ Classes(v1, v2)["betterDifferent"])
        /\ plus["worseDifferent"] = Count(ran /\ Classes(v1, v2)["worseDifferent"])
        /\ plus["betterSame"] = Count(ran /\ Classes(v1, v2)["betterSame"])
        /\ plus["worseSame"] = Count(ran /\ Classes(v1, v2)["worseSame"])
        /\ plus["same"] = Count(ran /\ Classes(v1, v2)["same"])
    BY DEF ClassNames
  <2> HIDE DEF plus
  <2> QED
    BY <2>1, SMT DEF Judged
<1> HIDE DEF new, more, has, plus1, plus2, plus, best2, ran, v1, v2
<1>3. /\ DOMAIN new = RegressionFields
      /\ new.hasOpts = has /\ new.diffPlans = t.diffPlans
      /\ new.green = t.green /\ new.equal = t.equal
      /\ new.v1Bests = t.v1Bests + plus1 /\ new.v2Bests = t.v2Bests + plus2
      /\ new.ratios = t.ratios \cup more
      /\ \A f \in ClassNames : new[f] = t[f] + plus[f]
  <2>1. /\ DOMAIN t1 = RegressionFields
        /\ t1.hasOpts = has /\ t1.diffPlans = t.diffPlans
        /\ t1.green = t.green /\ t1.equal = t.equal
        /\ t1.betterDifferent = t.betterDifferent + plus["betterDifferent"]
        /\ t1.worseDifferent = t.worseDifferent + plus["worseDifferent"]
    BY <1>1 DEF RegressionFields
  <2> HIDE DEF t1
  <2>2. /\ DOMAIN t2 = RegressionFields
        /\ t2.hasOpts = t1.hasOpts /\ t2.diffPlans = t1.diffPlans
        /\ t2.green = t1.green /\ t2.equal = t1.equal
        /\ t2.betterDifferent = t1.betterDifferent /\ t2.worseDifferent = t1.worseDifferent
        /\ t2.betterSame = t.betterSame + plus["betterSame"]
        /\ t2.worseSame = t.worseSame + plus["worseSame"]
        /\ t2.same = t.same + plus["same"]
    BY <2>1 DEF RegressionFields
  <2> HIDE DEF t2
  <2>3. /\ DOMAIN t3 = RegressionFields
        /\ t3.hasOpts = t2.hasOpts /\ t3.diffPlans = t2.diffPlans
        /\ t3.green = t2.green /\ t3.equal = t2.equal
        /\ t3.betterDifferent = t2.betterDifferent /\ t3.worseDifferent = t2.worseDifferent
        /\ t3.betterSame = t2.betterSame /\ t3.worseSame = t2.worseSame /\ t3.same = t2.same
        /\ t3.v1Bests = t.v1Bests + plus1 /\ t3.v2Bests = t.v2Bests + plus2
        /\ t3.ratios = t.ratios \cup more
    BY <2>2 DEF RegressionFields
  <2> HIDE DEF t3
  <2> QED
    BY <1>2, <2>1, <2>2, <2>3 DEF ClassNames
<1> USE DEF v1, v2, best2, ran
<1>4. \A f \in ClassNames : plus[f] = Count(ran /\ Classes(v1, v2)[f])
  BY DEF plus
<1>5. new.hasOpts = (\A m \in 1..n : pairs[m][2].opts # None)
  <2>1. t.hasOpts = (\A m \in 1..(n - 1) : pairs[m][2].opts # None)
    BY DEF RegressionTells, RatedTells
  <2>2. \A m \in 1..n : m = n \/ m \in 1..(n - 1)
    OBVIOUS
  <2>3. n \in 1..n /\ \A m \in 1..(n - 1) : m \in 1..n
    OBVIOUS
  <2> QED
    BY <1>3, <2>1, <2>2, <2>3, Zenon DEF StillHasOpts, has
<1>6. ASSUME NEW f \in ClassNames
      PROVE  new[f] = Cardinality((1..n) \cap InClass(f))
  <2>1. Count(n \in InClass(f)) = Count(ran /\ Classes(v1, v2)[f])
    BY DEF Count, InClass
  <2>2. t[f] = Cardinality((1..(n - 1)) \cap InClass(f))
    BY DEF RegressionTells, RatedTells
  <2> QED
    BY <1>3, <1>4, <2>1, <2>2, CountStep
<1>7. new.v1Bests = Cardinality((1..n) \cap V1Bests)
  <2>1. Count(n \in V1Bests) = plus1
    BY DEF Count, V1Bests, plus1
  <2>2. t.v1Bests = Cardinality((1..(n - 1)) \cap V1Bests)
    BY DEF RegressionTells, RatedTells
  <2> QED
    BY <1>3, <2>1, <2>2, CountStep
<1>8. ASSUME AllGood
      PROVE  new.v2Bests = Cardinality((1..n) \cap V2Bests)
  <2>1. t.hasOpts = (\A m \in 1..(n - 1) : pairs[m][2].opts # None)
    BY DEF RegressionTells, RatedTells
  <2>2. \A m \in 1..(n - 1) : m \in DOMAIN pairs
    OBVIOUS
  <2>3. best2 = Best(v2)
    BY <1>8, <2>1, <2>2 DEF AllGood, BestOfV2, StillHasOpts, has
  <2>4. Count(n \in V2Bests) = plus2
    BY <2>3 DEF Count, V2Bests, plus2
  <2>5. t.v2Bests = Cardinality((1..(n - 1)) \cap V2Bests)
    BY <1>8 DEF RegressionTells, RatedTells
  <2> QED
    BY <1>3, <2>4, <2>5, CountStep
<1>9. \A r \in new.ratios : r[1] > 0 /\ r[2] > 0
  <2>1. \A r \in t.ratios : r[1] > 0 /\ r[2] > 0
    BY DEF RegressionTells, RatedTells
  <2>2. /\ v1.time \in Int /\ v2.time \in Int
        /\ v1.time > 0 => Best(v1).time > 0
    BY BestTimes DEF Versions
  <2>3. \A r \in more : r[1] > 0 /\ r[2] > 0
    BY <2>2 DEF Executed, more
  <2> QED
    BY <1>3, <2>1, <2>3
<1>10. RatedTells(new, 1..n)
  BY <1>5, <1>6, <1>7, <1>8, <1>9 DEF RatedTells
<1>11. ComparedTells(new, compared)
  BY <1>3 DEF RegressionTells, ComparedTells
<1>12. RegressionTells(new, compared, 1..n, {}, {})
  BY <1>3, <1>10, <1>11 DEF RegressionTells
<1> QED
  BY <1>12 DEF new

LEMMA MarkMore ==
  ASSUME NEW marks, NEW n \in Nat, n >= 1, NEW sides,
         "v1" \in sides <=> n \in V1Bests,
         AllGood => ("v2" \in sides <=> n \in V2Bests),
         sides \subseteq {"v1", "v2"}, MarksTell(marks, 1..(n - 1))
  PROVE  MarksTell(marks \cup {<<n, side>> : side \in sides}, 1..n)
<1> DEFINE new == marks \cup {<<n, side>> : side \in sides}
<1>1. 1..n = (1..(n - 1)) \cup {n}
  OBVIOUS
<1>2. SideOf(new, "v1") = ((1..n) \cap V1Bests) \X {"v1"}
  <2>1. SideOf(marks, "v1") = ((1..(n - 1)) \cap V1Bests) \X {"v1"}
    BY DEF MarksTell
  <2>2. SideOf(new, "v1") = SideOf(marks, "v1") \cup (IF "v1" \in sides THEN {<<n, "v1">>} ELSE {})
    BY DEF SideOf
  <2> QED
    BY <1>1, <2>1, <2>2
<1>3. ASSUME AllGood
      PROVE  new = BothMarks(1..n)
  <2>1. marks = BothMarks(1..(n - 1))
    BY <1>3 DEF MarksTell
  <2>2. {<<n, side>> : side \in sides}
          = (IF n \in V1Bests THEN {<<n, "v1">>} ELSE {}) \cup (IF n \in V2Bests THEN {<<n, "v2">>} ELSE {})
    BY <1>3
  <2> QED
    BY <1>1, <2>1, <2>2 DEF BothMarks
<1> QED
  BY <1>2, <1>3 DEF MarksTell

LEMMA ColourStep ==
  ASSUME pos \in DOMAIN pairs, pos \in Nat, pos >= 1, QeScore, phase' # "crashed",
         NEW compared, RegressionTells(tally, compared, DOMAIN pairs, 1..(pos - 1), {})
  PROVE  RegressionTells(tally', compared, DOMAIN pairs, 1..pos, {})
<1> DEFINE v1 == pairs[pos][1]
           v2 == pairs[pos][2]
           sides == (IF SamePlan(v1, Best(v1)) THEN {"v1"} ELSE {}) \cup
                    (IF v2.time > 0 /\ SamePlan(v2, BestOfV2(tally.hasOpts, v1, v2))
                     THEN {"v2"} ELSE {})
           ratios == IF v1.time > 0 /\ 100 * v2.time <= (100 + DeltaPct) * v1.time
                     THEN tally.ratioGreen \cup {pos} ELSE tally.ratioGreen
<1>1. DOMAIN tally = RegressionFields
  BY DEF RegressionTells
<1>2. tally' = [tally EXCEPT !.green = @ \cup {<<pos, side>> : side \in sides},
                                           !.ratioGreen = ratios]
  BY DEF QeScore, Tallied, Crash
<1> HIDE DEF sides, ratios
<1>3. /\ DOMAIN tally' = RegressionFields
      /\ tally'.green = tally.green \cup {<<pos, side>> : side \in sides}
      /\ tally'.diffPlans = tally.diffPlans /\ tally'.equal = tally.equal
      /\ tally'.hasOpts = tally.hasOpts /\ tally'.v1Bests = tally.v1Bests
      /\ tally'.v2Bests = tally.v2Bests /\ tally'.ratios = tally.ratios
      /\ \A f \in ClassNames : tally'[f] = tally[f]
  BY <1>1, <1>2 DEF RegressionFields, ClassNames
<1>4. AllGood => tally.hasOpts = TRUE
  BY DEF RegressionTells, RatedTells, AllGood
<1>5. "v1" \in sides <=> pos \in V1Bests
  BY DEF sides, V1Bests
<1>6. AllGood => ("v2" \in sides <=> pos \in V2Bests)
  BY <1>4 DEF sides, V2Bests, AllGood, BestOfV2
<1>7. MarksTell(tally'.green, 1..pos)
  <2>1. sides \subseteq {"v1", "v2"} /\ MarksTell(tally.green, 1..(pos - 1))
    BY DEF sides, RegressionTells
  <2>2. MarksTell(tally.green \cup {<<pos, side>> : side \in sides}, 1..pos)
    BY <1>5, <1>6, <2>1, MarkMore, Zenon
  <2> QED
    BY <1>3, <2>2, Zenon
<1>8. RatedTells(tally', DOMAIN pairs) /\ ComparedTells(tally', compared)
  BY <1>3 DEF RegressionTells, RatedTells, ComparedTells
<1> QED
  BY <1>3, <1>7, <1>8 DEF RegressionTells

LEMMA DetailStep ==
  ASSUME NEW n \in DOMAIN pairs, n \in Nat, n >= 1, n = pos, RegressionPages,
         NEW compared, NEW rated, NEW coloured,
         RegressionTells(tally, compared, rated, coloured, 1..(n - 1))
  PROVE  RegressionTells(tally', compared, rated, coloured, 1..n)
<1> DEFINE v1 == pairs[n][1]
           v2 == pairs[n][2]
           sides == (IF SamePlan(v1, Best(v1)) THEN {"v1"} ELSE {}) \cup
                    (IF SamePlan(v2, BestOfV2(v2.opts # None, v1, v2)) THEN {"v2"} ELSE {})
<1>1. DOMAIN tally = RegressionFields
  BY DEF RegressionTells
<1>2. tally' = [tally EXCEPT !.equal = @ \cup {<<n, side>> : side \in sides}]
  BY DEF RegressionPages, Tallied
<1> HIDE DEF sides
<1>3. /\ DOMAIN tally' = RegressionFields
      /\ tally'.equal = tally.equal \cup {<<n, side>> : side \in sides}
      /\ tally'.diffPlans = tally.diffPlans /\ tally'.green = tally.green
      /\ tally'.hasOpts = tally.hasOpts /\ tally'.v1Bests = tally.v1Bests
      /\ tally'.v2Bests = tally.v2Bests /\ tally'.ratios = tally.ratios
      /\ \A f \in ClassNames : tally'[f] = tally[f]
  BY <1>1, <1>2 DEF RegressionFields, ClassNames
<1>4. "v1" \in sides <=> n \in V1Bests
  BY DEF sides, V1Bests
<1>5. AllGood => ("v2" \in sides <=> n \in V2Bests)
  BY DEF sides, V2Bests, AllGood, BestOfV2
<1>6. MarksTell(tally'.equal, 1..n)
  <2>1. sides \subseteq {"v1", "v2"} /\ MarksTell(tally.equal, 1..(n - 1))
    BY DEF sides, RegressionTells
  <2>2. MarksTell(tally.equal \cup {<<n, side>> : side \in sides}, 1..n)
    BY <1>4, <1>5, <2>1, MarkMore, Zenon
  <2> QED
    BY <1>3, <2>2, Zenon
<1>7. RatedTells(tally', rated) /\ ComparedTells(tally', compared)
  BY <1>3 DEF RegressionTells, RatedTells, ComparedTells
<1> QED
  BY <1>3, <1>6, <1>7 DEF RegressionTells

LEMMA RegressionThrough ==
  ASSUME NEW loop, NEW next, Through(loop, next),
         <<loop, next>> \in {<<"plan comparison", "counters">>, <<"counters", "default plots">>,
                             <<"qo score", "qe score">>, <<"qe score", "regression pages">>,
                             <<"regression pages", "regression sheet">>,
                             <<"regression sheet", "published">>},
         1..(pos - 1) = 1..Len(pairs), 1..(pos' - 1) = {}
  PROVE  /\ Compared' = Compared /\ Rated' = Rated /\ Coloured' = Coloured /\ Detailed' = Detailed
         /\ Working
<1>1. phase = loop /\ phase' = next /\ pairs' = pairs
  BY DEF Through
<1>2. Compared' = Compared
  BY <1>1, Zenon DEF Compared, Passed
<1>3. Rated' = Rated
  BY <1>1, Zenon DEF Rated, Passed, Beforehand
<1>4. Coloured' = Coloured
  BY <1>1, Zenon DEF Coloured, Passed, Beforehand
<1>5. Detailed' = Detailed
  BY <1>1, Zenon DEF Detailed, Passed, Beforehand
<1>6. Working
  BY <1>1, Zenon DEF Working
<1> QED
  BY <1>2, <1>3, <1>4, <1>5, <1>6, Zenon

LEMMA RegressionInvNext == PairsInv /\ RegressionInv /\ [Next]_loopVars => RegressionInv'
<1> SUFFICES ASSUME PairsInv, RegressionInv, [Next]_loopVars, Working', kind' = "regression"
             PROVE  RegressionInv'
  BY DEF RegressionInv
<1>1. kind = "regression" /\ (RegressionNext \/ UNCHANGED loopVars) /\ phase' # "crashed"
  BY StepsOfKind DEF Working
<1>2. /\ Len(pairs) \in Nat /\ DOMAIN pairs = 1..Len(pairs)
      /\ pos \in Nat /\ 1 <= pos /\ pos <= Len(pairs) + 1
  BY PositionFacts
<1> DEFINE Tells(compared, rated, coloured, detailed) ==
             RegressionTells(tally, compared, rated, coloured, detailed)
           NewTells(compared, rated, coloured, detailed) ==
             RegressionTells(tally', compared, rated, coloured, detailed)
<1>3. CASE UNCHANGED loopVars
  <2>1. /\ pairs' = pairs /\ tally' = tally /\ phase' = phase /\ pos' = pos
        /\ Compared' = Compared /\ Rated' = Rated /\ Coloured' = Coloured /\ Detailed' = Detailed
    BY <1>3 DEF loopVars, Compared, Rated, Coloured, Detailed, Passed
  <2> QED
    BY <1>1, <2>1, RegressionInvKept DEF RegressionInv, Working
<1>4. CASE GenerateRegression
  <2>1. phase' = "plan comparison" /\ tally' = ZeroRegression /\ pos' = 1
    BY <1>1, <1>4, GenerateBegins, Zenon DEF Begun, PairsInv, LoopInv
  <2>2. (phase = "plan comparison" /\ pos = 1 /\ tally = ZeroRegression => RegressionInv)'
    BY RegressionBegins, PTL
  <2> QED
    BY <2>1, <2>2, Zenon DEF ZeroRegression
<1>5. CASE PlanComparison
  <2>1. pairs' = pairs /\ phase' = phase /\ pos <= Len(pairs) /\ pos' = pos + 1
    BY <1>5 DEF PlanComparison, Turn, Tallied
  <2>2. pos \in DOMAIN pairs /\ pos' - 1 = pos
    BY <1>2, <2>1
  <2>3. phase = "plan comparison" /\ Working
    BY <1>5, Zenon DEF PlanComparison, Turn, Working
  <2>4. /\ Compared = 1..(pos - 1) /\ Rated = {} /\ Coloured = {} /\ Detailed = {}
        /\ Compared' = 1..pos /\ Rated' = {} /\ Coloured' = {} /\ Detailed' = {}
        /\ phase' # "default plots"
    BY <2>1, <2>2, <2>3, Zenon DEF Compared, Rated, Coloured, Detailed, Passed, Beforehand
  <2>5. Tells(1..(pos - 1), {}, {}, {})
    BY <1>1, <2>3, <2>4, Zenon DEF RegressionInv
  <2>6. NewTells(1..pos, {}, {}, {})
    BY <1>2, <1>5, <2>2, <2>5, CompareStep
  <2> QED
    BY <2>1, <2>4, <2>6, RegressionInvKept, Zenon
<1>6. CASE CounterTables
  <2>1. pairs' = pairs /\ phase' = phase /\ \E d : tally' = [tally EXCEPT !.diffCounters = d]
    <3> DEFINE d == (IF FirstOfTag(pos) THEN 0 ELSE tally.diffCounters)
                    + Count(CounterOf(pairs[pos][1].plan) # CounterOf(pairs[pos][2].plan))
    <3>1. tally' = [tally EXCEPT !.diffCounters = d]
      BY <1>1, <1>6, Zenon DEF CounterTables, Tallied, Crash
    <3> QED
      BY <1>1, <1>6, <3>1, Zenon DEF CounterTables, Tallied, Crash
  <2>2. phase = "counters" /\ Working
    BY <1>6, Zenon DEF CounterTables, Turn, Working
  <2>3. /\ Compared' = Compared /\ Rated' = Rated /\ Coloured' = Coloured /\ Detailed' = Detailed
        /\ phase' # "default plots"
    BY <2>1, <2>2, Zenon DEF Compared, Rated, Coloured, Detailed, Passed, Beforehand
  <2>4. Tells(Compared, Rated, Coloured, Detailed)
    BY <1>1, <2>2, Zenon DEF RegressionInv
  <2>5. DOMAIN tally = RegressionFields
    BY <2>4 DEF RegressionTells
  <2>6. /\ DOMAIN tally' = RegressionFields
        /\ tally'.diffPlans = tally.diffPlans
        /\ tally'.hasOpts = tally.hasOpts /\ tally'.v1Bests = tally.v1Bests
        /\ tally'.v2Bests = tally.v2Bests /\ tally'.ratios = tally.ratios
        /\ tally'.green = tally.green /\ tally'.equal = tally.equal
        /\ \A f \in ClassNames : tally'[f] = tally[f]
    BY <2>1, <2>5 DEF RegressionFields, ClassNames
  <2>7. NewTells(Compared, Rated, Coloured, Detailed)
    BY <2>4, <2>6 DEF RegressionTells, ComparedTells, RatedTells
  <2> QED
    BY <2>1, <2>3, <2>7, RegressionInvKept, Zenon
<1>7. CASE DefaultPlots
  <2>1. /\ pairs' = pairs /\ tally' = tally /\ pos' = pos
        /\ phase = "default plots" /\ phase' = "qo score" /\ Working
    BY <1>1, <1>7, Zenon DEF DefaultPlots, Crash, Working
  <2>2. pos = 1
    BY <1>1, <2>1, Zenon DEF RegressionInv
  <2>3. 1..(pos' - 1) = {}
    <3>1. pos' = 1
      BY <2>1, <2>2, Zenon
    <3> QED
      BY <3>1
  <2>4. /\ Compared' = Compared /\ Rated' = Rated /\ Coloured' = Coloured /\ Detailed' = Detailed
        /\ phase' # "default plots"
    BY <2>1, <2>3, Zenon DEF Compared, Rated, Coloured, Detailed, Passed, Beforehand
  <2> QED
    BY <1>1, <2>1, <2>4, RegressionInvKept, Zenon DEF RegressionInv
<1>8. CASE QoScore
  <2>1. /\ pairs' = pairs /\ phase' = phase /\ pos <= Len(pairs) /\ pos' = pos + 1
        /\ tally' = Judged(tally, pairs[pos][1], pairs[pos][2])
    BY <1>8 DEF QoScore, Turn, Tallied
  <2>2. pos \in DOMAIN pairs /\ pos' - 1 = pos /\ \A m \in 1..pos : m \in DOMAIN pairs
    BY <1>2, <2>1
  <2>3. phase = "qo score" /\ Working
    BY <1>8, Zenon DEF QoScore, Turn, Working
  <2>4. /\ Rated = 1..(pos - 1) /\ Coloured = {} /\ Detailed = {}
        /\ Compared' = Compared /\ Rated' = 1..pos /\ Coloured' = {} /\ Detailed' = {}
        /\ phase' # "default plots"
    BY <2>1, <2>2, <2>3, Zenon DEF Compared, Rated, Coloured, Detailed, Passed, Beforehand
  <2>5. Tells(Compared, 1..(pos - 1), {}, {})
    BY <1>1, <2>3, <2>4, Zenon DEF RegressionInv
  <2>6. Versions(pairs[pos])
    BY <1>1, <2>2, <2>3, RegressionPairFacts, Zenon
  <2>7. RegressionTells(Judged(tally, pairs[pos][1], pairs[pos][2]), Compared, 1..pos, {}, {})
    BY <1>2, <2>2, <2>5, <2>6, RateStep
  <2>8. NewTells(Compared, 1..pos, {}, {})
    BY <2>1, <2>7, Zenon
  <2> QED
    BY <2>1, <2>4, <2>8, RegressionInvKept, Zenon
<1>9. CASE QeScore
  <2>1. /\ pairs' = pairs /\ phase' = phase /\ pos <= Len(pairs) /\ pos' = pos + 1
    BY <1>1, <1>9 DEF QeScore, Turn, Tallied, Crash
  <2>2. pos \in DOMAIN pairs /\ pos' - 1 = pos
    BY <1>2, <2>1
  <2>3. phase = "qe score" /\ Working
    BY <1>9, Zenon DEF QeScore, Turn, Working
  <2>4. /\ Rated = DOMAIN pairs /\ Coloured = 1..(pos - 1) /\ Detailed = {}
        /\ Compared' = Compared /\ Rated' = DOMAIN pairs /\ Coloured' = 1..pos /\ Detailed' = {}
        /\ phase' # "default plots"
    BY <1>2, <2>1, <2>2, <2>3, Zenon DEF Compared, Rated, Coloured, Detailed, Passed, Beforehand
  <2>5. Tells(Compared, DOMAIN pairs, 1..(pos - 1), {})
    BY <1>1, <2>3, <2>4, Zenon DEF RegressionInv
  <2>6. NewTells(Compared, DOMAIN pairs, 1..pos, {})
    BY <1>1, <1>2, <1>9, <2>2, <2>5, ColourStep
  <2> QED
    BY <2>1, <2>4, <2>6, RegressionInvKept, Zenon
<1>10. CASE RegressionPages
  <2>1. pairs' = pairs /\ phase' = phase /\ pos <= Len(pairs) /\ pos' = pos + 1
    BY <1>10 DEF RegressionPages, Turn, Tallied
  <2>2. pos \in DOMAIN pairs /\ pos' - 1 = pos
    BY <1>2, <2>1
  <2>3. phase = "regression pages" /\ Working
    BY <1>10, Zenon DEF RegressionPages, Turn, Working
  <2>4. /\ Detailed = 1..(pos - 1)
        /\ Compared' = Compared /\ Rated' = Rated /\ Coloured' = Coloured /\ Detailed' = 1..pos
        /\ phase' # "default plots"
    BY <2>1, <2>2, <2>3, Zenon DEF Compared, Rated, Coloured, Detailed, Passed, Beforehand
  <2>5. Tells(Compared, Rated, Coloured, 1..(pos - 1))
    BY <1>1, <2>3, <2>4, Zenon DEF RegressionInv
  <2>6. NewTells(Compared, Rated, Coloured, 1..pos)
    BY <1>2, <1>10, <2>2, <2>5, DetailStep
  <2> QED
    BY <2>1, <2>4, <2>6, RegressionInvKept, Zenon
<1>11. CASE RegressionSheet
  <2>1. pairs' = pairs /\ phase' = phase /\ tally' = tally
    BY <1>11 DEF RegressionSheet, Tallied
  <2>2. phase = "regression sheet" /\ Working
    BY <1>11, Zenon DEF RegressionSheet, Turn, Working
  <2>3. /\ Compared' = Compared /\ Rated' = Rated /\ Coloured' = Coloured /\ Detailed' = Detailed
        /\ phase' # "default plots"
    BY <2>1, <2>2, Zenon DEF Compared, Rated, Coloured, Detailed, Passed, Beforehand
  <2> QED
    BY <1>1, <2>1, <2>2, <2>3, RegressionInvKept, Zenon DEF RegressionInv
<1>12. ASSUME NEW loop, NEW next, Through(loop, next),
              <<loop, next>> \in {<<"plan comparison", "counters">>, <<"counters", "default plots">>,
                                  <<"qo score", "qe score">>, <<"qe score", "regression pages">>,
                                  <<"regression pages", "regression sheet">>,
                                  <<"regression sheet", "published">>}
       PROVE  RegressionInv'
  <2>1. pos > Len(pairs) /\ pos' = 1 /\ pairs' = pairs /\ tally' = tally
    BY <1>12 DEF Through
  <2>2. 1..(pos - 1) = 1..Len(pairs) /\ 1..(pos' - 1) = {}
    BY <1>2, <2>1
  <2>3. /\ Compared' = Compared /\ Rated' = Rated /\ Coloured' = Coloured /\ Detailed' = Detailed
        /\ Working
    BY <1>12, <2>2, RegressionThrough, Zenon
  <2> QED
    BY <1>1, <2>1, <2>3, RegressionInvKept, Zenon DEF RegressionInv
<1> QED
  BY <1>1, <1>3, <1>4, <1>5, <1>6, <1>7, <1>8, <1>9, <1>10, <1>11, <1>12, Zenon DEF RegressionNext

LEMMA AlwaysRegression == Spec => [](TypeInv /\ RegressionInv)
<1>1. Init => RegressionInv
  BY DEF Init, RegressionInv, Working
<1>2. TypeInv /\ RegressionInv /\ [Next]_loopVars => RegressionInv'
  BY RegressionInvNext DEF TypeInv
<1> QED
  BY <1>1, <1>2, TypeInvInit, TypeInvNext, PTL DEF Spec

LEMMA PublishedRegression ==
  ASSUME TypeInv, RegressionInv, RegressionPublished
  PROVE  /\ LET all == DOMAIN pairs  IN  RegressionTells(tally, all, all, all, all)
         /\ IsFiniteSet(DOMAIN pairs)
         /\ \A n \in DOMAIN pairs : Versions(pairs[n])
<1>1. DOMAIN pairs = 1..Len(pairs) /\ Len(pairs) \in Nat /\ PairsInv
  BY PositionFacts DEF TypeInv
<1>2. IsFiniteSet(1..Len(pairs))
  BY <1>1, FS_Interval
<1>3. /\ Compared = DOMAIN pairs /\ Rated = DOMAIN pairs
      /\ Coloured = DOMAIN pairs /\ Detailed = DOMAIN pairs
  BY <1>1, Zenon
  DEF Compared, Rated, Coloured, Detailed, Passed, Beforehand, RegressionPublished
<1>4. Working /\ kind = "regression"
  BY Zenon DEF Working, RegressionPublished
<1> QED
  BY <1>1, <1>2, <1>3, <1>4, RegressionPairFacts, Zenon DEF RegressionInv

LEMMA DisjointUnion ==
  ASSUME NEW A, NEW B, IsFiniteSet(A), IsFiniteSet(B), A \cap B = {}
  PROVE  IsFiniteSet(A \cup B) /\ Cardinality(A \cup B) = Cardinality(A) + Cardinality(B)
<1>1. Cardinality(A) \in Nat /\ Cardinality(B) \in Nat /\ Cardinality(A \cap B) = 0
  BY FS_CardinalityType, FS_EmptySet
<1>2. /\ IsFiniteSet(A \cup B)
      /\ Cardinality(A \cup B) = Cardinality(A) + Cardinality(B) - Cardinality(A \cap B)
  BY FS_Union, Zenon
<1> QED
  BY <1>1, <1>2

(* Every query that both versions executed is counted in exactly one class *)
(* of the summary, but for those that changed plan and not time.           *)
THEOREM OneClassEach == Spec => []EachInOneClass
<1>1. TypeInv /\ RegressionInv => EachInOneClass
  <2> SUFFICES ASSUME TypeInv, RegressionInv, RegressionPublished
               PROVE  EachInOneClass
    BY DEF EachInOneClass
  <2> DEFINE A == InClass("betterDifferent")
             B == InClass("worseDifferent")
             C == InClass("betterSame")
             D == InClass("worseSame")
             E == InClass("same")
             all == {n \in DOMAIN pairs :
                       /\ Executed(pairs[n][1], pairs[n][2])
                       /\ IF AllowedDiff(pairs[n][1].time, pairs[n][2].time)
                          THEN SamePlan(pairs[n][1], pairs[n][2])
                          ELSE pairs[n][1].time # pairs[n][2].time}
  <2>1. /\ RatedTells(tally, DOMAIN pairs) /\ IsFiniteSet(DOMAIN pairs)
        /\ \A n \in DOMAIN pairs : Versions(pairs[n])
    BY PublishedRegression DEF RegressionTells
  <2>2. \A n \in DOMAIN pairs : pairs[n][1].time \in Int /\ pairs[n][2].time \in Int
    BY <2>1, BestTimes DEF Versions
  <2>3. /\ tally.betterDifferent = Cardinality(A) /\ tally.worseDifferent = Cardinality(B)
        /\ tally.betterSame = Cardinality(C) /\ tally.worseSame = Cardinality(D)
        /\ tally.same = Cardinality(E)
    <3>1. \A f : DOMAIN pairs \cap InClass(f) = InClass(f)
      BY DEF InClass
    <3> QED
      BY <2>1, <3>1 DEF RatedTells, ClassNames
  <2>4. IsFiniteSet(A) /\ IsFiniteSet(B) /\ IsFiniteSet(C) /\ IsFiniteSet(D) /\ IsFiniteSet(E)
    <3>1. \A f : InClass(f) \in SUBSET DOMAIN pairs
      BY DEF InClass
    <3> QED
      BY <2>1, <3>1, FS_Subset
  <2> DEFINE First(n) == pairs[n][1].time
             Second(n) == pairs[n][2].time
             Ran(n) == Executed(pairs[n][1], pairs[n][2])
             Near(n) == AllowedDiff(First(n), Second(n))
             Kind(n) == SamePlan(pairs[n][1], pairs[n][2])
  <2>12. /\ A = {n \in DOMAIN pairs : Ran(n) /\ First(n) > Second(n) /\ ~Near(n) /\ ~Kind(n)}
         /\ B = {n \in DOMAIN pairs : Ran(n) /\ First(n) < Second(n) /\ ~Near(n) /\ ~Kind(n)}
         /\ C = {n \in DOMAIN pairs : Ran(n) /\ First(n) > Second(n) /\ ~Near(n) /\ Kind(n)}
         /\ D = {n \in DOMAIN pairs : Ran(n) /\ First(n) < Second(n) /\ ~Near(n) /\ Kind(n)}
         /\ E = {n \in DOMAIN pairs : Ran(n) /\ Kind(n) /\ Near(n)}
    BY DEF InClass, Classes
  <2>13. all = {n \in DOMAIN pairs : Ran(n) /\ IF Near(n) THEN Kind(n) ELSE First(n) # Second(n)}
    OBVIOUS
  <2>14. \A n \in DOMAIN pairs : First(n) \in Int /\ Second(n) \in Int
    BY <2>2
  <2> HIDE DEF A, B, C, D, E, all, First, Second, Ran, Near, Kind
  <2>15. \A n \in DOMAIN pairs :
           /\ ~(First(n) > Second(n) /\ First(n) < Second(n))
           /\ First(n) # Second(n) <=> First(n) > Second(n) \/ First(n) < Second(n)
    BY <2>14
  <2>5. /\ A \cap B = {} /\ (A \cup B) \cap C = {} /\ (A \cup B \cup C) \cap D = {}
        /\ (A \cup B \cup C \cup D) \cap E = {}
    BY <2>12, <2>15
  <2>6. all = A \cup B \cup C \cup D \cup E
    <3>1. \A n : n \in all <=> n \in A \/ n \in B \/ n \in C \/ n \in D \/ n \in E
      BY <2>12, <2>13, <2>15
    <3> HIDE DEF A, B, C, D, E, all
    <3> QED
      BY <3>1, Zenon
  <2>7. IsFiniteSet(A \cup B) /\ Cardinality(A \cup B) = Cardinality(A) + Cardinality(B)
    BY <2>4, <2>5, DisjointUnion
  <2>8. /\ IsFiniteSet(A \cup B \cup C)
        /\ Cardinality(A \cup B \cup C) = Cardinality(A \cup B) + Cardinality(C)
    BY <2>4, <2>5, <2>7, DisjointUnion
  <2>9. /\ IsFiniteSet(A \cup B \cup C \cup D)
        /\ Cardinality(A \cup B \cup C \cup D) = Cardinality(A \cup B \cup C) + Cardinality(D)
    BY <2>4, <2>5, <2>8, DisjointUnion
  <2>10. Cardinality(A \cup B \cup C \cup D \cup E)
           = Cardinality(A \cup B \cup C \cup D) + Cardinality(E)
    BY <2>4, <2>5, <2>9, DisjointUnion
  <2>11. tally.betterDifferent + tally.worseDifferent + tally.betterSame + tally.worseSame
           + tally.same = Cardinality(all)
    BY <2>3, <2>6, <2>7, <2>8, <2>9, <2>10
  <2> QED
    BY <2>11 DEF all, EachInOneClass
<1> QED
  BY <1>1, AlwaysRegression, PTL

(* The summary, the table and the pages of the regression report agree     *)
(* about the best plans of the first version, and about those of the       *)
(* second if all its queries have optimizations and succeeded.             *)
THEOREM RegressionPlacesAgree == Spec => []RegressionAgrees
<1>1. TypeInv /\ RegressionInv => RegressionAgrees
  <2> SUFFICES ASSUME TypeInv, RegressionInv, RegressionPublished
               PROVE  RegressionAgrees
    BY DEF RegressionAgrees
  <2> DEFINE all == DOMAIN pairs
  <2>1. RegressionTells(tally, all, all, all, all) /\ IsFiniteSet(all)
    BY PublishedRegression
  <2>2. /\ SideOf(tally.green, "v1") = (all \cap V1Bests) \X {"v1"}
        /\ SideOf(tally.equal, "v1") = (all \cap V1Bests) \X {"v1"}
        /\ tally.v1Bests = Cardinality(all \cap V1Bests)
    BY <2>1 DEF RegressionTells, MarksTell, RatedTells
  <2>3. AllGood => /\ tally.green = BothMarks(all) /\ tally.equal = BothMarks(all)
                   /\ tally.v2Bests = Cardinality(all \cap V2Bests)
    BY <2>1 DEF RegressionTells, MarksTell, RatedTells
  <2> HIDE DEF all
  <2>4. IsFiniteSet(all \cap V1Bests) /\ IsFiniteSet(all \cap V2Bests)
    BY <2>1, FS_Subset
  <2>5. /\ Cardinality((all \cap V1Bests) \X {"v1"}) = Cardinality(all \cap V1Bests)
        /\ Cardinality((all \cap V2Bests) \X {"v2"}) = Cardinality(all \cap V2Bests)
    BY <2>4, SideCount
  <2>6. SideOf(BothMarks(all), "v2") = (all \cap V2Bests) \X {"v2"}
    BY DEF SideOf, BothMarks
  <2> QED
    BY <2>2, <2>3, <2>5, <2>6 DEF RegressionAgrees, SideOf, AllGood
<1> QED
  BY <1>1, AlwaysRegression, PTL

(* The logarithm of every ratio that the score, score_stats and regression *)
(* reports take a mean of is defined, and an efficiency is a part of one.  *)
THEOREM RatiosAreDefined == Spec => []RatiosDefined
<1>1. TypeInv /\ ScoreInv /\ TaqoInv /\ RegressionInv => RatiosDefined
  <2> SUFFICES ASSUME TypeInv, ScoreInv, TaqoInv, RegressionInv
               PROVE  RatiosDefined
    OBVIOUS
  <2>1. ASSUME phase = "published", kind = "regression"
        PROVE  \A r \in tally.ratios : r[1] > 0 /\ r[2] > 0
    BY <2>1, PublishedRegression DEF RegressionPublished, RegressionTells, RatedTells
  <2>2. ASSUME phase = "published", kind \in {"score", "score_stats"}
        PROVE  \A r \in tally.ratios : r[1] > 0 /\ r[2] > 0
    BY <2>2, ScoreRatios
  <2> QED
    BY <2>1, <2>2, EfficiencyParts DEF RatiosDefined
<1> QED
  BY <1>1, AlwaysScore, AlwaysTaqo, AlwaysRegression, PTL

-----------------------------------------------------------------------------
(* What a loop has passed when the report takes a step.                    *)
LEMMA PassedTurned ==
  ASSUME PairsInv, NEW before, NEW loop, NEW turn, Turn(turn), NEW new, Tallied(new)
  PROVE  /\ pos \in DOMAIN pairs
         /\ \A n \in Passed(before, loop)' : n \in Passed(before, loop) \/ (turn = loop /\ n = pos)
<1>1. /\ Len(pairs) \in Nat /\ DOMAIN pairs = 1..Len(pairs) /\ pos \in Nat /\ 1 <= pos
      /\ pos <= Len(pairs) /\ phase = turn
      /\ pairs' = pairs /\ phase' = phase /\ pos' = pos + 1
  BY PositionFacts DEF Turn, Tallied
<1>2. \A n \in 1..(pos' - 1) : n \in 1..(pos - 1) \/ n = pos
  BY <1>1
<1> QED
  BY <1>1, <1>2 DEF Passed

LEMMA PassedThrough ==
  ASSUME PairsInv, NEW before, NEW loop, NEW last, NEW next, Through(last, next),
         last \in before => next \in before \/ next = loop
  PROVE  \A n \in Passed(before, loop)' : n \in Passed(before, loop)
<1>1. /\ Len(pairs) \in Nat /\ pos \in Nat /\ 1 <= pos
      /\ pos > Len(pairs) /\ phase = last /\ phase' = next
      /\ pairs' = pairs /\ pos' = 1
  BY PositionFacts DEF Through
<1>2. 1..(pos' - 1) = {} /\ \A n \in 1..Len(pairs) : n \in 1..(pos - 1)
  BY <1>1
<1> QED
  BY <1>1, <1>2 DEF Passed

LEMMA PassedFirst ==
  ASSUME NEW before, NEW loop, phase \in before \/ phase = loop, pos = 1
  PROVE  Passed(before, loop) = {}
<1>1. 1..(pos - 1) = {}
  BY SMT
<1> QED
  BY <1>1, Zenon DEF Passed

LEMMA PassedAll ==
  ASSUME NEW before, NEW loop, phase \notin before, phase # loop
  PROVE  Passed(before, loop) = 1..Len(pairs)
  BY Zenon DEF Passed

(* The obstacles are in the files.                                         *)
LEMMA ObstacleKept ==
  ASSUME kind' = kind, files' = files, kind # "cost"
  PROVE  Obstacle' <=> Obstacle
<1>1. kind' # "cost" /\ Given' = Given /\ Results' = Results
  BY Zenon DEF Given, Results
<1> QED
  BY <1>1, Zenon DEF Obstacle

(* The best optimization of a query that has a plan has one, too.          *)
LEMMA BestHasPlan ==
  ASSUME NEW q, IsQuery(q)
  PROVE  /\ q.time # 0 => q.plan # None
         /\ q.plan # None => Best(q).plan # None
<1>1. q.plan = None => q.time = 0
  BY DEF IsQuery, Storable
<1>2. ASSUME NEW n \in DOMAIN q.opts, HasOpts(q), IsGain(q, q.opts[n])
      PROVE  q.opts[n].plan # None
  BY <1>2 DEF IsQuery, Storable, IsGain, HasOpts
<1> QED
  BY <1>1, <1>2, BestFacts

-----------------------------------------------------------------------------
(* The score report and score_stats: what stops them.                      *)
ScoreRead ==
  /\ phase = "crashed" /\ kind \in {"score", "score_stats"} => Obstacle
  /\ Working /\ kind = "score" => \A n \in Paged : pairs[n][1].plan # None

LEMMA ScoreReadNext == PairsInv /\ ScoreRead /\ [Next]_loopVars => ScoreRead'
<1> SUFFICES ASSUME PairsInv, ScoreRead, [Next]_loopVars, kind' \in {"score", "score_stats"}
             PROVE  ScoreRead'
  BY DEF ScoreRead
<1>1. /\ kind \in {"score", "score_stats"} /\ kind' = kind /\ files' = files
      /\ ScoreNext \/ UNCHANGED loopVars
  BY StepsOfKind
<1>2. Obstacle' <=> Obstacle
  BY <1>1, ObstacleKept
<1> DEFINE HasPlan(n) == pairs[n][1].plan # None
<1>3. ASSUME pairs' = pairs, phase' # "crashed",
             Working' /\ kind = "score" => Working,
             kind = "score" => \A n \in Paged' : n \in Paged \/ HasPlan(n)
      PROVE  ScoreRead'
  BY <1>1, <1>3 DEF ScoreRead
<1>4. ASSUME phase' = "crashed", Obstacle
      PROVE  ScoreRead'
  BY <1>2, <1>4 DEF ScoreRead, Working
<1>5. CASE UNCHANGED loopVars
  <2>1. phase' = phase /\ pairs' = pairs /\ pos' = pos
    BY <1>5 DEF loopVars
  <2>2. Paged' = Paged /\ (Working' <=> Working)
    BY <2>1, Zenon DEF Paged, Passed, Working
  <2> QED
    BY <1>1, <1>2, <2>1, <2>2 DEF ScoreRead
<1>6. CASE GenerateScore \/ GenerateStats
  <2>1. CASE phase' = "crashed"
    <3>1. ~Readable(files.yb) \/ Results = <<>> \/ (kind = "score" /\ files.pg = None)
      BY <1>1, <1>6, <2>1 DEF GenerateScore, GenerateStats, Start
    <3>2. Given = <<files.yb>>
      BY <1>1 DEF Given
    <3>3. ~Readable(files.yb) => \E f \in DOMAIN Given : ~Readable(Given[f])
      BY <3>2
    <3>4. Obstacle
      BY <1>1, <3>1, <3>3, Zenon DEF Obstacle
    <3> QED
      BY <1>4, <2>1, <3>4
  <2>2. CASE phase' # "crashed"
    <3>1. \/ kind = "score" /\ phase' = "plots" /\ pos' = 1
          \/ kind = "score_stats"
      BY <1>6, <2>2, GenerateBegins DEF Begun, PairsInv, LoopInv
    <3>2. kind = "score" => Paged' = {}
      <4>1. phase' = "plots" => phase' \in {"plots", "summary", "table"}
        OBVIOUS
      <4> QED
        BY <3>1, <4>1, <1>6, Zenon DEF Paged, Passed
    <3> QED
      BY <1>1, <2>2, <3>1, <3>2 DEF ScoreRead
  <2> QED
    BY <2>1, <2>2
<1>7. ASSUME NEW turn, Turn(turn), NEW new, Tallied(new),
             turn \in ScoreLoops \cup StatsLoops,
             turn = "pages" => HasPlan(pos)
      PROVE  ScoreRead'
  <2>1. pairs' = pairs /\ phase' = phase
    BY <1>7 DEF Tallied
  <2>2. phase' # "crashed" /\ Working
    BY <1>7, <2>1, Zenon DEF Turn, Working, ScoreLoops, StatsLoops
  <2>3. \A n \in Paged' : n \in Paged \/ HasPlan(n)
    BY <1>7, PassedTurned, Zenon DEF Paged
  <2> HIDE DEF HasPlan
  <2> QED
    BY <1>3, <2>1, <2>2, <2>3, Zenon
<1>8. ASSUME NEW last, NEW next, Through(last, next),
             <<last, next>> \in {<<"plots", "summary">>, <<"summary", "table">>, <<"table", "pages">>,
                                 <<"pages", "score sheet">>, <<"score sheet", "published">>,
                                 <<"stats", "published">>}
      PROVE  ScoreRead'
  <2>1. pairs' = pairs /\ phase' = next /\ phase = last
    BY <1>8 DEF Through
  <2>2. phase' # "crashed" /\ Working
    BY <1>8, <2>1 DEF Working
  <2>3. last \in {"plots", "summary", "table"} => next \in {"plots", "summary", "table"} \/ next = "pages"
    BY <1>8
  <2>4. \A n \in Paged' : n \in Paged
    BY <1>8, <2>3, PassedThrough, Zenon DEF Paged
  <2> HIDE DEF HasPlan
  <2> QED
    BY <1>3, <2>1, <2>2, <2>4, Zenon
<1>9. ASSUME Working, pos \in DOMAIN pairs
      PROVE  /\ pairs[pos][1].time # 0 => pairs[pos][1].plan # None
             /\ pairs[pos][2].time # 0 => pairs[pos][2].plan # None
             /\ HasPlan(pos) => None \notin PlansRead(pairs[pos][1], pairs[pos][2])
             /\ kind = "score" /\ ~HasPlan(pos) => Obstacle
  <2> DEFINE yb == pairs[pos][1]
             pg == pairs[pos][2]
  <2>1. IsQuery(yb) /\ (IsQuery(pg) \/ pg = CreateCopy(yb))
    BY <1>1, <1>9, ScorePairFacts DEF Partners
  <2>2. PICK m \in DOMAIN files.yb : yb = files.yb[m]
    BY <1>1, <1>9, ScorePairFacts
  <2> HIDE DEF yb, pg
  <2>3. yb.time # 0 => yb.plan # None
    BY <2>1, BestHasPlan
  <2>4. pg.time # 0 => pg.plan # None
    <3>1. CASE IsQuery(pg)
      BY <3>1, BestHasPlan
    <3>2. CASE pg = CreateCopy(yb)
      BY <3>2, CopyFacts, StoredAssumption
    <3> QED
      BY <2>1, <3>1, <3>2
  <2>5. yb.plan # None => Best(yb).plan # None
    BY <2>1, BestHasPlan
  <2>6. pg.time > 0 => pg.plan # None /\ Best(pg).plan # None
    <3>1. CASE IsQuery(pg)
      <4>1. pg.time \in Int
        BY <3>1 DEF IsQuery, IsStored
      <4> QED
        BY <3>1, <4>1, BestHasPlan
    <3>2. CASE pg = CreateCopy(yb)
      BY <3>2, CopyFacts
    <3> QED
      BY <2>1, <3>1, <3>2
  <2>7. yb.plan # None => None \notin PlansRead(yb, pg)
    BY <2>5, <2>6 DEF PlansRead
  <2>8. yb.plan = None => NoPlan(files.yb)
    BY <2>2 DEF NoPlan
  <2>9. kind = "score" /\ NoPlan(files.yb) => Obstacle
    BY Zenon DEF Obstacle
  <2> QED
    BY <2>3, <2>4, <2>7, <2>8, <2>9 DEF yb, pg
<1>10. CASE ScorePlots
  <2>1. Turn("plots") /\ Working /\ pos \in DOMAIN pairs
    <3>1. Turn("plots") /\ pos \in 1..Len(pairs) /\ DOMAIN pairs = 1..Len(pairs)
      BY <1>10, PositionFacts DEF ScorePlots, Turn
    <3> QED
      BY <3>1 DEF Turn, Working
  <2>2. Tallied(tally)
    BY <1>9, <1>10, <2>1 DEF ScorePlots
  <2>3. "plots" \in ScoreLoops \cup StatsLoops /\ "plots" # "pages"
    BY DEF ScoreLoops
  <2> QED
    BY <1>7, <2>1, <2>2, <2>3, Zenon
<1>11. CASE ScorePages
  <2>1. Turn("pages") /\ Working /\ pos \in DOMAIN pairs
    <3>1. Turn("pages") /\ pos \in 1..Len(pairs) /\ DOMAIN pairs = 1..Len(pairs)
      BY <1>11, PositionFacts DEF ScorePages, Turn
    <3> QED
      BY <3>1 DEF Turn, Working
  <2>2. kind = "score"
    <3>1. PhaseFits /\ phase = "pages"
      BY <2>1 DEF PairsInv, LoopInv, Turn
    <3> QED
      BY <3>1 DEF PhaseFits, Ends, ScoreLoops, StatsLoops, RegressionLoops, TaqoLoops,
                  SelectivityLoops, CostLoops
  <2>3. CASE HasPlan(pos)
    <3>1. \E new : Tallied(new)
      BY <1>9, <1>11, <2>1, <2>3 DEF ScorePages
    <3>2. "pages" \in ScoreLoops \cup StatsLoops
      BY DEF ScoreLoops
    <3> QED
      BY <1>7, <2>1, <2>3, <3>1, <3>2, Zenon
  <2>4. CASE ~HasPlan(pos)
    <3>1. None \in PlansRead(pairs[pos][1], pairs[pos][2]) /\ Obstacle
      BY <1>9, <2>1, <2>2, <2>4 DEF PlansRead
    <3>2. phase' = "crashed"
      BY <1>11, <3>1 DEF ScorePages, Crash
    <3> QED
      BY <1>4, <3>1, <3>2
  <2> QED
    BY <2>3, <2>4
<1>12. CASE ScoreSummary \/ ScoreTable \/ ScoreSheet \/ ScoreStats
  <2>1. ASSUME NEW turn, Turn(turn), NEW new, Tallied(new), turn \in {"summary", "table", "score sheet", "stats"}
        PROVE  ScoreRead'
    <3>1. turn \in ScoreLoops \cup StatsLoops /\ turn # "pages"
      BY <2>1 DEF ScoreLoops, StatsLoops
    <3> QED
      BY <1>7, <2>1, <3>1, Zenon
  <2> QED
    BY <1>12, <2>1, Zenon DEF ScoreSummary, ScoreTable, ScoreSheet, ScoreStats
<1> QED
  BY <1>1, <1>5, <1>6, <1>8, <1>10, <1>11, <1>12, Zenon DEF ScoreNext

LEMMA ScoreUnobstructed ==
  ASSUME TypeInv, ScoreRead, phase = "published", kind \in {"score", "score_stats"}
  PROVE  ~Obstacle
<1>1. Working /\ PairsInv
  BY DEF Working, TypeInv
<1>2. Readable(files.yb) /\ Results # <<>> /\ (kind = "score" => files.pg # None)
  BY <1>1 DEF PairsInv, Generated, Working
<1>3. Given = <<files.yb>>
  BY DEF Given
<1>4. ~(\E f \in DOMAIN Given : ~Readable(Given[f]))
  BY <1>2, <1>3
<1>5. kind = "score" => ~NoPlan(files.yb)
  <2> SUFFICES ASSUME kind = "score", NEW m \in DOMAIN files.yb
               PROVE  files.yb[m].plan # None
    BY DEF NoPlan
  <2>1. PICK n \in DOMAIN pairs : pairs[n][1] = files.yb[m]
    BY <1>1, ScorePairFacts
  <2>2. Paged = DOMAIN pairs
    BY <1>1, PositionFacts DEF Paged, Passed
  <2> QED
    BY <1>1, <2>1, <2>2 DEF ScoreRead
<1>6. kind \notin {"regression", "taqo", "selectivity", "cost"}
  OBVIOUS
<1> QED
  BY <1>2, <1>4, <1>5, <1>6, Zenon DEF Obstacle

-----------------------------------------------------------------------------
(* The taqo report: what stops it.                                         *)
TaqoRead ==
  /\ phase = "crashed" /\ kind = "taqo" => Obstacle
  /\ Working /\ kind = "taqo" =>
       \A n \in Shown : pairs[n][2] # None => pairs[n][2].plan # None

LEMMA FrontFacts ==
  ASSUME NEW file, IsSequence(file), NEW k \in Nat, k <= Len(file)
  PROVE  DOMAIN SubSeq(file, 1, k) = 1..k /\ \A n \in 1..k : SubSeq(file, 1, k)[n] = file[n]
  BY DEF IsSequence

(* An obstacle in the pair at hand is one in the files.                    *)
LEMMA TaqoObstacles ==
  ASSUME TypeInv, Working, kind = "taqo", NEW n \in DOMAIN pairs
  PROVE  /\ pairs[n][1].opts = None => Obstacle
         /\ pairs[n][1].plan = None => pairs[n][1].opts = None
         /\ pairs[n][2] # None /\ pairs[n][2].plan = None => Obstacle
<1>1. /\ Len(pairs) = Len(files.yb) /\ DOMAIN pairs = DOMAIN files.yb /\ pairs[n][1] = files.yb[n]
      /\ pairs[n][2] = IF files.pg = None THEN None ELSE files.pg[n]
      /\ IsQuery(pairs[n][1])
  BY TaqoPairFacts DEF TypeInv
<1>2. DOMAIN pairs = 1..Len(pairs) /\ Len(pairs) \in Nat
  BY PositionFacts DEF TypeInv
<1>3. pairs[n][1].opts = None => Obstacle
  <2>1. pairs[n][1].opts = None => \E m \in DOMAIN files.yb : files.yb[m].opts = None
    BY <1>1
  <2> QED
    BY <2>1, Zenon DEF Obstacle
<1>4. pairs[n][1].plan = None => pairs[n][1].opts = None
  BY <1>1 DEF IsQuery, Storable
<1>5. ASSUME pairs[n][2] # None, pairs[n][2].plan = None
      PROVE  Obstacle
  <2>1. files.pg # None /\ ResultFile(files.pg) /\ Len(files.yb) <= Len(files.pg)
    BY <1>1, <1>2, <1>5, LoadedFacts, SequenceFacts
    DEF TypeInv, PairsInv, LoopInv, Generated, Working, ResultFile
  <2>2. DOMAIN SubSeq(files.pg, 1, Len(files.yb)) = 1..Len(files.yb)
        /\ SubSeq(files.pg, 1, Len(files.yb))[n] = files.pg[n]
    BY <1>1, <1>2, <2>1, FrontFacts DEF ResultFile
  <2>3. NoPlan(SubSeq(files.pg, 1, Len(files.yb)))
    BY <1>1, <1>2, <1>5, <2>2 DEF NoPlan
  <2> QED
    BY <2>1, <2>3, Zenon DEF Obstacle
<1> QED
  BY <1>3, <1>4, <1>5

LEMMA TaqoReadNext == TypeInv /\ TaqoRead /\ [Next]_loopVars => TaqoRead'
<1> SUFFICES ASSUME TypeInv, TaqoRead, [Next]_loopVars, kind' = "taqo"
             PROVE  TaqoRead'
  BY DEF TaqoRead
<1>1. /\ kind = "taqo" /\ kind' = kind /\ files' = files /\ PairsInv
      /\ TaqoNext \/ UNCHANGED loopVars
  BY StepsOfKind DEF TypeInv
<1>2. Obstacle' <=> Obstacle
  BY <1>1, ObstacleKept
<1> DEFINE HasPlan(n) == pairs[n][2] # None => pairs[n][2].plan # None
<1>3. ASSUME pairs' = pairs, phase' # "crashed", Working, \A n \in Shown' : n \in Shown \/ HasPlan(n)
      PROVE  TaqoRead'
  BY <1>1, <1>3 DEF TaqoRead
<1>4. ASSUME phase' = "crashed", Obstacle
      PROVE  TaqoRead'
  BY <1>2, <1>4 DEF TaqoRead, Working
<1>5. CASE UNCHANGED loopVars
  <2>1. phase' = phase /\ pairs' = pairs /\ pos' = pos
    BY <1>5 DEF loopVars
  <2>2. Shown' = Shown /\ (Working' <=> Working)
    BY <2>1, Zenon DEF Shown, Passed, Working
  <2> QED
    BY <1>1, <1>2, <2>1, <2>2 DEF TaqoRead
<1>6. CASE GenerateTaqo
  <2>1. CASE phase' = "crashed"
    <3>1. ~Readable(files.yb) \/ (files.pg # None /\ Len(files.pg) < Len(files.yb))
      BY <1>6, <2>1 DEF GenerateTaqo, Start
    <3>2. Given = IF files.pg = None THEN <<files.yb>> ELSE <<files.yb, files.pg>>
      BY <1>1 DEF Given
    <3>3. ~Readable(files.yb) => \E f \in DOMAIN Given : ~Readable(Given[f])
      <4>1. 1 \in DOMAIN Given /\ Given[1] = files.yb
        BY <3>2
      <4> QED
        BY <4>1
    <3>4. Obstacle
      BY <1>1, <3>1, <3>3, Zenon DEF Obstacle
    <3> QED
      BY <1>4, <2>1, <3>4
  <2>2. CASE phase' # "crashed"
    <3>1. phase' = "add"
      BY <1>6, <2>2, GenerateBegins DEF Begun
    <3>2. Shown' = {}
      BY <3>1 DEF Shown, Passed
    <3> QED
      BY <2>2, <3>2 DEF TaqoRead
  <2> QED
    BY <2>1, <2>2
<1>7. ASSUME NEW turn, Turn(turn), NEW new, Tallied(new), turn \in TaqoLoops,
             turn = "taqo pages" => HasPlan(pos)
      PROVE  TaqoRead'
  <2>1. pairs' = pairs /\ phase' = phase
    BY <1>7 DEF Tallied
  <2>2. phase' # "crashed" /\ Working
    BY <1>7, <2>1, Zenon DEF Turn, Working, TaqoLoops
  <2>3. \A n \in Shown' : n \in Shown \/ HasPlan(n)
    BY <1>1, <1>7, PassedTurned, Zenon DEF Shown
  <2> HIDE DEF HasPlan
  <2> QED
    BY <1>3, <2>1, <2>2, <2>3, Zenon
<1>8. ASSUME NEW last, NEW next, Through(last, next),
             <<last, next>> \in {<<"add", "taqo pages">>, <<"taqo pages", "published">>}
      PROVE  TaqoRead'
  <2>1. pairs' = pairs /\ phase' = next /\ phase = last
    BY <1>8 DEF Through
  <2>2. phase' # "crashed" /\ Working
    BY <1>8, <2>1 DEF Working
  <2>3. last \in {"add"} => next \in {"add"} \/ next = "taqo pages"
    BY <1>8
  <2>4. \A n \in Shown' : n \in Shown
    BY <1>1, <1>8, <2>3, PassedThrough, Zenon DEF Shown
  <2> HIDE DEF HasPlan
  <2> QED
    BY <1>3, <2>1, <2>2, <2>4, Zenon
<1>9. ASSUME NEW turn, Turn(turn), turn \in TaqoLoops
      PROVE  Working /\ pos \in DOMAIN pairs
  <2>1. phase = turn /\ pos <= Len(pairs)
    BY <1>9 DEF Turn
  <2>2. pos \in DOMAIN pairs
    BY <1>1, <2>1, PositionFacts
  <2>3. Working
    BY <1>9, <2>1, Zenon DEF TaqoLoops, Working
  <2> QED
    BY <2>2, <2>3
<1>10. CASE AddQuery
  <2>1. Turn("add") /\ "add" \in TaqoLoops /\ "add" # "taqo pages"
    BY <1>10 DEF AddQuery, TaqoLoops
  <2>2. Working /\ pos \in DOMAIN pairs
    BY <1>9, <2>1
  <2>3. CASE pairs[pos][1].opts = None
    BY <1>1, <1>4, <1>10, <2>2, <2>3, TaqoObstacles DEF AddQuery, Crash
  <2>4. CASE pairs[pos][1].opts # None
    <3>1. \E new : Tallied(new)
      BY <1>10, <2>4 DEF AddQuery
    <3> QED
      BY <1>7, <2>1, <3>1, Zenon
  <2> QED
    BY <2>3, <2>4
<1>11. CASE TaqoPages
  <2>1. Turn("taqo pages") /\ "taqo pages" \in TaqoLoops
    BY <1>11, Zenon DEF TaqoPages, TaqoLoops
  <2>2. Working /\ pos \in DOMAIN pairs
    BY <1>9, <2>1, Zenon
  <2>3. \/ phase' = "crashed" /\ (pairs[pos][1].plan = None \/ ~HasPlan(pos))
        \/ HasPlan(pos) /\ \E new : Tallied(new)
    BY <1>11 DEF TaqoPages, Crash
  <2> HIDE DEF HasPlan
  <2>4. pairs[pos][1].plan = None \/ ~HasPlan(pos) => Obstacle
    BY <1>1, <2>2, TaqoObstacles DEF HasPlan
  <2> QED
    BY <1>4, <1>7, <2>1, <2>3, <2>4, Zenon
<1> QED
  BY <1>1, <1>5, <1>6, <1>8, <1>10, <1>11, Zenon DEF TaqoNext

LEMMA TaqoUnobstructed ==
  ASSUME TypeInv, TaqoInv, TaqoRead, phase = "published", kind = "taqo"
  PROVE  ~Obstacle
<1>1. Working /\ PairsInv
  BY DEF Working, TypeInv
<1>2. Readable(files.yb) /\ (files.pg # None => Len(files.pg) >= Len(files.yb)) /\ Loaded
  BY <1>1 DEF PairsInv, LoopInv, Generated, Working
<1>3. /\ DOMAIN pairs = DOMAIN files.yb /\ Len(files.yb) \in Nat /\ Len(files.yb) > 0
      /\ DOMAIN files.yb = 1..Len(files.yb)
      /\ \A n \in DOMAIN pairs : /\ pairs[n][1] = files.yb[n]
                                 /\ pairs[n][2] = IF files.pg = None THEN None ELSE files.pg[n]
  BY <1>1, <1>2, TaqoPairFacts, LoadedFacts, FileFacts
<1>4. \A f \in DOMAIN Given : Readable(Given[f])
  <2>1. Given = IF files.pg = None THEN <<files.yb>> ELSE <<files.yb, files.pg>>
    BY DEF Given
  <2>2. files.pg # None => Readable(files.pg)
    BY <1>2, <1>3 DEF Readable
  <2> QED
    BY <1>2, <2>1, <2>2
<1>5. Shown = DOMAIN pairs /\ Added = DOMAIN pairs
  BY <1>1, PositionFacts, Zenon DEF Shown, Added, Passed
<1>6. ~(\E n \in DOMAIN files.yb : files.yb[n].opts = None)
  BY <1>1, <1>3, <1>5 DEF TaqoInv, TaqoTells
<1>7. files.pg # None => ~NoPlan(SubSeq(files.pg, 1, Len(files.yb)))
  <2> SUFFICES ASSUME files.pg # None
               PROVE  ~NoPlan(SubSeq(files.pg, 1, Len(files.yb)))
    OBVIOUS
  <2>1. IsSequence(files.pg) /\ Len(files.pg) \in Nat /\ Len(files.yb) <= Len(files.pg)
        /\ \A n \in DOMAIN files.pg : IsQuery(files.pg[n])
    BY <1>2, <1>3, LoadedFacts, SequenceFacts DEF ResultFile
  <2>2. /\ DOMAIN SubSeq(files.pg, 1, Len(files.yb)) = 1..Len(files.yb)
        /\ \A n \in 1..Len(files.yb) : SubSeq(files.pg, 1, Len(files.yb))[n] = files.pg[n]
    BY <1>3, <2>1, FrontFacts
  <2>3. \A n \in 1..Len(files.yb) : files.pg[n].plan # None
    <3>1. \A n \in 1..Len(files.yb) : files.pg[n] # None
      BY <1>3, <2>1, SequenceFacts DEF IsQuery, IsStored
    <3> QED
      BY <1>1, <1>3, <1>5, <3>1 DEF TaqoRead
  <2> QED
    BY <2>2, <2>3 DEF NoPlan
<1>8. ~(files.pg # None /\ Len(files.pg) < Len(files.yb))
  <2>1. files.pg # None => Len(files.pg) \in Nat
    BY <1>2, LoadedFacts, SequenceFacts DEF ResultFile
  <2> QED
    BY <1>2, <1>3, <2>1
<1>9. kind \notin {"score", "score_stats", "regression", "selectivity", "cost"}
  OBVIOUS
<1> QED
  BY <1>4, <1>6, <1>7, <1>8, <1>9, Zenon DEF Obstacle

-----------------------------------------------------------------------------
(* The selectivity report: what stops it.                                  *)
Opened == Passed({"classify"}, "selectivity pages")

AllPlanned(n) == \A f \in 1..6 : pairs[n][f].plan # None

SelectivityRead ==
  /\ phase = "crashed" /\ kind = "selectivity" => Obstacle
  /\ Working /\ kind = "selectivity" => \A n \in Opened : AllPlanned(n)

LEMMA SelectivityFronts ==
  ASSUME PairsInv, Working, kind = "selectivity"
  PROVE  /\ DOMAIN pairs = 1..Shortest
         /\ \A f \in 1..6 : /\ DOMAIN SubSeq(files[f], 1, Shortest) = 1..Shortest
                            /\ \A n \in 1..Shortest : /\ SubSeq(files[f], 1, Shortest)[n] = files[f][n]
                                                      /\ pairs[n][f] = files[f][n]
<1>1. Loaded /\ \A f \in 1..6 : Readable(files[f])
  BY DEF PairsInv, LoopInv, Generated, Working
<1>2. Shortest \in Nat /\ \A f \in 1..6 : Shortest <= Len(files[f])
  BY <1>1, ShortestFacts
<1>3. \A f \in 1..6 : IsSequence(files[f])
  BY <1>1, LoadedFacts DEF ResultFile, Readable
<1>4. DOMAIN pairs = 1..Shortest
  BY PositionFacts, SelectivityPairFacts
<1>5. \A f \in 1..6 : \A n \in 1..Shortest : pairs[n][f] = files[f][n]
  BY <1>4, SelectivityPairFacts
<1> HIDE DEF Shortest
<1> QED
  BY <1>2, <1>3, <1>4, <1>5, FrontFacts

LEMMA SelectivityReadNext == PairsInv /\ SelectivityRead /\ [Next]_loopVars => SelectivityRead'
<1> SUFFICES ASSUME PairsInv, SelectivityRead, [Next]_loopVars, kind' = "selectivity"
             PROVE  SelectivityRead'
  BY DEF SelectivityRead
<1>1. /\ kind = "selectivity" /\ kind' = kind /\ files' = files
      /\ SelectivityNext \/ UNCHANGED loopVars
  BY StepsOfKind
<1>2. Obstacle' <=> Obstacle
  BY <1>1, ObstacleKept
<1>3. ASSUME pairs' = pairs, phase' # "crashed", Working, \A n \in Opened' : n \in Opened \/ AllPlanned(n)
      PROVE  SelectivityRead'
  BY <1>1, <1>3 DEF SelectivityRead, AllPlanned
<1>4. ASSUME phase' = "crashed", Obstacle
      PROVE  SelectivityRead'
  BY <1>2, <1>4 DEF SelectivityRead, Working
<1>5. CASE UNCHANGED loopVars
  <2>1. phase' = phase /\ pairs' = pairs /\ pos' = pos
    BY <1>5 DEF loopVars
  <2>2. Opened' = Opened /\ (Working' <=> Working)
    BY <2>1, Zenon DEF Opened, Passed, Working
  <2> QED
    BY <1>1, <1>2, <2>1, <2>2 DEF SelectivityRead, AllPlanned
<1>6. CASE GenerateSelectivity
  <2>1. CASE phase' = "crashed"
    <3>1. \E f \in 1..6 : ~Readable(files[f])
      BY <1>6, <2>1 DEF GenerateSelectivity, Start
    <3>2. Given = files /\ DOMAIN files = 1..6
      BY <1>1, LoadedFacts DEF Given, PairsInv, LoopInv
    <3>3. \E f \in DOMAIN Given : ~Readable(Given[f])
      BY <3>1, <3>2
    <3>4. Obstacle
      BY <3>3, Zenon DEF Obstacle
    <3> QED
      BY <1>4, <2>1, <3>4
  <2>2. CASE phase' # "crashed"
    <3>1. phase' = "classify"
      BY <1>6, <2>2, GenerateBegins DEF Begun
    <3>2. Opened' = {}
      BY <3>1 DEF Opened, Passed
    <3> QED
      BY <2>2, <3>2 DEF SelectivityRead
  <2> QED
    BY <2>1, <2>2
<1>7. ASSUME NEW turn, Turn(turn), NEW new, Tallied(new), turn \in SelectivityLoops,
             turn = "selectivity pages" => AllPlanned(pos)
      PROVE  SelectivityRead'
  <2>1. pairs' = pairs /\ phase' = phase
    BY <1>7 DEF Tallied
  <2>2. phase' # "crashed" /\ Working
    BY <1>7, <2>1, Zenon DEF Turn, Working, SelectivityLoops
  <2>3. \A n \in Opened' : n \in Opened \/ AllPlanned(n)
    BY <1>7, PassedTurned, Zenon DEF Opened
  <2> QED
    BY <1>3, <2>1, <2>2, <2>3, Zenon
<1>8. ASSUME NEW last, NEW next, Through(last, next),
             <<last, next>> \in {<<"classify", "selectivity pages">>, <<"selectivity pages", "published">>}
      PROVE  SelectivityRead'
  <2>1. pairs' = pairs /\ phase' = next /\ phase = last
    BY <1>8 DEF Through
  <2>2. phase' # "crashed" /\ Working
    BY <1>8, <2>1 DEF Working
  <2>3. last \in {"classify"} => next \in {"classify"} \/ next = "selectivity pages"
    BY <1>8
  <2>4. \A n \in Opened' : n \in Opened
    BY <1>8, <2>3, PassedThrough, Zenon DEF Opened
  <2> QED
    BY <1>3, <2>1, <2>2, <2>4, Zenon
<1>9. CASE Classify
  <2>1. Turn("classify") /\ (\E new : Tallied(new)) /\ "classify" # "selectivity pages"
    BY <1>9 DEF Classify
  <2>2. "classify" \in SelectivityLoops
    BY Zenon DEF SelectivityLoops
  <2> QED
    BY <1>7, <2>1, <2>2, Zenon
<1>10. CASE SelectivityPages
  <2>1. Turn("selectivity pages") /\ "selectivity pages" \in SelectivityLoops
    BY <1>10, Zenon DEF SelectivityPages, SelectivityLoops
  <2>2. pos <= Len(pairs)
    BY <2>1, Zenon DEF Turn
  <2>3. Working
    BY <2>1, Zenon DEF Turn, Working
  <2>4. pos \in DOMAIN pairs
    BY <2>2, PositionFacts
  <2>5. CASE AllPlanned(pos)
    <3>1. Tallied(tally)
      BY <1>10, <2>5 DEF SelectivityPages, AllPlanned
    <3> QED
      BY <1>7, <2>1, <2>5, <3>1, Zenon
  <2>6. CASE ~AllPlanned(pos)
    <3>1. PICK f \in 1..6 : pairs[pos][f].plan = None
      BY <2>6 DEF AllPlanned
    <3>2. phase' = "crashed"
      BY <1>10, <3>1 DEF SelectivityPages, Crash
    <3>3. NoPlan(SubSeq(files[f], 1, Shortest))
      <4> DEFINE front == SubSeq(files[f], 1, Shortest)
      <4>1. pos \in DOMAIN front /\ front[pos] = pairs[pos][f]
        BY <1>1, <2>3, <2>4, SelectivityFronts, Zenon
      <4> HIDE DEF front
      <4>2. NoPlan(front)
        BY <3>1, <4>1 DEF NoPlan
      <4> QED
        BY <4>2 DEF front
    <3>4. Obstacle
      BY <1>1, <3>3, Zenon DEF Obstacle, Shortest
    <3> QED
      BY <1>4, <3>2, <3>4
  <2> QED
    BY <2>5, <2>6
<1> QED
  BY <1>1, <1>5, <1>6, <1>8, <1>9, <1>10, Zenon DEF SelectivityNext

LEMMA SelectivityUnobstructed ==
  ASSUME TypeInv, SelectivityRead, phase = "published", kind = "selectivity"
  PROVE  ~Obstacle
<1>1. Working /\ PairsInv
  BY DEF Working, TypeInv
<1>2. Loaded /\ \A f \in 1..6 : Readable(files[f])
  BY <1>1 DEF PairsInv, LoopInv, Generated, Working
<1>3. ~(\E f \in DOMAIN Given : ~Readable(Given[f]))
  <2>1. Given = files /\ DOMAIN files = 1..6
    BY <1>2, LoadedFacts DEF Given
  <2> QED
    BY <1>2, <2>1
<1>4. Opened = DOMAIN pairs
  BY <1>1, PositionFacts, Zenon DEF Opened, Passed
<1>5. \A n \in DOMAIN pairs : AllPlanned(n)
  BY <1>1, <1>4 DEF SelectivityRead
<1>6. ~(\E f \in 1..6 : NoPlan(SubSeq(files[f], 1, Shortest)))
  <2> SUFFICES ASSUME NEW f \in 1..6
               PROVE  ~NoPlan(SubSeq(files[f], 1, Shortest))
    OBVIOUS
  <2> DEFINE front == SubSeq(files[f], 1, Shortest)
  <2>1. DOMAIN front = DOMAIN pairs /\ \A n \in DOMAIN front : front[n] = pairs[n][f]
    BY <1>1, SelectivityFronts
  <2> HIDE DEF front
  <2>2. ~NoPlan(front)
    BY <1>5, <2>1 DEF NoPlan, AllPlanned
  <2> QED
    BY <2>2 DEF front
<1>7. kind \notin {"score", "score_stats", "regression", "taqo", "cost"}
  OBVIOUS
<1> QED
  BY <1>3, <1>6, <1>7, Zenon DEF Obstacle, Shortest

-----------------------------------------------------------------------------
(* The regression report: what stops it.                                   *)
Charted == Passed({"plan comparison"}, "counters")

BothPlanned(n) == None \notin {pairs[n][1].plan, pairs[n][2].plan}

RegressionRead ==
  /\ phase = "crashed" /\ kind = "regression" => Obstacle
  /\ Working /\ kind = "regression" =>
       /\ \A n \in Charted : BothPlanned(n)
       /\ phase \notin Beforehand => \A v \in 1..2 : \E n \in DOMAIN pairs : pairs[n][v].time # 0
       /\ \A n \in Coloured : ~DividesByZero(pairs[n][1], pairs[n][2])

Known == {p \in ToSet(WithCounterpart(files.v1, files.v2)) : p[2] # None}

LEMMA KnownPairs ==
  ASSUME PairsInv, Working, kind = "regression"
  PROVE  Known = {pairs[n] : n \in DOMAIN pairs}
<1> DEFINE P == WithCounterpart(files.v1, files.v2)
<1>1. DOMAIN P = DOMAIN files.v1
  BY DEF WithCounterpart
<1>2. Known = {P[m] : m \in Kept}
  BY <1>1 DEF Known, Kept, ToSet
<1>3. /\ \A n \in DOMAIN pairs : \E m \in Kept : pairs[n] = P[m]
      /\ \A m \in Kept : \E n \in DOMAIN pairs : pairs[n] = P[m]
  BY RegressionPairFacts
<1> HIDE DEF P
<1> QED
  BY <1>2, <1>3

RegressionObstacle ==
  \/ \E p \in Known : None \in {p[1].plan, p[2].plan}
  \/ \E p \in Known : p[1].time = 0 /\ p[2].time > 0
  \/ \E v \in 1..2 : \A p \in Known : p[v].time = 0

LEMMA RegressionObstacles ==
  ASSUME PairsInv, Working, kind = "regression"
  PROVE  /\ RegressionObstacle <=>
              \/ \E n \in DOMAIN pairs : ~BothPlanned(n)
              \/ \E n \in DOMAIN pairs : DividesByZero(pairs[n][1], pairs[n][2])
              \/ \E v \in 1..2 : \A n \in DOMAIN pairs : pairs[n][v].time = 0
         /\ RegressionObstacle <=> Obstacle
<1>1. RegressionObstacle <=>
              \/ \E n \in DOMAIN pairs : ~BothPlanned(n)
              \/ \E n \in DOMAIN pairs : DividesByZero(pairs[n][1], pairs[n][2])
              \/ \E v \in 1..2 : \A n \in DOMAIN pairs : pairs[n][v].time = 0
  BY KnownPairs DEF RegressionObstacle, BothPlanned, DividesByZero
<1>2. ~(\E f \in DOMAIN Given : ~Readable(Given[f]))
  <2>1. Given = <<files.v1, files.v2>>
    BY DEF Given
  <2> QED
    BY <2>1 DEF PairsInv, Generated, Working
<1>3. kind \notin {"score", "score_stats", "taqo", "selectivity", "cost"}
  OBVIOUS
<1>4. RegressionObstacle <=> Obstacle
  BY <1>2, <1>3, Zenon DEF Obstacle, RegressionObstacle, Known
<1> QED
  BY <1>1, <1>4

LEMMA RegressionReadNext == PairsInv /\ RegressionRead /\ [Next]_loopVars => RegressionRead'
<1> SUFFICES ASSUME PairsInv, RegressionRead, [Next]_loopVars, kind' = "regression"
             PROVE  RegressionRead'
  BY DEF RegressionRead
<1>1. /\ kind = "regression" /\ kind' = kind /\ files' = files
      /\ RegressionNext \/ UNCHANGED loopVars
  BY StepsOfKind
<1>2. Obstacle' <=> Obstacle
  BY <1>1, ObstacleKept
<1> DEFINE Timed == \A v \in 1..2 : \E n \in DOMAIN pairs : pairs[n][v].time # 0
           Divides(n) == DividesByZero(pairs[n][1], pairs[n][2])
<1>3. ASSUME pairs' = pairs, phase' # "crashed", Working,
             \A n \in Charted' : n \in Charted \/ BothPlanned(n),
             \A n \in Coloured' : n \in Coloured \/ ~Divides(n),
             phase' \notin Beforehand => phase \notin Beforehand \/ Timed
      PROVE  RegressionRead'
  <2>1. /\ \A n \in Charted' : BothPlanned(n)
        /\ \A n \in Coloured' : ~Divides(n)
        /\ phase' \notin Beforehand => Timed
    BY <1>1, <1>3 DEF RegressionRead
  <2> QED
    BY <1>1, <1>3, <2>1 DEF RegressionRead, BothPlanned, DividesByZero
<1>4. ASSUME phase' = "crashed", Obstacle
      PROVE  RegressionRead'
  BY <1>2, <1>4 DEF RegressionRead, Working
<1>5. CASE UNCHANGED loopVars
  <2>1. phase' = phase /\ pairs' = pairs /\ pos' = pos
    BY <1>5 DEF loopVars
  <2>2. Charted' = Charted /\ Coloured' = Coloured /\ (Working' <=> Working)
        /\ (phase' \in Beforehand <=> phase \in Beforehand)
    BY <2>1, Zenon DEF Charted, Coloured, Passed, Working
  <2>3. phase = "crashed" \/ phase = "generate" \/ Working
    BY Zenon DEF Working
  <2>4. phase = "generate" => RegressionRead'
    BY <2>1 DEF RegressionRead, Working
  <2>5. phase = "crashed" => RegressionRead'
    BY <1>1, <1>4, <2>1 DEF RegressionRead
  <2>6. Working => RegressionRead'
    BY <1>3, <2>1, <2>2 DEF Working
  <2> QED
    BY <2>3, <2>4, <2>5, <2>6
<1>6. CASE GenerateRegression
  <2>1. CASE phase' = "crashed"
    <3>1. ~Readable(files.v1) \/ ~Readable(files.v2)
      BY <1>6, <2>1 DEF GenerateRegression, Start
    <3>2. Given = <<files.v1, files.v2>>
      BY <1>1 DEF Given
    <3>3. \E f \in DOMAIN Given : ~Readable(Given[f])
      <4>1. 1 \in DOMAIN Given /\ 2 \in DOMAIN Given /\ Given[1] = files.v1 /\ Given[2] = files.v2
        BY <3>2
      <4> QED
        BY <3>1, <4>1
    <3>4. Obstacle
      BY <3>3, Zenon DEF Obstacle
    <3> QED
      BY <1>4, <2>1, <3>4
  <2>2. CASE phase' # "crashed"
    <3>1. phase' = "plan comparison"
      BY <1>6, <2>2, GenerateBegins, Zenon DEF Begun
    <3>2. Charted' = {} /\ Coloured' = {} /\ phase' \in Beforehand
      BY <3>1, Zenon DEF Charted, Coloured, Passed, Beforehand
    <3> QED
      BY <2>2, <3>2 DEF RegressionRead
  <2> QED
    BY <2>1, <2>2
<1> HIDE DEF Timed, Divides
<1>7. ASSUME NEW turn, Turn(turn), NEW new, Tallied(new), turn \in RegressionLoops,
             turn = "counters" => BothPlanned(pos),
             turn = "qe score" => ~Divides(pos)
      PROVE  RegressionRead'
  <2>1. pairs' = pairs /\ phase' = phase
    BY <1>7 DEF Tallied
  <2>2. phase' # "crashed" /\ Working
    BY <1>7, <2>1, Zenon DEF Turn, Working, RegressionLoops
  <2>3. \A n \in Charted' : n \in Charted \/ BothPlanned(n)
    BY <1>7, PassedTurned, Zenon DEF Charted
  <2>4. \A n \in Coloured' : n \in Coloured \/ ~Divides(n)
    BY <1>7, PassedTurned, Zenon DEF Coloured
  <2> QED
    BY <1>3, <2>1, <2>2, <2>3, <2>4, Zenon
<1>8. ASSUME NEW last, NEW next, Through(last, next),
             <<last, next>> \in {<<"plan comparison", "counters">>, <<"counters", "default plots">>,
                                 <<"qo score", "qe score">>, <<"qe score", "regression pages">>,
                                 <<"regression pages", "regression sheet">>,
                                 <<"regression sheet", "published">>}
      PROVE  RegressionRead'
  <2>1. pairs' = pairs /\ phase' = next /\ phase = last
    BY <1>8 DEF Through
  <2>2. \/ last = "plan comparison" /\ next = "counters"
        \/ last = "counters" /\ next = "default plots"
        \/ last = "qo score" /\ next = "qe score"
        \/ last = "qe score" /\ next = "regression pages"
        \/ last = "regression pages" /\ next = "regression sheet"
        \/ last = "regression sheet" /\ next = "published"
    BY <1>8
  <2>3. phase' # "crashed" /\ Working
    BY <2>1, <2>2, Zenon DEF Working
  <2>4. last \in {"plan comparison"} => next \in {"plan comparison"} \/ next = "counters"
    BY <2>2, Zenon
  <2>5. last \in Beforehand \cup {"qo score"} => next \in Beforehand \cup {"qo score"} \/ next = "qe score"
    BY <2>2, Zenon DEF Beforehand
  <2>6. next \notin Beforehand => last \notin Beforehand
    BY <2>2, Zenon DEF Beforehand
  <2>7. \A n \in Charted' : n \in Charted
    BY <1>8, <2>4, PassedThrough, Zenon DEF Charted
  <2>8. \A n \in Coloured' : n \in Coloured
    BY <1>8, <2>5, PassedThrough, Zenon DEF Coloured
  <2> QED
    BY <1>3, <2>1, <2>3, <2>6, <2>7, <2>8, Zenon
<1>9. ASSUME NEW turn, Turn(turn), turn \in RegressionLoops
      PROVE  Working /\ pos \in DOMAIN pairs
  <2>1. phase = turn /\ pos <= Len(pairs)
    BY <1>9 DEF Turn
  <2>2. pos \in DOMAIN pairs
    BY <2>1, PositionFacts
  <2>3. Working
    BY <1>9, <2>1, Zenon DEF RegressionLoops, Working
  <2> QED
    BY <2>2, <2>3
<1>10. CASE CounterTables
  <2>1. Turn("counters") /\ "counters" \in RegressionLoops /\ "counters" # "qe score"
    BY <1>10, Zenon DEF CounterTables, RegressionLoops
  <2>2. Working /\ pos \in DOMAIN pairs
    BY <1>9, <2>1, Zenon
  <2>3. \/ phase' = "crashed" /\ ~BothPlanned(pos)
        \/ BothPlanned(pos) /\ \E new : Tallied(new)
    BY <1>10 DEF CounterTables, Crash, BothPlanned
  <2>4. ~BothPlanned(pos) => Obstacle
    BY <1>1, <2>2, RegressionObstacles
  <2> QED
    BY <1>4, <1>7, <2>1, <2>3, <2>4, Zenon
<1>11. CASE QeScore
  <2>1. Turn("qe score") /\ "qe score" \in RegressionLoops /\ "qe score" # "counters"
    BY <1>11, Zenon DEF QeScore, RegressionLoops
  <2>2. Working /\ pos \in DOMAIN pairs
    BY <1>9, <2>1, Zenon
  <2>3. \/ phase' = "crashed" /\ Divides(pos)
        \/ ~Divides(pos) /\ \E new : Tallied(new)
    BY <1>11 DEF QeScore, Crash, Divides
  <2>4. Divides(pos) => Obstacle
    BY <1>1, <2>2, RegressionObstacles DEF Divides
  <2> QED
    BY <1>4, <1>7, <2>1, <2>3, <2>4, Zenon
<1>12. CASE DefaultPlots
  <2>1. phase = "default plots" /\ Working
    BY <1>12, Zenon DEF DefaultPlots, Working
  <2>2. Timed <=> ~(\E v \in 1..2 : \A n \in DOMAIN pairs : pairs[n][v].time = 0)
    BY DEF Timed
  <2>3. \/ phase' = "crashed" /\ ~Timed
        \/ Timed /\ phase' = "qo score" /\ pairs' = pairs /\ pos' = pos
    BY <1>12, <2>2, Zenon DEF DefaultPlots, Crash
  <2>4. ~Timed => Obstacle
    BY <1>1, <2>1, <2>2, RegressionObstacles, Zenon
  <2>5. ASSUME Timed, phase' = "qo score", pairs' = pairs, pos' = pos
        PROVE  RegressionRead'
    <3>1. Charted' = Charted /\ Coloured' = {} /\ phase' # "crashed"
      BY <2>1, <2>5, Zenon DEF Charted, Coloured, Passed, Beforehand
    <3> QED
      BY <1>3, <2>1, <2>5, <3>1, Zenon
  <2> QED
    BY <1>4, <2>3, <2>4, <2>5, Zenon
<1>13. CASE PlanComparison \/ QoScore \/ RegressionPages \/ RegressionSheet
  <2>1. ASSUME NEW turn, Turn(turn), NEW new, Tallied(new),
               turn \in {"plan comparison", "qo score", "regression pages", "regression sheet"}
        PROVE  RegressionRead'
    <3>1. turn \in RegressionLoops /\ turn # "counters" /\ turn # "qe score"
      BY <2>1, Zenon DEF RegressionLoops
    <3> QED
      BY <1>7, <2>1, <3>1, Zenon
  <2>2. \E turn \in {"plan comparison", "qo score", "regression pages", "regression sheet"} :
          Turn(turn) /\ \E new : Tallied(new)
    BY <1>13, Zenon DEF PlanComparison, QoScore, RegressionPages, RegressionSheet
  <2> QED
    BY <2>1, <2>2, Zenon
<1> QED
  BY <1>1, <1>5, <1>6, <1>8, <1>10, <1>11, <1>12, <1>13, Zenon DEF RegressionNext

LEMMA RegressionUnobstructed ==
  ASSUME TypeInv, RegressionRead, phase = "published", kind = "regression"
  PROVE  ~Obstacle /\ \A n \in DOMAIN pairs : BothPlanned(n)
<1>1. Working /\ PairsInv
  BY DEF Working, TypeInv
<1>2. Charted = DOMAIN pairs /\ Coloured = DOMAIN pairs /\ phase \notin Beforehand
  BY <1>1, PositionFacts, Zenon DEF Charted, Coloured, Passed, Beforehand
<1>3. /\ \A n \in DOMAIN pairs : BothPlanned(n) /\ ~DividesByZero(pairs[n][1], pairs[n][2])
      /\ \A v \in 1..2 : \E n \in DOMAIN pairs : pairs[n][v].time # 0
  BY <1>1, <1>2 DEF RegressionRead
<1> QED
  BY <1>1, <1>3, RegressionObstacles

-----------------------------------------------------------------------------
(* The short summary.                                                      *)

(* Pairs in the order of their tags' first use: if the first and the last  *)
(* have the same tag, all have.                                            *)
LEMMA OneTagThroughout ==
  ASSUME NEW s, NEW paired, NEW N \in Nat, NEW kept, kept \subseteq 1..N,
         SortedBy(s, paired, kept, [n \in kept |-> FirstUse(paired, kept, n)]),
         s # <<>> => s[1][1].tag = Last(s)[1].tag
  PROVE  \A j, k \in DOMAIN s : s[j][1].tag = s[k][1].tag
<1> DEFINE key == [n \in kept |-> FirstUse(paired, kept, n)]
           L == Len(s)
           tag(n) == paired[n][1].tag
<1>1. IsSequence(s) /\ L \in Nat /\ DOMAIN s = 1..L
  BY SequenceFacts DEF SortedBy
<1>2. kept \subseteq Nat
  OBVIOUS
<1>3. \A n \in kept : key[n] \in {m \in kept : tag(m) = tag(n)}
  <2>1. \A n \in kept : FirstUse(paired, kept, n) \in {m \in kept : paired[m][1].tag = paired[n][1].tag}
    BY <1>2, TagKeys, Zenon
  <2> QED
    BY <2>1
<1>4. \A m, n \in kept : tag(m) = tag(n) => key[m] = key[n]
  BY DEF FirstUse
<1>5. PICK order \in [1..L -> kept] :
        /\ \A k \in 1..L : s[k] = paired[order[k]]
        /\ \A j, k \in 1..L : j < k => Earlier(key, order[j], order[k])
  BY DEF SortedBy
<1> SUFFICES ASSUME NEW j \in 1..L
             PROVE  s[j][1].tag = s[1][1].tag
  BY <1>1
<1>6. 1 \in 1..L /\ L \in 1..L /\ 1 <= j /\ j <= L
  BY <1>1
<1>7. Last(s) = s[L]
  BY DEF Last
<1>8. s # <<>>
  BY <1>1, <1>6
<1>9. tag(order[1]) = tag(order[L])
  BY <1>5, <1>6, <1>7, <1>8
<1>10. key[order[1]] = key[order[L]]
  BY <1>4, <1>5, <1>6, <1>9
<1>11. \A n \in kept : key[n] \in Nat
  BY <1>2, <1>3
<1> HIDE DEF key, tag
<1>14. order[1] \in kept /\ order[j] \in kept /\ order[L] \in kept
  BY <1>5, <1>6
<1>17. key[order[1]] \in Nat /\ key[order[j]] \in Nat /\ key[order[L]] \in Nat
  BY <1>11, <1>14
<1>18. j # 1 => Earlier(key, order[1], order[j])
  BY <1>5, <1>6
<1>19. j # L => Earlier(key, order[j], order[L])
  <2>2. j \in Int /\ L \in Int /\ j <= L
    BY <1>1, <1>6
  <2> HIDE DEF L
  <2>1. j # L => j < L
    BY <2>2
  <2> QED
    BY <1>5, <1>6, <2>1
<1>15. key[order[j]] = key[order[1]]
  <2>1. key[order[1]] <= key[order[j]]
    BY <1>17, <1>18 DEF Earlier
  <2>2. key[order[j]] <= key[order[L]]
    BY <1>17, <1>19 DEF Earlier
  <2> QED
    BY <1>10, <1>17, <2>1, <2>2
<1>16. tag(order[j]) = tag(order[1])
  BY <1>3, <1>14, <1>15
<1> QED
  BY <1>5, <1>6, <1>16 DEF tag

LEMMA SummaryTells == TypeInv /\ RegressionInv /\ RegressionRead => ShortSummaryTells
<1> SUFFICES ASSUME TypeInv, RegressionInv, RegressionRead, RegressionPublished,
                    pairs[1][1].tag = Last(pairs)[1].tag
             PROVE  ShortSummaryTells
  BY DEF ShortSummaryTells
<1> DEFINE differ == {n \in DOMAIN pairs :
                        LET p == pairs[n]
                        IN  IF None \in {p[1].off, p[2].off} THEN p[1].plan # p[2].plan
                            ELSE p[1].off # p[2].off}
<1>1. /\ Working /\ kind = "regression" /\ PairsInv
      /\ Loaded /\ Readable(files.v1) /\ pairs = RegressionPairs
  BY DEF RegressionPublished, Working, TypeInv, PairsInv, LoopInv, Generated
<1>2. AllOfOneTag
  <2>1. Len(files.v1) \in Nat /\ DOMAIN files.v1 = 1..Len(files.v1)
    BY <1>1, LoadedFacts, FileFacts
  <2>2. Kept \subseteq 1..Len(files.v1)
    BY <2>1 DEF Kept
  <2>3. SortedBy(pairs, WithCounterpart(files.v1, files.v2), Kept,
                 [n \in Kept |-> FirstUse(WithCounterpart(files.v1, files.v2), Kept, n)])
    BY <1>1, RegressionSorted
  <2>4. \A j, k \in DOMAIN pairs : pairs[j][1].tag = pairs[k][1].tag
    BY <2>1, <2>2, <2>3, OneTagThroughout
  <2>5. DOMAIN pairs = 1..Len(pairs) /\ Len(pairs) \in Nat
    BY <1>1, PositionFacts
  <2>6. \A n \in DOMAIN pairs : n > 1 => n - 1 \in DOMAIN pairs
    BY <2>5
  <2> QED
    BY <2>4, <2>6 DEF AllOfOneTag
<1>3. /\ tally.diffPlans = Cardinality(DOMAIN pairs \cap ChangedPlans)
      /\ \A n \in DOMAIN pairs : Versions(pairs[n])
  BY <1>2, PublishedRegression DEF RegressionTells, ComparedTells
<1>4. \A n \in DOMAIN pairs : BothPlanned(n)
  BY <1>1, RegressionUnobstructed DEF RegressionPublished
<1>5. ASSUME NEW n \in DOMAIN pairs
      PROVE  n \in ChangedPlans <=> n \in differ
  <2> DEFINE q == pairs[n][1]
             r == pairs[n][2]
  <2>1. q.typed = TRUE
    <3>1. IsStored(q)
      BY <1>3 DEF Versions, IsQuery
    <3> HIDE DEF q
    <3> QED
      BY <3>1 DEF IsStored, Stored
  <2>2. q.plan # None /\ r.plan # None
    BY <1>4 DEF BothPlanned
  <2> QED
    BY <2>1, <2>2 DEF ChangedPlans, Changed, SamePlan
<1>6. DOMAIN pairs \cap ChangedPlans = differ
  BY <1>5
<1> QED
  BY <1>3, <1>6 DEF ShortSummaryTells

-----------------------------------------------------------------------------
(* Lists: joined, one member longer, one shorter, and selections.          *)
LEMMA ListOf ==
  ASSUME NEW s, NEW S, s \in Seq(S)
  PROVE  IsSequence(s)
<1>1. DOMAIN s = 1..Len(s) /\ Len(s) \in Nat /\ s = [k \in 1..Len(s) |-> s[k]]
  BY LenProperties
<1> QED
  BY <1>1, FunctionIsSequence

LEMMA JoinedFacts ==
  ASSUME NEW s, IsSequence(s), NEW t, IsSequence(t)
  PROVE  /\ IsSequence(s \o t) /\ ToSet(s \o t) = ToSet(s) \cup ToSet(t)
         /\ Len(s \o t) = Len(s) + Len(t)
         /\ \A i \in 1..(Len(s) + Len(t)) : (s \o t)[i] = IF i <= Len(s) THEN s[i] ELSE t[i - Len(s)]
         /\ IsInjective(s) /\ IsInjective(t) /\ ToSet(s) \cap ToSet(t) = {} => IsInjective(s \o t)
<1> DEFINE S == ToSet(s) \cup ToSet(t)
           j == s \o t
<1>1. s \in Seq(S) /\ t \in Seq(S)
  BY SeqMonotonic DEF IsSequence
<1>2. /\ j \in Seq(S) /\ Len(j) = Len(s) + Len(t)
      /\ \A i \in 1..(Len(s) + Len(t)) : j[i] = IF i <= Len(s) THEN s[i] ELSE t[i - Len(s)]
  BY <1>1, ConcatProperties
<1>3. IsSequence(j)
  BY <1>2, ListOf
<1>4. /\ Len(s) \in Nat /\ DOMAIN s = 1..Len(s) /\ Len(t) \in Nat /\ DOMAIN t = 1..Len(t)
      /\ DOMAIN j = 1..Len(j)
  BY <1>3, SequenceFacts
<1> HIDE DEF j
<1>5. \A i \in DOMAIN s : i \in DOMAIN j /\ j[i] = s[i]
  BY <1>2, <1>4
<1>6. \A i \in DOMAIN t : i + Len(s) \in DOMAIN j /\ j[i + Len(s)] = t[i]
  BY <1>2, <1>4
<1>7. \A i \in DOMAIN j : \/ i \in DOMAIN s /\ j[i] = s[i]
                          \/ i - Len(s) \in DOMAIN t /\ j[i] = t[i - Len(s)]
  BY <1>2, <1>4
<1>8. ToSet(j) = ToSet(s) \cup ToSet(t)
  BY <1>5, <1>6, <1>7 DEF ToSet
<1>9. ASSUME IsInjective(s), IsInjective(t), ToSet(s) \cap ToSet(t) = {}
      PROVE  IsInjective(j)
  <2>1. \A i \in DOMAIN s : \A k \in DOMAIN t : s[i] # t[k]
    BY <1>9 DEF ToSet
  <2> SUFFICES ASSUME NEW a \in DOMAIN j, NEW b \in DOMAIN j, j[a] = j[b]
               PROVE  a = b
    BY DEF IsInjective
  <2>2. CASE a \in DOMAIN s /\ j[a] = s[a] /\ b \in DOMAIN s /\ j[b] = s[b]
    BY <1>9, <2>2 DEF IsInjective
  <2>3. CASE /\ a - Len(s) \in DOMAIN t /\ j[a] = t[a - Len(s)]
             /\ b - Len(s) \in DOMAIN t /\ j[b] = t[b - Len(s)]
    <3>1. a - Len(s) = b - Len(s)
      BY <1>9, <2>3 DEF IsInjective
    <3> QED
      BY <1>4, <3>1
  <2> QED
    BY <1>7, <2>1, <2>2, <2>3
<1> QED
  BY <1>2, <1>3, <1>8, <1>9 DEF j

LEMMA AppendedFacts ==
  ASSUME NEW s, IsSequence(s), NEW x
  PROVE  /\ IsSequence(Append(s, x)) /\ Len(Append(s, x)) = Len(s) + 1
         /\ ToSet(Append(s, x)) = ToSet(s) \cup {x}
         /\ \A n \in DOMAIN s : Append(s, x)[n] = s[n]
         /\ Append(s, x)[Len(s) + 1] = x
         /\ IsInjective(s) /\ x \notin ToSet(s) => IsInjective(Append(s, x))
<1> DEFINE S == ToSet(s) \cup {x}
           a == Append(s, x)
<1>1. s \in Seq(S)
  BY SeqMonotonic DEF IsSequence
<1>2. Len(s) \in Nat /\ DOMAIN s = 1..Len(s)
  BY SequenceFacts
<1>3. a \in Seq(S) /\ Len(a) = Len(s) + 1 /\ a[Len(s) + 1] = x /\ \A n \in 1..Len(s) : a[n] = s[n]
  BY <1>1, AppendProperties
<1>4. IsSequence(a) /\ DOMAIN a = 1..(Len(s) + 1)
  BY <1>3, ListOf, SequenceFacts
<1> HIDE DEF a
<1>5. \A n \in DOMAIN a : (n \in DOMAIN s /\ a[n] = s[n]) \/ (n = Len(s) + 1 /\ a[n] = x)
  BY <1>2, <1>3, <1>4
<1>6. \A n \in DOMAIN s : n \in DOMAIN a /\ a[n] = s[n]
  BY <1>2, <1>3, <1>4
<1>7. Len(s) + 1 \in DOMAIN a
  BY <1>2, <1>4
<1>8. ToSet(a) = ToSet(s) \cup {x}
  BY <1>3, <1>5, <1>6, <1>7 DEF ToSet
<1>9. IsInjective(s) /\ x \notin ToSet(s) => IsInjective(a)
  BY <1>5 DEF IsInjective, ToSet
<1> QED
  BY <1>2, <1>3, <1>4, <1>8, <1>9 DEF a

LEMMA SliceFacts ==
  ASSUME NEW s, IsSequence(s), NEW a \in Nat, NEW z \in Nat, 1 <= a, a <= z + 1, z <= Len(s)
  PROVE  /\ IsSequence(SubSeq(s, a, z)) /\ Len(SubSeq(s, a, z)) = z - a + 1
         /\ \A n \in 1..(z - a + 1) : SubSeq(s, a, z)[n] = s[a + n - 1]
<1>1. s \in Seq(ToSet(s)) /\ Len(s) \in Nat /\ DOMAIN s = 1..Len(s)
  BY SequenceFacts DEF IsSequence
<1>2. \A n \in a..z : s[n] \in ToSet(s)
  BY <1>1 DEF ToSet
<1>3. SubSeq(s, a, z) \in Seq(ToSet(s)) /\ Len(SubSeq(s, a, z)) = IF a <= z THEN z - a + 1 ELSE 0
  BY <1>2
<1>4. \A n \in 1..(z - a + 1) : SubSeq(s, a, z)[n] = s[a + n - 1]
  BY <1>1
<1>5. IsSequence(SubSeq(s, a, z))
  BY <1>3, ListOf
<1> QED
  BY <1>3, <1>4, <1>5

LEMMA RemovedFacts ==
  ASSUME NEW s, IsSequence(s), NEW i \in DOMAIN s
  PROVE  /\ IsSequence(RemoveAt(s, i)) /\ Len(RemoveAt(s, i)) = Len(s) - 1
         /\ \A n \in 1..(Len(s) - 1) : RemoveAt(s, i)[n] = IF n < i THEN s[n] ELSE s[n + 1]
<1> DEFINE f == SubSeq(s, 1, i - 1)
           b == SubSeq(s, i + 1, Len(s))
<1>1. Len(s) \in Nat /\ DOMAIN s = 1..Len(s) /\ i \in Nat /\ 1 <= i /\ i <= Len(s)
  BY SequenceFacts
<1>2. IsSequence(f) /\ Len(f) = i - 1 /\ \A n \in 1..(i - 1) : f[n] = s[n]
  <2>1. i - 1 \in Nat /\ i - 1 <= Len(s) /\ 1 <= (i - 1) + 1
    BY <1>1
  <2> QED
    BY <1>1, <2>1, SliceFacts
<1>3. IsSequence(b) /\ Len(b) = Len(s) - i /\ \A n \in 1..(Len(s) - i) : b[n] = s[i + n]
  <2>1. i + 1 \in Nat /\ 1 <= i + 1 /\ i + 1 <= Len(s) + 1
    BY <1>1
  <2>2. /\ IsSequence(b) /\ Len(b) = Len(s) - (i + 1) + 1
        /\ \A n \in 1..(Len(s) - (i + 1) + 1) : b[n] = s[(i + 1) + n - 1]
    BY <1>1, <2>1, SliceFacts
  <2> HIDE DEF b
  <2>3. Len(s) - (i + 1) + 1 = Len(s) - i /\ \A n \in 1..(Len(s) - i) : (i + 1) + n - 1 = i + n
    BY <1>1
  <2> QED
    BY <2>2, <2>3
<1> HIDE DEF f, b
<1> DEFINE j == f \o b
<1>4. /\ IsSequence(j) /\ Len(j) = Len(f) + Len(b)
      /\ \A n \in 1..(Len(f) + Len(b)) : j[n] = IF n <= Len(f) THEN f[n] ELSE b[n - Len(f)]
  BY <1>2, <1>3, JoinedFacts
<1>5. RemoveAt(s, i) = j
  BY DEF RemoveAt, f, b
<1> HIDE DEF j
<1>6. ASSUME NEW n \in 1..(Len(s) - 1)
      PROVE  j[n] = IF n < i THEN s[n] ELSE s[n + 1]
  <2>1. n \in Nat /\ 1 <= n /\ n <= Len(s) - 1
    BY <1>1
  <2>2. n \in 1..(Len(f) + Len(b))
    BY <1>1, <1>2, <1>3, <2>1
  <2>3. CASE n < i
    <3>1. n \in 1..(i - 1) /\ n <= Len(f)
      BY <1>1, <1>2, <2>1, <2>3
    <3> QED
      BY <1>2, <1>4, <2>2, <2>3, <3>1
  <2>4. CASE ~(n < i)
    <3>1. /\ ~(n <= Len(f)) /\ n - Len(f) \in 1..(Len(s) - i)
          /\ i + (n - Len(f)) = n + 1
      BY <1>1, <1>2, <2>1, <2>4
    <3>2. j[n] = b[n - Len(f)]
      BY <1>4, <2>2, <3>1
    <3>3. b[n - Len(f)] = s[i + (n - Len(f))]
      BY <1>3, <3>1
    <3> QED
      BY <2>4, <3>1, <3>2, <3>3
  <2> QED
    BY <2>3, <2>4
<1>7. Len(f) + Len(b) = Len(s) - 1
  BY <1>1, <1>2, <1>3
<1> QED
  BY <1>4, <1>5, <1>6, <1>7

(* A selection has the members at the places kept, and no other.           *)
LEMMA SortedMembers ==
  ASSUME NEW s, NEW list, NEW kept, NEW key, SortedBy(s, list, kept, key),
         \A n \in kept : ~Earlier(key, n, n)
  PROVE  /\ IsSequence(s) /\ ToSet(s) = {list[n] : n \in kept}
         /\ (\A m, n \in kept : list[m] = list[n] => m = n) => IsInjective(s)
<1>1. IsSequence(s) /\ Len(s) \in Nat /\ DOMAIN s = 1..Len(s)
  BY SequenceFacts DEF SortedBy
<1>2. PICK order \in [1..Len(s) -> kept] :
        /\ \A k \in 1..Len(s) : s[k] = list[order[k]]
        /\ \A n \in kept : \E k \in 1..Len(s) : order[k] = n
        /\ \A j, k \in 1..Len(s) : j < k => Earlier(key, order[j], order[k])
  BY DEF SortedBy
<1>3. ToSet(s) = {list[n] : n \in kept}
  BY <1>1, <1>2 DEF ToSet
<1>4. ASSUME NEW j \in 1..Len(s), NEW k \in 1..Len(s), order[j] = order[k]
      PROVE  j = k
  <2>1. ~(j < k) /\ ~(k < j)
    BY <1>2, <1>4
  <2> QED
    BY <1>1, <2>1
<1>5. ASSUME \A m, n \in kept : list[m] = list[n] => m = n
      PROVE  IsInjective(s)
  BY <1>1, <1>2, <1>4, <1>5 DEF IsInjective
<1> QED
  BY <1>1, <1>3, <1>5

LEMMA SelectFacts ==
  ASSUME NEW list, NEW kept, IsFiniteSet(kept), kept \subseteq Nat
  PROVE  /\ IsSequence(Select(list, kept)) /\ ToSet(Select(list, kept)) = {list[n] : n \in kept}
         /\ (\A m, n \in kept : list[m] = list[n] => m = n) => IsInjective(Select(list, kept))
<1> DEFINE key == [n \in kept |-> n]
           s == Select(list, kept)
<1>1. \A n \in kept : key[n] \in Nat /\ ~Earlier(key, n, n)
  BY DEF Earlier
<1>2. s = Sorted(list, kept, key)
  BY DEF Select
<1> HIDE DEF key, s
<1>3. SortedBy(s, list, kept, key)
  BY <1>1, <1>2, SortedFacts
<1>4. /\ IsSequence(s) /\ ToSet(s) = {list[n] : n \in kept}
      /\ (\A m, n \in kept : list[m] = list[n] => m = n) => IsInjective(s)
  BY <1>1, <1>3, SortedMembers, Zenon
<1> QED
  BY <1>4, Zenon DEF s

(* The greatest of finitely many natural numbers.                          *)
LEMMA GreatestNatural ==
  ASSUME NEW N \in Nat, NEW S, S \subseteq 1..N, S # {}
  PROVE  Max(S) \in S /\ \A k \in S : k <= Max(S)
<1> DEFINE R == {N - k : k \in S}
<1>1. R \subseteq Nat /\ R # {}
  <2>1. \A k \in S : k \in 1..N
    OBVIOUS
  <2>2. \A k \in S : N - k \in Nat
    BY <2>1
  <2> QED
    BY <2>2
<1>2. Min(R) \in R /\ \A r \in R : Min(R) <= r
  BY <1>1, LeastNatural
<1>3. PICK m \in S : Min(R) = N - m
  BY <1>2
<1>4. \A k \in S : m >= k
  <2> SUFFICES ASSUME NEW k \in S
               PROVE  m >= k
    OBVIOUS
  <2>1. N - m <= N - k
    BY <1>2, <1>3
  <2>2. k \in Int /\ m \in Int
    OBVIOUS
  <2> QED
    BY <2>1, <2>2
<1>5. \E x \in S : \A k \in S : x >= k
  BY <1>4
<1>6. Max(S) \in S /\ \A k \in S : Max(S) >= k
  BY <1>5, Zenon DEF Max
<1>7. \A k \in S : k \in Int
  OBVIOUS
<1> QED
  BY <1>6, <1>7

(* A list without its member at one place has the others.                  *)
LEMMA WithoutFacts ==
  ASSUME NEW s, IsSequence(s), IsInjective(s), NEW i \in DOMAIN s
  PROVE  /\ IsSequence(RemoveAt(s, i)) /\ IsInjective(RemoveAt(s, i))
         /\ ToSet(RemoveAt(s, i)) = ToSet(s) \ {s[i]}
         /\ \A n \in DOMAIN s : n < i => n \in DOMAIN RemoveAt(s, i) /\ RemoveAt(s, i)[n] = s[n]
<1> DEFINE r == RemoveAt(s, i)
<1>1. IsSequence(r) /\ Len(r) = Len(s) - 1 /\ \A n \in 1..(Len(s) - 1) : r[n] = IF n < i THEN s[n] ELSE s[n + 1]
  BY RemovedFacts
<1> HIDE DEF r
<1>2. /\ Len(s) \in Nat /\ DOMAIN s = 1..Len(s) /\ i \in Nat /\ 1 <= i /\ i <= Len(s)
      /\ DOMAIN r = 1..(Len(s) - 1)
  BY <1>1, SequenceFacts
<1> DEFINE was(n) == IF n < i THEN n ELSE n + 1
<1>3. \A n \in DOMAIN r : was(n) \in DOMAIN s /\ was(n) # i /\ r[n] = s[was(n)]
  BY <1>1, <1>2
<1>4. \A m, n \in DOMAIN r : was(m) = was(n) => m = n
  BY <1>2
<1>5. \A m \in DOMAIN s : m # i => \E n \in DOMAIN r : was(n) = m
  <2> SUFFICES ASSUME NEW m \in DOMAIN s, m # i
               PROVE  \E n \in DOMAIN r : was(n) = m
    OBVIOUS
  <2>1. CASE m < i
    <3>1. m \in DOMAIN r /\ was(m) = m
      BY <1>2, <2>1
    <3> QED
      BY <3>1
  <2>2. CASE ~(m < i)
    <3>1. m - 1 \in DOMAIN r /\ was(m - 1) = m
      BY <1>2, <2>2
    <3> QED
      BY <3>1
  <2> QED
    BY <2>1, <2>2
<1>6. \A n \in DOMAIN s : n < i => n \in DOMAIN r /\ r[n] = s[n]
  BY <1>1, <1>2
<1> HIDE DEF was
<1>7. \A m, n \in DOMAIN s : s[m] = s[n] => m = n
  BY DEF IsInjective
<1>8. IsInjective(r)
  <2>1. \A m, n \in DOMAIN r : r[m] = r[n] => m = n
    BY <1>3, <1>4, <1>7
  <2> QED
    BY <2>1 DEF IsInjective
<1>9. ToSet(r) = ToSet(s) \ {s[i]}
  BY <1>3, <1>5, <1>7 DEF ToSet
<1> QED
  BY <1>1, <1>6, <1>8, <1>9 DEF r

-----------------------------------------------------------------------------
(* What the nodes of a plan's text are.                                    *)
LEMMA ParsedFacts ==
  ASSUME NEW plan \in DOMAIN Pieces, NEW nodes, nodes = ParsePlan(Pieces[plan])
  PROVE  /\ Len(nodes) \in Nat /\ DOMAIN nodes = 1..Len(nodes)
         /\ \A n : n \in DOMAIN nodes <=> BeforeArrow(plan, n)
         /\ \A n \in DOMAIN nodes : nodes[n] = Pieces[plan][n]
         /\ nodes = <<>> <=> ~BeforeArrow(plan, 1)
<1> DEFINE p == Pieces[plan]
           Headed(n) == p[n].header
           cuts == {n \in DOMAIN p : ~Headed(n)}
<1>1. IsSequence(p)
  BY PiecesAssumption DEF IsSequence
<1>2. nodes = IF cuts = {} THEN p ELSE SubSeq(p, 1, Min(cuts) - 1)
  BY DEF ParsePlan
<1>3. \A n : BeforeArrow(plan, n) <=> n \in DOMAIN p /\ \A m \in 1..n : Headed(m)
  BY Zenon DEF BeforeArrow
<1> HIDE DEF p, Headed
<1>4. Len(p) \in Nat /\ DOMAIN p = 1..Len(p)
  BY <1>1, SequenceFacts
<1>5. \E last \in Nat : /\ Len(nodes) = last /\ DOMAIN nodes = 1..last
                        /\ \A n \in 1..last : n \in DOMAIN p /\ Headed(n) /\ nodes[n] = p[n]
                        /\ last + 1 \in DOMAIN p => ~Headed(last + 1)
  <2>1. CASE cuts = {}
    <3>1. nodes = p /\ \A n \in DOMAIN p : Headed(n)
      BY <1>2, <2>1
    <3>2. Len(p) + 1 \notin DOMAIN p
      BY <1>4
    <3> QED
      BY <1>4, <3>1, <3>2
  <2>2. CASE cuts # {}
    <3> DEFINE m == Min(cuts)
    <3>1. cuts \subseteq Nat
      BY <1>4
    <3>2. m \in cuts /\ \A k \in cuts : m <= k
      BY <2>2, <3>1, LeastNatural
    <3> HIDE DEF m
    <3>3. m \in DOMAIN p /\ ~Headed(m)
      BY <3>2
    <3>4. m \in Nat /\ 1 <= m /\ m <= Len(p) /\ m - 1 \in Nat /\ m - 1 <= Len(p) /\ (m - 1) + 1 = m
      BY <1>4, <3>3
    <3>5. nodes = SubSeq(p, 1, m - 1)
      BY <1>2, <2>2 DEF m
    <3>6. DOMAIN nodes = 1..(m - 1) /\ \A n \in 1..(m - 1) : nodes[n] = p[n]
      BY <1>1, <3>4, <3>5, FrontFacts
    <3>7. IsSequence(nodes) /\ Len(nodes) = m - 1
      <4>1. 1 <= (m - 1) + 1 /\ (m - 1) - 1 + 1 = m - 1
        BY <3>4
      <4> QED
        BY <1>1, <3>4, <3>5, <4>1, SliceFacts
    <3>8. \A n \in 1..(m - 1) : n \in DOMAIN p /\ n \notin cuts
      BY <1>4, <3>2, <3>4
    <3> QED
      BY <3>3, <3>4, <3>6, <3>7, <3>8
  <2> QED
    BY <2>1, <2>2
<1>6. PICK last \in Nat : /\ Len(nodes) = last /\ DOMAIN nodes = 1..last
                          /\ \A n \in 1..last : n \in DOMAIN p /\ Headed(n) /\ nodes[n] = p[n]
                          /\ last + 1 \in DOMAIN p => ~Headed(last + 1)
  BY <1>5
<1>7. ASSUME NEW n
      PROVE  n \in DOMAIN nodes <=> BeforeArrow(plan, n)
  <2>1. CASE n \in DOMAIN nodes
    <3>1. \A m \in 1..n : m \in 1..last
      BY <1>6, <2>1
    <3> QED
      BY <1>3, <1>6, <2>1, <3>1
  <2>2. CASE n \notin DOMAIN nodes
    <3>1. ASSUME n \in DOMAIN p
          PROVE  last + 1 \in 1..n /\ last + 1 \in DOMAIN p
      BY <1>4, <1>6, <2>2, <3>1
    <3> QED
      BY <1>3, <1>6, <2>2, <3>1
  <2> QED
    BY <2>1, <2>2
<1>8. \A n \in DOMAIN nodes : nodes[n] = Pieces[plan][n]
  BY <1>6 DEF p
<1>9. nodes = <<>> <=> ~(1 \in DOMAIN nodes)
  <2>1. IsSequence(nodes)
    <3>1. CASE cuts = {}
      BY <1>1, <1>2, <3>1
    <3>2. CASE cuts # {}
      <4>1. Min(cuts) \in 1..Len(p)
        <5>1. cuts \subseteq Nat
          BY <1>4
        <5>2. Min(cuts) \in cuts
          BY <3>2, <5>1, LeastNatural
        <5> QED
          BY <1>4, <5>2
      <4>2. Min(cuts) - 1 \in Nat /\ 1 <= (Min(cuts) - 1) + 1 /\ Min(cuts) - 1 <= Len(p)
        BY <1>4, <4>1
      <4> HIDE DEF cuts
      <4> QED
        BY <1>1, <1>2, <3>2, <4>2, SliceFacts
    <3> QED
      BY <3>1, <3>2
  <2> QED
    BY <1>6, <2>1, SequenceFacts
<1> QED
  BY <1>6, <1>7, <1>8, <1>9

LEMMA RepairedFacts ==
  ASSUME NEW plan \in DOMAIN Pieces, NEW nodes, nodes = ParsePlan(Pieces[plan]), BeforeArrow(plan, 1)
  PROVE  Unfixable(nodes) <=> ~Repaired(plan)
<1>1. /\ \A n : n \in DOMAIN nodes <=> BeforeArrow(plan, n)
      /\ \A n \in DOMAIN nodes : nodes[n] = Pieces[plan][n]
  BY ParsedFacts
<1>2. nodes[1] = Pieces[plan][1]
  BY <1>1
<1>3. (\E n \in DOMAIN nodes : nodes[n].cost = "beyond")
        <=> ~(\A n \in DOMAIN Pieces[plan] : BeforeArrow(plan, n) => Pieces[plan][n].cost # "beyond")
  <2>1. \A n : BeforeArrow(plan, n) => n \in DOMAIN Pieces[plan]
    BY Zenon DEF BeforeArrow
  <2> QED
    BY <1>1, <2>1, Zenon
<1> QED
  BY <1>2, <1>3, Zenon DEF Unfixable, Repaired

(* The plans of a query, and the scans that they executed.                 *)
CostQuery(q) ==
  IsQuery(q) /\ \A k \in 0..LastPlan(q) : PlanOf(q, k) \in {None} \cup DOMAIN Pieces

LEMMA ProcessedFacts ==
  ASSUME NEW q, CostQuery(q)
  PROVE  /\ LastPlan(q) \in Nat /\ Processed(q) \subseteq 0..LastPlan(q)
         /\ \A k \in Processed(q) : PlanOf(q, k) \in DOMAIN Pieces
<1>1. q.opts # None => /\ Len(q.opts) \in Nat /\ DOMAIN q.opts = 1..Len(q.opts)
                       /\ q.opts = <<>> <=> Len(q.opts) = 0
  BY SequenceFacts DEF CostQuery, IsQuery
<1>2. LastPlan(q) \in Nat
  BY <1>1 DEF LastPlan, HasOpts
<1>3. ASSUME NEW k \in Processed(q)
      PROVE  k \in 0..LastPlan(q) /\ PlanOf(q, k) # None
  <2>1. CASE k = 0 /\ q.plan # None
    BY <1>2, <2>1 DEF PlanOf
  <2>2. CASE q.opts # None /\ k \in DOMAIN q.opts /\ q.opts[k].plan # None
    <3>1. LastPlan(q) = Len(q.opts) /\ k \in 0..LastPlan(q) /\ k # 0
      BY <1>1, <2>2 DEF LastPlan, HasOpts
    <3> QED
      BY <2>2, <3>1 DEF PlanOf
  <2> QED
    BY <2>1, <2>2 DEF Processed
<1> QED
  BY <1>2, <1>3 DEF CostQuery

RanAt(q, k, n) ==
  /\ BeforeArrow(PlanOf(q, k), n) /\ Repaired(PlanOf(q, k))
  /\ Pieces[PlanOf(q, k)][n].kind \in Scans /\ Pieces[PlanOf(q, k)][n].ran

LEMMA RanFacts ==
  ASSUME NEW q
  PROVE  /\ \A k, n : <<k, n>> \in RanIn(q) <=> k \in Processed(q) /\ RanAt(q, k, n)
         /\ \A kn \in RanIn(q) : /\ kn = <<kn[1], kn[2]>> /\ kn[1] \in Processed(q)
                                 /\ RanAt(q, kn[1], kn[2])
<1> DEFINE Ran(k) == {m \in DOMAIN Pieces[PlanOf(q, k)] : RanAt(q, k, m)}
<1>1. RanIn(q) = UNION {{<<k, n>> : n \in Ran(k)} : k \in Processed(q)}
  BY Zenon DEF RanIn, RanAt
<1>2. \A k, n : RanAt(q, k, n) => n \in Ran(k)
  BY Zenon DEF RanAt, BeforeArrow
<1>3. \A k : \A n \in Ran(k) : RanAt(q, k, n)
  OBVIOUS
<1> HIDE DEF Ran
<1>4. \A kn : kn \in RanIn(q) <=> \E k \in Processed(q) : \E n \in Ran(k) : kn = <<k, n>>
  BY <1>1
<1> QED
  BY <1>2, <1>3, <1>4

(* What the plans of a query before one have added to the context.         *)
ScanAt(q, kn) == Scan(kn[1], Pieces[PlanOf(q, kn[1])], kn[2])

ScansTell(q, at, scans) ==
  /\ IsSequence(scans) /\ IsInjective(scans)
  /\ ToSet(scans) = {ScanAt(q, kn) : kn \in {x \in RanIn(q) : x[1] < at}}

Fixable(q) == {k \in Processed(q) : BeforeArrow(PlanOf(q, k), 1) /\ Repaired(PlanOf(q, k))}

FlagsIn(q, k) == Classified({}, ParsePlan(Pieces[PlanOf(q, k)]))

FlagsMerged(q, at, merged) ==
  merged = UNION {FlagsIn(q, k) : k \in {j \in Fixable(q) : j < at}}

PlansRaiseNot(q, at) ==
  /\ \A k \in Processed(q) : k < at => BeforeArrow(PlanOf(q, k), 1)
  /\ \A kn \in RanIn(q) : kn[1] < at => Pieces[PlanOf(q, kn[1])][kn[2]].kind # "other"

PlansTell(q, at, merged, scans) ==
  ScansTell(q, at, scans) /\ FlagsMerged(q, at, merged) /\ PlansRaiseNot(q, at)

LEMMA ScanFields ==
  ASSUME NEW q, NEW kn
  PROVE  ScanAt(q, kn).plan = kn[1] /\ ScanAt(q, kn).at = kn[2]
  BY DEF ScanAt, Scan

LEMMA ScansOfFacts ==
  ASSUME NEW q, CostQuery(q), NEW k \in Processed(q), NEW nodes, nodes = ParsePlan(Pieces[PlanOf(q, k)]),
         BeforeArrow(PlanOf(q, k), 1), Repaired(PlanOf(q, k))
  PROVE  /\ \A n : n \in RanScans(nodes) <=> RanAt(q, k, n)
         /\ \A n \in RanScans(nodes) : nodes[n] = Pieces[PlanOf(q, k)][n]
         /\ IsSequence(ScansOf(k, nodes)) /\ IsInjective(ScansOf(k, nodes))
         /\ \A s : s \in ToSet(ScansOf(k, nodes)) <=> \E n : RanAt(q, k, n) /\ s = ScanAt(q, <<k, n>>)
<1> DEFINE ran == RanScans(nodes)
           list == [n \in DOMAIN nodes |-> Scan(k, nodes, n)]
<1>1. PlanOf(q, k) \in DOMAIN Pieces
  BY ProcessedFacts
<1>2. /\ Len(nodes) \in Nat /\ DOMAIN nodes = 1..Len(nodes)
      /\ \A n : n \in DOMAIN nodes <=> BeforeArrow(PlanOf(q, k), n)
      /\ \A n \in DOMAIN nodes : nodes[n] = Pieces[PlanOf(q, k)][n]
  BY <1>1, ParsedFacts
<1>3. \A n : n \in ran <=> RanAt(q, k, n)
  <2>1. \A n : n \in ran <=> n \in DOMAIN nodes /\ nodes[n].kind \in Scans /\ nodes[n].ran
    BY Zenon DEF RanScans
  <2> QED
    BY <1>2, <2>1, Zenon DEF RanAt
<1>4. \A n \in ran : n \in DOMAIN nodes /\ nodes[n] = Pieces[PlanOf(q, k)][n]
  BY <1>2 DEF RanScans
<1>5. \A n \in ran : list[n] = ScanAt(q, <<k, n>>)
  <2>1. \A n \in ran : Scan(k, nodes, n) = ScanAt(q, <<k, n>>)
    BY <1>4 DEF ScanAt, Scan
  <2> QED
    BY <1>4, <2>1
<1>6. \A m, n \in ran : list[m] = list[n] => m = n
  <2>1. \A n \in ran : list[n].at = <<k, n>>[2]
    <3> SUFFICES ASSUME NEW n \in ran
                 PROVE  list[n].at = <<k, n>>[2]
      OBVIOUS
    <3>1. list[n] = ScanAt(q, <<k, n>>)
      BY <1>5
    <3> HIDE DEF list
    <3> QED
      BY <3>1, ScanFields
  <2>2. \A n \in ran : list[n].at = n
    BY <2>1
  <2> HIDE DEF list
  <2> QED
    BY <2>2
<1>7. IsFiniteSet(ran) /\ ran \subseteq Nat
  <2>1. ran \subseteq 1..Len(nodes)
    BY <1>2, <1>4
  <2>2. IsFiniteSet(1..Len(nodes)) /\ ran \in SUBSET (1..Len(nodes))
    BY <1>2, <2>1, FS_Interval
  <2>3. IsFiniteSet(ran)
    BY <2>2, FS_Subset
  <2> QED
    BY <2>1, <2>3
<1>8. ScansOf(k, nodes) = Select(list, ran)
  BY DEF ScansOf
<1> HIDE DEF list, ran
<1>9. /\ IsSequence(Select(list, ran)) /\ IsInjective(Select(list, ran))
      /\ ToSet(Select(list, ran)) = {list[n] : n \in ran}
  BY <1>6, <1>7, SelectFacts
<1>10. \A s : s \in ToSet(Select(list, ran)) <=> \E n \in ran : s = list[n]
  BY <1>9, Zenon
<1>11. \A s : s \in ToSet(ScansOf(k, nodes)) <=> \E n : RanAt(q, k, n) /\ s = ScanAt(q, <<k, n>>)
  BY <1>3, <1>5, <1>8, <1>10, Zenon
<1>12. /\ \A n : n \in RanScans(nodes) <=> RanAt(q, k, n)
       /\ \A n \in RanScans(nodes) : nodes[n] = Pieces[PlanOf(q, k)][n]
  BY <1>3, <1>4, Zenon DEF ran
<1> QED
  BY <1>8, <1>9, <1>11, <1>12, Zenon

(* The scans of one more plan, or none where it has none.                  *)
LEMMA ScansToldOf ==
  ASSUME NEW q, NEW at, NEW scans
  PROVE  ScansTell(q, at, scans) <=>
           /\ IsSequence(scans) /\ IsInjective(scans)
           /\ \A s : s \in ToSet(scans) <=> \E kn \in RanIn(q) : kn[1] < at /\ s = ScanAt(q, kn)
<1> DEFINE told == {ScanAt(q, kn) : kn \in {x \in RanIn(q) : x[1] < at}}
<1>1. \A s : s \in told <=> \E kn \in RanIn(q) : kn[1] < at /\ s = ScanAt(q, kn)
  BY Zenon
<1>2. ScansTell(q, at, scans) <=> IsSequence(scans) /\ IsInjective(scans) /\ ToSet(scans) = told
  BY Zenon DEF ScansTell
<1> HIDE DEF told
<1>3. ToSet(scans) = told <=> \A s : s \in ToSet(scans) <=> s \in told
  OBVIOUS
<1> QED
  BY <1>1, <1>2, <1>3, Zenon

LEMMA ScansKept ==
  ASSUME NEW q, CostQuery(q), NEW k \in Nat, NEW scans, ScansTell(q, k, scans),
         \A kn \in RanIn(q) : kn[1] # k
  PROVE  ScansTell(q, k + 1, scans)
<1>1. \A kn \in RanIn(q) : kn[1] \in Nat
  BY ProcessedFacts, RanFacts
<1>2. \A kn \in RanIn(q) : kn[1] < k + 1 <=> kn[1] < k
  BY <1>1
<1>3. {x \in RanIn(q) : x[1] < k + 1} = {x \in RanIn(q) : x[1] < k}
  BY <1>2, Zenon
<1> QED
  BY <1>3, Zenon DEF ScansTell

LEMMA ScansAdded ==
  ASSUME NEW q, CostQuery(q), NEW k \in Processed(q), k \in Nat, NEW scans, ScansTell(q, k, scans),
         NEW nodes, nodes = ParsePlan(Pieces[PlanOf(q, k)]),
         BeforeArrow(PlanOf(q, k), 1), Repaired(PlanOf(q, k))
  PROVE  ScansTell(q, k + 1, scans \o ScansOf(k, nodes))
<1> DEFINE new == ScansOf(k, nodes)
<1>1. /\ IsSequence(scans) /\ IsInjective(scans)
      /\ \A s : s \in ToSet(scans) <=> \E kn \in RanIn(q) : kn[1] < k /\ s = ScanAt(q, kn)
  BY ScansToldOf
<1>2. /\ IsSequence(new) /\ IsInjective(new)
      /\ \A s : s \in ToSet(new) <=> \E n : RanAt(q, k, n) /\ s = ScanAt(q, <<k, n>>)
  BY ScansOfFacts
<1> HIDE DEF new
<1>3. /\ \A j, n : <<j, n>> \in RanIn(q) <=> j \in Processed(q) /\ RanAt(q, j, n)
      /\ \A kn \in RanIn(q) : kn = <<kn[1], kn[2]>> /\ kn[1] \in Processed(q) /\ RanAt(q, kn[1], kn[2])
  BY RanFacts
<1>4. \A kn \in RanIn(q) : kn[1] \in Nat
  BY <1>3, ProcessedFacts
<1>5. ~(k < k) /\ \A kn \in RanIn(q) : kn[1] < k + 1 <=> kn[1] < k \/ kn[1] = k
  BY <1>4
<1>6. \A s : s \in ToSet(new) <=> \E kn \in RanIn(q) : kn[1] = k /\ s = ScanAt(q, kn)
  <2> SUFFICES ASSUME NEW s
               PROVE  s \in ToSet(new) <=> \E kn \in RanIn(q) : kn[1] = k /\ s = ScanAt(q, kn)
    OBVIOUS
  <2>1. ASSUME s \in ToSet(new)
        PROVE  \E kn \in RanIn(q) : kn[1] = k /\ s = ScanAt(q, kn)
    <3>1. PICK n : RanAt(q, k, n) /\ s = ScanAt(q, <<k, n>>)
      BY <1>2, <2>1
    <3>2. <<k, n>> \in RanIn(q) /\ <<k, n>>[1] = k
      BY <1>3, <3>1
    <3> QED
      BY <3>1, <3>2
  <2>2. ASSUME NEW kn \in RanIn(q), kn[1] = k, s = ScanAt(q, kn)
        PROVE  s \in ToSet(new)
    <3>1. kn = <<k, kn[2]>> /\ RanAt(q, k, kn[2])
      BY <1>3, <2>2, Zenon
    <3> QED
      BY <1>2, <2>2, <3>1, Zenon
  <2> QED
    BY <2>1, <2>2
<1>7. ToSet(scans) \cap ToSet(new) = {}
  <2> DEFINE scan(kn) == ScanAt(q, kn)
  <2>1. \A kn : scan(kn).plan = kn[1]
    BY ScanFields
  <2> HIDE DEF scan
  <2>2. \A s \in ToSet(scans) : s.plan # k
    <3>1. \A s \in ToSet(scans) : \E kn \in RanIn(q) : kn[1] < k /\ s = scan(kn)
      BY <1>1, Zenon DEF scan
    <3> QED
      BY <1>5, <2>1, <3>1, Zenon
  <2>3. \A s \in ToSet(new) : s.plan = k
    <3>1. \A s \in ToSet(new) : \E kn \in RanIn(q) : kn[1] = k /\ s = scan(kn)
      BY <1>6, Zenon DEF scan
    <3> QED
      BY <2>1, <3>1, Zenon
  <2> QED
    BY <2>2, <2>3, Zenon
<1>8. /\ IsSequence(scans \o new) /\ IsInjective(scans \o new)
      /\ ToSet(scans \o new) = ToSet(scans) \cup ToSet(new)
  BY <1>1, <1>2, <1>7, JoinedFacts
<1>9. \A s : s \in ToSet(scans \o new) <=> \E kn \in RanIn(q) : kn[1] < k + 1 /\ s = ScanAt(q, kn)
  <2>1. \A s : s \in ToSet(scans \o new) <=> s \in ToSet(scans) \/ s \in ToSet(new)
    BY <1>8
  <2> QED
    BY <1>1, <1>5, <1>6, <2>1, Zenon
<1>10. ScansTell(q, k + 1, scans \o new)
  BY <1>8, <1>9, ScansToldOf, Zenon
<1> QED
  BY <1>10 DEF new

LEMMA ClassifiedAnew == \A pc, nodes : Classified(pc, nodes) = Classified({}, nodes)
  BY Zenon DEF Classified, FlagsUpTo, NoFilterIndex, Enter

LEMMA FlagsKept ==
  ASSUME NEW q, CostQuery(q), NEW k \in Nat, NEW merged, FlagsMerged(q, k, merged), k \notin Fixable(q)
  PROVE  FlagsMerged(q, k + 1, merged)
<1>1. \A j \in Fixable(q) : j \in Nat
  BY ProcessedFacts DEF Fixable
<1>2. \A j \in Fixable(q) : j < k + 1 <=> j < k
  BY <1>1
<1>3. {j \in Fixable(q) : j < k + 1} = {j \in Fixable(q) : j < k}
  BY <1>2, Zenon
<1> QED
  BY <1>3, Zenon DEF FlagsMerged

LEMMA FlagsAdded ==
  ASSUME NEW q, CostQuery(q), NEW k \in Fixable(q), k \in Nat, NEW merged, FlagsMerged(q, k, merged)
  PROVE  FlagsMerged(q, k + 1, merged \cup FlagsIn(q, k))
<1>1. \A j \in Fixable(q) : j \in Nat
  BY ProcessedFacts DEF Fixable
<1>2. \A j \in Fixable(q) : j < k + 1 <=> j < k \/ j = k
  BY <1>1
<1>3. \A f : f \in merged <=> \E j \in Fixable(q) : j < k /\ f \in FlagsIn(q, j)
  BY Zenon DEF FlagsMerged
<1> DEFINE new == UNION {FlagsIn(q, j) : j \in {j \in Fixable(q) : j < k + 1}}
<1>4. \A f : f \in new <=> \E j \in Fixable(q) : j < k + 1 /\ f \in FlagsIn(q, j)
  BY Zenon
<1> HIDE DEF new
<1>5. \A f : f \in new <=> f \in merged \cup FlagsIn(q, k)
  BY <1>2, <1>3, <1>4, Zenon
<1>6. new = merged \cup FlagsIn(q, k)
  BY <1>5
<1> QED
  BY <1>6, Zenon DEF FlagsMerged, new

(* One plan of a query is passed by, or processed without an exception.    *)
LEMMA PlanPassed ==
  ASSUME NEW q, CostQuery(q), NEW k \in Nat, k \notin Processed(q), NEW merged, NEW scans,
         PlansTell(q, k, merged, scans)
  PROVE  PlansTell(q, k + 1, merged, scans)
<1>1. \A kn \in RanIn(q) : kn[1] # k /\ kn[1] \in Processed(q)
  BY RanFacts
<1>2. \A j \in Processed(q) : j \in Nat /\ j # k
  BY ProcessedFacts
<1>3. \A j \in Processed(q) : j < k + 1 => j < k
  BY <1>2
<1>4. PlansRaiseNot(q, k + 1)
  BY <1>1, <1>3, Zenon DEF PlansTell, PlansRaiseNot
<1>5. k \notin Fixable(q)
  BY DEF Fixable
<1> QED
  BY <1>1, <1>4, <1>5, ScansKept, FlagsKept DEF PlansTell

LEMMA PlanProcessed ==
  ASSUME NEW q, CostQuery(q), NEW k \in Processed(q), k \in Nat, NEW ctx,
         DOMAIN ctx = {"at", "pc", "merged", "scans"},
         PlansTell(q, k, ctx.merged, ctx.scans),
         NEW nodes, nodes = ParsePlan(Pieces[PlanOf(q, k)]), ~Raises(nodes)
  PROVE  LET done == ProcessPlan(ctx, k, nodes)
         IN  /\ DOMAIN done = {"at", "pc", "merged", "scans"}
             /\ PlansTell(q, k + 1, done.merged, done.scans)
<1> DEFINE done == ProcessPlan(ctx, k, nodes)
<1>1. PlanOf(q, k) \in DOMAIN Pieces
  BY ProcessedFacts
<1>2. BeforeArrow(PlanOf(q, k), 1)
  BY <1>1, ParsedFacts DEF Raises
<1>3. Unfixable(nodes) <=> ~Repaired(PlanOf(q, k))
  BY <1>1, <1>2, RepairedFacts
<1>4. ScansTell(q, k, ctx.scans) /\ FlagsMerged(q, k, ctx.merged) /\ PlansRaiseNot(q, k)
  BY DEF PlansTell
<1>5. \A j \in Processed(q) : j \in Nat
  BY ProcessedFacts
<1>6. \A j \in Processed(q) : j < k + 1 <=> j < k \/ j = k
  BY <1>5
<1>7. \A kn \in RanIn(q) : kn[1] \in Processed(q) /\ RanAt(q, kn[1], kn[2])
  BY RanFacts
<1>8. ASSUME \A n : RanAt(q, k, n) => Pieces[PlanOf(q, k)][n].kind # "other"
      PROVE  PlansRaiseNot(q, k + 1)
  BY <1>2, <1>4, <1>6, <1>7, <1>8, Zenon DEF PlansRaiseNot
<1>9. CASE Unfixable(nodes)
  <2>1. done = ctx
    BY <1>9 DEF ProcessPlan
  <2>2. \A n : ~RanAt(q, k, n)
    BY <1>3, <1>9, Zenon DEF RanAt
  <2>3. \A kn \in RanIn(q) : kn[1] # k
    BY <1>7, <2>2
  <2>4. k \notin Fixable(q)
    BY <1>3, <1>9 DEF Fixable
  <2>5. PlansRaiseNot(q, k + 1)
    BY <1>8, <2>2
  <2> QED
    BY <1>4, <2>1, <2>3, <2>4, <2>5, ScansKept, FlagsKept DEF PlansTell
<1>10. CASE ~Unfixable(nodes)
  <2>1. /\ DOMAIN done = DOMAIN ctx
        /\ done.merged = ctx.merged \cup Classified(ctx.pc, nodes)
        /\ done.scans = ctx.scans \o ScansOf(k, nodes)
    BY <1>10 DEF ProcessPlan
  <2>2. Classified(ctx.pc, nodes) = FlagsIn(q, k)
    BY ClassifiedAnew, Zenon DEF FlagsIn
  <2>3. Repaired(PlanOf(q, k)) /\ k \in Fixable(q)
    BY <1>2, <1>3, <1>10 DEF Fixable
  <2>4. ScansTell(q, k + 1, done.scans)
    BY <1>2, <1>4, <2>1, <2>3, ScansAdded
  <2>5. FlagsMerged(q, k + 1, done.merged)
    BY <1>4, <2>1, <2>2, <2>3, FlagsAdded
  <2>6. \A n : RanAt(q, k, n) => Pieces[PlanOf(q, k)][n].kind # "other"
    <3>1. /\ \A n : n \in RanScans(nodes) <=> RanAt(q, k, n)
          /\ \A n \in RanScans(nodes) : nodes[n] = Pieces[PlanOf(q, k)][n]
      BY <1>2, <2>3, ScansOfFacts
    <3>2. \A n \in RanScans(nodes) : nodes[n].kind # "other"
      BY <1>10 DEF Raises
    <3> QED
      BY <3>1, <3>2
  <2>7. PlansRaiseNot(q, k + 1)
    BY <1>8, <2>6
  <2> QED
    BY <2>1, <2>4, <2>5, <2>7 DEF PlansTell
<1> QED
  BY <1>9, <1>10

-----------------------------------------------------------------------------
(* The pairs that are added, and those whose points are collected.         *)
Entered == Passed({}, "add queries")
Gathered == Passed({"add queries"}, "collect")

TextsOf(done) == {pairs[n][1].hash : n \in done}

LatestOf(h, done, n) ==
  n \in done /\ pairs[n][1].hash = h /\ \A m \in done : pairs[m][1].hash = h => m <= n

EntriesTell(t, done) ==
  /\ DOMAIN t.query = TextsOf(done) /\ DOMAIN t.pc = TextsOf(done) /\ DOMAIN t.scans = TextsOf(done)
  /\ \A h \in TextsOf(done) : \E n \in done :
       /\ LatestOf(h, done, n) /\ t.query[h] = pairs[n][1]
       /\ PlansTell(pairs[n][1], LastPlan(pairs[n][1]) + 1, t.pc[h], t.scans[h])
  /\ \A n \in done : PlansRaiseNot(pairs[n][1], LastPlan(pairs[n][1]) + 1)

CostFields == {"ctx", "query", "pc", "scans", "series", "drawn", "left"}

AddInv ==
  Working /\ kind = "cost" =>
    /\ DOMAIN tally = CostFields /\ DOMAIN tally.ctx = {"at", "pc", "merged", "scans"}
    /\ tally.ctx.at \in Nat
    /\ phase = "add queries" /\ pos \in DOMAIN pairs =>
         /\ tally.ctx.at <= LastPlan(pairs[pos][1]) + 1
         /\ PlansTell(pairs[pos][1], tally.ctx.at, tally.ctx.merged, tally.ctx.scans)
    /\ EntriesTell(tally, Entered)

LEMMA CostQueries ==
  ASSUME PairsInv, Working, kind = "cost"
  PROVE  /\ \A n \in DOMAIN pairs : CostQuery(pairs[n][1])
         /\ \A n \in DOMAIN pairs : pairs[n][1] \in ToSet(files.yb)
         /\ \A q \in ToSet(files.yb) : \E n \in DOMAIN pairs : pairs[n][1] = q
<1>1. Loaded /\ Readable(files.yb)
  BY DEF PairsInv, LoopInv, Generated, Working
<1>2. files \in CostFiles
  BY <1>1 DEF Loaded
<1>3. files.yb # None /\ ResultFile(files.yb)
  BY <1>1, LoadedFacts DEF Readable
<1>4. \A m \in DOMAIN files.yb : IsQuery(files.yb[m])
  BY <1>1, <1>3, FileFacts
<1>5. \A m \in DOMAIN files.yb : CostQuery(files.yb[m])
  BY <1>2, <1>3, <1>4, FilesAssumption DEF CostQuery
<1>6. /\ \A n \in DOMAIN pairs : \E m \in DOMAIN files.yb : pairs[n][1] = files.yb[m]
      /\ \A m \in DOMAIN files.yb : \E n \in DOMAIN pairs : pairs[n][1] = files.yb[m]
  BY CostPairFacts
<1>7. /\ \A m \in DOMAIN files.yb : files.yb[m] \in ToSet(files.yb)
      /\ \A q \in ToSet(files.yb) : \E m \in DOMAIN files.yb : files.yb[m] = q
  BY DEF ToSet
<1>8. \A n \in DOMAIN pairs : CostQuery(pairs[n][1]) /\ pairs[n][1] \in ToSet(files.yb)
  BY <1>5, <1>6, <1>7
<1>9. \A q \in ToSet(files.yb) : \E n \in DOMAIN pairs : pairs[n][1] = q
  BY <1>6, <1>7
<1> QED
  BY <1>8, <1>9

LEMMA PassedOne ==
  ASSUME PairsInv, NEW before, NEW loop, loop \notin before, Turn(loop), NEW new, Tallied(new)
  PROVE  /\ pos \in DOMAIN pairs /\ phase' = phase /\ pairs' = pairs /\ tally' = new
         /\ Passed(before, loop) = 1..(pos - 1)
         /\ Passed(before, loop)' = Passed(before, loop) \cup {pos}
<1>1. /\ Len(pairs) \in Nat /\ DOMAIN pairs = 1..Len(pairs) /\ pos \in Nat /\ 1 <= pos
      /\ pos <= Len(pairs) /\ phase = loop
      /\ pairs' = pairs /\ phase' = phase /\ pos' = pos + 1 /\ tally' = new
  BY PositionFacts DEF Turn, Tallied
<1>2. 1..(pos' - 1) = 1..(pos - 1) \cup {pos}
  BY <1>1
<1> QED
  BY <1>1, <1>2 DEF Passed

LEMMA PassedEnd ==
  ASSUME PairsInv, NEW before, NEW loop, loop \notin before, NEW next, Through(loop, next),
         next \notin before, next # loop
  PROVE  /\ phase' = next /\ pairs' = pairs /\ tally' = tally
         /\ Passed(before, loop) = DOMAIN pairs /\ Passed(before, loop)' = DOMAIN pairs
<1>1. /\ Len(pairs) \in Nat /\ DOMAIN pairs = 1..Len(pairs) /\ pos \in Nat /\ 1 <= pos
      /\ pos <= Len(pairs) + 1 /\ pos > Len(pairs) /\ phase = loop /\ phase' = next
      /\ pairs' = pairs /\ tally' = tally
  BY PositionFacts DEF Through
<1>2. 1..(pos - 1) = 1..Len(pairs)
  BY <1>1
<1> QED
  BY <1>1, <1>2 DEF Passed

LEMMA EntriesKept ==
  ASSUME pairs' = pairs, NEW t, NEW u, NEW done, EntriesTell(t, done),
         u.query = t.query, u.pc = t.pc, u.scans = t.scans
  PROVE  EntriesTell(u, done)'
<1>1. \A h, n : LatestOf(h, done, n)' <=> LatestOf(h, done, n)
  BY Zenon DEF LatestOf
<1>2. TextsOf(done)' = TextsOf(done)
  BY Zenon DEF TextsOf
<1> QED
  BY <1>1, <1>2, Zenon DEF EntriesTell

(* The entries of one more query, which may replace those of another.      *)
LEMMA EntriesMore ==
  ASSUME pairs' = pairs, NEW t, NEW u, NEW k \in Nat, EntriesTell(t, 1..(k - 1)), k >= 1,
         NEW q, q = pairs[k][1], NEW merged, NEW scans, PlansTell(q, LastPlan(q) + 1, merged, scans),
         u.query = Put(t.query, q.hash, q), u.pc = Put(t.pc, q.hash, merged),
         u.scans = Put(t.scans, q.hash, scans)
  PROVE  EntriesTell(u, 1..(k - 1) \cup {k})'
<1> DEFINE done == 1..(k - 1)
           more == done \cup {k}
           hash(n) == pairs[n][1].hash
<1>1. TextsOf(more) = {q.hash} \cup TextsOf(done)
  BY DEF TextsOf
<1>2. /\ DOMAIN t.query = TextsOf(done) /\ DOMAIN t.pc = TextsOf(done) /\ DOMAIN t.scans = TextsOf(done)
      /\ \A h \in TextsOf(done) : \E n \in done :
           /\ LatestOf(h, done, n) /\ t.query[h] = pairs[n][1]
           /\ PlansTell(pairs[n][1], LastPlan(pairs[n][1]) + 1, t.pc[h], t.scans[h])
      /\ \A n \in done : PlansRaiseNot(pairs[n][1], LastPlan(pairs[n][1]) + 1)
  BY Zenon DEF EntriesTell
<1>3. \A m \in more : m <= k
  OBVIOUS
<1> HIDE DEF done
<1>11. /\ DOMAIN u.query = {q.hash} \cup DOMAIN t.query /\ u.query[q.hash] = q
       /\ \A h \in DOMAIN t.query : h # q.hash => u.query[h] = t.query[h]
  BY DEF Put
<1>12. /\ DOMAIN u.pc = {q.hash} \cup DOMAIN t.pc /\ u.pc[q.hash] = merged
       /\ \A h \in DOMAIN t.pc : h # q.hash => u.pc[h] = t.pc[h]
  BY DEF Put
<1>13. /\ DOMAIN u.scans = {q.hash} \cup DOMAIN t.scans /\ u.scans[q.hash] = scans
       /\ \A h \in DOMAIN t.scans : h # q.hash => u.scans[h] = t.scans[h]
  BY DEF Put
<1>4. DOMAIN u.query = TextsOf(more) /\ DOMAIN u.pc = TextsOf(more) /\ DOMAIN u.scans = TextsOf(more)
  BY <1>1, <1>2, <1>11, <1>12, <1>13, Zenon
<1>5. /\ u.query[q.hash] = q /\ u.pc[q.hash] = merged /\ u.scans[q.hash] = scans
      /\ \A h \in TextsOf(done) :
           h # q.hash => u.query[h] = t.query[h] /\ u.pc[h] = t.pc[h] /\ u.scans[h] = t.scans[h]
  BY <1>2, <1>11, <1>12, <1>13, Zenon
<1>6. \A n \in more : PlansRaiseNot(pairs[n][1], LastPlan(pairs[n][1]) + 1)
  BY <1>2 DEF PlansTell
<1>7. LatestOf(q.hash, more, k)
  BY <1>3, Zenon DEF LatestOf
<1>8. ASSUME NEW h \in TextsOf(more)
      PROVE  \E n \in more :
               /\ LatestOf(h, more, n) /\ u.query[h] = pairs[n][1]
               /\ PlansTell(pairs[n][1], LastPlan(pairs[n][1]) + 1, u.pc[h], u.scans[h])
  <2>1. CASE h = q.hash
    BY <1>5, <1>7, <2>1
  <2>2. CASE h # q.hash
    <3>1. h \in TextsOf(done)
      BY <1>1, <1>8, <2>2
    <3>2. PICK n \in done :
            /\ LatestOf(h, done, n) /\ t.query[h] = pairs[n][1]
            /\ PlansTell(pairs[n][1], LastPlan(pairs[n][1]) + 1, t.pc[h], t.scans[h])
      BY <1>2, <3>1
    <3>3. LatestOf(h, more, n)
      BY <2>2, <3>2 DEF LatestOf
    <3> QED
      BY <1>5, <2>2, <3>1, <3>2, <3>3
  <2> QED
    BY <2>1, <2>2
<1>9. EntriesTell(u, more)
  BY <1>4, <1>6, <1>8, Zenon DEF EntriesTell
<1>10. EntriesTell(u, more)'
  <2> HIDE DEF more
  <2> QED
    BY <1>9, EntriesKept
<1> QED
  BY <1>10 DEF done, more

(* Of no plan nothing is told.                                             *)
LEMMA EmptyPlans ==
  ASSUME NEW q, CostQuery(q)
  PROVE  LastPlan(q) \in Nat /\ PlansTell(q, 0, {}, <<>>)
<1>1. LastPlan(q) \in Nat /\ \A k \in Processed(q) : k \in Nat
  BY ProcessedFacts
<1>2. \A k \in Processed(q) : ~(k < 0)
  BY <1>1
<1>3. \A kn \in RanIn(q) : kn[1] \in Processed(q)
  BY RanFacts
<1>4. ScansTell(q, 0, <<>>)
  <2>1. IsSequence(<<>>) /\ IsInjective(<<>>) /\ ToSet(<<>>) = {}
    BY DEF IsSequence, ToSet, IsInjective
  <2> QED
    BY <1>2, <1>3, <2>1, ScansToldOf
<1>5. FlagsMerged(q, 0, {})
  <2>1. {j \in Fixable(q) : j < 0} = {}
    BY <1>2 DEF Fixable
  <2> QED
    BY <2>1 DEF FlagsMerged
<1>6. PlansRaiseNot(q, 0)
  BY <1>2, <1>3 DEF PlansRaiseNot
<1> QED
  BY <1>1, <1>4, <1>5, <1>6 DEF PlansTell

LEMMA PairsAreCostQueries ==
  PairsInv /\ Working /\ kind = "cost" => \A n \in DOMAIN pairs : CostQuery(pairs[n][1])
  BY CostQueries

LEMMA AddInvBegins ==
  ASSUME PairsInv, PairsInv', GenerateCost, phase' # "crashed"
  PROVE  AddInv'
<1>1. /\ kind = "cost" /\ phase = "generate" /\ phase' = "add queries" /\ kind' = kind /\ pos' = pos
      /\ tally' = ZeroCost
  BY DEF GenerateCost, Crash, Start
<1>2. pos' = 1
  BY <1>1 DEF PairsInv, LoopInv
<1>3. Entered' = {}
  <2>1. 1..(pos' - 1) = {}
    BY <1>2
  <2> QED
    BY <1>1, <2>1 DEF Entered, Passed
<1>4. (PairsInv /\ Working /\ kind = "cost" => \A n \in DOMAIN pairs : CostQuery(pairs[n][1]))'
  BY PairsAreCostQueries, PTL
<1>5. Working' /\ \A n \in DOMAIN pairs' : CostQuery(pairs'[n][1])
  BY <1>1, <1>4 DEF Working
<1>6. /\ DOMAIN ZeroCost = CostFields /\ ZeroCost.ctx = NewContext
      /\ ZeroCost.query = <<>> /\ ZeroCost.pc = <<>> /\ ZeroCost.scans = <<>>
      /\ DOMAIN NewContext = {"at", "pc", "merged", "scans"}
      /\ NewContext.at = 0 /\ NewContext.merged = {} /\ NewContext.scans = <<>>
  BY DEF ZeroCost, NewContext, CostFields
<1>7. ASSUME NEW q, CostQuery(q)
      PROVE  0 <= LastPlan(q) + 1 /\ PlansTell(q, 0, {}, <<>>)
  BY <1>7, EmptyPlans
<1>8. EntriesTell(tally, Entered)'
  <2>1. /\ DOMAIN tally'.query = {} /\ DOMAIN tally'.pc = {} /\ DOMAIN tally'.scans = {}
    <3>1. DOMAIN <<>> = {}
      OBVIOUS
    <3> QED
      BY <1>1, <1>6, <3>1, Zenon
  <2>2. TextsOf(Entered)' = {}
    BY <1>3 DEF TextsOf
  <2> QED
    BY <1>3, <2>1, <2>2, Zenon DEF EntriesTell
<1>9. /\ DOMAIN tally' = CostFields /\ DOMAIN tally'.ctx = {"at", "pc", "merged", "scans"}
      /\ tally'.ctx.at = 0 /\ tally'.ctx.merged = {} /\ tally'.ctx.scans = <<>>
  BY <1>1, <1>6, Zenon
<1>10. pos' \in DOMAIN pairs' =>
         /\ 0 <= LastPlan(pairs'[pos'][1]) + 1
         /\ PlansTell(pairs'[pos'][1], 0, {}, <<>>)
  BY <1>5, <1>7
<1>11. 0 \in Nat
  OBVIOUS
<1> QED
  BY <1>8, <1>9, <1>10, <1>11, Zenon DEF AddInv

(* A plan is added to the context ...                                      *)
LEMMA AddInvPlan ==
  ASSUME PairsInv, AddInv, AddPlan, phase' # "crashed"
  PROVE  AddInv'
<1> DEFINE q == pairs[pos][1]
           k == tally.ctx.at
           nodes == ParsePlan(Pieces[PlanOf(q, k)])
           done == IF k \in Processed(q) THEN ProcessPlan(tally.ctx, k, nodes) ELSE tally.ctx
<1>1. Turn("add queries") /\ k <= LastPlan(q)
  BY DEF AddPlan
<1>2. /\ ~(k \in Processed(q) /\ Raises(nodes))
      /\ tally' = [tally EXCEPT !.ctx = [done EXCEPT !.at = k + 1]]
      /\ UNCHANGED <<kind, files, pairs, phase, pos>>
  BY DEF AddPlan, Crash
<1>3. /\ phase = "add queries" /\ kind = "cost" /\ Working /\ pos \in DOMAIN pairs
  <2>1. phase = "add queries" /\ pos <= Len(pairs)
    BY <1>1 DEF Turn
  <2>2. kind = "cost" /\ Working
    BY <2>1
    DEF Working, PairsInv, LoopInv, PhaseFits, Ends,
        ScoreLoops, StatsLoops, RegressionLoops, TaqoLoops, SelectivityLoops
  <2>3. pos \in DOMAIN pairs
    <3>1. pos <= Len(pairs)
      BY <2>1
    <3> QED
      BY <3>1, PositionFacts
  <2> QED
    BY <2>1, <2>2, <2>3
<1>4. CostQuery(q)
  BY <1>3, CostQueries
<1>5. /\ DOMAIN tally = CostFields /\ DOMAIN tally.ctx = {"at", "pc", "merged", "scans"}
      /\ k \in Nat /\ PlansTell(q, k, tally.ctx.merged, tally.ctx.scans)
      /\ EntriesTell(tally, Entered)
  BY <1>3, Zenon DEF AddInv
<1> HIDE DEF q, k, nodes
<1>6. DOMAIN done = {"at", "pc", "merged", "scans"} /\ PlansTell(q, k + 1, done.merged, done.scans)
  <2>1. CASE k \in Processed(q)
    <3>1. nodes = ParsePlan(Pieces[PlanOf(q, k)])
      BY DEF nodes
    <3> QED
      BY <1>2, <1>4, <1>5, <2>1, <3>1, PlanProcessed, Zenon
  <2>2. CASE k \notin Processed(q)
    BY <1>4, <1>5, <2>2, PlanPassed
  <2> QED
    BY <2>1, <2>2
<1> HIDE DEF done
<1>7. /\ DOMAIN tally' = CostFields
      /\ tally'.query = tally.query /\ tally'.pc = tally.pc /\ tally'.scans = tally.scans
      /\ tally'.ctx = [done EXCEPT !.at = k + 1]
  BY <1>2, <1>5 DEF CostFields
<1>8. /\ DOMAIN tally'.ctx = {"at", "pc", "merged", "scans"} /\ tally'.ctx.at = k + 1
      /\ tally'.ctx.merged = done.merged /\ tally'.ctx.scans = done.scans
  BY <1>6, <1>7
<1>9. k + 1 \in Nat /\ k + 1 <= LastPlan(q) + 1
  <2>1. LastPlan(q) \in Nat
    BY <1>4, ProcessedFacts
  <2>2. k <= LastPlan(q) /\ k \in Nat
    BY <1>1, <1>5, Zenon
  <2> QED
    BY <2>1, <2>2
<1>10. Entered' = Entered
  BY <1>2 DEF Entered, Passed
<1>11. EntriesTell(tally, Entered)'
  BY <1>2, <1>5, <1>7, <1>10, EntriesKept
<1>12. q' = q
  BY <1>2 DEF q
<1>13. /\ DOMAIN tally' = CostFields /\ DOMAIN tally'.ctx = {"at", "pc", "merged", "scans"}
       /\ tally'.ctx.at \in Nat /\ tally'.ctx.at <= LastPlan(q') + 1
       /\ PlansTell(q', tally'.ctx.at, tally'.ctx.merged, tally'.ctx.scans)
  BY <1>6, <1>7, <1>8, <1>9, <1>12
<1> QED
  BY <1>11, <1>13, Zenon DEF AddInv, q

(* ... and a query, with what the context has of its plans.                *)
LEMMA AddInvQuery ==
  ASSUME PairsInv, AddInv, AddCostQuery
  PROVE  AddInv'
<1> DEFINE q == pairs[pos][1]
           ctx == tally.ctx
           new == [tally EXCEPT !.ctx = NewContext, !.query = Put(@, q.hash, q),
                                !.pc = Put(@, q.hash, ctx.merged), !.scans = Put(@, q.hash, ctx.scans)]
<1>1. Turn("add queries") /\ ctx.at > LastPlan(q) /\ Tallied(new)
  BY DEF AddCostQuery
<1>2. /\ pos \in DOMAIN pairs /\ phase' = phase /\ pairs' = pairs /\ tally' = new
      /\ Entered = 1..(pos - 1) /\ Entered' = Entered \cup {pos}
  <2>1. "add queries" \notin {}
    OBVIOUS
  <2> HIDE DEF new
  <2> QED
    BY <1>1, <2>1, PassedOne, Zenon DEF Entered
<1>3. /\ phase = "add queries" /\ kind = "cost" /\ Working
      /\ pos \in Nat /\ pos >= 1 /\ kind' = kind
  BY <1>1, PositionFacts
  DEF Turn, Tallied, Working, PairsInv, LoopInv, PhaseFits, Ends,
      ScoreLoops, StatsLoops, RegressionLoops, TaqoLoops, SelectivityLoops
<1>4. \A n \in DOMAIN pairs : CostQuery(pairs[n][1])
  BY <1>3, CostQueries
<1>5. /\ DOMAIN tally = CostFields /\ ctx.at \in Nat /\ ctx.at <= LastPlan(q) + 1
      /\ PlansTell(q, ctx.at, ctx.merged, ctx.scans) /\ EntriesTell(tally, 1..(pos - 1))
  BY <1>2, <1>3, Zenon DEF AddInv
<1>6. CostQuery(q)
  BY <1>2, <1>4
<1>7. ctx.at = LastPlan(q) + 1
  <2>1. LastPlan(q) \in Nat
    BY <1>6, ProcessedFacts
  <2>2. ctx.at > LastPlan(q) /\ ctx.at <= LastPlan(q) + 1 /\ ctx.at \in Nat
    BY <1>1, <1>5, Zenon
  <2> HIDE DEF q, ctx
  <2> QED
    BY <2>1, <2>2
<1>8. /\ DOMAIN tally' = CostFields /\ tally'.ctx = NewContext /\ tally'.query = Put(tally.query, q.hash, q)
      /\ tally'.pc = Put(tally.pc, q.hash, ctx.merged) /\ tally'.scans = Put(tally.scans, q.hash, ctx.scans)
  BY <1>2, <1>5 DEF CostFields
<1> HIDE DEF new
<1>9. EntriesTell(tally, Entered)'
  <2>1. PlansTell(q, LastPlan(q) + 1, ctx.merged, ctx.scans)
    BY <1>5, <1>7
  <2>2. Entered' = 1..(pos - 1) \cup {pos}
    BY <1>2
  <2> QED
    <3>1. pairs' = pairs /\ pos \in Nat /\ pos >= 1 /\ EntriesTell(tally, 1..(pos - 1))
      BY <1>2, <1>3, <1>5, Zenon
    <3> QED
      BY <1>8, <2>1, <2>2, <3>1, EntriesMore
<1>10. /\ DOMAIN NewContext = {"at", "pc", "merged", "scans"}
       /\ NewContext.at = 0 /\ NewContext.merged = {} /\ NewContext.scans = <<>> /\ 0 \in Nat
  BY DEF NewContext
<1>11. ASSUME NEW n \in DOMAIN pairs
       PROVE  0 <= LastPlan(pairs[n][1]) + 1 /\ PlansTell(pairs[n][1], 0, {}, <<>>)
  <2>1. LastPlan(pairs[n][1]) \in Nat /\ PlansTell(pairs[n][1], 0, {}, <<>>)
    BY <1>4, EmptyPlans
  <2> QED
    BY <2>1
<1> QED
  BY <1>2, <1>8, <1>9, <1>10, <1>11, Zenon DEF AddInv

(* What the later loops leave of it.                                       *)
LEMMA AddInvKept ==
  ASSUME AddInv, Working, kind = "cost", kind' = kind, pairs' = pairs, Entered' = Entered,
         phase' = "add queries" => phase = "add queries" /\ pos' = pos,
         DOMAIN tally' = DOMAIN tally, tally'.ctx = tally.ctx, tally'.query = tally.query,
         tally'.pc = tally.pc, tally'.scans = tally.scans
  PROVE  AddInv'
<1>1. EntriesTell(tally, Entered)'
  BY EntriesKept DEF AddInv
<1> QED
  BY <1>1, Zenon DEF AddInv

-----------------------------------------------------------------------------
(* The points of the charts, of the texts that are collected.              *)
PointsWith(t, texts, chart) ==
  UNION {{[text |-> h, scan |-> s] : s \in {x \in ToSet(t.scans[h]) : x.kind = chart.kind}} : h \in texts}

SeriesTell(t, texts) ==
  /\ DOMAIN t.series = DOMAIN Charts
  /\ \A c \in DOMAIN Charts :
       /\ IsSequence(t.series[c]) /\ IsInjective(t.series[c])
       /\ ToSet(t.series[c]) = PointsWith(t, texts, Charts[c])

SeriesInv == Working /\ kind = "cost" => SeriesTell(tally, TextsOf(Gathered))

IsPoint(p, t, h, chart) ==
  \E s \in ToSet(t.scans[h]) : s.kind = chart.kind /\ p = [text |-> h, scan |-> s]

LEMMA PointsFacts ==
  ASSUME NEW t, NEW texts, NEW chart
  PROVE  \A p : p \in PointsWith(t, texts, chart) <=> \E h \in texts : IsPoint(p, t, h, chart)
<1> DEFINE here(h) == {[text |-> h, scan |-> s] : s \in {x \in ToSet(t.scans[h]) : x.kind = chart.kind}}
<1>1. PointsWith(t, texts, chart) = UNION {here(h) : h \in texts}
  BY DEF PointsWith
<1>2. \A h, p : p \in here(h) <=> IsPoint(p, t, h, chart)
  BY Zenon DEF IsPoint
<1> HIDE DEF here
<1>3. \A p : p \in UNION {here(h) : h \in texts} <=> \E h \in texts : p \in here(h)
  BY Zenon
<1> QED
  BY <1>1, <1>2, <1>3, Zenon

LEMMA PointsOfFacts ==
  ASSUME NEW h, IsSequence(tally.scans[h]), IsInjective(tally.scans[h]), NEW chart
  PROVE  /\ IsSequence(PointsOf(h, chart)) /\ IsInjective(PointsOf(h, chart))
         /\ \A p : p \in ToSet(PointsOf(h, chart)) <=> IsPoint(p, tally, h, chart)
<1> DEFINE scans == tally.scans[h]
           list == [n \in DOMAIN scans |-> [text |-> h, scan |-> scans[n]]]
           kept == {n \in DOMAIN scans : scans[n].kind = chart.kind}
<1>1. PointsOf(h, chart) = Select(list, kept)
  BY DEF PointsOf
<1>2. DOMAIN scans = 1..Len(scans) /\ Len(scans) \in Nat
  BY SequenceFacts
<1>3. kept \subseteq DOMAIN scans
  OBVIOUS
<1>4. \A n \in DOMAIN scans : list[n] = [text |-> h, scan |-> scans[n]] /\ list[n].scan = scans[n]
  OBVIOUS
<1>5. \A n : n \in kept <=> n \in DOMAIN scans /\ scans[n].kind = chart.kind
  OBVIOUS
<1>6. \A m, n \in DOMAIN scans : scans[m] = scans[n] => m = n
  BY DEF IsInjective
<1>7. \A s : s \in ToSet(scans) <=> \E n \in DOMAIN scans : s = scans[n]
  BY Zenon DEF ToSet
<1>8. \A p : IsPoint(p, tally, h, chart) <=> \E s \in ToSet(scans) : s.kind = chart.kind /\ p = [text |-> h, scan |-> s]
  BY DEF IsPoint
<1> HIDE DEF list, kept, scans
<1>9. IsFiniteSet(kept) /\ kept \subseteq Nat
  <2>1. IsFiniteSet(1..Len(scans)) /\ kept \in SUBSET (1..Len(scans)) /\ kept \subseteq Nat
    BY <1>2, <1>3, FS_Interval
  <2>2. IsFiniteSet(kept)
    BY <2>1, FS_Subset
  <2> QED
    BY <2>1, <2>2
<1>10. \A m, n \in kept : list[m] = list[n] => m = n
  BY <1>4, <1>5, <1>6, Zenon
<1>11. /\ IsSequence(Select(list, kept)) /\ IsInjective(Select(list, kept))
       /\ ToSet(Select(list, kept)) = {list[n] : n \in kept}
  BY <1>9, <1>10, SelectFacts
<1>12. \A p : p \in {list[n] : n \in kept} <=> \E n \in kept : p = list[n]
  BY Zenon
<1>13. \A p : p \in ToSet(Select(list, kept)) <=> IsPoint(p, tally, h, chart)
  <2>1. \A p : p \in ToSet(Select(list, kept)) <=> \E n \in kept : p = list[n]
    BY <1>11, <1>12, Zenon
  <2>2. ASSUME NEW n \in kept
        PROVE  IsPoint(list[n], tally, h, chart)
    BY <1>4, <1>5, <1>7, <1>8, Zenon
  <2>3. ASSUME NEW p, NEW s \in ToSet(scans), s.kind = chart.kind, p = [text |-> h, scan |-> s]
        PROVE  \E n \in kept : p = list[n]
    <3>1. PICK n \in DOMAIN scans : s = scans[n]
      BY <1>7
    <3>2. n \in kept /\ list[n] = p
      BY <1>4, <1>5, <2>3, <3>1, Zenon
    <3> QED
      BY <3>2
  <2> QED
    BY <1>8, <2>1, <2>2, <2>3, Zenon
<1> QED
  BY <1>1, <1>11, <1>13

LEMMA SeriesTold ==
  ASSUME NEW t, NEW texts
  PROVE  SeriesTell(t, texts) <=>
           /\ DOMAIN t.series = DOMAIN Charts
           /\ \A c \in DOMAIN Charts :
                /\ IsSequence(t.series[c]) /\ IsInjective(t.series[c])
                /\ \A p : p \in ToSet(t.series[c]) <=> \E h \in texts : IsPoint(p, t, h, Charts[c])
<1>1. ASSUME NEW c
      PROVE  ToSet(t.series[c]) = PointsWith(t, texts, Charts[c])
               <=> \A p : p \in ToSet(t.series[c]) <=> \E h \in texts : IsPoint(p, t, h, Charts[c])
  <2> DEFINE S == ToSet(t.series[c])
             P == PointsWith(t, texts, Charts[c])
  <2>1. \A p : p \in P <=> \E h \in texts : IsPoint(p, t, h, Charts[c])
    BY PointsFacts
  <2> HIDE DEF S, P
  <2>2. S = P <=> \A p : p \in S <=> p \in P
    OBVIOUS
  <2>3. S = P <=> \A p : p \in S <=> \E h \in texts : IsPoint(p, t, h, Charts[c])
    BY <2>1, <2>2, Zenon
  <2> QED
    BY <2>3 DEF S, P
<1> QED
  BY <1>1, Zenon DEF SeriesTell

(* The points of one more text.                                            *)
LEMMA SeriesMore ==
  ASSUME NEW texts, SeriesTell(tally, texts), NEW h, h \notin texts,
         IsSequence(tally.scans[h]), IsInjective(tally.scans[h]),
         NEW t, t.scans = tally.scans,
         t.series = [c \in DOMAIN Charts |-> tally.series[c] \o PointsOf(h, Charts[c])]
  PROVE  SeriesTell(t, texts \cup {h})
<1>1. \A c \in DOMAIN Charts :
        /\ IsSequence(tally.series[c]) /\ IsInjective(tally.series[c])
        /\ \A p : p \in ToSet(tally.series[c]) <=> \E g \in texts : IsPoint(p, tally, g, Charts[c])
  BY SeriesTold
<1>2. \A p, g, chart : IsPoint(p, t, g, chart) <=> IsPoint(p, tally, g, chart)
  BY Zenon DEF IsPoint
<1>3. \A p, g, chart : IsPoint(p, tally, g, chart) => p.text = g
  BY DEF IsPoint
<1>4. DOMAIN t.series = DOMAIN Charts
  OBVIOUS
<1>5. ASSUME NEW c \in DOMAIN Charts
      PROVE  /\ IsSequence(t.series[c]) /\ IsInjective(t.series[c])
             /\ \A p : p \in ToSet(t.series[c]) <=> \E g \in texts \cup {h} : IsPoint(p, t, g, Charts[c])
  <2> DEFINE old == tally.series[c]
             new == PointsOf(h, Charts[c])
  <2>1. /\ IsSequence(old) /\ IsInjective(old)
        /\ \A p : p \in ToSet(old) <=> \E g \in texts : IsPoint(p, tally, g, Charts[c])
    BY <1>1, <1>5, Zenon
  <2>2. /\ IsSequence(new) /\ IsInjective(new)
        /\ \A p : p \in ToSet(new) <=> IsPoint(p, tally, h, Charts[c])
    BY PointsOfFacts
  <2>3. t.series[c] = old \o new
    BY <1>5
  <2> HIDE DEF old, new
  <2>4. \A p \in ToSet(old) : p \notin ToSet(new)
    BY <1>3, <2>1, <2>2, Zenon
  <2>5. /\ IsSequence(old \o new) /\ IsInjective(old \o new)
        /\ ToSet(old \o new) = ToSet(old) \cup ToSet(new)
    <3>1. ToSet(old) \cap ToSet(new) = {}
      BY <2>4
    <3> QED
      BY <2>1, <2>2, <3>1, JoinedFacts
  <2>6. \A p : p \in ToSet(old \o new) <=> \E g \in texts \cup {h} : IsPoint(p, t, g, Charts[c])
    BY <1>2, <2>1, <2>2, <2>5, Zenon
  <2> QED
    BY <2>3, <2>5, <2>6
<1> QED
  BY <1>4, <1>5, SeriesTold, Zenon

LEMMA SeriesKept ==
  ASSUME NEW t, NEW u, NEW texts, SeriesTell(t, texts), u.series = t.series,
         texts = {} \/ u.scans = t.scans
  PROVE  SeriesTell(u, texts)
<1>1. \A p, chart : (\E h \in texts : IsPoint(p, u, h, chart)) <=> \E h \in texts : IsPoint(p, t, h, chart)
  BY Zenon DEF IsPoint
<1> QED
  BY <1>1, SeriesTold, Zenon

LEMMA SeriesInvBegins ==
  ASSUME GenerateCost, phase' # "crashed"
  PROVE  SeriesInv'
<1>1. phase' = "add queries" /\ tally' = ZeroCost
  BY DEF GenerateCost, Crash, Start
<1>2. Gathered' = {}
  BY <1>1, Zenon DEF Gathered, Passed
<1>3. TextsOf(Gathered)' = {}
  BY <1>2 DEF TextsOf
<1>4. tally'.series = [c \in DOMAIN Charts |-> <<>>]
  BY <1>1 DEF ZeroCost
<1>5. IsSequence(<<>>) /\ IsInjective(<<>>) /\ ToSet(<<>>) = {}
  BY DEF IsSequence, ToSet, IsInjective
<1>6. SeriesTell(tally', {})
  <2>1. DOMAIN tally'.series = DOMAIN Charts /\ \A c \in DOMAIN Charts : tally'.series[c] = <<>>
    BY <1>4
  <2> QED
    BY <1>5, <2>1, SeriesTold
<1> QED
  BY <1>3, <1>6 DEF SeriesInv, SeriesTell, PointsWith

LEMMA SeriesInvCollect ==
  ASSUME PairsInv, AddInv, SeriesInv, CollectPoints
  PROVE  SeriesInv'
<1> DEFINE h == pairs[pos][1].hash
           done == 1..(pos - 1)
           new == IF \E m \in 1..(pos - 1) : pairs[m][1].hash = h THEN tally
                  ELSE [tally EXCEPT !.series = [c \in DOMAIN Charts |-> @[c] \o PointsOf(h, Charts[c])]]
<1>1. Turn("collect") /\ Tallied(new)
  BY DEF CollectPoints
<1> HIDE DEF new
<1>2. /\ pos \in DOMAIN pairs /\ pairs' = pairs /\ tally' = new
      /\ Gathered = done /\ Gathered' = done \cup {pos}
  <2>1. "collect" \notin {"add queries"}
    OBVIOUS
  <2> QED
    BY <1>1, <2>1, PassedOne, Zenon DEF Gathered
<1>3. phase = "collect"
  BY <1>1 DEF Turn
<1>4. kind = "cost" /\ Working /\ phase # "add queries"
  BY <1>3
  DEF Working, PairsInv, LoopInv, PhaseFits, Ends,
      ScoreLoops, StatsLoops, RegressionLoops, TaqoLoops, SelectivityLoops
<1>5. Entered = DOMAIN pairs
  <2>1. Entered = 1..Len(pairs)
    BY <1>4, PassedAll DEF Entered
  <2> QED
    BY <2>1, PositionFacts
<1>6. DOMAIN tally = CostFields /\ IsSequence(tally.scans[h]) /\ IsInjective(tally.scans[h])
  <2>1. DOMAIN tally = CostFields /\ EntriesTell(tally, DOMAIN pairs)
    BY <1>4, <1>5, Zenon DEF AddInv
  <2>2. h \in TextsOf(DOMAIN pairs)
    BY <1>2 DEF TextsOf
  <2>3. \E q, at : ScansTell(q, at, tally.scans[h])
    BY <2>1, <2>2, Zenon DEF EntriesTell, PlansTell
  <2> QED
    BY <2>1, <2>3, Zenon DEF ScansTell
<1>7. SeriesTell(tally, TextsOf(done))
  BY <1>2, <1>4, Zenon DEF SeriesInv
<1>8. TextsOf(done \cup {pos}) = TextsOf(done) \cup {h} /\ TextsOf(Gathered)' = TextsOf(done \cup {pos})
  BY <1>2 DEF TextsOf
<1>9. SeriesTell(new, TextsOf(done) \cup {h})
  <2>1. h \in TextsOf(done) <=> \E m \in 1..(pos - 1) : pairs[m][1].hash = h
    BY Zenon DEF TextsOf
  <2>2. CASE h \in TextsOf(done)
    <3>1. new = tally /\ TextsOf(done) \cup {h} = TextsOf(done)
      BY <2>1, <2>2 DEF new
    <3> QED
      BY <1>7, <3>1
  <2>3. CASE h \notin TextsOf(done)
    <3>1. new = [tally EXCEPT !.series = [c \in DOMAIN Charts |-> @[c] \o PointsOf(h, Charts[c])]]
      BY <2>1, <2>3 DEF new
    <3>2. /\ new.scans = tally.scans
          /\ new.series = [c \in DOMAIN Charts |-> tally.series[c] \o PointsOf(h, Charts[c])]
      BY <1>6, <3>1 DEF CostFields
    <3> HIDE DEF h, done
    <3> QED
      BY <1>6, <1>7, <2>3, <3>2, SeriesMore
  <2> QED
    BY <2>2, <2>3
<1>10. SeriesTell(tally', TextsOf(done) \cup {h})
  BY <1>2, <1>9
<1> QED
  BY <1>8, <1>10, Zenon DEF SeriesInv, SeriesTell, PointsWith

(* What the loops before and after leave of it.                            *)
LEMMA SeriesInvKept ==
  ASSUME SeriesInv, Working, kind = "cost", pairs' = pairs, Gathered' = Gathered,
         tally'.series = tally.series, Gathered = {} \/ tally'.scans = tally.scans
  PROVE  SeriesInv'
<1>1. TextsOf(Gathered)' = TextsOf(Gathered)
  BY Zenon DEF TextsOf
<1>2. Gathered = {} => TextsOf(Gathered) = {}
  BY DEF TextsOf
<1>3. SeriesTell(tally, TextsOf(Gathered))
  BY DEF SeriesInv
<1> DEFINE texts == TextsOf(Gathered)
<1> HIDE DEF texts
<1>4. SeriesTell(tally', texts)
  BY <1>2, <1>3, SeriesKept DEF texts
<1> QED
  BY <1>1, <1>4, Zenon DEF SeriesInv, SeriesTell, PointsWith, texts

-----------------------------------------------------------------------------
(* A chart that is drawn, and the outliers left to be taken out of it.     *)
DrawnTells(d, left, points) ==
  /\ DOMAIN d = {"plotted", "outliers", "judged"}
  /\ IsSequence(d.plotted) /\ IsInjective(d.plotted)
  /\ IsSequence(d.outliers) /\ IsInjective(d.outliers)
  /\ ToSet(d.plotted) \cap ToSet(d.outliers) = {}
  /\ ToSet(d.plotted) \cup ToSet(d.outliers) = points
  /\ left \subseteq DOMAIN d.plotted
  /\ d.judged = ToSet(d.outliers) \cup {d.plotted[n] : n \in left}

NotInstant(points) == \A p \in points : p.scan.ms # 0

ChartsTell(t) ==
  /\ IsSequence(t.drawn) /\ Len(t.drawn) <= Len(Charts)
  /\ t.drawn = <<>> => t.left = {}
  /\ \A c \in DOMAIN t.drawn :
       /\ DrawnTells(t.drawn[c], IF c = Len(t.drawn) THEN t.left ELSE {}, ToSet(t.series[c]))
       /\ ~Charts[c].box => NotInstant(ToSet(t.series[c]))

ChartsInv ==
  Working /\ kind = "cost" =>
    /\ ChartsTell(tally)
    /\ phase \in {"add queries", "collect"} => tally.drawn = <<>>
    /\ phase = "published" =>
         /\ tally.left = {} /\ Len(tally.drawn) = Len(Charts)
         /\ \A h \in DOMAIN tally.query : tally.query[h].plan # None /\ tally.query[h].opts # None

(* One outlier is taken out of a chart, the last that is left.             *)
LEMMA OutlierTaken ==
  ASSUME NEW d, NEW left, NEW points, DrawnTells(d, left, points), left # {}
  PROVE  LET n == Max(left)
         IN  DrawnTells(WithoutLast(d, n), left \ {n}, points)
<1> DEFINE n == Max(left)
           e == WithoutLast(d, n)
           p == d.plotted
           o == d.outliers
<1>1. /\ DOMAIN d = {"plotted", "outliers", "judged"}
      /\ IsSequence(p) /\ IsInjective(p) /\ IsSequence(o) /\ IsInjective(o)
      /\ ToSet(p) \cap ToSet(o) = {} /\ ToSet(p) \cup ToSet(o) = points
      /\ left \subseteq DOMAIN p /\ d.judged = ToSet(o) \cup {p[m] : m \in left}
  BY DEF DrawnTells
<1>2. /\ DOMAIN e = {"plotted", "outliers", "judged"}
      /\ e.plotted = RemoveAt(p, n) /\ e.outliers = Append(o, p[n]) /\ e.judged = d.judged
  BY <1>1 DEF WithoutLast
<1> HIDE DEF p, o
<1>3. DOMAIN p = 1..Len(p) /\ Len(p) \in Nat
  BY <1>1, SequenceFacts
<1>4. n \in left /\ \A m \in left : m <= n
  BY <1>1, <1>3, GreatestNatural
<1> HIDE DEF n, e
<1>5. n \in DOMAIN p
  BY <1>1, <1>4
<1>6. /\ IsSequence(e.plotted) /\ IsInjective(e.plotted)
      /\ ToSet(e.plotted) = ToSet(p) \ {p[n]}
      /\ \A m \in DOMAIN p : m < n => m \in DOMAIN e.plotted /\ e.plotted[m] = p[m]
  BY <1>1, <1>2, <1>5, WithoutFacts
<1>7. p[n] \in ToSet(p)
  BY <1>5 DEF ToSet
<1>8. p[n] \notin ToSet(o)
  BY <1>1, <1>7
<1>9. /\ IsSequence(e.outliers) /\ IsInjective(e.outliers)
      /\ ToSet(e.outliers) = ToSet(o) \cup {p[n]}
  BY <1>1, <1>2, <1>8, AppendedFacts
<1>10. ToSet(e.plotted) \cap ToSet(e.outliers) = {} /\ ToSet(e.plotted) \cup ToSet(e.outliers) = points
  BY <1>1, <1>6, <1>7, <1>9
<1>11. \A m \in left \ {n} : m \in DOMAIN e.plotted /\ e.plotted[m] = p[m]
  <2>1. \A m \in left : m \in DOMAIN p /\ m \in Nat
    BY <1>1, <1>3
  <2>2. \A m \in left \ {n} : m < n
    BY <1>4, <2>1
  <2> QED
    BY <1>6, <2>1, <2>2
<1>12. {p[m] : m \in left} = {p[n]} \cup {e.plotted[m] : m \in left \ {n}}
  BY <1>4, <1>11
<1>13. e.judged = ToSet(e.outliers) \cup {e.plotted[m] : m \in left \ {n}}
  BY <1>1, <1>2, <1>9, <1>12
<1>14. DrawnTells(e, left \ {n}, points)
  <2>1. left \ {n} \subseteq DOMAIN e.plotted
    BY <1>11
  <2> QED
    BY <1>2, <1>6, <1>9, <1>10, <1>13, <2>1, Zenon DEF DrawnTells
<1> QED
  BY <1>14 DEF e, n

(* A chart before its outliers are taken out.                              *)
LEMMA ChartDrawn ==
  ASSUME NEW points, IsSequence(points), IsInjective(points), NEW out \in SUBSET DOMAIN points,
         NEW d, d = [plotted |-> points, outliers |-> <<>>, judged |-> {points[n] : n \in out}]
  PROVE  DrawnTells(d, out, ToSet(points))
<1> DEFINE judged == {points[n] : n \in out}
<1>1. /\ DOMAIN d = {"plotted", "outliers", "judged"}
      /\ d.plotted = points /\ d.outliers = <<>> /\ d.judged = judged
  OBVIOUS
<1>2. IsSequence(<<>>) /\ IsInjective(<<>>) /\ ToSet(<<>>) = {}
  BY DEF IsSequence, ToSet, IsInjective
<1>3. judged = {d.plotted[n] : n \in out}
  BY <1>1
<1> HIDE DEF judged
<1>4. /\ ToSet(d.plotted) \cap ToSet(d.outliers) = {} /\ ToSet(d.plotted) \cup ToSet(d.outliers) = ToSet(points)
      /\ d.judged = ToSet(d.outliers) \cup {d.plotted[n] : n \in out}
  BY <1>1, <1>2, <1>3
<1> QED
  BY <1>1, <1>2, <1>4 DEF DrawnTells

LEMMA ChartsMore ==
  ASSUME ChartsTell(tally), tally.left = {}, SeriesTell(tally, TextsOf(Gathered)), DOMAIN tally = CostFields,
         DrawChart, phase' # "crashed"
  PROVE  ChartsTell(tally') /\ tally'.series = tally.series
<1> DEFINE c == Len(tally.drawn) + 1
           points == tally.series[c]
<1>1. Len(tally.drawn) < Len(Charts)
  BY DEF DrawChart
<1>2. IsSequence(Charts) /\ IsSequence(tally.drawn)
  BY ChartsAssumption DEF ChartsTell
<1>3. /\ Len(tally.drawn) \in Nat /\ DOMAIN tally.drawn = 1..Len(tally.drawn)
      /\ Len(Charts) \in Nat /\ DOMAIN Charts = 1..Len(Charts)
  BY <1>2, SequenceFacts
<1>4. c \in DOMAIN Charts /\ Len(tally.drawn) + 1 <= Len(Charts) /\ c \notin DOMAIN tally.drawn
  BY <1>1, <1>3
<1>5. /\ ~(~Charts[c].box /\ \E n \in DOMAIN points : points[n].scan.ms = 0)
      /\ \E out \in SUBSET DOMAIN points :
           tally' = [tally EXCEPT
                !.left = out,
                !.drawn = Append(@, [plotted |-> points, outliers |-> <<>>,
                                     judged |-> {points[n] : n \in out}])]
  BY DEF DrawChart, Crash
<1>6. IsSequence(points) /\ IsInjective(points)
  BY <1>4, Zenon DEF SeriesTell
<1>7. ~Charts[c].box => NotInstant(ToSet(points))
  BY <1>5 DEF NotInstant, ToSet
<1>8. PICK out \in SUBSET DOMAIN points :
           tally' = [tally EXCEPT
                !.left = out,
                !.drawn = Append(@, [plotted |-> points, outliers |-> <<>>,
                                     judged |-> {points[n] : n \in out}])]
  BY <1>5
<1> DEFINE d == [plotted |-> points, outliers |-> <<>>, judged |-> {points[n] : n \in out}]
<1>9. DrawnTells(d, out, ToSet(points))
  BY <1>6, ChartDrawn
<1>10. /\ tally'.left = out /\ tally'.drawn = Append(tally.drawn, d) /\ tally'.series = tally.series
  BY <1>8 DEF CostFields
<1> HIDE DEF d
<1>11. /\ IsSequence(tally'.drawn) /\ Len(tally'.drawn) = c /\ tally'.drawn[c] = d
       /\ \A n \in DOMAIN tally.drawn : tally'.drawn[n] = tally.drawn[n]
  BY <1>2, <1>10, AppendedFacts
<1>12. DOMAIN tally'.drawn = 1..c
  BY <1>11, SequenceFacts
<1>13. \A n \in DOMAIN tally.drawn :
         /\ DrawnTells(tally.drawn[n], {}, ToSet(tally.series[n]))
         /\ ~Charts[n].box => NotInstant(ToSet(tally.series[n]))
  BY DEF ChartsTell
<1>14. ASSUME NEW n \in DOMAIN tally'.drawn
       PROVE  /\ DrawnTells(tally'.drawn[n], IF n = Len(tally'.drawn) THEN tally'.left ELSE {},
                            ToSet(tally'.series[n]))
              /\ ~Charts[n].box => NotInstant(ToSet(tally'.series[n]))
  <2>1. CASE n = c
    BY <1>7, <1>9, <1>10, <1>11, <2>1, Zenon
  <2>2. CASE n # c
    <3>1. n \in DOMAIN tally.drawn
      BY <1>3, <1>12, <2>2
    <3> QED
      BY <1>10, <1>11, <1>13, <2>2, <3>1, Zenon
  <2> QED
    BY <2>1, <2>2
<1>15. tally'.drawn # <<>>
  BY <1>3, <1>11, SequenceFacts
<1> QED
  BY <1>4, <1>10, <1>11, <1>14, <1>15, Zenon DEF ChartsTell

LEMMA ChartsLess ==
  ASSUME ChartsTell(tally), DOMAIN tally = CostFields, RemoveOutlier
  PROVE  ChartsTell(tally') /\ tally'.series = tally.series
<1> DEFINE c == Len(tally.drawn)
           n == Max(tally.left)
           d == tally.drawn[c]
<1>1. /\ tally.left # {}
      /\ tally' = [tally EXCEPT !.left = @ \ {n}, !.drawn[c] = WithoutLast(@, n)]
  BY DEF RemoveOutlier
<1>2. IsSequence(tally.drawn) /\ tally.drawn # <<>>
  BY <1>1 DEF ChartsTell
<1>3. c \in Nat /\ c # 0 /\ DOMAIN tally.drawn = 1..c
  BY <1>2, SequenceFacts
<1>4. c \in DOMAIN tally.drawn
  BY <1>3
<1>5. /\ tally'.left = tally.left \ {n} /\ tally'.series = tally.series
      /\ tally'.drawn = [tally.drawn EXCEPT ![c] = WithoutLast(d, n)]
  BY <1>1 DEF CostFields
<1>6. /\ DOMAIN tally'.drawn = 1..c /\ tally'.drawn[c] = WithoutLast(d, n)
      /\ \A m \in 1..c : m # c => tally'.drawn[m] = tally.drawn[m]
      /\ tally'.drawn = [m \in 1..c |-> tally'.drawn[m]]
  <2> HIDE DEF c, d, n
  <2> QED
    BY <1>3, <1>4, <1>5
<1>7. /\ \A m \in DOMAIN tally.drawn :
           /\ DrawnTells(tally.drawn[m], IF m = c THEN tally.left ELSE {}, ToSet(tally.series[m]))
           /\ ~Charts[m].box => NotInstant(ToSet(tally.series[m]))
      /\ Len(tally.drawn) <= Len(Charts)
  BY DEF ChartsTell
<1>8. DrawnTells(WithoutLast(d, n), tally.left \ {n}, ToSet(tally.series[c]))
  BY <1>1, <1>4, <1>7, OutlierTaken
<1>9. IsSequence(tally'.drawn) /\ Len(tally'.drawn) = c
  BY <1>3, <1>6, FunctionIsSequence
<1> HIDE DEF c, d, n
<1>10. ASSUME NEW m \in DOMAIN tally'.drawn
       PROVE  /\ DrawnTells(tally'.drawn[m], IF m = Len(tally'.drawn) THEN tally'.left ELSE {},
                            ToSet(tally'.series[m]))
              /\ ~Charts[m].box => NotInstant(ToSet(tally'.series[m]))
  <2>1. CASE m = c
    BY <1>4, <1>5, <1>6, <1>7, <1>8, <1>9, <2>1, Zenon
  <2>2. CASE m # c
    BY <1>3, <1>5, <1>6, <1>7, <1>9, <2>2, Zenon
  <2> QED
    BY <2>1, <2>2
<1>11. tally'.drawn # <<>> /\ Len(tally'.drawn) <= Len(Charts)
  <2>1. tally'.drawn # <<>>
    BY <1>3, <1>9, SequenceFacts
  <2> QED
    BY <1>7, <1>9, <2>1 DEF c
<1> QED
  BY <1>5, <1>9, <1>10, <1>11, Zenon DEF ChartsTell

-----------------------------------------------------------------------------
(* How far the loops of the cost report are, by what a step does.          *)
LEMMA CostPhases ==
  /\ phase \notin {"add queries"} => Entered = 1..Len(pairs)
  /\ phase = "add queries" => Gathered = {}
  /\ phase = "collect" /\ pos = 1 => Gathered = {}
  /\ phase \notin {"add queries", "collect"} => Gathered = 1..Len(pairs)
<1>1. phase \notin {"add queries"} => Entered = 1..Len(pairs)
  BY Zenon DEF Entered, Passed
<1>2. phase = "add queries" => Gathered = {}
  BY Zenon DEF Gathered, Passed
<1>3. phase = "collect" /\ pos = 1 => Gathered = {}
  BY PassedFirst, Zenon DEF Gathered
<1>4. phase \notin {"add queries", "collect"} => Gathered = 1..Len(pairs)
  BY Zenon DEF Gathered, Passed
<1> QED
  BY <1>1, <1>2, <1>3, <1>4

LEMMA CostPhasesNext ==
  /\ phase' \notin {"add queries"} => Entered' = 1..Len(pairs')
  /\ phase' = "add queries" => Gathered' = {}
  /\ phase' = "collect" /\ pos' = 1 => Gathered' = {}
  /\ phase' \notin {"add queries", "collect"} => Gathered' = 1..Len(pairs')
<1>1. phase' \notin {"add queries"} => Entered' = 1..Len(pairs')
  BY Zenon DEF Entered, Passed
<1>2. phase' = "add queries" => Gathered' = {}
  BY Zenon DEF Gathered, Passed
<1>3. phase' = "collect" /\ pos' = 1 => Gathered' = {}
  <2>1. 1..(1 - 1) = {}
    OBVIOUS
  <2>2. "collect" \notin {"add queries"}
    OBVIOUS
  <2> QED
    BY <2>1, <2>2, Zenon DEF Gathered, Passed
<1>4. phase' \notin {"add queries", "collect"} => Gathered' = 1..Len(pairs')
  BY Zenon DEF Gathered, Passed
<1> QED
  BY <1>1, <1>2, <1>3, <1>4

LEMMA NothingDrawn ==
  ASSUME NEW t, t.drawn = <<>>, t.left = {}
  PROVE  ChartsTell(t)
<1>1. IsSequence(<<>>) /\ Len(<<>>) = 0 /\ DOMAIN <<>> = {} /\ Len(Charts) \in Nat
  BY ChartsAssumption, SequenceFacts DEF IsSequence, ToSet
<1> QED
  BY <1>1 DEF ChartsTell

LEMMA ChartsInvEarly ==
  ASSUME ChartsInv, Working, kind = "cost", phase \in {"add queries", "collect"},
         phase' # "published", tally'.drawn = tally.drawn, tally'.left = tally.left
  PROVE  ChartsInv'
<1>1. tally.drawn = <<>> /\ ChartsTell(tally)
  BY Zenon DEF ChartsInv
<1>2. tally'.drawn = <<>> /\ tally'.left = {}
  BY <1>1, Zenon DEF ChartsTell
<1>3. ChartsTell(tally')
  BY <1>2, NothingDrawn, Zenon
<1> QED
  BY <1>1, <1>2, <1>3, Zenon DEF ChartsInv, ChartsTell

LEMMA ChartsInvBegins ==
  ASSUME GenerateCost, phase' # "crashed"
  PROVE  ChartsInv'
<1>1. phase' = "add queries" /\ tally' = ZeroCost
  BY DEF GenerateCost, Crash, Start
<1>2. tally'.drawn = <<>> /\ tally'.left = {}
  BY <1>1 DEF ZeroCost
<1>3. ChartsTell(tally')
  BY <1>2, NothingDrawn, Zenon
<1> QED
  BY <1>1, <1>2, <1>3, Zenon DEF ChartsInv, ChartsTell

(* What the cost report has collected, and what it has drawn of that.      *)
CostInv == AddInv /\ SeriesInv /\ ChartsInv

LEMMA CostInvInit == Init => CostInv
  BY DEF Init, CostInv, AddInv, SeriesInv, ChartsInv, Working

LEMMA CostInvNext == PairsInv /\ CostInv /\ [Next]_loopVars => CostInv'
<1> SUFFICES ASSUME PairsInv, CostInv, [Next]_loopVars, kind' = "cost", Working'
             PROVE  CostInv'
  BY DEF CostInv, AddInv, SeriesInv, ChartsInv
<1>1. kind = "cost" /\ PairsInv' /\ (CostNext \/ UNCHANGED loopVars)
  BY StepsOfKind, PairsInvNext
<1>2. AddInv /\ SeriesInv /\ ChartsInv
  BY DEF CostInv
<1>3. phase' # "crashed" /\ phase' # "generate"
  BY DEF Working
<1>4. CASE GenerateCost
  BY <1>1, <1>3, <1>4, AddInvBegins, SeriesInvBegins, ChartsInvBegins DEF CostInv
<1>5. Working => DOMAIN tally = CostFields
  BY <1>1, <1>2, Zenon DEF AddInv
<1>6. ASSUME Working, pairs' = pairs, tally' = tally, Entered' = Entered, Gathered' = Gathered,
             phase' = "add queries" => phase = "add queries" /\ pos' = pos
      PROVE  AddInv' /\ SeriesInv'
  BY <1>1, <1>2, <1>6, AddInvKept, SeriesInvKept
<1>7. CASE UNCHANGED loopVars
  <2>1. phase' = phase /\ pos' = pos /\ pairs' = pairs /\ tally' = tally
    BY <1>7 DEF loopVars
  <2>2. Working /\ Entered' = Entered /\ Gathered' = Gathered
    BY <1>3, <2>1, Zenon DEF Working, Entered, Gathered, Passed
  <2>3. ChartsInv'
    BY <1>1, <1>2, <2>1, <2>2, Zenon DEF ChartsInv, ChartsTell
  <2> QED
    BY <1>6, <2>1, <2>2, <2>3 DEF CostInv
<1>8. CASE AddPlan
  <2>1. /\ phase = "add queries" /\ phase' = phase /\ pairs' = pairs
        /\ tally'.series = tally.series /\ tally'.drawn = tally.drawn /\ tally'.left = tally.left
    <3>1. Turn("add queries") /\ \E ctx : /\ tally' = [tally EXCEPT !.ctx = ctx]
                                          /\ UNCHANGED <<kind, files, pairs, phase, pos>>
      BY <1>3, <1>8 DEF AddPlan, Crash
    <3>2. phase = "add queries" /\ Working
      BY <3>1 DEF Turn, Working
    <3> QED
      BY <1>5, <3>1, <3>2 DEF CostFields
  <2>2. Working /\ phase \in {"add queries", "collect"} /\ phase' # "published"
    BY <2>1 DEF Working
  <2>3. Gathered = {} /\ Gathered' = {}
    BY <2>1, CostPhases, CostPhasesNext, Zenon
  <2> QED
    BY <1>1, <1>2, <1>3, <1>8, <2>1, <2>2, <2>3, AddInvPlan, SeriesInvKept, ChartsInvEarly DEF CostInv
<1>9. CASE AddCostQuery
  <2>1. Turn("add queries") /\ \E query, pc, scans :
           Tallied([tally EXCEPT !.ctx = NewContext, !.query = query, !.pc = pc, !.scans = scans])
    BY <1>9 DEF AddCostQuery
  <2>2. phase = "add queries" /\ phase' = phase /\ pairs' = pairs
    BY <2>1 DEF Turn, Tallied
  <2>3. Working /\ phase \in {"add queries", "collect"} /\ phase' # "published"
    BY <2>2 DEF Working
  <2>4. tally'.series = tally.series /\ tally'.drawn = tally.drawn /\ tally'.left = tally.left
    BY <1>5, <2>1, <2>3 DEF CostFields, Tallied
  <2>5. Gathered = {} /\ Gathered' = {}
    BY <2>2, CostPhases, CostPhasesNext, Zenon
  <2> QED
    BY <1>1, <1>2, <1>9, <2>2, <2>3, <2>4, <2>5, AddInvQuery, SeriesInvKept, ChartsInvEarly DEF CostInv
<1>10. CASE Through("add queries", "collect")
  <2>1. /\ phase = "add queries" /\ phase' = "collect" /\ pos' = 1 /\ pairs' = pairs /\ tally' = tally
    BY <1>10 DEF Through
  <2>2. Working /\ phase \in {"add queries", "collect"} /\ phase' # "published"
    BY <2>1 DEF Working
  <2>3. Entered = DOMAIN pairs /\ Entered' = DOMAIN pairs
    <3>1. "add queries" \notin {} /\ "collect" \notin {} /\ "collect" # "add queries"
      OBVIOUS
    <3> QED
      BY <1>10, <3>1, PassedEnd, Zenon DEF Entered
  <2>4. Gathered = {} /\ Gathered' = {}
    BY <2>1, CostPhases, CostPhasesNext, Zenon
  <2> QED
    BY <1>1, <1>2, <1>6, <2>1, <2>2, <2>3, <2>4, ChartsInvEarly DEF CostInv
<1>11. CASE CollectPoints
  <2>1. Turn("collect") /\ \E new : /\ Tallied(new)
                                    /\ \/ new = tally
                                       \/ \E series : new = [tally EXCEPT !.series = series]
    BY <1>11 DEF CollectPoints
  <2>2. phase = "collect" /\ phase' = phase /\ pairs' = pairs
    BY <2>1 DEF Turn, Tallied
  <2>3. /\ Working /\ phase \in {"add queries", "collect"} /\ phase' # "published"
        /\ phase \notin {"add queries"} /\ phase' \notin {"add queries"}
    BY <2>2 DEF Working
  <2>4. /\ DOMAIN tally' = DOMAIN tally /\ tally'.ctx = tally.ctx /\ tally'.query = tally.query
        /\ tally'.pc = tally.pc /\ tally'.scans = tally.scans
        /\ tally'.drawn = tally.drawn /\ tally'.left = tally.left
    BY <1>5, <2>1, <2>3 DEF CostFields, Tallied
  <2>5. Entered' = Entered
    BY <2>2, <2>3, CostPhases, CostPhasesNext, Zenon
  <2>6. AddInv'
    BY <1>1, <1>2, <2>2, <2>3, <2>4, <2>5, AddInvKept
  <2> QED
    BY <1>1, <1>2, <1>11, <2>3, <2>4, <2>6, SeriesInvCollect, ChartsInvEarly DEF CostInv
<1>12. CASE Through("collect", "charts")
  <2>1. /\ phase = "collect" /\ phase' = "charts" /\ pairs' = pairs /\ tally' = tally
    BY <1>12 DEF Through
  <2>2. /\ Working /\ phase \in {"add queries", "collect"} /\ phase' # "published"
        /\ phase \notin {"add queries"} /\ phase' \notin {"add queries"}
    BY <2>1 DEF Working
  <2>3. Gathered = DOMAIN pairs /\ Gathered' = DOMAIN pairs
    <3>1. "collect" \notin {"add queries"} /\ "charts" \notin {"add queries"} /\ "charts" # "collect"
      OBVIOUS
    <3> QED
      BY <1>12, <3>1, PassedEnd, Zenon DEF Gathered
  <2>4. Entered' = Entered
    BY <2>1, <2>2, CostPhases, CostPhasesNext, Zenon
  <2> QED
    BY <1>1, <1>2, <1>6, <2>1, <2>2, <2>3, <2>4, ChartsInvEarly DEF CostInv
<1>13. ASSUME phase = "charts", phase' \in {"charts", "published"}, pairs' = pairs,
              DOMAIN tally' = DOMAIN tally, tally'.ctx = tally.ctx, tally'.query = tally.query,
              tally'.pc = tally.pc, tally'.scans = tally.scans, tally'.series = tally.series
       PROVE  AddInv' /\ SeriesInv' /\ Working
  <2>1. /\ Working /\ phase \notin {"add queries", "collect"} /\ phase' \notin {"add queries", "collect"}
        /\ phase \notin {"add queries"} /\ phase' \notin {"add queries"}
    BY <1>13 DEF Working
  <2>2. Entered' = Entered /\ Gathered' = Gathered
    BY <1>13, <2>1, CostPhases, CostPhasesNext, Zenon
  <2> QED
    BY <1>1, <1>2, <1>13, <2>1, <2>2, AddInvKept, SeriesInvKept
<1>14. phase = "charts" => Working
  BY DEF Working
<1>15. CASE DrawChart
  <2>1. /\ phase = "charts" /\ phase' = phase /\ pairs' = pairs /\ tally.left = {}
        /\ \E left, drawn : tally' = [tally EXCEPT !.left = left, !.drawn = drawn]
    BY <1>3, <1>15 DEF DrawChart, Crash
  <2>2. DOMAIN tally = CostFields
    BY <1>5, <1>14, <2>1
  <2>3. /\ DOMAIN tally' = DOMAIN tally /\ tally'.ctx = tally.ctx /\ tally'.query = tally.query
        /\ tally'.pc = tally.pc /\ tally'.scans = tally.scans /\ tally'.series = tally.series
    BY <2>1, <2>2 DEF CostFields
  <2>4. AddInv' /\ SeriesInv'
    BY <1>13, <2>1, <2>3
  <2>5. SeriesTell(tally, TextsOf(Gathered)) /\ ChartsTell(tally)
    BY <1>1, <1>2, <1>14, <2>1, Zenon DEF SeriesInv, ChartsInv
  <2>6. ChartsTell(tally')
    BY <1>3, <1>15, <2>1, <2>2, <2>5, ChartsMore
  <2>7. ChartsInv'
    <3>1. phase' \notin {"add queries", "collect"} /\ phase' # "published"
      BY <2>1
    <3> QED
      BY <2>6, <3>1, Zenon DEF ChartsInv, ChartsTell
  <2> QED
    BY <2>4, <2>7 DEF CostInv
<1>16. CASE RemoveOutlier
  <2>1. /\ phase = "charts" /\ phase' = phase /\ pairs' = pairs
        /\ \E left, drawn : tally' = [tally EXCEPT !.left = left, !.drawn = drawn]
    BY <1>16 DEF RemoveOutlier
  <2>2. DOMAIN tally = CostFields
    BY <1>5, <1>14, <2>1
  <2>3. /\ DOMAIN tally' = DOMAIN tally /\ tally'.ctx = tally.ctx /\ tally'.query = tally.query
        /\ tally'.pc = tally.pc /\ tally'.scans = tally.scans /\ tally'.series = tally.series
    BY <2>1, <2>2 DEF CostFields
  <2>4. AddInv' /\ SeriesInv'
    BY <1>13, <2>1, <2>3
  <2>5. ChartsTell(tally)
    BY <1>1, <1>2, <1>14, <2>1, Zenon DEF ChartsInv
  <2>6. ChartsTell(tally')
    BY <1>16, <2>2, <2>5, ChartsLess
  <2>7. ChartsInv'
    <3>1. phase' \notin {"add queries", "collect"} /\ phase' # "published"
      BY <2>1
    <3> QED
      BY <2>6, <3>1, Zenon DEF ChartsInv, ChartsTell
  <2> QED
    BY <2>4, <2>7 DEF CostInv
<1>17. CASE BuildCostReport
  <2>1. /\ phase = "charts" /\ tally.left = {} /\ Len(tally.drawn) = Len(Charts)
        /\ phase' = "published" /\ pairs' = pairs /\ tally' = tally
        /\ ~\E q \in {tally.query[h] : h \in DOMAIN tally.query} : q.plan = None \/ q.opts = None
    BY <1>3, <1>17 DEF BuildCostReport, Crash
  <2>2. AddInv' /\ SeriesInv'
    BY <1>13, <2>1
  <2>3. ChartsTell(tally)
    BY <1>1, <1>2, <1>14, <2>1, Zenon DEF ChartsInv
  <2>4. \A h \in DOMAIN tally.query : tally.query[h].plan # None /\ tally.query[h].opts # None
    BY <2>1
  <2>5. phase' \notin {"add queries", "collect"}
    BY <2>1
  <2>6. ChartsInv'
    BY <2>1, <2>3, <2>4, <2>5, Zenon DEF ChartsInv, ChartsTell
  <2> QED
    BY <2>2, <2>6 DEF CostInv
<1> QED
  BY <1>1, <1>4, <1>7, <1>8, <1>9, <1>10, <1>11, <1>12, <1>15, <1>16, <1>17, Zenon DEF CostNext

-----------------------------------------------------------------------------
(* What the report has of a text is that of the last query that has it.    *)
LEMMA LatestIs ==
  ASSUME PairsInv, NEW h, NEW n, LatestOf(h, DOMAIN pairs, n)
  PROVE  LastWith(h) = pairs[n][1]
<1> DEFINE P(m) == pairs[m][1].hash = h /\ \A j \in DOMAIN pairs : pairs[j][1].hash = h => j <= m
<1>1. DOMAIN pairs = 1..Len(pairs) /\ Len(pairs) \in Nat
  BY PositionFacts
<1>2. n \in DOMAIN pairs /\ P(n) /\ pairs[n][1].hash = h
  BY Zenon DEF LatestOf
<1>3. ASSUME NEW m \in DOMAIN pairs, P(m)
      PROVE  m = n
  <2>1. n <= m /\ m <= n
    BY <1>2, <1>3
  <2> QED
    BY <1>1, <1>2, <2>1
<1>4. LastWith(h) = pairs[CHOOSE m \in DOMAIN pairs : P(m)][1]
  BY DEF LastWith
<1> HIDE DEF P
<1>5. (CHOOSE m \in DOMAIN pairs : P(m)) = n
  BY <1>2, <1>3, Zenon
<1> QED
  BY <1>4, <1>5

LEMMA EntryOf ==
  ASSUME PairsInv, AddInv, Working, kind = "cost", phase # "add queries"
  PROVE  /\ DOMAIN tally.query = AddedTexts
         /\ \A h \in AddedTexts :
              /\ CostQuery(LastWith(h)) /\ tally.query[h] = LastWith(h)
              /\ PlansTell(LastWith(h), LastPlan(LastWith(h)) + 1, tally.pc[h], tally.scans[h])
         /\ \A q \in ToSet(files.yb) : CostQuery(q) /\ PlansRaiseNot(q, LastPlan(q) + 1)
<1>1. Entered = DOMAIN pairs
  <2>1. phase \notin {"add queries"}
    OBVIOUS
  <2> QED
    BY <2>1, CostPhases, PositionFacts, Zenon
<1>2. EntriesTell(tally, DOMAIN pairs)
  BY <1>1, Zenon DEF AddInv
<1>3. TextsOf(DOMAIN pairs) = AddedTexts
  BY DEF TextsOf, AddedTexts
<1>4. \A h, n : LatestOf(h, DOMAIN pairs, n) => n \in DOMAIN pairs /\ LastWith(h) = pairs[n][1]
  BY LatestIs, Zenon DEF LatestOf
<1>5. /\ \A n \in DOMAIN pairs : CostQuery(pairs[n][1])
      /\ \A q \in ToSet(files.yb) : \E n \in DOMAIN pairs : pairs[n][1] = q
  BY CostQueries
<1>6. \A h \in AddedTexts :
        /\ CostQuery(LastWith(h)) /\ tally.query[h] = LastWith(h)
        /\ PlansTell(LastWith(h), LastPlan(LastWith(h)) + 1, tally.pc[h], tally.scans[h])
  BY <1>2, <1>3, <1>4, <1>5, Zenon DEF EntriesTell
<1>7. \A q \in ToSet(files.yb) : CostQuery(q) /\ PlansRaiseNot(q, LastPlan(q) + 1)
  BY <1>2, <1>5, Zenon DEF EntriesTell
<1> QED
  BY <1>2, <1>3, <1>6, <1>7, Zenon DEF EntriesTell

(* All plans of a query, where all are added.                              *)
LEMMA AllPlansTold ==
  ASSUME NEW q, CostQuery(q), NEW scans, ScansTell(q, LastPlan(q) + 1, scans)
  PROVE  /\ IsSequence(scans) /\ IsInjective(scans)
         /\ \A s : s \in ToSet(scans) <=> \E kn \in RanIn(q) : s = ScanAt(q, kn)
<1>1. \A k \in Processed(q) : k < LastPlan(q) + 1
  BY ProcessedFacts
<1>2. \A kn \in RanIn(q) : kn[1] < LastPlan(q) + 1
  BY <1>1, RanFacts
<1>3. /\ IsSequence(scans) /\ IsInjective(scans)
      /\ \A s : s \in ToSet(scans) <=> \E kn \in RanIn(q) : kn[1] < LastPlan(q) + 1 /\ s = ScanAt(q, kn)
  BY ScansToldOf
<1> QED
  BY <1>2, <1>3, Zenon

LEMMA AllFlagsTold ==
  ASSUME NEW q, CostQuery(q), NEW merged, FlagsMerged(q, LastPlan(q) + 1, merged)
  PROVE  \A f : f \in merged <=> \E k \in Fixable(q) : f \in FlagsIn(q, k)
<1>1. \A k \in Fixable(q) : k < LastPlan(q) + 1
  BY ProcessedFacts DEF Fixable
<1>2. merged = UNION {FlagsIn(q, k) : k \in {j \in Fixable(q) : j < LastPlan(q) + 1}}
  BY DEF FlagsMerged
<1>3. {j \in Fixable(q) : j < LastPlan(q) + 1} = Fixable(q)
  BY <1>1
<1>4. merged = UNION {FlagsIn(q, k) : k \in Fixable(q)}
  BY <1>2, <1>3
<1> QED
  BY <1>4, Zenon

(* The scans that the charts have.                                         *)
LEMMA EachScanOnce ==
  ASSUME NEW q, NEW scans, \A s : s \in ToSet(scans) <=> \E kn \in RanIn(q) : s = ScanAt(q, kn)
  PROVE  {<<s.plan, s.at>> : s \in ToSet(scans)} = RanIn(q)
<1> DEFINE P == {<<s.plan, s.at>> : s \in ToSet(scans)}
           scan(kn) == ScanAt(q, kn)
<1>1. \A p : p \in P <=> \E s \in ToSet(scans) : p = <<s.plan, s.at>>
  BY Zenon
<1>2. \A kn : scan(kn).plan = kn[1] /\ scan(kn).at = kn[2]
  BY ScanFields
<1>3. \A s : s \in ToSet(scans) <=> \E kn \in RanIn(q) : s = scan(kn)
  OBVIOUS
<1>4. \A kn \in RanIn(q) : kn = <<kn[1], kn[2]>>
  BY RanFacts
<1> HIDE DEF P, scan
<1>5. \A p : p \in P <=> p \in RanIn(q)
  <2>1. ASSUME NEW p \in P
        PROVE  p \in RanIn(q)
    <3>1. PICK s \in ToSet(scans) : p = <<s.plan, s.at>>
      BY <1>1, <2>1
    <3>2. PICK kn \in RanIn(q) : s = scan(kn)
      BY <1>3, <3>1
    <3>3. p = kn
      BY <1>2, <1>4, <3>1, <3>2
    <3> QED
      BY <3>3
  <2>2. ASSUME NEW p \in RanIn(q)
        PROVE  p \in P
    <3>1. scan(p) \in ToSet(scans) /\ p = <<scan(p).plan, scan(p).at>>
      BY <1>2, <1>3, <1>4, <2>2
    <3> QED
      BY <1>1, <3>1
  <2> QED
    BY <2>1, <2>2
<1>6. P = RanIn(q)
  BY <1>5
<1> QED
  BY <1>6 DEF P

LEMMA ScansAreCharted == PairsInv /\ CostInv => ScansCharted
<1> SUFFICES ASSUME PairsInv, CostInv, CostPublished
             PROVE  ScansCharted
  BY DEF ScansCharted
<1>1. /\ phase = "published" /\ kind = "cost" /\ phase # "add queries"
      /\ phase \notin {"add queries", "collect"}
  BY DEF CostPublished
<1>2. Working /\ AddInv /\ SeriesInv /\ ChartsInv
  BY <1>1 DEF Working, CostInv
<1>3. ASSUME NEW h \in AddedTexts
      PROVE  /\ {<<s.plan, s.at>> : s \in ToSet(tally.scans[h])} = RanIn(LastWith(h))
             /\ IsInjective(tally.scans[h])
  <2>1. CostQuery(LastWith(h)) /\ ScansTell(LastWith(h), LastPlan(LastWith(h)) + 1, tally.scans[h])
    BY <1>1, <1>2, EntryOf, Zenon DEF PlansTell
  <2> QED
    BY <2>1, AllPlansTold, EachScanOnce
<1>4. SeriesTell(tally, AddedTexts)
  <2>1. Gathered = DOMAIN pairs
    BY <1>1, CostPhases, PositionFacts, Zenon
  <2>2. TextsOf(DOMAIN pairs) = AddedTexts
    BY DEF TextsOf, AddedTexts
  <2> QED
    BY <1>1, <1>2, <2>1, <2>2, Zenon DEF SeriesInv
<1>5. ChartsTell(tally) /\ tally.left = {} /\ Len(tally.drawn) = Len(Charts)
  BY <1>1, <1>2, Zenon DEF ChartsInv
<1>6. DOMAIN tally.drawn = DOMAIN Charts
  BY <1>5, ChartsAssumption, SequenceFacts DEF ChartsTell
<1>7. ASSUME NEW c \in DOMAIN Charts
      PROVE  /\ ToSet(tally.drawn[c].plotted) \cup ToSet(tally.drawn[c].outliers) = AllPoints(Charts[c])
             /\ ToSet(tally.drawn[c].plotted) \cap ToSet(tally.drawn[c].outliers) = {}
             /\ IsInjective(tally.drawn[c].plotted) /\ IsInjective(tally.drawn[c].outliers)
             /\ ToSet(tally.drawn[c].outliers) = tally.drawn[c].judged
  <2> DEFINE d == tally.drawn[c]
  <2>1. DrawnTells(d, {}, ToSet(tally.series[c]))
    BY <1>5, <1>6, Zenon DEF ChartsTell
  <2>2. ToSet(tally.series[c]) = AllPoints(Charts[c])
    <3>1. ToSet(tally.series[c]) = PointsWith(tally, AddedTexts, Charts[c])
      BY <1>4, Zenon DEF SeriesTell
    <3> QED
      BY <3>1 DEF PointsWith, AllPoints
  <2> HIDE DEF d
  <2>3. d.judged = ToSet(d.outliers) \cup {}
    <3>1. {d.plotted[n] : n \in {}} = {}
      OBVIOUS
    <3> QED
      BY <2>1, <3>1 DEF DrawnTells
  <2>4. /\ ToSet(d.plotted) \cup ToSet(d.outliers) = AllPoints(Charts[c])
        /\ ToSet(d.plotted) \cap ToSet(d.outliers) = {}
        /\ IsInjective(d.plotted) /\ IsInjective(d.outliers)
        /\ ToSet(d.outliers) = d.judged
    BY <2>1, <2>2, <2>3 DEF DrawnTells
  <2> QED
    BY <2>4 DEF d
<1> QED
  BY <1>3, <1>7, Zenon DEF ScansCharted

-----------------------------------------------------------------------------
(* What the classifiers of a plan say of its nodes.                        *)
LEMMA FlagMeans ==
  ASSUME NEW n
  PROVE  /\ "has_table_filter_seqscan" \in FlagsOf(n) <=> n.kind = "seq" /\ RemoteFilter(n)
         /\ "has_local_filter" \in FlagsOf(n) <=> LocalFilter(n)
         /\ "has_key_access_index" \in FlagsOf(n) <=> n.kind \in IndexScans /\ IndexCond(n)
         /\ "has_scan_filter_index" \in FlagsOf(n) <=> n.kind \in IndexScans /\ RemoteFilter(n)
         /\ "has_tfbr_filter_index" \in FlagsOf(n) <=> TfbrFilter(n)
         /\ \A f \in FlagsOf(n) : f \in {"has_join", "has_aggregate", "has_sort"} \cup Conditions
  BY DEF FlagsOf, Conditions, IndexFilters

LEMMA ConditionsOfScans ==
  ASSUME NEW n, NEW f \in Conditions, f \in FlagsOf(n)
  PROVE  n.kind \in Scans
<1>1. RemoteFilter(n) \/ LocalFilter(n) \/ IndexCond(n) \/ TfbrFilter(n)
  BY FlagMeans DEF Conditions, IndexFilters
<1>2. "secondary" \in Scans
  BY DEF Scans, IndexScans
<1>3. TfbrFilter(n) => n.kind \in Scans
  BY <1>2, Zenon DEF TfbrFilter
<1>4. RemoteFilter(n) \/ LocalFilter(n) \/ IndexCond(n) => n.kind \in Scans
  BY Zenon DEF RemoteFilter, LocalFilter, IndexCond
<1> QED
  BY <1>1, <1>3, <1>4

Bare(n) == ~RemoteFilter(n) /\ ~TfbrFilter(n) /\ ~LocalFilter(n)
Unconditional(n) == Bare(n) /\ ~(n.kind \in IndexScans /\ IndexCond(n))

LEMMA BareMeans ==
  /\ \A n : Bare(n) => \A f \in IndexFilters : f \notin FlagsOf(n)
  /\ \A n : Unconditional(n) => \A f \in Conditions : f \notin FlagsOf(n)
  /\ \A n : n.kind \in IndexScans /\ (\A f \in IndexFilters : f \notin FlagsOf(n)) => Bare(n)
<1>1. ASSUME NEW n, Bare(n)
      PROVE  \A f \in IndexFilters : f \notin FlagsOf(n)
  BY <1>1, FlagMeans DEF Bare, IndexFilters
<1>2. ASSUME NEW n, Unconditional(n)
      PROVE  \A f \in Conditions : f \notin FlagsOf(n)
  BY <1>2, FlagMeans DEF Unconditional, Bare, Conditions, IndexFilters
<1>3. ASSUME NEW n, n.kind \in IndexScans, \A f \in IndexFilters : f \notin FlagsOf(n)
      PROVE  Bare(n)
  BY <1>3, FlagMeans DEF Bare, IndexFilters
<1> QED
  BY <1>1, <1>2, <1>3, Zenon

LEMMA FlagsUpToMeans ==
  ASSUME NEW nodes, NEW last
  PROVE  \A f : f \in FlagsUpTo({}, nodes, last) <=>
                  \E m \in 1..last : Visited(nodes[m]) /\ f \in FlagsOf(nodes[m])
<1> DEFINE U == UNION {FlagsOf(nodes[m]) : m \in {k \in 1..last : Visited(nodes[k])}}
<1>1. \A f : f \in U <=> \E m \in 1..last : Visited(nodes[m]) /\ f \in FlagsOf(nodes[m])
  BY Zenon
<1>2. FlagsUpTo({}, nodes, last) = {} \cup U
  BY DEF FlagsUpTo, Enter
<1> HIDE DEF U
<1> QED
  BY <1>1, <1>2

LEMMA ClassifiedMeans ==
  ASSUME NEW nodes
  PROVE  LET flags == FlagsUpTo({}, nodes, Len(nodes))
         IN  /\ \A f \in Conditions : f \in Classified({}, nodes) <=> f \in flags
             /\ "has_no_filter_index" \in Classified({}, nodes) <=> NoFilterIndex({}, nodes)
             /\ (\A f \in Conditions : f \notin flags) => "has_no_condition_scan" \in Classified({}, nodes)
<1> DEFINE flags == FlagsUpTo({}, nodes, Len(nodes))
           single == IF Cardinality({n \in DOMAIN nodes : nodes[n].kind \in Scans}) = 1
                     THEN {"has_single_scan_node"} ELSE {}
           none == IF NoFilterIndex({}, nodes) THEN {"has_no_filter_index"} ELSE {}
           bare == IF flags \cap Conditions = {} THEN {"has_no_condition_scan"} ELSE {}
<1>1. Classified({}, nodes) = flags \cup none \cup single \cup bare
  BY DEF Classified
<1>2. \A f \in flags : f \in {"has_join", "has_aggregate", "has_sort"} \cup Conditions
  BY FlagsUpToMeans, FlagMeans, Zenon
<1>3. single \subseteq {"has_single_scan_node"}
  OBVIOUS
<1> HIDE DEF flags, single
<1>4. /\ "has_no_filter_index" \notin {"has_join", "has_aggregate", "has_sort"} \cup Conditions
      /\ \A f \in Conditions : f \notin {"has_single_scan_node", "has_no_filter_index", "has_no_condition_scan"}
  BY DEF Conditions, IndexFilters
<1>5. none = IF NoFilterIndex({}, nodes) THEN {"has_no_filter_index"} ELSE {}
  OBVIOUS
<1>6. bare = IF flags \cap Conditions = {} THEN {"has_no_condition_scan"} ELSE {}
  OBVIOUS
<1> HIDE DEF none, bare
<1>7. \A f \in Conditions : f \in Classified({}, nodes) <=> f \in flags
  BY <1>1, <1>3, <1>4, <1>5, <1>6
<1>8. "has_no_filter_index" \in Classified({}, nodes) <=> NoFilterIndex({}, nodes)
  BY <1>1, <1>2, <1>3, <1>4, <1>5, <1>6
<1>9. (\A f \in Conditions : f \notin flags) => "has_no_condition_scan" \in Classified({}, nodes)
  BY <1>1, <1>6
<1> QED
  BY <1>7, <1>8, <1>9 DEF flags

(* The nodes of a plan that are scans and were executed, and by them what  *)
(* its classifiers are.                                                    *)
RanNode(q, k, x) == \E n : RanAt(q, k, n) /\ x = Pieces[PlanOf(q, k)][n]

LEMMA FlagsOfPlan ==
  ASSUME NEW q, CostQuery(q), NEW k \in Fixable(q)
  PROVE  /\ \A f \in Conditions : f \in FlagsIn(q, k) <=> \E x : RanNode(q, k, x) /\ f \in FlagsOf(x)
         /\ "has_no_filter_index" \in FlagsIn(q, k) =>
              \E x : RanNode(q, k, x) /\ x.kind \in IndexScans /\ Bare(x)
         /\ (\E x : RanNode(q, k, x)) /\ (\A x : RanNode(q, k, x) => x.kind \in IndexScans /\ Bare(x)) =>
              "has_no_filter_index" \in FlagsIn(q, k)
         /\ (\A x : RanNode(q, k, x) => Unconditional(x)) => "has_no_condition_scan" \in FlagsIn(q, k)
<1> DEFINE nodes == ParsePlan(Pieces[PlanOf(q, k)])
           flags == FlagsUpTo({}, nodes, Len(nodes))
<1>1. PlanOf(q, k) \in DOMAIN Pieces /\ Repaired(PlanOf(q, k))
  BY ProcessedFacts DEF Fixable
<1>2. /\ Len(nodes) \in Nat /\ DOMAIN nodes = 1..Len(nodes)
      /\ \A n : n \in DOMAIN nodes <=> BeforeArrow(PlanOf(q, k), n)
      /\ \A n \in DOMAIN nodes : nodes[n] = Pieces[PlanOf(q, k)][n]
  BY <1>1, ParsedFacts
<1>3. FlagsIn(q, k) = Classified({}, nodes)
  BY DEF FlagsIn
<1> HIDE DEF nodes
<1>4. \A n : RanAt(q, k, n) <=> n \in DOMAIN nodes /\ nodes[n].kind \in Scans /\ nodes[n].ran
  BY <1>1, <1>2, Zenon DEF RanAt
<1>5. \A x : RanNode(q, k, x) <=>
               \E n \in DOMAIN nodes : nodes[n].kind \in Scans /\ nodes[n].ran /\ x = nodes[n]
  BY <1>2, <1>4, Zenon DEF RanNode
<1>6. \A n \in DOMAIN nodes : nodes[n].kind \in Scans /\ Visited(nodes[n]) <=> RanAt(q, k, n)
  BY <1>4, Zenon DEF Visited
<1>7. \A f : f \in flags <=> \E m \in DOMAIN nodes : Visited(nodes[m]) /\ f \in FlagsOf(nodes[m])
  BY <1>2, FlagsUpToMeans, Zenon
<1>8. /\ \A f \in Conditions : f \in FlagsIn(q, k) <=> f \in flags
      /\ "has_no_filter_index" \in FlagsIn(q, k) <=> NoFilterIndex({}, nodes)
      /\ (\A f \in Conditions : f \notin flags) => "has_no_condition_scan" \in FlagsIn(q, k)
  BY <1>3, ClassifiedMeans
<1> HIDE DEF flags
<1>9. \A n \in DOMAIN nodes : \A f \in Conditions :
        f \in FlagsOf(nodes[n]) => nodes[n].kind \in Scans
  BY ConditionsOfScans, Zenon
<1>10. \A f \in Conditions : f \in flags <=> \E x : RanNode(q, k, x) /\ f \in FlagsOf(x)
  <2>1. ASSUME NEW f \in Conditions, NEW m \in DOMAIN nodes, Visited(nodes[m]), f \in FlagsOf(nodes[m])
        PROVE  RanNode(q, k, nodes[m])
    <3>1. nodes[m].kind \in Scans
      BY <1>9, <2>1, Zenon
    <3> QED
      BY <1>5, <2>1, <3>1, Zenon DEF Visited
  <2>2. ASSUME NEW x, RanNode(q, k, x)
        PROVE  \E m \in DOMAIN nodes : Visited(nodes[m]) /\ x = nodes[m]
    BY <1>5, <2>2, Zenon DEF Visited
  <2> QED
    BY <1>7, <2>1, <2>2, Zenon
<1>11. \A n \in DOMAIN nodes : nodes[n].kind \in IndexScans /\ Visited(nodes[n]) => RanNode(q, k, nodes[n])
  <2>1. \A kd \in IndexScans : kd \in Scans
    BY Zenon DEF Scans
  <2> QED
    BY <1>5, <2>1, Zenon DEF Visited
<1>12. \A f \in IndexFilters : f \in Conditions
  BY DEF Conditions
<1>13. ASSUME NEW n \in DOMAIN nodes
       PROVE  FlagsUpTo({}, nodes, n) \cap IndexFilters = {} <=>
                \A f \in IndexFilters : \A m \in 1..n : Visited(nodes[m]) => f \notin FlagsOf(nodes[m])
  <2> DEFINE F == FlagsUpTo({}, nodes, n)
  <2>1. \A f : f \in F <=> \E m \in 1..n : Visited(nodes[m]) /\ f \in FlagsOf(nodes[m])
    BY FlagsUpToMeans
  <2> HIDE DEF F
  <2>2. F \cap IndexFilters = {} <=> \A f \in IndexFilters : f \notin F
    OBVIOUS
  <2>3. F \cap IndexFilters = {} <=>
                \A f \in IndexFilters : \A m \in 1..n : Visited(nodes[m]) => f \notin FlagsOf(nodes[m])
    BY <2>1, <2>2, Zenon
  <2> QED
    BY <2>3 DEF F
<1>14. \A n \in DOMAIN nodes : n \in 1..n /\ \A m \in 1..n : m \in DOMAIN nodes
  BY <1>2
<1>15. NoFilterIndex({}, nodes) => \E x : RanNode(q, k, x) /\ x.kind \in IndexScans /\ Bare(x)
  <2> SUFFICES ASSUME NEW n \in DOMAIN nodes, nodes[n].kind \in IndexScans, Visited(nodes[n]),
                      FlagsUpTo({}, nodes, n) \cap IndexFilters = {}
               PROVE  RanNode(q, k, nodes[n]) /\ Bare(nodes[n])
    BY Zenon DEF NoFilterIndex
  <2>1. \A f \in IndexFilters : f \notin FlagsOf(nodes[n])
    BY <1>13, <1>14, Zenon
  <2> QED
    BY <1>11, <2>1, BareMeans, Zenon
<1>16. ASSUME \E x : RanNode(q, k, x), \A x : RanNode(q, k, x) => x.kind \in IndexScans /\ Bare(x)
       PROVE  NoFilterIndex({}, nodes)
  <2>1. PICK n \in DOMAIN nodes : nodes[n].kind \in Scans /\ nodes[n].ran /\ RanNode(q, k, nodes[n])
    BY <1>5, <1>16, Zenon
  <2>2. ASSUME NEW f \in IndexFilters, NEW m \in 1..n, Visited(nodes[m])
        PROVE  f \notin FlagsOf(nodes[m])
    <3>1. m \in DOMAIN nodes
      BY <1>14, Zenon
    <3>2. f \in FlagsOf(nodes[m]) => RanNode(q, k, nodes[m])
      BY <1>5, <1>9, <1>12, <2>2, <3>1, Zenon DEF Visited
    <3>3. f \in FlagsOf(nodes[m]) => ~Bare(nodes[m])
      BY BareMeans, Zenon
    <3> QED
      BY <1>16, <3>2, <3>3, Zenon
  <2>3. FlagsUpTo({}, nodes, n) \cap IndexFilters = {}
    BY <1>13, <2>2, Zenon
  <2>4. nodes[n].kind \in IndexScans /\ Visited(nodes[n])
    BY <1>16, <2>1, Zenon DEF Visited
  <2> QED
    BY <2>3, <2>4, Zenon DEF NoFilterIndex
<1>17. ASSUME \A x : RanNode(q, k, x) => Unconditional(x)
       PROVE  "has_no_condition_scan" \in FlagsIn(q, k)
  <2>1. \A f \in Conditions : f \notin flags
    BY <1>10, <1>17, BareMeans, Zenon
  <2> QED
    BY <1>8, <2>1
<1> QED
  BY <1>8, <1>10, <1>15, <1>16, <1>17, Zenon

LEMMA FlagsDoTell == PairsInv /\ CostInv => FlagsTell
<1> SUFFICES ASSUME PairsInv, CostInv, CostPublished
             PROVE  FlagsTell
  BY DEF FlagsTell
<1>1. Working /\ AddInv /\ kind = "cost" /\ phase # "add queries"
  BY DEF CostPublished, Working, CostInv
<1> DEFINE Nodes(h, k) == {Pieces[PlanOf(LastWith(h), k)][n] :
                             n \in {s.at : s \in {t \in ToSet(tally.scans[h]) : t.plan = k}}}
           used(h) == {k \in Processed(LastWith(h)) : Nodes(h, k) # {}}
           says(h) == tally.pc[h]
<1>2. ASSUME NEW h \in AddedTexts
      PROVE  LET q == LastWith(h)
             IN  /\ \A k \in Processed(q) : \A x : x \in Nodes(h, k) <=> RanNode(q, k, x)
                 /\ \A k : k \in used(h) <=> k \in Processed(q) /\ \E x : RanNode(q, k, x)
                 /\ \A f : f \in says(h) <=> \E k \in Fixable(q) : f \in FlagsIn(q, k)
                 /\ CostQuery(q)
  <2> DEFINE q == LastWith(h)
             scans == tally.scans[h]
             scan(kn) == ScanAt(q, kn)
  <2>1. /\ CostQuery(q) /\ ScansTell(q, LastPlan(q) + 1, scans)
        /\ FlagsMerged(q, LastPlan(q) + 1, says(h))
    BY <1>1, EntryOf, Zenon DEF PlansTell
  <2>2. \A f : f \in says(h) <=> \E k \in Fixable(q) : f \in FlagsIn(q, k)
    BY <2>1, AllFlagsTold
  <2>3. \A s : s \in ToSet(scans) <=> \E kn \in RanIn(q) : s = scan(kn)
    BY <2>1, AllPlansTold
  <2>4. \A kn : scan(kn).plan = kn[1] /\ scan(kn).at = kn[2]
    BY ScanFields
  <2> HIDE DEF scan
  <2>5. /\ \A k, n : <<k, n>> \in RanIn(q) <=> k \in Processed(q) /\ RanAt(q, k, n)
        /\ \A kn \in RanIn(q) : kn = <<kn[1], kn[2]>>
    BY RanFacts
  <2>6. \A k, x : x \in Nodes(h, k) <=>
          \E s \in ToSet(scans) : s.plan = k /\ x = Pieces[PlanOf(q, k)][s.at]
    BY Zenon
  <2> HIDE DEF q, scans, Nodes, used
  <2>7. ASSUME NEW k \in Processed(q), NEW x
        PROVE  x \in Nodes(h, k) <=> RanNode(q, k, x)
    <3>1. ASSUME NEW s \in ToSet(scans), s.plan = k, x = Pieces[PlanOf(q, k)][s.at]
          PROVE  RanNode(q, k, x)
      <4>1. PICK kn \in RanIn(q) : s = scan(kn)
        BY <2>3, <3>1
      <4>2. kn = <<k, s.at>>
        BY <2>4, <2>5, <3>1, <4>1
      <4>3. RanAt(q, k, s.at)
        BY <2>5, <4>1, <4>2
      <4> QED
        BY <3>1, <4>3, Zenon DEF RanNode
    <3>2. ASSUME NEW n, RanAt(q, k, n), x = Pieces[PlanOf(q, k)][n]
          PROVE  \E s \in ToSet(scans) : s.plan = k /\ x = Pieces[PlanOf(q, k)][s.at]
      <4>1. <<k, n>> \in RanIn(q) /\ <<k, n>>[1] = k /\ <<k, n>>[2] = n
        BY <2>5, <3>2
      <4>2. scan(<<k, n>>) \in ToSet(scans) /\ scan(<<k, n>>).plan = k /\ scan(<<k, n>>).at = n
        BY <2>3, <2>4, <4>1, Zenon
      <4> QED
        BY <3>2, <4>2, Zenon
    <3>3. RanNode(q, k, x) <=> \E n : RanAt(q, k, n) /\ x = Pieces[PlanOf(q, k)][n]
      BY Zenon DEF RanNode
    <3>4. x \in Nodes(h, k) <=> \E s \in ToSet(scans) : s.plan = k /\ x = Pieces[PlanOf(q, k)][s.at]
      BY <2>6
    <3> HIDE DEF RanNode
    <3>5. x \in Nodes(h, k) => RanNode(q, k, x)
      BY <3>1, <3>4, Zenon
    <3>6. RanNode(q, k, x) => x \in Nodes(h, k)
      BY <3>2, <3>3, <3>4, Zenon
    <3> QED
      BY <3>5, <3>6
  <2>8. \A k : k \in used(h) <=> k \in Processed(q) /\ \E x : RanNode(q, k, x)
    <3>1. \A k : k \in used(h) <=> k \in Processed(q) /\ Nodes(h, k) # {}
      BY DEF used, q
    <3>2. \A k : Nodes(h, k) # {} <=> \E x : x \in Nodes(h, k)
      OBVIOUS
    <3> QED
      BY <2>7, <3>1, <3>2, Zenon
  <2> QED
    BY <2>1, <2>2, <2>7, <2>8, Zenon DEF q
<1> HIDE DEF Nodes, used, says
<1>3. ASSUME NEW h \in AddedTexts, NEW k \in used(h)
      PROVE  k \in Fixable(LastWith(h))
  <2> DEFINE q == LastWith(h)
  <2>1. k \in Processed(q) /\ CostQuery(q) /\ \E x : RanNode(q, k, x)
    BY <1>2, Zenon
  <2> HIDE DEF q
  <2>2. PICK n : RanAt(q, k, n)
    BY <2>1, Zenon DEF RanNode
  <2>3. BeforeArrow(PlanOf(q, k), n) /\ Repaired(PlanOf(q, k)) /\ PlanOf(q, k) \in DOMAIN Pieces
    BY <2>1, <2>2, ProcessedFacts, Zenon DEF RanAt
  <2>4. BeforeArrow(PlanOf(q, k), 1)
    <3> DEFINE p == Pieces[PlanOf(q, k)]
    <3>1. IsSequence(p)
      BY <2>3, PiecesAssumption DEF IsSequence
    <3> HIDE DEF p
    <3>2. Len(p) \in Nat /\ DOMAIN p = 1..Len(p)
      BY <3>1, SequenceFacts
    <3>3. n \in DOMAIN p /\ \A m \in 1..n : p[m].header
      BY <2>3, Zenon DEF BeforeArrow, p
    <3>4. 1 \in DOMAIN p /\ \A m \in 1..1 : m \in 1..n
      BY <3>2, <3>3
    <3> QED
      BY <3>3, <3>4, Zenon DEF BeforeArrow, p
  <2> QED
    BY <2>1, <2>3, <2>4 DEF Fixable, q
<1>4. ASSUME NEW h \in AddedTexts
      PROVE  /\ \A f \in Conditions :
                  f \in says(h) <=> \E k \in used(h) : \E n \in Nodes(h, k) : f \in FlagsOf(n)
             /\ "has_no_filter_index" \in says(h) =>
                  \E k \in used(h) : \E n \in Nodes(h, k) : n.kind \in IndexScans /\ Bare(n)
             /\ (\E k \in used(h) : \A n \in Nodes(h, k) : n.kind \in IndexScans /\ Bare(n)) =>
                  "has_no_filter_index" \in says(h)
             /\ (\E k \in used(h) : \A n \in Nodes(h, k) : Unconditional(n)) =>
                  "has_no_condition_scan" \in says(h)
  <2> DEFINE q == LastWith(h)
  <2>1. /\ \A k \in Processed(q) : \A x : x \in Nodes(h, k) <=> RanNode(q, k, x)
        /\ \A k : k \in used(h) <=> k \in Processed(q) /\ \E x : RanNode(q, k, x)
        /\ \A f : f \in says(h) <=> \E k \in Fixable(q) : f \in FlagsIn(q, k)
        /\ CostQuery(q)
    BY <1>2, Zenon
  <2>2. \A k \in used(h) : k \in Fixable(q)
    BY <1>3
  <2>3. \A k \in Fixable(q) : k \in Processed(q)
    BY DEF Fixable
  <2> HIDE DEF q
  <2>4. \A k \in Fixable(q) :
         /\ \A f \in Conditions : f \in FlagsIn(q, k) <=> \E x : RanNode(q, k, x) /\ f \in FlagsOf(x)
         /\ "has_no_filter_index" \in FlagsIn(q, k) =>
              \E x : RanNode(q, k, x) /\ x.kind \in IndexScans /\ Bare(x)
         /\ (\E x : RanNode(q, k, x)) /\ (\A x : RanNode(q, k, x) => x.kind \in IndexScans /\ Bare(x)) =>
              "has_no_filter_index" \in FlagsIn(q, k)
         /\ (\A x : RanNode(q, k, x) => Unconditional(x)) => "has_no_condition_scan" \in FlagsIn(q, k)
    BY <2>1, FlagsOfPlan, Zenon
  <2>5. \A f \in Conditions :
          f \in says(h) <=> \E k \in used(h) : \E n \in Nodes(h, k) : f \in FlagsOf(n)
    BY <2>1, <2>2, <2>3, <2>4, Zenon
  <2>6. "has_no_filter_index" \in says(h) =>
          \E k \in used(h) : \E n \in Nodes(h, k) : n.kind \in IndexScans /\ Bare(n)
    BY <2>1, <2>3, <2>4, Zenon
  <2>7. (\E k \in used(h) : \A n \in Nodes(h, k) : n.kind \in IndexScans /\ Bare(n)) =>
          "has_no_filter_index" \in says(h)
    BY <2>1, <2>2, <2>3, <2>4, Zenon
  <2>8. (\E k \in used(h) : \A n \in Nodes(h, k) : Unconditional(n)) =>
          "has_no_condition_scan" \in says(h)
    BY <2>1, <2>2, <2>3, <2>4, Zenon
  <2> QED
    BY <2>5, <2>6, <2>7, <2>8
<1> QED
  BY <1>4, Zenon DEF FlagsTell, Nodes, used, says, Bare, Unconditional

-----------------------------------------------------------------------------
(* What stops the cost report.                                             *)
LEMMA CostObstacleKept ==
  ASSUME kind' = kind, files' = files, pairs' = pairs
  PROVE  Obstacle' <=> Obstacle
<1>1. Given' = Given /\ Results' = Results
  BY Zenon DEF Given, Results
<1>2. AddedTexts' = AddedTexts /\ \A h : LastWith(h)' = LastWith(h)
  BY Zenon DEF AddedTexts, LastWith
<1>3. CostObstacle' <=> CostObstacle
  BY <1>2, Zenon DEF CostObstacle
<1> QED
  BY <1>1, <1>3, Zenon DEF Obstacle

(* A point timed at zero is that of a scan timed at zero, and the reverse. *)
InstantIn(h, chart) ==
  \E kn \in RanIn(LastWith(h)) :
    LET node == Pieces[PlanOf(LastWith(h), kn[1])][kn[2]]
    IN  node.kind = chart.kind /\ node.ms = 0

LEMMA InstantPoints ==
  ASSUME PairsInv, CostInv, Working, kind = "cost", phase # "add queries", phase \notin {"add queries", "collect"},
         NEW c \in DOMAIN Charts
  PROVE  NotInstant(ToSet(tally.series[c])) <=> \A h \in AddedTexts : ~InstantIn(h, Charts[c])
<1>1. SeriesTell(tally, AddedTexts)
  <2>1. Gathered = DOMAIN pairs
    BY CostPhases, PositionFacts, Zenon
  <2>2. TextsOf(DOMAIN pairs) = AddedTexts
    BY DEF TextsOf, AddedTexts
  <2> QED
    BY <2>1, <2>2, Zenon DEF SeriesInv, CostInv
<1>2. \A p : p \in ToSet(tally.series[c]) <=> \E h \in AddedTexts : IsPoint(p, tally, h, Charts[c])
  BY <1>1, SeriesTold, Zenon
<1> DEFINE scan(h, kn) == ScanAt(LastWith(h), kn)
           node(h, kn) == Pieces[PlanOf(LastWith(h), kn[1])][kn[2]]
<1>3. ASSUME NEW h \in AddedTexts
      PROVE  \A s : s \in ToSet(tally.scans[h]) <=> \E kn \in RanIn(LastWith(h)) : s = scan(h, kn)
  <2> DEFINE q == LastWith(h)
  <2>1. CostQuery(q) /\ ScansTell(q, LastPlan(q) + 1, tally.scans[h])
    BY EntryOf, Zenon DEF PlansTell, CostInv
  <2> HIDE DEF q
  <2>2. \A s : s \in ToSet(tally.scans[h]) <=> \E kn \in RanIn(q) : s = ScanAt(q, kn)
    BY <2>1, AllPlansTold
  <2> QED
    BY <2>2, Zenon DEF q
<1>4. \A h, kn : scan(h, kn).kind = node(h, kn).kind /\ scan(h, kn).ms = node(h, kn).ms
  BY DEF ScanAt, Scan
<1>5. \A h : InstantIn(h, Charts[c]) <=>
               \E kn \in RanIn(LastWith(h)) : node(h, kn).kind = Charts[c].kind /\ node(h, kn).ms = 0
  BY Zenon DEF InstantIn
<1>6. \A p, h, chart : IsPoint(p, tally, h, chart) <=>
                         \E s \in ToSet(tally.scans[h]) : s.kind = chart.kind /\ p = [text |-> h, scan |-> s]
  BY Zenon DEF IsPoint
<1> DEFINE series == ToSet(tally.series[c])
<1> HIDE DEF scan, node, series
<1>7. ASSUME NEW h \in AddedTexts, InstantIn(h, Charts[c])
      PROVE  ~NotInstant(series)
  <2>1. PICK kn \in RanIn(LastWith(h)) : node(h, kn).kind = Charts[c].kind /\ node(h, kn).ms = 0
    BY <1>5, <1>7, Zenon
  <2> DEFINE p == [text |-> h, scan |-> scan(h, kn)]
  <2>2. scan(h, kn).kind = Charts[c].kind /\ scan(h, kn).ms = 0
    BY <1>4, <2>1
  <2>3. p \in series
    BY <1>2, <1>3, <1>6, <2>2, Zenon DEF series
  <2>4. p.scan.ms = 0
    BY <2>2
  <2> HIDE DEF p
  <2> QED
    BY <2>3, <2>4 DEF NotInstant
<1>8. ASSUME ~NotInstant(series)
      PROVE  \E h \in AddedTexts : InstantIn(h, Charts[c])
  <2>1. PICK p \in series : p.scan.ms = 0
    BY <1>8 DEF NotInstant
  <2>2. PICK h \in AddedTexts : IsPoint(p, tally, h, Charts[c])
    BY <1>2, <2>1, Zenon DEF series
  <2>3. PICK s \in ToSet(tally.scans[h]) : s.kind = Charts[c].kind /\ p = [text |-> h, scan |-> s]
    BY <2>2, Zenon DEF IsPoint
  <2>4. s.ms = 0
    BY <2>1, <2>3
  <2>5. PICK kn \in RanIn(LastWith(h)) : s = scan(h, kn)
    BY <1>3, <2>3, Zenon
  <2> QED
    BY <1>4, <1>5, <2>3, <2>4, <2>5, Zenon
<1> QED
  BY <1>7, <1>8, Zenon DEF series

LEMMA CostUnobstructed == PairsInv /\ CostInv /\ CostPublished => ~Obstacle
<1> SUFFICES ASSUME PairsInv, CostInv, CostPublished
             PROVE  ~Obstacle
  OBVIOUS
<1>1. /\ phase = "published" /\ kind = "cost" /\ phase # "add queries"
      /\ phase \notin {"add queries", "collect"} /\ Working
  BY DEF CostPublished, Working
<1>2. AddInv /\ ChartsInv
  BY DEF CostInv
<1>3. \A f \in DOMAIN Given : Readable(Given[f])
  <2>1. Given = <<files.yb>> /\ Readable(files.yb)
    BY <1>1 DEF Given, PairsInv, LoopInv, Generated
  <2> QED
    BY <2>1
<1>4. ASSUME NEW q \in ToSet(files.yb)
      PROVE  /\ \A k \in Processed(q) : BeforeArrow(PlanOf(q, k), 1)
             /\ \A kn \in RanIn(q) : Pieces[PlanOf(q, kn[1])][kn[2]].kind # "other"
  <2>1. CostQuery(q) /\ PlansRaiseNot(q, LastPlan(q) + 1)
    BY <1>1, <1>2, EntryOf, Zenon
  <2>2. \A k \in Processed(q) : k < LastPlan(q) + 1
    BY <2>1, ProcessedFacts
  <2>3. \A kn \in RanIn(q) : kn[1] < LastPlan(q) + 1
    BY <2>2, RanFacts
  <2> QED
    BY <2>1, <2>2, <2>3, Zenon DEF PlansRaiseNot
<1>5. \A h \in AddedTexts : LastWith(h).plan # None /\ LastWith(h).opts # None
  <2>1. DOMAIN tally.query = AddedTexts /\ \A h \in AddedTexts : tally.query[h] = LastWith(h)
    BY <1>1, <1>2, EntryOf, Zenon
  <2>2. \A h \in DOMAIN tally.query : tally.query[h].plan # None /\ tally.query[h].opts # None
    BY <1>1, <1>2, Zenon DEF ChartsInv
  <2> QED
    BY <2>1, <2>2, Zenon
<1>6. ASSUME NEW c \in ToSet(Charts), ~c.box, NEW h \in AddedTexts
      PROVE  ~InstantIn(h, c)
  <2>1. PICK i \in DOMAIN Charts : c = Charts[i]
    BY DEF ToSet
  <2>2. ChartsTell(tally) /\ Len(tally.drawn) = Len(Charts)
    BY <1>1, <1>2, Zenon DEF ChartsInv
  <2>3. DOMAIN tally.drawn = DOMAIN Charts
    BY <2>2, ChartsAssumption, SequenceFacts DEF ChartsTell
  <2>4. NotInstant(ToSet(tally.series[i]))
    BY <1>6, <2>1, <2>2, <2>3, Zenon DEF ChartsTell
  <2> QED
    BY <1>1, <2>1, <2>4, InstantPoints, Zenon
<1>7. ~CostObstacle
  BY <1>4, <1>5, <1>6, Zenon DEF CostObstacle, InstantIn
<1> QED
  BY <1>1, <1>3, <1>7, Zenon DEF Obstacle

(* ... and nothing else does.                                              *)
CostRead == phase = "crashed" /\ kind = "cost" => Obstacle

LEMMA PlanStops ==
  ASSUME NEW q \in ToSet(files.yb), CostQuery(q), NEW k \in Processed(q), kind = "cost",
         Raises(ParsePlan(Pieces[PlanOf(q, k)]))
  PROVE  Obstacle
<1> DEFINE nodes == ParsePlan(Pieces[PlanOf(q, k)])
<1>1. PlanOf(q, k) \in DOMAIN Pieces
  BY ProcessedFacts
<1>2. nodes = <<>> <=> ~BeforeArrow(PlanOf(q, k), 1)
  BY <1>1, ParsedFacts
<1>3. CASE nodes = <<>>
  <2>1. CostObstacle
    BY <1>2, <1>3, Zenon DEF CostObstacle
  <2> QED
    BY <2>1, Zenon DEF Obstacle
<1>4. CASE nodes # <<>>
  <2>1. BeforeArrow(PlanOf(q, k), 1)
    BY <1>2, <1>4
  <2>2. ~Unfixable(nodes) /\ \E n \in RanScans(nodes) : nodes[n].kind = "other"
    BY <1>4, Zenon DEF Raises
  <2>3. Repaired(PlanOf(q, k))
    BY <1>1, <2>1, <2>2, RepairedFacts
  <2>4. /\ \A n : n \in RanScans(nodes) <=> RanAt(q, k, n)
        /\ \A n \in RanScans(nodes) : nodes[n] = Pieces[PlanOf(q, k)][n]
    BY <2>1, <2>3, ScansOfFacts
  <2> HIDE DEF nodes
  <2>5. PICK n : RanAt(q, k, n) /\ Pieces[PlanOf(q, k)][n].kind = "other"
    BY <2>2, <2>4
  <2>6. <<k, n>> \in RanIn(q) /\ <<k, n>>[1] = k /\ <<k, n>>[2] = n
    BY <2>5, RanFacts
  <2>7. CostObstacle
    BY <2>5, <2>6, Zenon DEF CostObstacle
  <2> QED
    BY <2>7, Zenon DEF Obstacle
<1> QED
  BY <1>3, <1>4

LEMMA CostReadNext == PairsInv /\ CostInv /\ CostRead /\ [Next]_loopVars => CostRead'
<1> SUFFICES ASSUME PairsInv, CostInv, CostRead, [Next]_loopVars, kind' = "cost", phase' = "crashed"
             PROVE  Obstacle'
  BY DEF CostRead
<1>1. kind = "cost" /\ kind' = kind /\ files' = files /\ (CostNext \/ UNCHANGED loopVars)
  BY StepsOfKind
<1>2. ASSUME pairs' = pairs, Obstacle
      PROVE  Obstacle'
  BY <1>1, <1>2, CostObstacleKept
<1>3. AddInv /\ ChartsInv
  BY DEF CostInv
<1>4. CASE UNCHANGED loopVars
  BY <1>1, <1>2, <1>4 DEF loopVars, CostRead
<1>5. CASE GenerateCost
  <2>1. ~Readable(files.yb) /\ pairs' = pairs
    BY <1>5 DEF GenerateCost, Crash, Start
  <2>2. \E f \in DOMAIN Given : ~Readable(Given[f])
    <3>1. Given = <<files.yb>>
      BY <1>1 DEF Given
    <3> QED
      BY <2>1, <3>1
  <2> QED
    BY <1>2, <2>1, <2>2, Zenon DEF Obstacle
<1>6. CASE AddPlan
  <2> DEFINE q == pairs[pos][1]
             k == tally.ctx.at
  <2>1. /\ phase = "add queries" /\ pos <= Len(pairs) /\ pairs' = pairs
        /\ k \in Processed(q) /\ Raises(ParsePlan(Pieces[PlanOf(q, k)]))
    BY <1>6 DEF AddPlan, Crash, Turn
  <2>2. Working /\ pos \in DOMAIN pairs
    <3>1. Working
      BY <2>1 DEF Working
    <3>2. pos <= Len(pairs)
      BY <2>1
    <3>3. pos \in DOMAIN pairs
      BY <3>2, PositionFacts
    <3> QED
      BY <3>1, <3>3
  <2>3. CostQuery(q) /\ q \in ToSet(files.yb)
    BY <1>1, <2>2, CostQueries
  <2> HIDE DEF q, k
  <2> QED
    BY <1>1, <1>2, <2>1, <2>3, PlanStops
<1>7. CASE AddCostQuery \/ CollectPoints
  BY <1>7 DEF AddCostQuery, CollectPoints, Turn, Tallied
<1>8. CASE Through("add queries", "collect") \/ Through("collect", "charts")
  BY <1>8 DEF Through
<1>9. CASE RemoveOutlier
  BY <1>9 DEF RemoveOutlier
<1>10. phase = "charts" => /\ Working /\ phase # "add queries" /\ phase \notin {"add queries", "collect"}
  BY DEF Working
<1>11. CASE DrawChart
  <2> DEFINE c == Len(tally.drawn) + 1
  <2>1. /\ phase = "charts" /\ pairs' = pairs /\ Len(tally.drawn) < Len(Charts)
        /\ ~Charts[c].box /\ \E n \in DOMAIN tally.series[c] : tally.series[c][n].scan.ms = 0
    BY <1>11 DEF DrawChart, Crash
  <2>2. c \in DOMAIN Charts
    <3>1. IsSequence(tally.drawn) /\ IsSequence(Charts)
      BY <1>1, <1>3, <1>10, <2>1, ChartsAssumption, Zenon DEF ChartsInv, ChartsTell
    <3>2. /\ Len(tally.drawn) \in Nat /\ Len(Charts) \in Nat /\ DOMAIN Charts = 1..Len(Charts)
      BY <3>1, SequenceFacts
    <3>3. Len(tally.drawn) < Len(Charts)
      BY <2>1
    <3> QED
      BY <3>2, <3>3
  <2> HIDE DEF c
  <2>3. ~NotInstant(ToSet(tally.series[c]))
    BY <2>1 DEF NotInstant, ToSet
  <2>4. \E h \in AddedTexts : InstantIn(h, Charts[c])
    BY <1>1, <1>10, <2>1, <2>2, <2>3, InstantPoints, Zenon
  <2>5. Charts[c] \in ToSet(Charts)
    BY <2>2 DEF ToSet
  <2>6. CostObstacle
    BY <2>1, <2>4, <2>5, Zenon DEF CostObstacle, InstantIn
  <2> QED
    BY <1>1, <1>2, <2>1, <2>6, Zenon DEF Obstacle
<1>12. CASE BuildCostReport
  <2>1. /\ phase = "charts" /\ pairs' = pairs
        /\ \E h \in DOMAIN tally.query : tally.query[h].plan = None \/ tally.query[h].opts = None
    BY <1>12 DEF BuildCostReport, Crash
  <2>2. DOMAIN tally.query = AddedTexts /\ \A h \in AddedTexts : tally.query[h] = LastWith(h)
    BY <1>1, <1>3, <1>10, <2>1, EntryOf, Zenon
  <2>3. CostObstacle
    BY <2>1, <2>2, Zenon DEF CostObstacle
  <2> QED
    BY <1>1, <1>2, <2>1, <2>3, Zenon DEF Obstacle
<1> QED
  BY <1>1, <1>4, <1>5, <1>6, <1>7, <1>8, <1>9, <1>11, <1>12, Zenon DEF CostNext

-----------------------------------------------------------------------------
(* The theorems.                                                           *)
LEMMA ReadBegins == Init => ScoreRead /\ TaqoRead /\ SelectivityRead /\ RegressionRead
  BY DEF Init, ScoreRead, TaqoRead, SelectivityRead, RegressionRead, Working

LEMMA AlwaysRead ==
  Spec => []/\ TypeInv /\ TaqoInv /\ RegressionInv
            /\ ScoreRead /\ TaqoRead /\ SelectivityRead /\ RegressionRead
<1>1. TypeInv /\ ScoreRead /\ SelectivityRead /\ RegressionRead /\ [Next]_loopVars
        => ScoreRead' /\ SelectivityRead' /\ RegressionRead'
  BY ScoreReadNext, SelectivityReadNext, RegressionReadNext DEF TypeInv
<1> QED
  BY <1>1, ReadBegins, TaqoReadNext, AlwaysTaqo, AlwaysRegression, TypeInvInit, TypeInvNext,
     PTL DEF Spec

LEMMA CostReadBegins == Init => PairsInv /\ CostInv /\ CostRead
  BY PairsInvInit, CostInvInit DEF Init, CostRead

LEMMA AlwaysCost == Spec => [](PairsInv /\ CostInv /\ CostRead)
  BY CostReadBegins, PairsInvNext, CostInvNext, CostReadNext, PTL DEF Spec

(* The summary, the table and the pages of the score report and of the     *)
(* regression report agree, score_stats reports what the score report      *)
(* does, and the short summary of a report of one tag counts the changed   *)
(* plans: for files of any length, and any times and plans in them.        *)
THEOREM PlacesAlwaysAgree == Spec => []PlacesAgree
<1>1. Spec => []ShortSummaryTells
  BY SummaryTells, AlwaysRead, PTL
<1>2. ScoreAgrees /\ ScoreStatsAgree /\ RegressionAgrees /\ ShortSummaryTells => PlacesAgree
  BY DEF PlacesAgree
<1> QED
  BY <1>1, <1>2, ScorePlacesAgree, StatisticsAgree, RegressionPlacesAgree, PTL

(* What the lists, classes and colours of the reports say of a query is    *)
(* true of its times and results in the files.                             *)
THEOREM ListsAlwaysTell == Spec => []ListsTell
<1>1. /\ GreenMeansFast /\ EachInOneClass /\ ListedAsItWent
      /\ BetterMeansBetter /\ NoGainIsMissed /\ FailedMeansDifferent
      => ListsTell
  BY DEF ListsTell
<1> QED
  BY <1>1, GreenIsFast, OneClassEach, TaqoTellsTrue, SelectivityTellsTrue, PTL

(* A report is published if and only if none of the obstacles is in its    *)
(* files: no query without a plan, no time that is divided by and zero, and*)
(* so on; of the cost report, no plan that was never analyzed, no scan of a*)
(* type that is not known, and none timed at zero that is in a chart of    *)
(* times and costs.                                                        *)
THEOREM PublishedUnlessObstacle == Spec => []PublishedOrObstacle
<1>1. ASSUME TypeInv, TaqoInv, ScoreRead, TaqoRead, SelectivityRead, RegressionRead, CostInv, CostRead
      PROVE  PublishedOrObstacle
  <2>1. PairsInv /\ kind \in {"score", "score_stats", "regression", "taqo", "selectivity", "cost"}
    BY <1>1, LoadedFacts DEF TypeInv, PairsInv, LoopInv
  <2>2. phase = "published" /\ kind = "cost" => ~Obstacle
    BY <1>1, <2>1, CostUnobstructed DEF CostPublished
  <2>3. phase = "published" => ~Obstacle
    BY <1>1, <2>1, <2>2, ScoreUnobstructed, TaqoUnobstructed, SelectivityUnobstructed, RegressionUnobstructed
  <2>4. phase = "crashed" => Obstacle
    BY <1>1, <2>1 DEF ScoreRead, TaqoRead, SelectivityRead, RegressionRead, CostRead
  <2> QED
    BY <2>3, <2>4 DEF PublishedOrObstacle
<1>2. /\ TypeInv /\ TaqoInv /\ RegressionInv
      /\ ScoreRead /\ TaqoRead /\ SelectivityRead /\ RegressionRead /\ CostInv /\ CostRead
      => PublishedOrObstacle
  BY <1>1
<1> QED
  BY <1>2, AlwaysRead, AlwaysCost, PTL

(* The charts of the cost report have the scans that the plans of its      *)
(* queries executed, each once, and no other; and each is either plotted or*)
(* listed as the outlier it was judged to be: for plans of any shape, any  *)
(* number of optimizations, and any charts.                                *)
THEOREM ScansAlwaysCharted == Spec => []ScansCharted
  BY ScansAreCharted, AlwaysCost, PTL

(* What the classifiers of a query say is true of one of its plans by      *)
(* itself, whatever the other plans of the query, and those of the queries *)
(* before it, have.                                                        *)
THEOREM FlagsAlwaysTell == Spec => []FlagsTell
  BY FlagsDoTell, AlwaysCost, PTL
=============================================================================
