----------------------- MODULE EvaluateQueries_proofs -----------------------
(***************************************************************************)
(* Proofs about EvaluateQueries, for any number of queries, optimizations, *)
(* plans and results, and for all options and kinds of query.              *)
(***************************************************************************)
EXTENDS EvaluateQueries, DbSession_proofs, SequenceTheorems, FiniteSetTheorems,
        WellFoundedInduction

Originals == [time : ResultTimes, hash : Hashes \cup {"none"}, error : Errors,
              plan : Plans \cup {"none"}, planOf : 0..MaxOpts, hints : 0..MaxOpts]

Optimizations == [time : ResultTimes, hash : Hashes \cup {"none"}, error : Errors,
                  plan : Plans \cup {"none"}, measured : BOOLEAN]

MinTimes == ResultTimes \cup {TestTimeout * 1000}

(* The steps at which an optimization is at hand. *)
OptimizationSteps ==
  {"limitOpt", "costsOff", "prepareOpt", "explainOpt", "measureOpt", "newMin"}

(* Where the loop over the optimizations is. *)
Placed(step, list) ==
  /\ Len(list) <= kind.opts
  /\ step = "append" => Len(list) < kind.opts
  /\ step \in OptimizationSteps => Len(list) > 0

TypeInv == TypeOK /\ Placed(pc, opts)

-----------------------------------------------------------------------------
(* Statements keep the types. *)

LEMMA OptionTypes ==
  ASSUME TypeInv
  PROVE  /\ session \in Session /\ config.exits \in BOOLEAN
         /\ kind.opts \in 0..MaxOpts /\ MaxOpts \in Nat /\ Delta \in Nat
         /\ opts \in Seq(Optimizations) /\ Len(opts) \in Nat
         /\ original \in Originals /\ minTime \in MinTimes
<1>1. config \in Config /\ kind \in Kind
  BY EvaluateAssumption DEF TypeInv, TypeOK
<1>2. opts \in Seq(Optimizations) /\ original \in Originals /\ minTime \in MinTimes
  BY DEF TypeInv, TypeOK, Optimizations, Originals, MinTimes
<1>3. Len(opts) \in Nat
  BY <1>2
<1> QED
  BY <1>1, <1>2, <1>3, EvaluateAssumption DEF Config, Kind, TypeInv, TypeOK

LEMMA TimesTypes == Times \subseteq ResultTimes /\ ResultTimes \subseteq Int /\ MinTimes \subseteq Int
  BY EvaluateAssumption DEF ResultTimes, MinTimes

(* What a statement leaves behind: it goes on, or its exception is caught. *)
Moved(next) ==
  /\ session' \in Session /\ flags' \in SUBSET Flags /\ limit' \in Nat
  /\ exception' \in Caught \cup Raised \cup {"none"}
  /\ pc' \in {next, "except"}
  /\ UNCHANGED <<config, number, kind, outcome>>

LEMMA SettleMoves ==
  ASSUME TypeInv, NEW r \in Replies,
         NEW x \in Exceptions \cup {"none", "InvalidTimeout"}, NEW next,
         Settle(r, x, next), limit' \in Nat, UNCHANGED <<config, number, kind, outcome>>
  PROVE  Moved(next)
<1>1. r.session \in Session /\ r.flags \in SUBSET Flags
  BY DEF Replies
<1>2. x \in Caught \cup Raised \cup {"none"}
  BY DEF Caught, Raised, Exceptions
<1> QED
  BY <1>1, <1>2 DEF Settle, Moved, TypeInv, TypeOK

LEMMA KeptLimit == ASSUME TypeInv, NEW r, KeepLimit(r) PROVE limit' \in Nat
  BY DEF KeepLimit, TypeInv, TypeOK

LEMMA MovedKeepsTypes ==
  ASSUME TypeInv, NEW next \in Steps, Moved(next),
         original' \in Originals, opts' \in Seq(Optimizations),
         minTime' \in MinTimes, checked' \in SUBSET Plans, Placed(next, opts')
  PROVE  TypeInv'
<1>1. pc' \in Steps /\ Placed(pc', opts')
  BY DEF Moved, Steps, Placed, OptimizationSteps
<1>2. Len(opts') <= MaxOpts
  <2>1. Len(opts') \in Nat /\ kind.opts \in 0..MaxOpts /\ MaxOpts \in Nat
    BY OptionTypes
  <2> QED
    BY <2>1 DEF Placed
<1>3. kind' = kind
  BY DEF Moved
<1>4. Placed(pc, opts)'
  BY <1>1, <1>3 DEF Placed
<1>5. TypeOK'
  BY <1>1, <1>2 DEF Moved, TypeInv, TypeOK, Originals, Optimizations, MinTimes
<1> QED
  BY <1>4, <1>5 DEF TypeInv

(* A statement that touches no result. *)
LEMMA MovedKeepsResults ==
  ASSUME TypeInv, NEW next \in Steps, Moved(next), UNCHANGED results, Placed(next, opts)
  PROVE  TypeInv'
<1>1. UNCHANGED <<original, opts, minTime, checked>>
  BY DEF results
<1>2. /\ original' \in Originals /\ opts' \in Seq(Optimizations)
      /\ minTime' \in MinTimes /\ checked' \in SUBSET Plans /\ Placed(next, opts')
  BY <1>1, OptionTypes DEF TypeInv, TypeOK
<1> QED
  BY <1>2, MovedKeepsTypes

LEMMA PrepareTypes ==
  ASSUME TypeInv, NEW step, NEW next \in Steps, Prepare(step, next), Placed(next, opts)
  PROVE  TypeInv'
<1>1. PICK r \in PrepareQueryExecution(session, config.exits) :
        Settle(r, r.raised, next) /\ KeepLimit(r)
  BY DEF Prepare
<1>2. r \in Replies
  BY OptionTypes, PrepareReplies
<1>3. r.raised \in Exceptions \cup {"none", "InvalidTimeout"}
  BY <1>2 DEF Replies
<1>4. Moved(next) /\ UNCHANGED results
  BY <1>1, <1>2, <1>3, KeptLimit, SettleMoves DEF Prepare
<1> QED
  BY <1>4, MovedKeepsResults

LEMMA RollbackTypes ==
  ASSUME TypeInv, NEW step, NEW next \in Steps, RollbackTo(step, next), Placed(next, opts)
  PROVE  TypeInv'
<1>1. PICK r \in Rollback(session) : Settle(r, r.raised, next) /\ KeepLimit(r)
  BY DEF RollbackTo
<1>2. r \in Replies
  BY OptionTypes, RollbackReplies
<1>3. r.raised \in Exceptions \cup {"none", "InvalidTimeout"}
  BY <1>2 DEF Replies
<1>4. Moved(next) /\ UNCHANGED results
  BY <1>1, <1>2, <1>3, KeptLimit, SettleMoves DEF RollbackTo
<1> QED
  BY <1>4, MovedKeepsResults

LEMMA SetTimeoutTypes ==
  ASSUME TypeInv, NEW step, NEW seconds \in Nat, NEW next \in Steps,
         SetTimeout(step, seconds, next), Placed(next, opts)
  PROVE  TypeInv'
<1>1. PICK r \in EvaluateSql(session, Limited(session), FALSE, config.exits) :
        Settle(r, r.raised, next) /\ limit' = IF r.rows THEN seconds ELSE 0
  BY DEF SetTimeout
<1>2. r \in Replies
  BY OptionTypes, SessionTypes, EvaluateSqlReplies
<1>3. r.raised \in Exceptions \cup {"none", "InvalidTimeout"} /\ limit' \in Nat
  BY <1>1, <1>2 DEF Replies
<1>4. Moved(next) /\ UNCHANGED results
  BY <1>1, <1>2, <1>3, SettleMoves DEF SetTimeout
<1> QED
  BY <1>4, MovedKeepsResults

LEMMA LimitForType == ASSUME NEW ms \in Int, Delta \in Nat PROVE LimitFor(ms) \in Nat
  BY DEF LimitFor

LEMMA SetTimeoutByMinimumTypes ==
  ASSUME TypeInv, NEW step, NEW next \in Steps,
         SetTimeoutByMinimum(step, next), Placed(next, opts)
  PROVE  TypeInv'
<1>1. CASE SetTimeout(step, LimitFor(minTime), next)
  <2>1. LimitFor(minTime) \in Nat
    BY OptionTypes, TimesTypes, LimitForType
  <2> QED
    BY <1>1, <2>1, SetTimeoutTypes
<1>2. CASE kind.tip /\ ~SetTimeout(step, LimitFor(minTime), next)
  <2>1. PICK r \in Rejected(session, FALSE, config.exits) :
          Settle(r, IF r.raised = "DatabaseError" /\ r.flags # {}
                    THEN "InvalidTimeout" ELSE r.raised, next)
    BY <1>2 DEF SetTimeoutByMinimum
  <2>2. r \in Replies
    BY OptionTypes, RejectedReplies
  <2>3. (IF r.raised = "DatabaseError" /\ r.flags # {} THEN "InvalidTimeout" ELSE r.raised)
          \in Exceptions \cup {"none", "InvalidTimeout"}
    BY <2>2 DEF Replies
  <2>4. limit' \in Nat /\ UNCHANGED <<config, number, kind, outcome>> /\ UNCHANGED results
    BY <1>2 DEF SetTimeoutByMinimum
  <2>5. Moved(next)
    BY <2>1, <2>2, <2>3, <2>4, SettleMoves
  <2> QED
    BY <2>4, <2>5, MovedKeepsResults
<1> QED
  BY <1>1, <1>2 DEF SetTimeoutByMinimum

(* EXPLAIN of the original. *)
LEMMA ExplainTypes ==
  ASSUME TypeInv, NEW step, NEW shown \in SUBSET Originals, NEW next \in Steps,
         Explain(step, shown, next), Placed(next, opts)
  PROVE  TypeInv'
<1>1. PICK r \in EvaluateSql(session, Ran(session), FALSE, config.exits) :
        /\ Settle(r, Fetched(r), next) /\ KeepLimit(r)
        /\ original' \in IF Fetched(r) = "none" THEN shown ELSE {original}
  BY DEF Explain
<1>2. r \in Replies
  BY OptionTypes, SessionTypes, EvaluateSqlReplies
<1>3. Fetched(r) \in Exceptions \cup {"none", "InvalidTimeout"}
  BY <1>2, FetchedRows
<1>4. Moved(next)
  BY <1>1, <1>2, <1>3, KeptLimit, SettleMoves DEF Explain
<1>5. original' \in Originals
  BY <1>1, OptionTypes
<1>6. opts' = opts /\ minTime' = minTime /\ checked' = checked
  BY DEF Explain
<1>7. /\ opts' \in Seq(Optimizations) /\ minTime' \in MinTimes
      /\ checked' \in SUBSET Plans /\ Placed(next, opts')
  BY <1>6, OptionTypes DEF TypeInv, TypeOK
<1> QED
  BY <1>4, <1>5, <1>7, MovedKeepsTypes

-----------------------------------------------------------------------------
(* Calls of calculate_avg_execution_time. *)

LEMMA HandedBackTypes == HandedBack \subseteq Session
  BY SessionTypes DEF HandedBack

LEMMA CallMoves ==
  ASSUME TypeInv, NEW a \in Answers, NEW fields \in Fields, NEW next,
         Call(a, fields, next), UNCHANGED <<config, number, kind, outcome>>
  PROVE  Moved(next)
<1>1. PICK s \in HandedBack, f \in SUBSET Flags :
        Settle(Reply(s, f, "none", TRUE), RaisedBy(a), next) /\ limit' = 0
  BY DEF Call
<1>2. Reply(s, f, "none", TRUE) \in Replies
  BY HandedBackTypes DEF Reply, Replies
<1>3. RaisedBy(a) \in Exceptions \cup {"none", "InvalidTimeout"}
  BY DEF RaisedBy, Exceptions
<1> QED
  BY <1>1, <1>2, <1>3, SettleMoves

LEMMA FieldTypes ==
  ASSUME NEW fields \in Fields
  PROVE  /\ TimesFor(fields.time) \subseteq ResultTimes
         /\ HashesFor(fields.hash) \subseteq Hashes \cup {"none"}
         /\ fields.error \in Errors
  BY DEF TimesFor, HashesFor, Fields, ResultTimes, Errors, Caught

LEMMA MeasuredOriginal ==
  ASSUME NEW q \in Originals, NEW fields \in Fields, NEW m \in Measurements(q, fields)
  PROVE  m \in Originals
<1>1. PICK t \in TimesFor(fields.time), h \in HashesFor(fields.hash) :
        m = WithResult(q, t, h, fields.error)
  BY DEF Measurements
<1>2. t \in ResultTimes /\ h \in Hashes \cup {"none"} /\ fields.error \in Errors
  BY <1>1, FieldTypes
<1> QED
  BY <1>1, <1>2 DEF WithResult, Originals

LEMMA MeasuredOptimization ==
  ASSUME NEW q \in Optimizations, NEW fields \in Fields, NEW m \in Measurements(q, fields)
  PROVE  m \in Optimizations /\ m.plan = q.plan /\ m.measured = q.measured
<1>1. PICK t \in TimesFor(fields.time), h \in HashesFor(fields.hash) :
        m = WithResult(q, t, h, fields.error)
  BY DEF Measurements
<1>2. t \in ResultTimes /\ h \in Hashes \cup {"none"} /\ fields.error \in Errors
  BY <1>1, FieldTypes
<1> QED
  BY <1>1, <1>2 DEF WithResult, Optimizations

(* Writing to the optimization at hand. *)
LEMMA CurrentTypes ==
  ASSUME TypeInv, Len(opts) > 0, NEW o \in Optimizations
  PROVE  /\ opts[Current] \in Optimizations /\ Current \in 1..Len(opts)
         /\ WithCurrent(o) \in Seq(Optimizations)
         /\ Len(WithCurrent(o)) = Len(opts)
         /\ \A i \in 1..Len(opts) :
              WithCurrent(o)[i] = IF i = Current THEN o ELSE opts[i]
  BY OptionTypes DEF Current, WithCurrent

-----------------------------------------------------------------------------
LEMMA TypeInvInit == Init => TypeInv
<1> SUFFICES ASSUME Init PROVE TypeInv
  OBVIOUS
<1>1. kind \in Kind /\ kind.opts \in 0..MaxOpts /\ MaxOpts \in Nat
  BY EvaluateAssumption DEF Init, Kind
<1>2. opts = <<>> /\ Len(opts) = 0 /\ opts \in Seq(Optimizations)
  BY DEF Init
<1>3. original \in Originals
  BY <1>1 DEF Init, NoQuery, Originals, ResultTimes, Errors
<1>4. session \in Session /\ flags \in SUBSET Flags
  BY SessionTypes DEF Init, Flags
<1>5. number \in 1..NumQueries
  BY EvaluateAssumption DEF Init
<1>6. minTime \in MinTimes
  BY DEF Init, MinTimes, ResultTimes
<1>7. Placed(pc, opts)
  BY <1>1, <1>2 DEF Init, Placed, OptimizationSteps
<1>8. TypeOK
  BY <1>1, <1>2, <1>3, <1>4, <1>5, <1>6
  DEF Init, TypeOK, Originals, Optimizations, MinTimes, Steps, LoopSteps
<1> QED
  BY <1>7, <1>8 DEF TypeInv

(* Steps up to the optimizations. *)
LEMMA TypeInvOriginal ==
  ASSUME TypeInv,
         SetTestTimeout \/ PrepareDefault \/ ExplainDefault \/ RollbackDefault \/
         PrepareCostsOff \/ ExplainOriginalOff \/ RollbackCostsOff \/ MeasureBaseline \/
         LimitByBaseline \/ LimitByTestTimeout \/ EstimateOriginal \/ MeasureOriginal
  PROVE  TypeInv'
<1>0. \A next \in Steps \ (OptimizationSteps \cup {"append"}) : Placed(next, opts)
  BY DEF TypeInv, Placed
<1> USE <1>0 DEF Steps, LoopSteps, OptimizationSteps
<1>1. CASE SetTestTimeout
  <2>1. TestTimeout \in Nat
    BY EvaluateAssumption
  <2> QED
    BY <1>1, <2>1, SetTimeoutTypes DEF SetTestTimeout
<1>2. CASE PrepareDefault \/ PrepareCostsOff
  BY <1>2, PrepareTypes DEF PrepareDefault, PrepareCostsOff
<1>3. CASE ExplainDefault
  <2>1. {original} \in SUBSET Originals
    BY OptionTypes
  <2> QED
    BY <1>3, <2>1, ExplainTypes DEF ExplainDefault
<1>4. CASE ExplainOriginalOff
  <2>1. {[original EXCEPT !.plan = p] : p \in Plans} \in SUBSET Originals
    <3>1. ASSUME NEW p \in Plans PROVE [original EXCEPT !.plan = p] \in Originals
      BY OptionTypes DEF Originals
    <3> QED
      BY <3>1
  <2> QED
    BY <1>4, <2>1, ExplainTypes DEF ExplainOriginalOff
<1>5. CASE RollbackDefault
  BY <1>5, RollbackTypes DEF RollbackDefault
<1>6. CASE RollbackCostsOff
  <2>1. FirstLimit \in {"baseline", "limit"}
    BY DEF FirstLimit
  <2> QED
    BY <1>6, <2>1, RollbackTypes DEF RollbackCostsOff
<1>7. CASE MeasureBaseline
  <2>1. PICK a \in Answers, fields \in Fields :
          Call(a, fields, "baselineLimit") /\ minTime' \in TimesFor(fields.time)
    BY <1>7 DEF MeasureBaseline
  <2>2. UNCHANGED <<config, number, kind, original, opts, checked, outcome>>
    BY <1>7 DEF MeasureBaseline
  <2>3. Moved("baselineLimit")
    BY <2>1, <2>2, CallMoves
  <2>4. minTime' \in MinTimes
    BY <2>1, FieldTypes DEF MinTimes
  <2>5. /\ original' \in Originals /\ opts' \in Seq(Optimizations)
        /\ checked' \in SUBSET Plans /\ Placed("baselineLimit", opts')
    BY <2>2, OptionTypes DEF TypeInv, TypeOK
  <2> QED
    BY <2>3, <2>4, <2>5, MovedKeepsTypes
<1>8. CASE LimitByBaseline
  BY <1>8, SetTimeoutByMinimumTypes DEF LimitByBaseline
<1>9. CASE LimitByTestTimeout
  <2>1. TestTimeout \in Nat
    BY EvaluateAssumption
  <2> QED
    BY <1>9, <2>1, SetTimeoutTypes DEF LimitByTestTimeout
<1>10. AfterOriginal \in {"optimize", "between"}
  BY DEF AfterOriginal
<1>11. CASE EstimateOriginal
  <2>1. PICK cost \in Times : original' = [original EXCEPT !.time = cost]
    BY <1>11 DEF EstimateOriginal
  <2>2. original' \in Originals
    BY <2>1, OptionTypes, TimesTypes DEF Originals
  <2>3. /\ UNCHANGED <<config, number, kind, session, limit, flags, exception, opts,
                       minTime, checked, outcome>>
        /\ pc' = AfterOriginal
    BY <1>11 DEF EstimateOriginal
  <2>4. Moved(AfterOriginal)
    BY <2>3 DEF Moved, TypeInv, TypeOK
  <2>5. /\ opts' \in Seq(Optimizations) /\ minTime' \in MinTimes
        /\ checked' \in SUBSET Plans /\ Placed(AfterOriginal, opts')
    BY <1>10, <2>3, OptionTypes DEF TypeInv, TypeOK
  <2> QED
    BY <1>10, <2>2, <2>4, <2>5, MovedKeepsTypes
<1>12. CASE MeasureOriginal
  <2>1. PICK a \in Answers, fields \in Fields :
          Call(a, fields, AfterOriginal) /\ original' \in Measurements(original, fields)
    BY <1>12 DEF MeasureOriginal
  <2>2. UNCHANGED <<config, number, kind, opts, minTime, checked, outcome>>
    BY <1>12 DEF MeasureOriginal
  <2>3. Moved(AfterOriginal)
    BY <2>1, <2>2, CallMoves
  <2>4. original' \in Originals
    BY <2>1, OptionTypes, MeasuredOriginal
  <2>5. /\ opts' \in Seq(Optimizations) /\ minTime' \in MinTimes
        /\ checked' \in SUBSET Plans /\ Placed(AfterOriginal, opts')
    BY <1>10, <2>2, OptionTypes DEF TypeInv, TypeOK
  <2> QED
    BY <1>10, <2>3, <2>4, <2>5, MovedKeepsTypes
<1> QED
  BY <1>1, <1>2, <1>3, <1>4, <1>5, <1>6, <1>7, <1>8, <1>9, <1>11, <1>12

(* The loop over the optimizations goes on or ends. *)
LEMMA NextOptimizationPlaced ==
  ASSUME TypeInv
  PROVE  NextOptimization \in Steps /\ Placed(NextOptimization, opts)
<1>1. NextOptimization \in {"append", "validate"}
  BY DEF NextOptimization
<1>2. NextOptimization = "append" => Len(opts) < kind.opts
  BY DEF NextOptimization, Current
<1> QED
  BY <1>1, <1>2 DEF TypeInv, Placed, Steps, LoopSteps, OptimizationSteps

(* EXPLAIN of an optimization, where a timeout only skips it. *)
LEMMA SkippingTypes ==
  ASSUME TypeInv, NEW r \in Replies, NEW x \in Exceptions \cup {"none"}, NEW next \in Steps,
         SettleSkipping(r, x, next), Placed(next, opts),
         UNCHANGED <<config, number, kind, results, outcome>>
  PROVE  TypeInv'
<1>1. limit' \in Nat
  BY KeptLimit DEF SettleSkipping
<1>2. UNCHANGED <<config, number, kind, outcome>> /\ UNCHANGED results
  OBVIOUS
<1>3. CASE x = "QueryCanceled"
  <2>1. Settle(r, "none", NextOptimization)
    BY <1>3 DEF SettleSkipping
  <2>2. Moved(NextOptimization)
    BY <1>1, <1>2, <2>1, SettleMoves
  <2> QED
    BY <1>2, <2>2, NextOptimizationPlaced, MovedKeepsResults
<1>4. CASE x # "QueryCanceled"
  <2>1. Settle(r, x, next)
    BY <1>4 DEF SettleSkipping
  <2>2. Moved(next)
    BY <1>1, <1>2, <2>1, SettleMoves
  <2> QED
    BY <1>2, <2>2, MovedKeepsResults
<1> QED
  BY <1>3, <1>4

LEMMA TypeInvOptimizations ==
  ASSUME TypeInv,
         BeginOptimizations \/ AppendOptimization \/ LimitOptimization \/ ExplainCostsOff \/
         PrepareOptimization \/ ExplainOptimization \/ EstimateOptimization \/
         MeasureOptimization \/ NewMinimum
  PROVE  TypeInv'
<1>0. /\ kind.opts \in Nat /\ Len(opts) \in Nat /\ Len(opts) <= kind.opts
      /\ opts \in Seq(Optimizations) /\ minTime \in MinTimes /\ checked \in SUBSET Plans
  BY OptionTypes DEF TypeInv, TypeOK, Placed
<1>11. CASE BeginOptimizations /\ kind.raises
  <2>1. /\ pc' = "except" /\ exception' = "ValueError"
        /\ UNCHANGED <<config, number, kind, session, limit, flags, original, opts, minTime,
                       checked, outcome>>
    BY <1>11 DEF BeginOptimizations
  <2>2. Placed(pc', opts')
    BY <2>1 DEF TypeInv, Placed, OptimizationSteps, LoopSteps
  <2>3. Moved("except") /\ "except" \in Steps
    BY <2>1 DEF Moved, TypeInv, TypeOK, Raised, Steps
  <2>4. UNCHANGED results
    BY <2>1 DEF results
  <2> QED
    BY <2>1, <2>2, <2>3, <2>4, MovedKeepsResults
<1>1. CASE BeginOptimizations /\ ~kind.raises
  <2>1. /\ opts' = <<>> /\ checked' = {} /\ minTime' = StartTime /\ original' = original
        /\ pc' = IF kind.opts > 0 THEN "append" ELSE "validate"
        /\ UNCHANGED <<config, number, kind, session, limit, flags, exception, outcome>>
    BY <1>1 DEF BeginOptimizations
  <2>2. StartTime \in MinTimes
    <3>1. original.time \in ResultTimes
      BY OptionTypes DEF Originals
    <3> QED
      BY <3>1 DEF StartTime, MinTimes
  <2>3. Len(opts') = 0 /\ opts' \in Seq(Optimizations)
    BY <2>1
  <2>4. pc' \in Steps /\ Placed(pc', opts')
    BY <1>0, <2>1, <2>3 DEF Placed, OptimizationSteps, Steps, LoopSteps
  <2>5. Moved(pc')
    BY <2>1 DEF Moved, TypeInv, TypeOK
  <2> QED
    BY <2>1, <2>2, <2>3, <2>4, <2>5, OptionTypes, MovedKeepsTypes
<1>2. CASE AppendOptimization
  <2>1. /\ opts' = Append(opts, NoOptimization) /\ pc = "append"
        /\ pc' = IF config.near \/ Current = 0 THEN "limitOpt" ELSE "costsOff"
        /\ UNCHANGED <<config, number, kind, session, limit, flags, exception, original,
                       minTime, checked, outcome>>
    BY <1>2 DEF AppendOptimization
  <2>2. NoOptimization \in Optimizations
    BY DEF NoOptimization, Optimizations, ResultTimes, Errors
  <2>3. opts' \in Seq(Optimizations) /\ Len(opts') = Len(opts) + 1 /\ Len(opts) < kind.opts
    BY <1>0, <2>1, <2>2 DEF TypeInv, Placed
  <2>4. pc' \in Steps /\ Placed(pc', opts')
    BY <1>0, <2>1, <2>3 DEF Placed, Steps, LoopSteps
  <2>5. Moved(pc')
    BY <2>1 DEF Moved, TypeInv, TypeOK
  <2>6. original' \in Originals /\ minTime' \in MinTimes /\ checked' \in SUBSET Plans
    BY <1>0, <2>1, OptionTypes
  <2> QED
    BY <2>3, <2>4, <2>5, <2>6, MovedKeepsTypes
<1>3. ASSUME pc \in OptimizationSteps
      PROVE  /\ Len(opts) > 0
             /\ \A next \in OptimizationSteps : next \in Steps /\ Placed(next, opts)
  BY <1>3 DEF TypeInv, Placed, OptimizationSteps, Steps, LoopSteps
<1>4. CASE LimitOptimization
  <2>1. Placed("costsOff", opts) /\ "costsOff" \in Steps
    BY <1>3, <1>4, SetTimeoutByMinimumTypes
    DEF LimitOptimization, SetTimeoutByMinimum, SetTimeout, OptimizationSteps
  <2> QED
    BY <1>4, <2>1, SetTimeoutByMinimumTypes DEF LimitOptimization
<1>5. CASE ExplainCostsOff
  <2>1. PICK r \in EvaluateSql(session, Ran(session), FALSE, config.exits), p \in Plans :
          /\ Settle(r, Fetched(r), IF p \in checked THEN "newMin" ELSE "prepareOpt")
          /\ KeepLimit(r)
          /\ IF Fetched(r) = "none"
             THEN /\ opts' = WithCurrent([opts[Current] EXCEPT !.plan = p])
                  /\ checked' = Checked(p)
                  /\ original' = IF original.hints = 0 /\ original.plan = p
                                 THEN [original EXCEPT !.hints = Current] ELSE original
             ELSE UNCHANGED <<opts, checked, original>>
    BY <1>5 DEF ExplainCostsOff
  <2>2. r \in Replies
    BY OptionTypes, SessionTypes, EvaluateSqlReplies
  <2>3. Fetched(r) \in Exceptions \cup {"none", "InvalidTimeout"}
    BY <2>2, FetchedRows
  <2>4. UNCHANGED <<config, number, kind, outcome>> /\ minTime' = minTime
        /\ pc \in OptimizationSteps
    BY <1>5 DEF ExplainCostsOff, OptimizationSteps
  <2> DEFINE next == IF p \in checked THEN "newMin" ELSE "prepareOpt"
  <2>5. next \in Steps /\ next \in OptimizationSteps
    BY DEF Steps, LoopSteps, OptimizationSteps
  <2>6. Moved(next)
    BY <2>1, <2>2, <2>3, <2>4, KeptLimit, SettleMoves
  <2>7. Len(opts) > 0 /\ Placed(next, opts)
    BY <1>3, <2>4, <2>5
  <2>8. opts' \in Seq(Optimizations) /\ Len(opts') = Len(opts)
    <3>1. [opts[Current] EXCEPT !.plan = p] \in Optimizations
      <4>1. opts[Current] \in Optimizations
        BY <1>0, <2>7 DEF Current
      <4> QED
        BY <4>1 DEF Optimizations
    <3> QED
      BY <1>0, <2>1, <2>7, <3>1, CurrentTypes
  <2>9. checked' \in SUBSET Plans
    BY <1>0, <2>1 DEF Checked
  <2>10. original' \in Originals
    <3>1. Current \in 0..MaxOpts
      BY <1>0, OptionTypes DEF Current
    <3>2. [original EXCEPT !.hints = Current] \in Originals /\ original \in Originals
      BY <3>1, OptionTypes DEF Originals
    <3> QED
      BY <2>1, <3>2
  <2>11. Placed(next, opts')
    BY <2>7, <2>8 DEF Placed
  <2> HIDE DEF next
  <2> QED
    BY <1>0, <2>4, <2>5, <2>6, <2>8, <2>9, <2>10, <2>11, MovedKeepsTypes
<1>6. CASE PrepareOptimization
  <2>1. PICK r \in PrepareQueryExecution(session, config.exits) :
          SettleSkipping(r, r.raised, "explainOpt")
    BY <1>6 DEF PrepareOptimization
  <2>2. r \in Replies /\ r.raised \in Exceptions \cup {"none"}
    BY OptionTypes, PrepareReplies DEF Replies
  <2>3. Placed("explainOpt", opts) /\ "explainOpt" \in Steps
    BY <1>3, <1>6 DEF PrepareOptimization, OptimizationSteps
  <2> QED
    BY <1>6, <2>1, <2>2, <2>3, SkippingTypes DEF PrepareOptimization
<1>7. CASE ExplainOptimization
  <2>1. PICK r \in EvaluateSql(session, Ran(session), FALSE, config.exits) :
          SettleSkipping(r, Fetched(r), "measureOpt")
    BY <1>7 DEF ExplainOptimization
  <2>2. r \in Replies
    BY OptionTypes, SessionTypes, EvaluateSqlReplies
  <2>3. Placed("measureOpt", opts) /\ "measureOpt" \in Steps
    BY <1>3, <1>7 DEF ExplainOptimization, OptimizationSteps
  <2> QED
    BY <1>7, <2>1, <2>2, <2>3, FetchedRows, SkippingTypes DEF ExplainOptimization
<1>8. CASE EstimateOptimization
  <2>1. PICK cost \in Times :
          original' = [[original EXCEPT !.time = cost] EXCEPT !.planOf = Current]
    BY <1>8 DEF EstimateOptimization
  <2>2. /\ UNCHANGED <<config, number, kind, session, limit, flags, exception, opts,
                       minTime, checked, outcome>>
        /\ pc' = "newMin" /\ pc = "measureOpt"
    BY <1>8 DEF EstimateOptimization
  <2>3. original' \in Originals
    <3>1. Current \in 0..MaxOpts /\ cost \in ResultTimes
      BY <1>0, OptionTypes, TimesTypes DEF Current
    <3>2. [original EXCEPT !.time = cost] \in Originals
      BY <3>1, OptionTypes DEF Originals
    <3> QED
      BY <2>1, <3>1, <3>2 DEF Originals
  <2>4. Moved("newMin")
    BY <2>2 DEF Moved, TypeInv, TypeOK
  <2>5. Placed("newMin", opts') /\ "newMin" \in Steps
    BY <1>3, <2>2 DEF OptimizationSteps
  <2> QED
    BY <1>0, <2>2, <2>3, <2>4, <2>5, MovedKeepsTypes
<1>9. CASE MeasureOptimization
  <2>1. PICK a \in Answers, fields \in Fields :
          /\ Call(a, fields, "newMin")
          /\ \E o \in Measurements(opts[Current], fields) :
               opts' = WithCurrent([o EXCEPT !.measured = TRUE])
    BY <1>9 DEF MeasureOptimization
  <2>2. /\ UNCHANGED <<config, number, kind, original, minTime, checked, outcome>>
        /\ pc = "measureOpt"
    BY <1>9 DEF MeasureOptimization
  <2>3. Moved("newMin")
    BY <2>1, <2>2, CallMoves
  <2>4. Placed("newMin", opts) /\ "newMin" \in Steps /\ Len(opts) > 0
    BY <1>3, <2>2 DEF OptimizationSteps
  <2>5. opts' \in Seq(Optimizations) /\ Len(opts') = Len(opts)
    <3>1. PICK o \in Measurements(opts[Current], fields) :
            opts' = WithCurrent([o EXCEPT !.measured = TRUE])
      BY <2>1
    <3>2. opts[Current] \in Optimizations
      BY <1>0, <2>4 DEF Current
    <3>3. o \in Optimizations
      BY <3>2, MeasuredOptimization
    <3>4. [o EXCEPT !.measured = TRUE] \in Optimizations
      BY <3>3 DEF Optimizations
    <3> QED
      BY <2>4, <3>1, <3>4, CurrentTypes
  <2>6. Placed("newMin", opts')
    BY <2>4, <2>5 DEF Placed
  <2>7. original' \in Originals /\ minTime' \in MinTimes /\ checked' \in SUBSET Plans
    BY <1>0, <2>2, OptionTypes
  <2> QED
    BY <2>3, <2>4, <2>5, <2>6, <2>7, MovedKeepsTypes
<1>10. CASE NewMinimum
  <2>1. /\ minTime' = IF Faster(opts[Current].time) THEN opts[Current].time ELSE minTime
        /\ pc' = NextOptimization /\ pc = "newMin"
        /\ UNCHANGED <<config, number, kind, session, limit, flags, exception, original,
                       opts, checked, outcome>>
    BY <1>10 DEF NewMinimum
  <2>2. opts[Current] \in Optimizations
    BY <1>0, <1>3, <2>1 DEF Current, OptimizationSteps
  <2>3. minTime' \in MinTimes
    BY <1>0, <2>1, <2>2 DEF Optimizations, MinTimes
  <2>4. Moved(NextOptimization)
    BY <2>1 DEF Moved, TypeInv, TypeOK
  <2>5. original' \in Originals /\ Placed(NextOptimization, opts')
    BY <2>1, OptionTypes, NextOptimizationPlaced
  <2> QED
    BY <1>0, <2>1, <2>3, <2>4, <2>5, NextOptimizationPlaced, MovedKeepsTypes
<1> QED
  BY <1>1, <1>11, <1>2, <1>4, <1>5, <1>6, <1>7, <1>8, <1>9, <1>10

(* The rollback after a query leaves nothing behind it, or finds the       *)
(* connection closed.                                                      *)
LEMMA EndTransactionReplies ==
  ASSUME session \in Session, NEW r \in EndTransaction
  PROVE  /\ r.session \in Session
         /\ r.raised = "none" /\ r.session.alive => r.session = Fresh
         /\ r.raised # "none" => ~r.session.alive
<1>1. /\ Fresh \in Session /\ Lost \in Session /\ ~Lost.alive
      /\ (session.alive => RolledBack(session) = Fresh)
  BY SessionTypes DEF Lost, Fresh, RolledBack
<1>2. CASE r = Reply(session, {}, "none", FALSE) /\ ~session.alive
  BY <1>2 DEF Reply
<1>3. CASE r = Reply(Fresh, {}, "none", FALSE)
  BY <1>1, <1>3 DEF Reply
<1>4. CASE r = Reply(Lost, {}, "DatabaseError", FALSE)
  BY <1>1, <1>4 DEF Reply
<1> QED
  BY <1>1, <1>2, <1>3, <1>4 DEF EndTransaction, Rollback

(* Connecting, validating, the except clauses, and the end of a query. *)
LEMMA TypeInvRest ==
  ASSUME TypeInv, Connect \/ Validate \/ Except \/ EndQuery \/ UNCHANGED vars
  PROVE  TypeInv'
<1> USE DEF Steps, LoopSteps, OptimizationSteps
<1>1. CASE Connect
  <2>1. /\ session' \in {session, Fresh} /\ pc' \in {"testTimeout", "ended"}
        /\ outcome' \in {outcome, "aborted"}
        /\ UNCHANGED <<config, number, kind, limit, flags, exception, original, opts,
                       minTime, checked>>
    BY <1>1 DEF Connect, results
  <2>2. session' \in Session
    BY <2>1, OptionTypes, SessionTypes
  <2>3. Placed(pc, opts)'
    BY <2>1 DEF TypeInv, Placed
  <2> QED
    BY <2>1, <2>2, <2>3 DEF TypeInv, TypeOK
<1>2. CASE Validate
  <2>1. /\ pc' \in {"between", "except"} /\ flags' \in SUBSET Flags
        /\ exception' \in {exception, "SystemExit"}
        /\ UNCHANGED <<config, number, kind, session, limit, original, opts, minTime,
                       checked, outcome>>
    BY <1>2 DEF Validate, results, Flags, TypeInv, TypeOK
  <2>2. Placed(pc, opts)'
    BY <2>1 DEF TypeInv, Placed
  <2> QED
    BY <2>1, <2>2 DEF TypeInv, TypeOK, Raised
<1>3. CASE Except
  <2>1. /\ pc' \in {"between", "ended"} /\ outcome' \in {outcome, "exit", "aborted"}
        /\ UNCHANGED <<config, number, kind, session, limit, flags, exception, opts,
                       minTime, checked>>
    BY <1>3 DEF Except, AfterException
  <2>2. original' \in Originals
    <3>1. CASE exception \in Caught
      <4>1. exception \in Errors
        BY <3>1 DEF Errors
      <4>2. [original EXCEPT !.error = exception] \in Originals
        BY <4>1, OptionTypes DEF Originals
      <4> QED
        BY <1>3, <4>2, OptionTypes DEF Except
    <3>2. CASE exception \notin Caught
      BY <1>3, <3>2, OptionTypes DEF Except
    <3> QED
      BY <3>1, <3>2
  <2>3. Placed(pc, opts)'
    BY <2>1 DEF TypeInv, Placed
  <2> QED
    BY <2>1, <2>2, <2>3 DEF TypeInv, TypeOK, Originals
<1>4. CASE EndQuery
  <2>1. PICK r \in EndTransaction :
          /\ session' = r.session /\ KeepLimit(r)
          /\ \/ NextQuery
             \/ /\ outcome' \in {"complete", "aborted"} /\ pc' = "ended"
                /\ UNCHANGED <<number, kind, results, exception>>
    BY <1>4 DEF EndQuery
  <2>2. session' \in Session /\ limit' \in Nat
    BY <2>1, OptionTypes, EndTransactionReplies, KeptLimit
  <2>3. UNCHANGED <<config, flags>>
    BY <1>4 DEF EndQuery
  <2>4. CASE NextQuery
    <3>1. opts' = <<>> /\ Len(opts') = 0 /\ opts' \in Seq(Optimizations)
      BY <2>4 DEF NextQuery
    <3>2. kind' \in Kinds /\ kind'.opts \in 0..MaxOpts /\ MaxOpts \in Nat
      BY <2>4, EvaluateAssumption DEF NextQuery, Kind
    <3>3. original' \in Originals
      BY <2>4, OptionTypes DEF NextQuery, NoQuery, Originals, ResultTimes, Errors
    <3>4. number' \in 1..NumQueries
      BY <2>4, EvaluateAssumption DEF NextQuery, TypeInv, TypeOK
    <3>5. /\ minTime' \in MinTimes /\ checked' = {} /\ exception' = "none"
          /\ pc' = "connect" /\ outcome' = outcome
      BY <2>4 DEF NextQuery, MinTimes, ResultTimes
    <3>6. Placed(pc, opts)'
      BY <3>1, <3>2, <3>5 DEF Placed
    <3>7. TypeOK'
      BY <2>2, <2>3, <3>1, <3>2, <3>3, <3>4, <3>5
      DEF TypeInv, TypeOK, Originals, Optimizations, MinTimes
    <3> QED
      BY <3>6, <3>7 DEF TypeInv
  <2>5. CASE ~NextQuery
    <3>1. /\ outcome' \in {"complete", "aborted"} /\ pc' = "ended"
          /\ UNCHANGED <<number, kind, original, opts, minTime, checked, exception>>
      BY <2>1, <2>5 DEF results
    <3>2. Placed(pc, opts)'
      BY <3>1 DEF TypeInv, Placed
    <3> QED
      BY <2>2, <2>3, <3>1, <3>2 DEF TypeInv, TypeOK
  <2> QED
    BY <2>4, <2>5
<1>5. CASE UNCHANGED vars
  <2>1. UNCHANGED <<config, number, kind, pc, session, limit, flags, exception,
                    original, opts, minTime, checked, outcome>>
    BY <1>5 DEF vars
  <2>2. Placed(pc, opts)'
    BY <2>1 DEF TypeInv, Placed
  <2> QED
    BY <2>1, <2>2 DEF TypeInv, TypeOK
<1> QED
  BY <1>1, <1>2, <1>3, <1>4, <1>5

LEMMA TypeInvNext == TypeInv /\ [Next]_vars => TypeInv'
  BY TypeInvOriginal, TypeInvOptimizations, TypeInvRest DEF Next, Ended

LEMMA AlwaysTypeInv == Spec => []TypeInv
  BY TypeInvInit, TypeInvNext, PTL DEF Spec

(* Every variable of evaluate_testing_queries and evaluate_optimizations   *)
(* keeps its type: no loop runs past the list of optimizations.            *)
THEOREM EvaluateTypes == Spec => []TypeOK
  BY AlwaysTypeInv, PTL DEF TypeInv

-----------------------------------------------------------------------------
(* What NothingElseStopsTheRun rests on: an exception is at hand where one *)
(* is handled, exits are asked for and flagged, only a query that is to be *)
(* optimized lacks hints, and only the end has an outcome.                 *)
Optimized == config.optimize /\ ~kind.dml

StopInv ==
  /\ pc = "except" => exception # "none"
  /\ exception = "SystemExit" => config.exits /\ flags # {}
  /\ exception = "ValueError" => Unhintable
  /\ pc = "optimize" => Optimized
  /\ outcome # "none" => pc = "ended"
  /\ NothingElseStopsTheRun

(* Where control may go. *)
Reached(next) == next # "except" /\ (next = "optimize" => Optimized)

(* Control goes to the next step, or with an exception to the handler.     *)
Goes(next) ==
  /\ pc' \in {next, "except"}
  /\ next = "optimize" => Optimized
  /\ pc' = "except" => exception' # "none"
  /\ exception' = "SystemExit" => config.exits /\ flags' # {}
  /\ exception' = "ValueError" => Unhintable
  /\ UNCHANGED <<config, number, kind, outcome>>

LEMMA GoesKeepsStop ==
  ASSUME StopInv, NEW next, Goes(next), pc # "ended"
  PROVE  StopInv'
  BY DEF StopInv, Goes, Optimized, Unhintable, NothingElseStopsTheRun, QueriesMayEnd

(* Only exit-on-fail exits, and it flags the run. *)
LEMMA ExitReplies ==
  ASSUME NEW s, NEW d, NEW e \in BOOLEAN
  PROVE  \A r \in EvaluateSql(s, d, FALSE, e) \cup PrepareQueryExecution(s, e) \cup
                   Rejected(s, FALSE, e) \cup Rollback(s) :
           /\ r.raised = "SystemExit" => e /\ r.flags # {}
           /\ Fetched(r) = "SystemExit" => e /\ r.flags # {}
           /\ r.raised # "ValueError" /\ Fetched(r) # "ValueError"
<1> DEFINE Fine(r) == (r.raised = "SystemExit" => e /\ r.flags # {}) /\ r.raised # "ValueError"
<1>1. Flagged(FALSE) = {"failure"}
  BY DEF Flagged
<1>2. \A r \in Swallowed(s, FALSE, e) \cup Reraised(s, FALSE, e) : Fine(r)
  <2>1. \A t, x, y : Reply(t, Flagged(FALSE), x, y).flags # {}
                    /\ Reply(t, Flagged(FALSE), x, y).raised = x
    BY <1>1 DEF Reply
  <2>2. ASSUME NEW r \in Swallowed(s, FALSE, e) PROVE Fine(r)
    <3>1. PICK t : r = Reply(t, Flagged(FALSE), IF e THEN "SystemExit" ELSE "none", FALSE)
      BY DEF Swallowed
    <3>2. r.raised = IF e THEN "SystemExit" ELSE "none"
      BY <2>1, <3>1
    <3> QED
      BY <2>1, <3>1, <3>2
  <2>3. ASSUME NEW r \in Reraised(s, FALSE, e) PROVE Fine(r)
    <3> DEFINE x == IF e THEN "SystemExit"
                    ELSE IF s.alive THEN "DatabaseError" ELSE "InterfaceError"
    <3>1. r = Reply(RolledBack(s), Flagged(FALSE), x, FALSE)
      BY DEF Reraised
    <3>2. r.raised = x
      BY <2>1, <3>1
    <3>3. (x = "SystemExit" => e) /\ x # "ValueError"
      OBVIOUS
    <3> QED
      BY <2>1, <3>1, <3>2, <3>3
  <2> QED
    BY <2>2, <2>3
<1>3. \A r \in Unflagged(s) \cup Rollback(s) : Fine(r)
  BY DEF Unflagged, Rollback, Reply
<1>4. \A x, f, y : /\ Fine(Reply(x, f, "none", y))
                  /\ Fine(Reply(x, f, "InterfaceError", y))
                  /\ Fine(Reply(x, f, "DatabaseError", y))
  BY DEF Reply
<1> HIDE DEF Fine
<1>5. ASSUME NEW c, NEW r \in EvaluateSql(s, c, FALSE, e) PROVE Fine(r)
  <2>1. \/ r = Reply(c, {}, "none", TRUE)
        \/ r \in Unflagged(s)
        \/ r \in Swallowed(s, FALSE, e) \cup Reraised(s, FALSE, e)
    BY <1>5 DEF EvaluateSql
  <2> QED
    BY <1>2, <1>3, <1>4, <2>1
<1>6. \A r \in PrepareQueryExecution(s, e) : Fine(r)
  BY <1>4, <1>5 DEF PrepareQueryExecution
<1>7. ASSUME NEW r \in Rejected(s, FALSE, e) PROVE Fine(r)
  <2>1. \/ r = Reply(Lost, {}, "DatabaseError", FALSE)
        \/ r \in Swallowed(s, FALSE, e) \cup Reraised(s, FALSE, e)
    BY <1>7 DEF Rejected
  <2> QED
    BY <1>2, <1>4, <2>1
<1>8. \A r : /\ Fetched(r) = "SystemExit" => r.raised = "SystemExit"
             /\ Fetched(r) = "ValueError" => r.raised = "ValueError"
  BY DEF Fetched
<1> QED
  BY <1>3, <1>5, <1>6, <1>7, <1>8 DEF Fine

LEMMA SettleGoes ==
  ASSUME NEW r, NEW x, NEW next, Settle(r, x, next), Reached(next),
         x = "SystemExit" => config.exits /\ r.flags # {}, x # "ValueError",
         UNCHANGED <<config, number, kind, outcome>>
  PROVE  Goes(next)
  BY DEF Settle, Goes, Reached

(* The steps that make no query begin or end. *)
Onward == Steps \ {"connect", "testTimeout", "except", "ended"}

LEMMA PrepareGoes ==
  ASSUME TypeInv, NEW step, NEW next, Prepare(step, next), Reached(next)
  PROVE  Goes(next)
  BY OptionTypes, ExitReplies, SettleGoes DEF Prepare

LEMMA RollbackGoes ==
  ASSUME TypeInv, NEW step, NEW next, RollbackTo(step, next), Reached(next)
  PROVE  Goes(next)
  BY OptionTypes, ExitReplies, SettleGoes DEF RollbackTo

LEMMA ExplainGoes ==
  ASSUME TypeInv, NEW step, NEW shown, NEW next, Explain(step, shown, next), Reached(next)
  PROVE  Goes(next)
  BY OptionTypes, ExitReplies, SettleGoes DEF Explain

LEMMA SetTimeoutGoes ==
  ASSUME TypeInv, NEW step, NEW seconds, NEW next, SetTimeout(step, seconds, next), Reached(next)
  PROVE  Goes(next)
  BY OptionTypes, ExitReplies, SettleGoes DEF SetTimeout

LEMMA SetTimeoutByMinimumGoes ==
  ASSUME TypeInv, NEW step, NEW next, SetTimeoutByMinimum(step, next), Reached(next)
  PROVE  Goes(next)
<1>1. CASE SetTimeout(step, LimitFor(minTime), next)
  BY <1>1, SetTimeoutGoes
<1>2. CASE ~SetTimeout(step, LimitFor(minTime), next)
  <2>1. /\ \E r \in Rejected(session, FALSE, config.exits) :
             Settle(r, IF r.raised = "DatabaseError" /\ r.flags # {}
                       THEN "InvalidTimeout" ELSE r.raised, next)
        /\ UNCHANGED <<config, number, kind, results, outcome>>
    BY <1>2 DEF SetTimeoutByMinimum
  <2> QED
    BY <2>1, OptionTypes, ExitReplies, SettleGoes
<1> QED
  BY <1>1, <1>2

LEMMA SkippingGoes ==
  ASSUME NEW r, NEW x, NEW next, SettleSkipping(r, x, next), Reached(next),
         x = "SystemExit" => config.exits /\ r.flags # {}, x # "ValueError",
         UNCHANGED <<config, number, kind, outcome>>
  PROVE  Goes(next) \/ Goes(NextOptimization)
  BY SettleGoes DEF SettleSkipping, NextOptimization, Reached

(* A measurement exits only when that was asked for, and flags the run.    *)
LEMMA CallGoes ==
  ASSUME TypeInv, NEW a \in Answers, NEW fields \in Fields, NEW next,
         Call(a, fields, next), Reached(next),
         UNCHANGED <<config, number, kind, outcome>>
  PROVE  Goes(next)
<1>1. PICK s \in HandedBack, f \in SUBSET Flags :
        /\ Justified(a, config.exits, flags \cup f, s, fields)
        /\ Settle(Reply(s, f, "none", TRUE), RaisedBy(a), next)
  BY DEF Call
<1>2. a = "exit" => config.exits /\ flags' # {}
  BY <1>1 DEF Justified, Settle, Reply
<1>3. (RaisedBy(a) = "SystemExit" => a = "exit") /\ RaisedBy(a) # "ValueError"
  BY DEF RaisedBy
<1> QED
  BY <1>1, <1>2, <1>3 DEF Settle, Goes, Reached

(* What neither connects, ends a query, handles an exception nor stutters. *)
Statement ==
  \/ SetTestTimeout \/ PrepareDefault \/ ExplainDefault \/ RollbackDefault
  \/ PrepareCostsOff \/ ExplainOriginalOff \/ RollbackCostsOff
  \/ MeasureBaseline \/ LimitByBaseline \/ LimitByTestTimeout
  \/ EstimateOriginal \/ MeasureOriginal
  \/ BeginOptimizations \/ AppendOptimization \/ LimitOptimization
  \/ ExplainCostsOff \/ PrepareOptimization \/ ExplainOptimization
  \/ EstimateOptimization \/ MeasureOptimization \/ NewMinimum \/ Validate

LEMMA StatementsOnward ==
  ASSUME TypeInv, StopInv, Statement
  PROVE  \E next \in Onward : Goes(next)
<1> USE DEF Onward, Steps, LoopSteps, Reached
<1>1. CASE SetTestTimeout \/ LimitByTestTimeout
  BY <1>1, SetTimeoutGoes DEF SetTestTimeout, LimitByTestTimeout
<1>2. CASE PrepareDefault \/ PrepareCostsOff
  BY <1>2, PrepareGoes DEF PrepareDefault, PrepareCostsOff
<1>3. CASE ExplainDefault \/ ExplainOriginalOff
  BY <1>3, ExplainGoes DEF ExplainDefault, ExplainOriginalOff
<1>4. CASE RollbackDefault
  BY <1>4, RollbackGoes DEF RollbackDefault
<1>5. CASE RollbackCostsOff
  <2>1. FirstLimit \in {"baseline", "limit"}
    BY DEF FirstLimit
  <2> QED
    BY <1>5, <2>1, RollbackGoes DEF RollbackCostsOff
<1>6. CASE MeasureBaseline
  BY <1>6, CallGoes DEF MeasureBaseline
<1>7. CASE LimitByBaseline \/ LimitOptimization
  BY <1>7, SetTimeoutByMinimumGoes DEF LimitByBaseline, LimitOptimization
<1>8. /\ AfterOriginal \in {"optimize", "between"} /\ (AfterOriginal = "optimize" => Optimized)
      /\ NextOptimization \in {"append", "validate"}
  BY DEF AfterOriginal, NextOptimization, Optimized
<1>9. CASE MeasureOriginal
  BY <1>8, <1>9, CallGoes DEF MeasureOriginal
<1>10. ASSUME NEW next \in Onward, Reached(next), pc' = next,
              UNCHANGED <<config, number, kind, flags, exception, outcome>>
       PROVE  Goes(next)
  BY <1>10 DEF Goes, StopInv
<1>11. CASE EstimateOriginal
  BY <1>8, <1>10, <1>11 DEF EstimateOriginal
<1>12. CASE AppendOptimization \/ EstimateOptimization
  BY <1>10, <1>12 DEF AppendOptimization, EstimateOptimization
<1>19. CASE BeginOptimizations
  <2>1. CASE ~kind.raises
    BY <1>10, <1>19, <2>1 DEF BeginOptimizations
  <2>2. CASE kind.raises
    <3>1. Optimized
      BY <1>19 DEF BeginOptimizations, StopInv
    <3>2. Goes("append")
      BY <1>19, <2>2, <3>1 DEF BeginOptimizations, Goes, Unhintable, Optimized
    <3> QED
      BY <3>2
  <2> QED
    BY <2>1, <2>2
<1>13. CASE NewMinimum
  BY <1>8, <1>10, <1>13 DEF NewMinimum
<1>14. CASE ExplainCostsOff
  <2>1. PICK r \in EvaluateSql(session, Ran(session), FALSE, config.exits), p \in Plans :
          Settle(r, Fetched(r), IF p \in checked THEN "newMin" ELSE "prepareOpt")
    BY <1>14 DEF ExplainCostsOff
  <2>2. UNCHANGED <<config, number, kind, outcome>>
    BY <1>14 DEF ExplainCostsOff
  <2>3. PICK next \in {"newMin", "prepareOpt"} : Settle(r, Fetched(r), next)
    BY <2>1
  <2>4. Fetched(r) = "SystemExit" => config.exits /\ r.flags # {}
    BY <2>1, OptionTypes, ExitReplies
  <2>6. Fetched(r) # "ValueError"
    BY <2>1, OptionTypes, ExitReplies
  <2>5. Goes(next)
    BY <2>2, <2>3, <2>4, <2>6, SettleGoes
  <2> QED
    BY <2>5
<1>15. CASE PrepareOptimization
  BY <1>8, <1>15, OptionTypes, ExitReplies, SkippingGoes DEF PrepareOptimization
<1>16. CASE ExplainOptimization
  BY <1>8, <1>16, OptionTypes, ExitReplies, SkippingGoes DEF ExplainOptimization
<1>17. CASE MeasureOptimization
  BY <1>17, CallGoes DEF MeasureOptimization
<1>18. CASE Validate
  BY <1>18 DEF Validate, Goes, StopInv
<1> QED
  BY <1>1, <1>2, <1>3, <1>4, <1>5, <1>6, <1>7, <1>9, <1>11, <1>12, <1>13, <1>14,
     <1>15, <1>16, <1>17, <1>18, <1>19 DEF Statement

LEMMA StatementsRun == Statement => pc # "ended"
  BY DEF Statement, SetTestTimeout, PrepareDefault, ExplainDefault, RollbackDefault,
         PrepareCostsOff, ExplainOriginalOff, RollbackCostsOff, MeasureBaseline,
         LimitByBaseline, LimitByTestTimeout, EstimateOriginal, MeasureOriginal,
         BeginOptimizations, AppendOptimization, LimitOptimization, ExplainCostsOff,
         PrepareOptimization, ExplainOptimization, EstimateOptimization,
         MeasureOptimization, NewMinimum, Validate,
         SetTimeout, SetTimeoutByMinimum, Prepare, Explain, RollbackTo

-----------------------------------------------------------------------------
LEMMA StopInvNext == TypeInv /\ StopInv /\ [Next]_vars => StopInv'
<1> SUFFICES ASSUME TypeInv, StopInv, [Next]_vars PROVE StopInv'
  OBVIOUS
<1>1. CASE Statement
  BY <1>1, StatementsOnward, StatementsRun, GoesKeepsStop
<1>2. CASE Connect
  BY <1>2 DEF Connect, StopInv, Unhintable, Optimized, NothingElseStopsTheRun, QueriesMayEnd
<1>3. CASE Except
  <2>1. exception \in Caught \cup Raised \cup {"none"} /\ exception # "none"
    BY <1>3 DEF Except, StopInv, TypeInv, TypeOK
  <2> QED
    BY <1>3, <2>1 DEF Except, StopInv, Unhintable, Optimized, NothingElseStopsTheRun,
       AfterException, QueriesMayEnd, Raised
<1>4. CASE EndQuery
  <2>1. PICK r \in EndTransaction :
          /\ session' = r.session
          /\ \/ r.raised = "none" /\ NextQuery
             \/ /\ r.raised = "none" /\ number = NumQueries
                /\ outcome' = "complete" /\ pc' = "ended"
                /\ UNCHANGED <<number, kind, results, exception>>
             \/ /\ r.raised # "none"
                /\ outcome' = "aborted" /\ pc' = "ended"
                /\ UNCHANGED <<number, kind, results, exception>>
    BY <1>4 DEF EndQuery
  <2>2. UNCHANGED <<config, flags>> /\ pc = "between"
    BY <1>4 DEF EndQuery
  <2>3. r.raised # "none" => ~r.session.alive
    BY OptionTypes, EndTransactionReplies
  <2> QED
    BY <2>1, <2>2, <2>3 DEF NextQuery, StopInv, Unhintable, Optimized, NothingElseStopsTheRun, QueriesMayEnd
<1>5. CASE UNCHANGED vars
  BY <1>5 DEF vars, StopInv, Unhintable, Optimized, NothingElseStopsTheRun, QueriesMayEnd
<1> QED
  BY <1>1, <1>2, <1>3, <1>4, <1>5 DEF Next, Statement, Ended

LEMMA AlwaysStopInv == Spec => [](TypeInv /\ StopInv)
<1>1. Init => StopInv
  BY DEF Init, StopInv, Unhintable, Optimized, NothingElseStopsTheRun, QueriesMayEnd
<1> QED
  BY <1>1, AlwaysTypeInv, StopInvNext, PTL DEF Spec

(* No failure of a statement or a measurement ends the run over all        *)
(* queries: it ends after the last one, on a connection that is lost,      *)
(* because exit-on-fail was asked for and the run is flagged, or by the    *)
(* ValueError of a query that was to be optimized and cannot be given      *)
(* hints, which evaluate_testing_queries raises again.                     *)
THEOREM OnlyTheseStopTheRun == Spec => []NothingElseStopsTheRun
  BY AlwaysStopInv, PTL DEF StopInv

LEMMA CleanStartNext == TypeInv /\ StopInv /\ CleanStart /\ [Next]_vars => CleanStart'
<1> SUFFICES ASSUME TypeInv, StopInv, CleanStart, [Next]_vars PROVE CleanStart'
  OBVIOUS
<1>1. CASE Statement
  BY <1>1, StatementsOnward DEF Onward, Goes, CleanStart
<1>2. CASE Connect
  BY <1>2 DEF Connect, CleanStart
<1>3. CASE Except
  BY <1>3 DEF Except, AfterException, CleanStart
<1>4. CASE EndQuery
  <2>1. PICK r \in EndTransaction :
          session' = r.session /\ (r.raised = "none" \/ pc' = "ended")
    BY <1>4 DEF EndQuery
  <2> QED
    BY <2>1, OptionTypes, EndTransactionReplies DEF CleanStart
<1>5. CASE UNCHANGED vars
  BY <1>5 DEF vars, CleanStart
<1> QED
  BY <1>1, <1>2, <1>3, <1>4, <1>5 DEF Next, Statement, Ended

(* A query starts on a session without a transaction, a timeout or session *)
(* properties, whatever became of the query before it.                     *)
THEOREM QueriesStartClean == Spec => []CleanStart
<1>1. Init => CleanStart
  BY DEF Init, CleanStart, Lost, Fresh
<1> QED
  BY <1>1, AlwaysStopInv, CleanStartNext, PTL DEF Spec

-----------------------------------------------------------------------------
(* The walk of a query: up to its measurement there are no optimizations,  *)
(* and only evaluate_optimizations leads into its loop.                    *)
InLoop == LoopSteps \cup {"newMin"}

BeforeLoop ==
  {"connect", "testTimeout", "prepare", "explain", "rollback", "prepareOff",
   "explainOff", "rollbackOff", "baseline", "baselineLimit", "limit", "measure",
   "optimize"}

(* The steps outside the loop, but for the first and the last of a query.  *)
OriginalStep ==
  \/ SetTestTimeout \/ PrepareDefault \/ ExplainDefault \/ RollbackDefault
  \/ PrepareCostsOff \/ ExplainOriginalOff \/ RollbackCostsOff \/ MeasureBaseline
  \/ LimitByBaseline \/ LimitByTestTimeout \/ EstimateOriginal \/ MeasureOriginal
  \/ BeginOptimizations /\ kind.raises
  \/ Validate \/ Connect \/ Except

LEMMA OriginalSteps ==
  ASSUME OriginalStep
  PROVE  /\ UNCHANGED <<opts, checked>> /\ pc' \notin InLoop
         /\ pc' \in BeforeLoop => pc \in BeforeLoop
<1> DEFINE Out == /\ UNCHANGED <<opts, checked>> /\ pc' \notin InLoop
                  /\ pc' \in BeforeLoop => pc \in BeforeLoop
<1> SUFFICES Out
  OBVIOUS
<1> USE DEF InLoop, LoopSteps, BeforeLoop, results
<1>1. ASSUME NEW r, NEW x, NEW next, Settle(r, x, next), UNCHANGED <<opts, checked>>,
             next \notin InLoop, next \in BeforeLoop => pc \in BeforeLoop
      PROVE  Out
  BY <1>1 DEF Settle
<1>2. CASE SetTestTimeout \/ LimitByTestTimeout
  BY <1>1, <1>2 DEF SetTestTimeout, LimitByTestTimeout, SetTimeout
<1>3. CASE PrepareDefault \/ PrepareCostsOff
  BY <1>1, <1>3 DEF PrepareDefault, PrepareCostsOff, Prepare
<1>4. CASE ExplainDefault \/ ExplainOriginalOff
  BY <1>1, <1>4 DEF ExplainDefault, ExplainOriginalOff, Explain
<1>5. CASE RollbackDefault \/ RollbackCostsOff
  <2>1. FirstLimit \in {"baseline", "limit"}
    BY DEF FirstLimit
  <2> QED
    BY <1>1, <1>5, <2>1 DEF RollbackDefault, RollbackCostsOff, RollbackTo
<1>6. AfterOriginal \in {"optimize", "between"}
  BY DEF AfterOriginal
<1>7. CASE MeasureBaseline \/ MeasureOriginal
  BY <1>1, <1>6, <1>7 DEF MeasureBaseline, MeasureOriginal, Call
<1>8. CASE LimitByBaseline
  BY <1>1, <1>8 DEF LimitByBaseline, SetTimeoutByMinimum, SetTimeout
<1>9. CASE EstimateOriginal
  BY <1>6, <1>9 DEF EstimateOriginal
<1>10. CASE Validate \/ Connect \/ Except
  BY <1>10 DEF Validate, Connect, Except, AfterException
<1>11. CASE BeginOptimizations /\ kind.raises
  BY <1>11 DEF BeginOptimizations
<1> QED
  BY <1>2, <1>3, <1>4, <1>5, <1>7, <1>8, <1>9, <1>10, <1>11 DEF OriginalStep

-----------------------------------------------------------------------------
(* Optimizations with the same plan are measured once: a measured plan is  *)
(* among the checked ones, and the optimization at hand is not measured    *)
(* before its plan was found new.                                          *)
Found == {"prepareOpt", "explainOpt", "measureOpt"}

OnceInv ==
  /\ OncePerPlan
  /\ \A i \in 1..Current : opts[i].measured => opts[i].plan \in checked
  /\ pc \in Found \cup {"limitOpt", "costsOff"} => ~opts[Current].measured
  /\ pc \in Found => /\ opts[Current].plan \in checked
                     /\ \A i \in 1..(Current - 1) :
                          opts[i].measured => opts[i].plan # opts[Current].plan

(* A step that leaves the optimizations alone, and none at hand that was   *)
(* not before.                                                             *)
LEMMA OnceKept ==
  ASSUME OnceInv, UNCHANGED <<opts, checked>>,
         \/ pc' \notin Found \cup {"limitOpt", "costsOff"}
         \/ pc = "limitOpt" /\ pc' = "costsOff"
         \/ pc \in Found /\ pc' \in Found
  PROVE  OnceInv'
  BY DEF OnceInv, OncePerPlan, Current, Found

(* With no optimizations there is nothing to violate. *)
LEMMA OnceEmpty ==
  ASSUME opts' = <<>>, pc' \notin Found \cup {"limitOpt", "costsOff"}
  PROVE  OnceInv'
  BY DEF OnceInv, OncePerPlan, Current, Found

LEMMA OnceNext == TypeInv /\ OnceInv /\ [Next]_vars => OnceInv'
<1> SUFFICES ASSUME TypeInv, OnceInv, [Next]_vars PROVE OnceInv'
  OBVIOUS
<1>0. /\ opts \in Seq(Optimizations) /\ Len(opts) \in Nat /\ Current = Len(opts)
      /\ pc \in OptimizationSteps => Len(opts) > 0
  BY OptionTypes DEF TypeInv, Placed, Current
<1>1. CASE OriginalStep
  BY <1>1, OriginalSteps, OnceKept DEF Found, InLoop, LoopSteps
<1>2. CASE BeginOptimizations /\ ~kind.raises
  BY <1>2, OnceEmpty DEF BeginOptimizations, Found
<1>3. CASE AppendOptimization
  <2>1. opts' = Append(opts, NoOptimization) /\ checked' = checked
        /\ pc' \in {"limitOpt", "costsOff"}
    BY <1>3 DEF AppendOptimization
  <2>2. NoOptimization \in Optimizations
    BY DEF NoOptimization, Optimizations, ResultTimes, Errors
  <2>3. Len(opts') = Len(opts) + 1 /\ opts'[Len(opts) + 1] = NoOptimization
        /\ \A j \in 1..Len(opts) : opts'[j] = opts[j]
    BY <1>0, <2>1, <2>2
  <2>4. ~NoOptimization.measured
    BY DEF NoOptimization
  <2> QED
    BY <1>0, <2>1, <2>3, <2>4 DEF OnceInv, OncePerPlan, Current, Found
<1>4. CASE LimitOptimization
  <2>1. UNCHANGED <<opts, checked>> /\ pc' \in {"costsOff", "except"} /\ pc = "limitOpt"
    BY <1>4 DEF LimitOptimization, SetTimeoutByMinimum, SetTimeout, Settle, results
  <2> QED
    BY <2>1, OnceKept DEF Found
<1>5. CASE ExplainCostsOff
  <2>1. PICK r \in EvaluateSql(session, Ran(session), FALSE, config.exits), p \in Plans :
          /\ Settle(r, Fetched(r), IF p \in checked THEN "newMin" ELSE "prepareOpt")
          /\ IF Fetched(r) = "none"
             THEN /\ opts' = WithCurrent([opts[Current] EXCEPT !.plan = p])
                  /\ checked' = Checked(p)
             ELSE UNCHANGED <<opts, checked>>
    BY <1>5 DEF ExplainCostsOff
  <2>2. pc = "costsOff" /\ Len(opts) > 0
    BY <1>0, <1>5 DEF ExplainCostsOff, OptimizationSteps
  <2>3. CASE Fetched(r) # "none"
    <3>1. pc' = "except"
      BY <2>1, <2>3 DEF Settle
    <3> QED
      BY <2>1, <2>3, <3>1, OnceKept DEF Found
  <2>4. CASE Fetched(r) = "none"
    <3> DEFINE o == [opts[Current] EXCEPT !.plan = p]
    <3>1. opts[Current] \in Optimizations
      BY <1>0, <2>2
    <3>2. o \in Optimizations /\ o.plan = p /\ o.measured = opts[Current].measured
      BY <3>1 DEF Optimizations
    <3>3. opts' = WithCurrent(o) /\ checked' = checked \cup {p}
      BY <2>1, <2>4 DEF Checked
    <3>4. pc' = IF p \in checked THEN "newMin" ELSE "prepareOpt"
      BY <2>1, <2>4 DEF Settle
    <3>5. Len(opts') = Len(opts)
          /\ \A j \in 1..Len(opts) : opts'[j] = IF j = Len(opts) THEN o ELSE opts[j]
      BY <1>0, <2>2, <3>2, <3>3, CurrentTypes
    <3>6. ~o.measured
      BY <2>2, <3>2 DEF OnceInv
    <3> HIDE DEF o
    <3>7. Current' = Len(opts)
      BY <3>5 DEF Current
    <3>8. OncePerPlan'
      BY <1>0, <3>5, <3>6, <3>7 DEF OnceInv, OncePerPlan
    <3>9. \A j \in 1..Len(opts) : opts'[j].measured => opts'[j].plan \in checked'
      BY <1>0, <3>3, <3>5, <3>6 DEF OnceInv
    <3>10. opts'[Len(opts)] = o
      BY <1>0, <2>2, <3>5
    <3>11. p \notin checked => \A j \in 1..(Len(opts) - 1) :
                                 opts'[j].measured => opts'[j].plan # p
      BY <1>0, <3>5 DEF OnceInv
    <3> QED
      BY <3>2, <3>3, <3>4, <3>6, <3>7, <3>8, <3>9, <3>10, <3>11 DEF OnceInv, Found
  <2> QED
    BY <2>3, <2>4
<1>6. CASE PrepareOptimization \/ ExplainOptimization
  <2>1. UNCHANGED <<opts, checked>> /\ pc \in Found
    BY <1>6 DEF PrepareOptimization, ExplainOptimization, results, Found
  <2>2. NextOptimization \in {"append", "validate"}
    BY DEF NextOptimization
  <2>3. pc' \in {"explainOpt", "measureOpt", "except"} \cup {"append", "validate"}
    BY <1>6, <2>2 DEF PrepareOptimization, ExplainOptimization, SettleSkipping, Settle
  <2> QED
    BY <2>1, <2>3, OnceKept DEF Found
<1>7. CASE EstimateOptimization
  BY <1>7, OnceKept DEF EstimateOptimization, Found
<1>8. CASE MeasureOptimization
  <2>1. PICK fields \in Fields : \E o \in Measurements(opts[Current], fields) :
          opts' = WithCurrent([o EXCEPT !.measured = TRUE])
    BY <1>8 DEF MeasureOptimization
  <2>2. PICK o \in Measurements(opts[Current], fields) :
          opts' = WithCurrent([o EXCEPT !.measured = TRUE])
    BY <2>1
  <2>3. pc = "measureOpt" /\ Len(opts) > 0 /\ checked' = checked
        /\ pc' \in {"newMin", "except"}
    BY <1>0, <1>8 DEF MeasureOptimization, OptimizationSteps, Call, Settle
  <2>4. o \in Optimizations /\ o.plan = opts[Current].plan
    BY <1>0, <2>3, MeasuredOptimization
  <2> DEFINE q == [o EXCEPT !.measured = TRUE]
  <2>5. q \in Optimizations /\ q.plan = opts[Current].plan
    BY <2>4 DEF Optimizations
  <2>6. Len(opts') = Len(opts)
        /\ \A j \in 1..Len(opts) : opts'[j] = IF j = Len(opts) THEN q ELSE opts[j]
    BY <1>0, <2>2, <2>3, <2>5, CurrentTypes
  <2> HIDE DEF q
  <2>7. Current' = Len(opts)
    BY <2>6 DEF Current
  <2>8. OncePerPlan'
    BY <1>0, <2>3, <2>5, <2>6, <2>7 DEF OnceInv, OncePerPlan, Found
  <2>9. \A j \in 1..Len(opts) : opts'[j].measured => opts'[j].plan \in checked'
    BY <1>0, <2>3, <2>5, <2>6 DEF OnceInv, Found
  <2> QED
    BY <2>3, <2>7, <2>8, <2>9 DEF OnceInv, Found
<1>9. CASE EndQuery
  <2>1. CASE NextQuery
    BY <2>1, OnceEmpty DEF NextQuery, Found
  <2>2. CASE ~NextQuery
    BY <1>9, <2>2, OnceKept DEF EndQuery, results, Found
  <2> QED
    BY <2>1, <2>2
<1>10. CASE NewMinimum
  <2>1. UNCHANGED <<opts, checked>> /\ pc' \in {"append", "validate"}
    BY <1>10 DEF NewMinimum, NextOptimization
  <2> QED
    BY <2>1, OnceKept DEF Found
<1>11. CASE UNCHANGED vars
  BY <1>11 DEF vars, OnceInv, OncePerPlan, Current
<1> QED
  BY <1>1, <1>2, <1>3, <1>4, <1>5, <1>6, <1>7, <1>8, <1>9, <1>10, <1>11
  DEF Next, Ended, OriginalStep

(* Optimizations that show the same plan are measured once, whatever fails *)
(* between the check of the plan and its measurement.                      *)
THEOREM PlansMeasuredOnce == Spec => []OncePerPlan
<1>1. Init => OnceInv
  BY DEF Init, OnceInv, OncePerPlan, Current, Found
<1>2. OnceInv => OncePerPlan
  BY DEF OnceInv
<1> QED
  BY <1>1, <1>2, AlwaysTypeInv, OnceNext, PTL DEF Spec

-----------------------------------------------------------------------------
(* The minimum of the times.  While an optimization is at hand it has no   *)
(* time before its measurement; after it, the minimum is that of the       *)
(* others until NewMinimum has looked at it.                               *)

(* m is the least of start and the positive times of the first n in list.  *)
LeastOf(m, start, list, n) ==
  /\ m <= start
  /\ \A i \in 1..n : list[i].time > 0 => m <= list[i].time
  /\ m = start \/ \E i \in 1..n : list[i].time > 0 /\ m = list[i].time

MinInv ==
  ~config.plansOnly =>
    /\ pc \in LoopSteps => LeastOf(minTime, StartTime, opts, Current)
    /\ pc = "newMin" => LeastOf(minTime, StartTime, opts, Current - 1)
    /\ pc \in LoopSteps \ {"append"} => opts[Current].time = 0

(* Only the times of the first n matter. *)
LEMMA LeastSame ==
  ASSUME NEW m, NEW start, NEW n, NEW list, LeastOf(m, start, list, n),
         NEW other, \A i \in 1..n : other[i].time = list[i].time
  PROVE  LeastOf(m, start, other, n)
  BY DEF LeastOf

(* A measurement that failed, or was not faster, leaves the minimum. *)
LEMMA LeastLonger ==
  ASSUME NEW m \in Int, NEW start \in Int, NEW n \in Nat, NEW list,
         LeastOf(m, start, list, n), list[n + 1].time \in Int,
         \A i \in 1..n : list[i].time \in Int
  PROVE  LeastOf(IF 0 < list[n + 1].time /\ list[n + 1].time < m
                 THEN list[n + 1].time ELSE m, start, list, n + 1)
<1>1. \A i \in 1..(n + 1) : i \in 1..n \/ i = n + 1
  OBVIOUS
<1>2. 1..n \subseteq 1..(n + 1) /\ n + 1 \in 1..(n + 1)
  OBVIOUS
<1>3. CASE 0 < list[n + 1].time /\ list[n + 1].time < m
  <2>1. \A i \in 1..n : list[i].time > 0 => list[n + 1].time <= list[i].time
    BY <1>3 DEF LeastOf
  <2>2. list[n + 1].time <= start
    BY <1>3 DEF LeastOf
  <2> QED
    BY <1>1, <1>2, <1>3, <2>1, <2>2 DEF LeastOf
<1>4. CASE ~(0 < list[n + 1].time /\ list[n + 1].time < m)
  <2>1. list[n + 1].time > 0 => m <= list[n + 1].time
    BY <1>4
  <2> QED
    BY <1>1, <1>2, <1>4, <2>1 DEF LeastOf
<1> QED
  BY <1>3, <1>4

(* The query's own time is what the loop started from throughout.          *)
LEMMA StartKept ==
  ASSUME original'.time = original.time
  PROVE  StartTime' = StartTime
  BY DEF StartTime

LEMMA TimesAreNumbers ==
  ASSUME TypeInv
  PROVE  /\ minTime \in Int /\ StartTime \in Int
         /\ \A i \in 1..Len(opts) : opts[i].time \in Int
<1>1. original.time \in Int
  BY OptionTypes, TimesTypes DEF Originals
<1>2. TestTimeout * 1000 \in Int
  BY EvaluateAssumption
<1>3. ASSUME NEW i \in 1..Len(opts) PROVE opts[i].time \in Int
  <2>1. opts[i] \in Optimizations
    BY OptionTypes
  <2> QED
    BY <2>1, TimesTypes DEF Optimizations
<1> QED
  BY <1>1, <1>2, <1>3, OptionTypes, TimesTypes DEF StartTime

(* A step in the loop that leaves the times alone and the optimization at  *)
(* hand unmeasured.                                                        *)
LEMMA MinKept ==
  ASSUME MinInv, pc \in LoopSteps \ {"append"}, config' = config, minTime' = minTime,
         original'.time = original.time, Len(opts') = Len(opts), Len(opts) \in Nat \ {0},
         \A i \in 1..Len(opts) : opts'[i].time = opts[i].time
  PROVE  MinInv'
<1> SUFFICES ASSUME ~config.plansOnly PROVE MinInv'
  BY DEF MinInv
<1>1. PICK n \in Nat \ {0} : Len(opts) = n /\ Len(opts') = n
  OBVIOUS
<1>2. opts[n].time = 0 /\ LeastOf(minTime, StartTime, opts, n)
  BY <1>1 DEF MinInv, Current
<1>3. \A i \in 1..n : opts'[i].time = opts[i].time
  BY <1>1
<1>4. opts'[n].time = 0 /\ StartTime' = StartTime
  BY <1>2, <1>3, StartKept
<1>5. LeastOf(minTime, StartTime, opts', n)
  BY <1>2, <1>3, LeastSame
<1>6. LeastOf(minTime, StartTime, opts', n - 1)
  <2>1. \A i \in 1..n : opts'[i].time > 0 => i \in 1..(n - 1)
    BY <1>4
  <2>2. 1..(n - 1) \subseteq 1..n
    OBVIOUS
  <2> QED
    BY <1>5, <2>1, <2>2 DEF LeastOf
<1> QED
  BY <1>1, <1>4, <1>5, <1>6 DEF MinInv, Current

LEMMA MinNext == TypeInv /\ MinInv /\ [Next]_vars => MinInv'
<1> SUFFICES ASSUME TypeInv, MinInv, [Next]_vars PROVE MinInv'
  OBVIOUS
<1> USE DEF InLoop, LoopSteps
<1>0. /\ opts \in Seq(Optimizations) /\ Len(opts) \in Nat /\ Current = Len(opts)
      /\ pc \in OptimizationSteps => Len(opts) > 0
  BY OptionTypes DEF TypeInv, Placed, Current
<1>1. ASSUME pc' \notin InLoop PROVE MinInv'
  BY <1>1 DEF MinInv
<1>2. CASE OriginalStep
  BY <1>1, <1>2, OriginalSteps
<1>3. CASE BeginOptimizations /\ ~kind.raises
  <2>1. /\ pc' \in {"append", "validate"} /\ opts' = <<>> /\ minTime' = StartTime
        /\ original' = original
    BY <1>3 DEF BeginOptimizations
  <2>2. Current' = 0 /\ StartTime' = StartTime
    BY <2>1, StartKept DEF Current
  <2>3. StartTime \in Int
    BY TimesAreNumbers
  <2> QED
    BY <2>1, <2>2, <2>3 DEF MinInv, LeastOf
<1>4. CASE AppendOptimization
  <2>1. /\ opts' = Append(opts, NoOptimization) /\ pc = "append"
        /\ pc' \in {"limitOpt", "costsOff"}
        /\ UNCHANGED <<config, original, minTime>>
    BY <1>4 DEF AppendOptimization
  <2>2. NoOptimization \in Optimizations /\ NoOptimization.time = 0
    BY DEF NoOptimization, Optimizations, ResultTimes, Errors
  <2>3. PICK n \in Nat : Len(opts) = n
    BY <1>0
  <2>4. /\ Len(opts') = n + 1 /\ opts'[n + 1] = NoOptimization
        /\ \A i \in 1..n : opts'[i].time = opts[i].time
    BY <1>0, <2>1, <2>2, <2>3
  <2>5. StartTime' = StartTime
    BY <2>1, StartKept
  <2>6. ~config.plansOnly => LeastOf(minTime, StartTime, opts', n)
    BY <2>1, <2>3, <2>4, LeastSame DEF MinInv, Current
  <2>7. ~config.plansOnly => LeastOf(minTime, StartTime, opts', n + 1)
    <3>1. \A i \in 1..(n + 1) : opts'[i].time > 0 => i \in 1..n
      BY <2>2, <2>4
    <3>2. 1..n \subseteq 1..(n + 1)
      OBVIOUS
    <3> QED
      BY <2>6, <3>1, <3>2 DEF LeastOf
  <2> QED
    BY <2>1, <2>2, <2>4, <2>5, <2>7 DEF MinInv, Current
<1>5. CASE LimitOptimization \/ PrepareOptimization \/ ExplainOptimization
  <2>1. pc \in {"limitOpt", "prepareOpt", "explainOpt"} /\ UNCHANGED results
        /\ config' = config
    BY <1>5 DEF LimitOptimization, SetTimeoutByMinimum, SetTimeout, PrepareOptimization,
                ExplainOptimization
  <2>2. UNCHANGED <<original, opts, minTime>> /\ Len(opts) \in Nat \ {0}
    BY <1>0, <2>1 DEF results, OptimizationSteps
  <2> QED
    BY <2>1, <2>2, MinKept
<1>6. CASE ExplainCostsOff
  <2>1. PICK p \in Plans, fetched \in BOOLEAN :
          /\ fetched => pc' \in {"newMin", "prepareOpt"}
          /\ IF fetched
             THEN /\ opts' = WithCurrent([opts[Current] EXCEPT !.plan = p])
                  /\ original' \in {original, [original EXCEPT !.hints = Current]}
             ELSE UNCHANGED <<opts, original>>
    <3>1. PICK r \in EvaluateSql(session, Ran(session), FALSE, config.exits), p \in Plans :
            /\ Settle(r, Fetched(r), IF p \in checked THEN "newMin" ELSE "prepareOpt")
            /\ IF Fetched(r) = "none"
               THEN /\ opts' = WithCurrent([opts[Current] EXCEPT !.plan = p])
                    /\ original' = IF original.hints = 0 /\ original.plan = p
                                   THEN [original EXCEPT !.hints = Current] ELSE original
               ELSE UNCHANGED <<opts, original>>
      BY <1>6 DEF ExplainCostsOff
    <3>2. Fetched(r) = "none" => pc' \in {"newMin", "prepareOpt"}
      BY <3>1 DEF Settle
    <3>3. (Fetched(r) = "none") \in BOOLEAN
      OBVIOUS
    <3> QED
      BY <3>1, <3>2, <3>3
  <2>2. pc = "costsOff" /\ config' = config /\ minTime' = minTime /\ Len(opts) \in Nat \ {0}
    BY <1>0, <1>6 DEF ExplainCostsOff, OptimizationSteps
  <2>3. original'.time = original.time
    BY <2>1, OptionTypes DEF Originals
  <2>4. Len(opts') = Len(opts) /\ \A i \in 1..Len(opts) : opts'[i].time = opts[i].time
    <3>1. CASE ~fetched
      BY <2>1, <3>1
    <3>2. CASE fetched
      <4>1. opts[Current] \in Optimizations
        BY <1>0, <2>2
      <4> DEFINE o == [opts[Current] EXCEPT !.plan = p]
      <4>2. o \in Optimizations /\ o.time = opts[Current].time
        BY <4>1 DEF Optimizations
      <4>3. opts' = WithCurrent(o)
        BY <2>1, <3>2
      <4> HIDE DEF o
      <4>4. /\ Len(opts') = Len(opts)
            /\ \A i \in 1..Len(opts) : opts'[i] = IF i = Current THEN o ELSE opts[i]
        BY <2>2, <4>2, <4>3, CurrentTypes
      <4> QED
        BY <4>2, <4>4
    <3> QED
      BY <3>1, <3>2
  <2> QED
    BY <2>2, <2>3, <2>4, MinKept
<1>7. CASE EstimateOptimization
  BY <1>7 DEF EstimateOptimization, MinInv
<1>8. CASE MeasureOptimization
  <2>1. /\ pc = "measureOpt" /\ pc' \in {"newMin", "except"}
        /\ UNCHANGED <<config, original, minTime>> /\ Len(opts) \in Nat \ {0}
    BY <1>0, <1>8 DEF MeasureOptimization, Call, Settle, OptimizationSteps
  <2>2. PICK fields \in Fields : \E q \in Measurements(opts[Current], fields) :
          opts' = WithCurrent([q EXCEPT !.measured = TRUE])
    BY <1>8 DEF MeasureOptimization
  <2>3. PICK q \in Measurements(opts[Current], fields) :
          opts' = WithCurrent([q EXCEPT !.measured = TRUE])
    BY <2>2
  <2>4. [q EXCEPT !.measured = TRUE] \in Optimizations
    <3>1. q \in Optimizations
      BY <1>0, <2>1, MeasuredOptimization
    <3> QED
      BY <3>1 DEF Optimizations
  <2>5. PICK n \in Nat : Len(opts) = n + 1
    BY <2>1
  <2>6. Len(opts') = n + 1 /\ \A i \in 1..n : opts'[i] = opts[i]
    <3> DEFINE o == [q EXCEPT !.measured = TRUE]
    <3>1. o \in Optimizations /\ opts' = WithCurrent(o)
      BY <2>3, <2>4
    <3> HIDE DEF o
    <3>2. /\ Len(opts') = Len(opts)
          /\ \A i \in 1..Len(opts) : opts'[i] = IF i = Current THEN o ELSE opts[i]
      BY <2>1, <3>1, CurrentTypes
    <3>3. \A i \in 1..n : i \in 1..Len(opts) /\ i # Current
      BY <2>5 DEF Current
    <3> QED
      BY <2>5, <3>2, <3>3
  <2>7. StartTime' = StartTime
    BY <2>1, StartKept
  <2>8. ~config.plansOnly => LeastOf(minTime, StartTime, opts, n)
    <3>1. ~config.plansOnly =>
            opts[n + 1].time = 0 /\ LeastOf(minTime, StartTime, opts, n + 1)
      BY <2>1, <2>5 DEF MinInv, Current
    <3>2. 1..n \subseteq 1..(n + 1) /\ \A i \in 1..(n + 1) : i \in 1..n \/ i = n + 1
      OBVIOUS
    <3> QED
      BY <3>1, <3>2 DEF LeastOf
  <2>9. ~config.plansOnly => LeastOf(minTime, StartTime, opts', n)
    BY <2>6, <2>8, LeastSame
  <2>10. Current' = n + 1
    BY <2>6 DEF Current
  <2> QED
    BY <2>1, <2>7, <2>9, <2>10 DEF MinInv
<1>9. CASE NewMinimum
  <2>1. /\ minTime' = IF Faster(opts[Current].time) THEN opts[Current].time ELSE minTime
        /\ pc = "newMin" /\ pc' \in {"append", "validate"}
        /\ UNCHANGED <<config, original, opts>> /\ Len(opts) \in Nat \ {0}
    BY <1>0, <1>9 DEF NewMinimum, NextOptimization, OptimizationSteps
  <2>2. PICK n \in Nat : Len(opts) = n + 1
    BY <2>1
  <2>3. ~config.plansOnly => LeastOf(minTime, StartTime, opts, n)
    BY <2>1, <2>2 DEF MinInv, Current
  <2>4. /\ minTime \in Int /\ StartTime \in Int
        /\ \A i \in 1..(n + 1) : opts[i].time \in Int
    BY <2>2, TimesAreNumbers
  <2>5. ~config.plansOnly => LeastOf(minTime', StartTime, opts, n + 1)
    <3>1. \A i \in 1..n : opts[i].time \in Int
      BY <2>4
    <3>2. opts[n + 1].time \in Int
      BY <2>4
    <3>3. minTime' = IF 0 < opts[n + 1].time /\ opts[n + 1].time < minTime
                     THEN opts[n + 1].time ELSE minTime
      BY <2>1, <2>2 DEF Faster, Current
    <3> QED
      BY <2>3, <2>4, <3>1, <3>2, <3>3, LeastLonger
  <2>6. StartTime' = StartTime /\ Current' = n + 1
    BY <2>1, <2>2, StartKept DEF Current
  <2> QED
    BY <2>1, <2>5, <2>6 DEF MinInv
<1>10. CASE EndQuery
  BY <1>1, <1>10 DEF EndQuery, NextQuery
<1>11. CASE UNCHANGED vars
  BY <1>11 DEF vars, MinInv, StartTime, Current
<1> QED
  BY <1>2, <1>3, <1>4, <1>5, <1>6, <1>7, <1>8, <1>9, <1>10, <1>11
  DEF Next, Ended, OriginalStep

(* While optimizations are evaluated, min_execution_time is the least of   *)
(* the time of the query, or the test timeout, and of the optimizations    *)
(* that were measured: no sentinel of a failed one becomes the minimum.    *)
THEOREM MinimumIsLeast == Spec => []MinIsMinimum
<1>1. Init => MinInv
  BY DEF Init, MinInv, LoopSteps
<1>2. MinInv => MinIsMinimum
  BY DEF MinInv, MinIsMinimum, Candidates, LeastOf
<1>3. TypeInv /\ MinInv => MinIsMinimum
  BY <1>2
<1> QED
  BY <1>1, <1>3, AlwaysTypeInv, MinNext, PTL DEF Spec

-----------------------------------------------------------------------------
(* Varying results.  The validation finds them, and no query gets to its   *)
(* end without it: one that is not validated has one result at most.       *)

LEMMA AtMostOne ==
  ASSUME NEW x, NEW S, S \subseteq {x}
  PROVE  ~(Cardinality(S) > 1)
<1>1. IsFiniteSet({x}) /\ Cardinality({x}) = 1
  BY FS_Singleton
<1>2. IsFiniteSet(S) /\ Cardinality(S) <= 1
  BY <1>1, FS_Subset
<1>3. Cardinality(S) \in Nat
  BY <1>2, FS_CardinalityType
<1> QED
  BY <1>2, <1>3

(* When every known hash is the reference hash there is only one.          *)
LEMMA ConsistentHasOneResult ==
  ASSUME ~Inconsistent
  PROVE  ~(Cardinality(ResultHashes) > 1)
<1>1. original.hash # "none" => original.hash = ReferenceHash
  BY DEF ReferenceHash
<1>2. \A i \in 1..Current : opts[i].hash # "none" => opts[i].hash = ReferenceHash
  BY DEF Inconsistent, Known
<1>3. ResultHashes \subseteq {ReferenceHash}
  BY <1>1, <1>2 DEF ResultHashes
<1> QED
  BY <1>3, AtMostOne

(* Before the loop there are no optimizations, and with plans_only, where  *)
(* nothing is validated, no hash is ever known.                            *)
HashInv ==
  /\ pc \in BeforeLoop => opts = <<>>
  /\ config.plansOnly => /\ original.hash = "none"
                         /\ \A i \in 1..Current : opts[i].hash = "none"

LEMMA HashKept ==
  ASSUME HashInv, config' = config, opts' = opts, original'.hash = original.hash,
         pc' \in BeforeLoop => pc \in BeforeLoop
  PROVE  HashInv'
  BY DEF HashInv, Current

(* Without a measurement the steps outside the loop leave the hash alone.  *)
LEMMA OriginalHashKept ==
  ASSUME TypeInv, OriginalStep, config.plansOnly \/ ~MeasureOriginal
  PROVE  original'.hash = original.hash /\ config' = config
<1>0. \A t, p, e : /\ [original EXCEPT !.time = t].hash = original.hash
                  /\ [original EXCEPT !.plan = p].hash = original.hash
                  /\ [original EXCEPT !.error = e].hash = original.hash
  BY OptionTypes DEF Originals
<1> USE DEF results
<1>1. CASE SetTestTimeout \/ LimitByTestTimeout \/ LimitByBaseline
  BY <1>1 DEF SetTestTimeout, LimitByTestTimeout, LimitByBaseline, SetTimeoutByMinimum,
              SetTimeout
<1>2. CASE PrepareDefault \/ PrepareCostsOff
  BY <1>2 DEF PrepareDefault, PrepareCostsOff, Prepare
<1>3. CASE RollbackDefault \/ RollbackCostsOff
  BY <1>3 DEF RollbackDefault, RollbackCostsOff, RollbackTo
<1>4. CASE ExplainDefault \/ ExplainOriginalOff
  <2>1. original' = original \/ \E p \in Plans : original' = [original EXCEPT !.plan = p]
    BY <1>4 DEF ExplainDefault, ExplainOriginalOff, Explain
  <2>2. config' = config
    BY <1>4 DEF ExplainDefault, ExplainOriginalOff, Explain
  <2> QED
    BY <1>0, <2>1, <2>2
<1>5. CASE MeasureBaseline \/ Validate \/ Connect \/ (BeginOptimizations /\ kind.raises)
  BY <1>5 DEF MeasureBaseline, Validate, Connect, BeginOptimizations
<1>6. CASE EstimateOriginal
  BY <1>0, <1>6 DEF EstimateOriginal
<1>7. CASE Except
  BY <1>0, <1>7 DEF Except
<1>8. CASE MeasureOriginal
  BY <1>8 DEF MeasureOriginal
<1> QED
  BY <1>1, <1>2, <1>3, <1>4, <1>5, <1>6, <1>7, <1>8 DEF OriginalStep

LEMMA HashNext == TypeInv /\ HashInv /\ [Next]_vars => HashInv'
<1> SUFFICES ASSUME TypeInv, HashInv, [Next]_vars PROVE HashInv'
  OBVIOUS
<1> USE DEF BeforeLoop
<1>0. /\ opts \in Seq(Optimizations) /\ Len(opts) \in Nat /\ Current = Len(opts)
      /\ pc \in OptimizationSteps => Len(opts) > 0
  BY OptionTypes DEF TypeInv, Placed, Current
<1>1. CASE OriginalStep /\ (config.plansOnly \/ ~MeasureOriginal)
  BY <1>1, OriginalSteps, OriginalHashKept, HashKept
<1>2. CASE MeasureOriginal /\ ~config.plansOnly
  <2>1. config' = config
    BY <1>2 DEF MeasureOriginal
  <2>2. opts' = opts /\ (pc' \in BeforeLoop => pc \in BeforeLoop)
    BY <1>2, OriginalSteps DEF OriginalStep
  <2> QED
    BY <1>2, <2>1, <2>2 DEF HashInv
<1>3. CASE BeginOptimizations /\ ~kind.raises
  <2>1. opts' = <<>> /\ UNCHANGED <<config, original>>
    BY <1>3 DEF BeginOptimizations
  <2> QED
    BY <2>1 DEF HashInv, Current
<1>4. CASE AppendOptimization
  <2>1. /\ opts' = Append(opts, NoOptimization) /\ UNCHANGED <<config, original>>
        /\ pc' \in {"limitOpt", "costsOff"}
    BY <1>4 DEF AppendOptimization
  <2>2. NoOptimization \in Optimizations /\ NoOptimization.hash = "none"
    BY DEF NoOptimization, Optimizations, ResultTimes, Errors
  <2>3. /\ Len(opts') = Len(opts) + 1 /\ opts'[Len(opts) + 1] = NoOptimization
        /\ \A i \in 1..Len(opts) : opts'[i] = opts[i]
    BY <1>0, <2>1, <2>2
  <2>4. \A i \in 1..(Len(opts) + 1) : i \in 1..Len(opts) \/ i = Len(opts) + 1
    BY <1>0
  <2> QED
    BY <2>1, <2>2, <2>3, <2>4 DEF HashInv, Current
<1>5. NextOptimization \in {"append", "validate"}
  BY DEF NextOptimization
<1>6. CASE LimitOptimization \/ PrepareOptimization \/ ExplainOptimization
  <2>1. config' = config /\ UNCHANGED results
    BY <1>6 DEF LimitOptimization, SetTimeoutByMinimum, SetTimeout, PrepareOptimization,
                ExplainOptimization
  <2>2. pc' \in {"costsOff", "explainOpt", "measureOpt", "append", "validate", "except"}
    BY <1>5, <1>6 DEF LimitOptimization, SetTimeoutByMinimum, SetTimeout,
       PrepareOptimization, ExplainOptimization, SettleSkipping, Settle
  <2> QED
    BY <2>1, <2>2, HashKept DEF results
<1>7. CASE ExplainCostsOff
  <2>1. PICK p \in Plans :
          \/ /\ opts' = WithCurrent([opts[Current] EXCEPT !.plan = p])
             /\ original' \in {original, [original EXCEPT !.hints = Current]}
          \/ UNCHANGED <<opts, original>>
    BY <1>7 DEF ExplainCostsOff
  <2>2. pc = "costsOff" /\ config' = config /\ Len(opts) > 0
    BY <1>0, <1>7 DEF ExplainCostsOff, OptimizationSteps
  <2>3. pc' \in {"newMin", "prepareOpt", "except"}
    BY <1>7 DEF ExplainCostsOff, Settle
  <2>4. original'.hash = original.hash
    BY <2>1, OptionTypes DEF Originals
  <2>5. CASE UNCHANGED <<opts, original>>
    BY <2>2, <2>3, <2>5, HashKept
  <2>6. CASE opts' = WithCurrent([opts[Current] EXCEPT !.plan = p])
    <3> DEFINE o == [opts[Current] EXCEPT !.plan = p]
    <3>1. opts[Current] \in Optimizations
      BY <1>0, <2>2
    <3>2. o \in Optimizations /\ o.hash = opts[Current].hash
      BY <3>1 DEF Optimizations
    <3>3. opts' = WithCurrent(o)
      BY <2>6
    <3> HIDE DEF o
    <3>4. /\ Len(opts') = Len(opts)
          /\ \A i \in 1..Len(opts) : opts'[i] = IF i = Current THEN o ELSE opts[i]
      BY <2>2, <3>2, <3>3, CurrentTypes
    <3> QED
      BY <2>2, <2>3, <2>4, <3>2, <3>4 DEF HashInv, Current
  <2> QED
    BY <2>1, <2>5, <2>6
<1>8. CASE EstimateOptimization
  <2>1. /\ UNCHANGED <<config, opts>> /\ pc' = "newMin"
        /\ \E c \in Times : original' = [[original EXCEPT !.time = c] EXCEPT !.planOf = Current]
    BY <1>8 DEF EstimateOptimization
  <2>2. original'.hash = original.hash
    BY <2>1, OptionTypes DEF Originals
  <2> QED
    BY <2>1, <2>2, HashKept
<1>9. CASE MeasureOptimization
  <2>1. ~config.plansOnly /\ config' = config /\ pc' \in {"newMin", "except"}
    BY <1>9 DEF MeasureOptimization, Call, Settle
  <2> QED
    BY <2>1 DEF HashInv
<1>10. CASE NewMinimum
  BY <1>5, <1>10, HashKept DEF NewMinimum
<1>11. CASE EndQuery
  <2>1. CASE NextQuery
    BY <1>11, <2>1 DEF EndQuery, NextQuery, HashInv, NoQuery, Current
  <2>2. CASE ~NextQuery
    BY <1>11, <2>2, HashKept DEF EndQuery, results
  <2> QED
    BY <2>1, <2>2
<1>12. CASE UNCHANGED vars
  BY <1>12, HashKept DEF vars
<1> QED
  BY <1>1, <1>2, <1>3, <1>4, <1>6, <1>7, <1>8, <1>9, <1>10, <1>11, <1>12
  DEF Next, Ended, OriginalStep

(* Where the end of a query is reached from. *)
LEMMA BetweenFrom ==
  ASSUME [Next]_vars, pc' = "between"
  PROVE  EstimateOriginal \/ MeasureOriginal \/ Validate \/ Except \/ UNCHANGED vars
<1>1. ASSUME NEW r, NEW x, NEW next, Settle(r, x, next), next # "between" PROVE FALSE
  BY <1>1 DEF Settle
<1>2. FirstLimit # "between" /\ NextOptimization # "between"
  BY DEF FirstLimit, NextOptimization
<1>3. ~(SetTestTimeout \/ LimitByTestTimeout \/ LimitByBaseline \/ LimitOptimization)
  BY <1>1 DEF SetTestTimeout, LimitByTestTimeout, LimitByBaseline, LimitOptimization,
              SetTimeoutByMinimum, SetTimeout
<1>4. ~(PrepareDefault \/ PrepareCostsOff \/ ExplainDefault \/ ExplainOriginalOff)
  BY <1>1 DEF PrepareDefault, PrepareCostsOff, Prepare, ExplainDefault,
              ExplainOriginalOff, Explain
<1>5. ~(RollbackDefault \/ RollbackCostsOff)
  BY <1>1, <1>2 DEF RollbackDefault, RollbackCostsOff, RollbackTo
<1>6. ~(MeasureBaseline \/ MeasureOptimization)
  BY <1>1 DEF MeasureBaseline, MeasureOptimization, Call
<1>7. ~(BeginOptimizations \/ AppendOptimization \/ EstimateOptimization \/ NewMinimum)
  BY <1>2 DEF BeginOptimizations, AppendOptimization, EstimateOptimization, NewMinimum
<1>8. ~ExplainCostsOff
  <2>1. \A p : (IF p \in checked THEN "newMin" ELSE "prepareOpt") # "between"
    OBVIOUS
  <2> QED
    BY <1>1, <2>1 DEF ExplainCostsOff
<1>9. ~(PrepareOptimization \/ ExplainOptimization)
  BY <1>1, <1>2 DEF PrepareOptimization, ExplainOptimization, SettleSkipping
<1>10. ~(Connect \/ EndQuery)
  BY DEF Connect, EndQuery, NextQuery
<1> QED
  BY <1>3, <1>4, <1>5, <1>6, <1>7, <1>8, <1>9, <1>10 DEF Next, Ended

LEMMA DiscrepancyNext ==
  TypeInv /\ StopInv /\ HashInv /\ DiscrepancyFails /\ [Next]_vars => DiscrepancyFails'
<1> SUFFICES ASSUME StopInv, HashInv, DiscrepancyFails, [Next]_vars, TypeInv,
                    pc' = "between", exception' = "none", Discrepancy'
             PROVE  "failure" \in flags'
  BY DEF DiscrepancyFails
<1>1. CASE EstimateOriginal \/ MeasureOriginal
  <2>1. opts' = <<>>
    BY <1>1 DEF EstimateOriginal, MeasureOriginal, HashInv, BeforeLoop
  <2>2. Current' = 0
    BY <2>1 DEF Current
  <2>3. ResultHashes' \subseteq {original'.hash}
    BY <2>2 DEF ResultHashes
  <2> QED
    BY <2>3, AtMostOne DEF Discrepancy
<1>2. CASE Validate
  <2>1. UNCHANGED <<config, kind, original, opts>>
    BY <1>2 DEF Validate, results
  <2>2. Discrepancy
    BY <2>1 DEF Discrepancy, ResultHashes, Current
  <2>3. ~config.plansOnly
    <3>1. SUFFICES ASSUME config.plansOnly PROVE FALSE
      OBVIOUS
    <3>2. ResultHashes \subseteq {"none"}
      BY <3>1 DEF HashInv, ResultHashes
    <3> QED
      BY <2>2, <3>2, AtMostOne DEF Discrepancy
  <2>4. Complaint
    BY <2>2, ConsistentHasOneResult DEF Complaint, Discrepancy
  <2> QED
    BY <1>2, <2>3, <2>4 DEF Validate
<1>3. CASE Except
  BY <1>3 DEF Except, StopInv
<1>4. CASE UNCHANGED vars
  <2>1. UNCHANGED <<kind, pc, exception, flags, original, opts>>
    BY <1>4 DEF vars
  <2> QED
    BY <2>1 DEF DiscrepancyFails, Discrepancy, ResultHashes, Current
<1> QED
  BY <1>1, <1>2, <1>3, <1>4, BetweenFrom

(* A query whose evaluation came to its end with results that differ, be   *)
(* it only among its optimizations, has failed the run: there is no way to *)
(* the end that passes by the validation with two results at hand.         *)
THEOREM DiscrepanciesFailTheRun == Spec => []DiscrepancyFails
<1>1. Init => HashInv /\ DiscrepancyFails
  BY DEF Init, HashInv, DiscrepancyFails, NoQuery, Current
<1> QED
  BY <1>1, AlwaysStopInv, HashNext, DiscrepancyNext, PTL DEF Spec

-----------------------------------------------------------------------------
(* The reference hash.  The loop over the hashes compares each with the    *)
(* first one that is known, and that is enough.                            *)

LEMMA LeastNatural ==
  ASSUME NEW S, S \subseteq Nat, S # {}
  PROVE  \E m \in S : \A k \in S : m <= k
<1> DEFINE R == OpToRel(<, Nat)
<1>1. IsWellFoundedOn(R, Nat)
  BY NatLessThanWellFounded
<1>2. \A k, m \in Nat : k < m => <<k, m>> \in R
  BY DEF OpToRel
<1> HIDE DEF R
<1>3. PICK m \in S : \A k \in S : <<k, m>> \notin R
  BY <1>1, WFMin
<1>4. \A k \in S : ~(k < m)
  BY <1>2, <1>3, Zenon
<1>5. m \in Int /\ S \subseteq Int
  OBVIOUS
<1> QED
  BY <1>4, <1>5

LEMMA ReferenceIsAResult ==
  ASSUME TypeInv, NEW i \in 1..Current, Known(i)
  PROVE  ReferenceHash \in ResultHashes
<1>1. CASE original.hash # "none"
  BY <1>1 DEF ReferenceHash, ResultHashes
<1>2. CASE original.hash = "none"
  <2>1. Current \in Nat
    BY OptionTypes DEF Current
  <2> DEFINE K == {j \in 1..Current : Known(j)}
  <2>2. K \subseteq Nat /\ K # {}
    BY <2>1
  <2>3. PICK m \in K : \A k \in K : m <= k
    BY <2>2, LeastNatural
  <2>4. m \in 1..Current /\ Known(m) /\ \A j \in 1..(m - 1) : ~Known(j)
    BY <2>1, <2>3
  <2> DEFINE first == CHOOSE j \in 1..Current : Known(j) /\ \A k \in 1..(j - 1) : ~Known(k)
  <2>5. first \in 1..Current /\ Known(first)
    BY <2>4
  <2>6. ReferenceHash = opts[first].hash
    BY <1>2 DEF ReferenceHash
  <2> HIDE DEF first
  <2> QED
    BY <2>5, <2>6 DEF Known, ResultHashes
<1> QED
  BY <1>1, <1>2

LEMMA ResultHashesFinite == ASSUME TypeInv PROVE IsFiniteSet(ResultHashes)
<1>1. Current \in Nat
  BY OptionTypes DEF Current
<1>2. IsFiniteSet(1..Current)
  BY <1>1, FS_Interval
<1>3. IsFiniteSet({opts[i].hash : i \in 1..Current})
  <2> DEFINE h == [i \in 1..Current |-> opts[i].hash]
  <2>1. h \in Surjection(1..Current, {opts[i].hash : i \in 1..Current})
    BY DEF Surjection
  <2> HIDE DEF h
  <2> QED
    BY <1>2, <2>1, FS_Surjection
<1>4. IsFiniteSet({original.hash} \cup {opts[i].hash : i \in 1..Current})
  BY <1>3, FS_Singleton, FS_Union
<1> QED
  BY <1>4, FS_Subset DEF ResultHashes

(* validate_result_hash complains of a query exactly when it has results   *)
(* that differ and is to be compared: comparing with one hash, the first   *)
(* known when the original has none, misses nothing and accuses no query   *)
(* whose results agree.                                                    *)
THEOREM ComplaintsAreDiscrepancies == ASSUME TypeInv PROVE Complaint <=> Discrepancy
<1>1. Discrepancy => Complaint
  BY ConsistentHasOneResult DEF Complaint, Discrepancy
<1>2. ASSUME Inconsistent PROVE Cardinality(ResultHashes) > 1
  <2>1. PICK i \in 1..Current : Known(i) /\ opts[i].hash # ReferenceHash
    BY <1>2 DEF Inconsistent
  <2>2. ReferenceHash \in ResultHashes
    BY <2>1, ReferenceIsAResult
  <2>3. opts[i].hash \in ResultHashes
    BY <2>1 DEF Known, ResultHashes
  <2>4. Cardinality(ResultHashes) \in Nat
    BY ResultHashesFinite, FS_CardinalityType
  <2>5. Cardinality(ResultHashes) # 0
    BY <2>2, ResultHashesFinite, FS_EmptySet
  <2>6. Cardinality(ResultHashes) # 1
    BY <2>1, <2>2, <2>3, ResultHashesFinite, FS_Singleton
  <2> QED
    BY <2>4, <2>5, <2>6
<1> QED
  BY <1>1, <1>2 DEF Complaint, Discrepancy

-----------------------------------------------------------------------------
(* The timeout in force.  While nothing is flagged every statement since   *)
(* the SET statement_timeout was executed, so the setting is still there.  *)
Limiting == {"costsOff", "prepareOpt", "explainOpt", "measureOpt"}

LimitInv ==
  /\ pc \in InLoop => minTime > 0
  /\ pc \in Limiting /\ config.near /\ flags = {} /\ session.alive =>
       session.limit /\ limit = LimitFor(minTime)

(* A statement that raised and flagged nothing was executed. *)
LEMMA SilentlyEvaluated ==
  ASSUME NEW s \in Session, NEW d \in Session, NEW e \in BOOLEAN,
         NEW r \in EvaluateSql(s, d, FALSE, e), r.raised = "none", r.flags = {}
  PROVE  r.session = d /\ r.rows
<1>1. Flagged(FALSE) = {"failure"} /\ FALSE \in BOOLEAN
  BY DEF Flagged
<1>2. r = Reply(d, {}, "none", TRUE)
  BY <1>1, EvaluateSqlReplies
<1> QED
  BY <1>2 DEF Reply

(* One that is rejected raises or flags something. *)
LEMMA NeverSilentlyRejected ==
  ASSUME NEW s, NEW e, NEW r \in Rejected(s, FALSE, e), r.raised = "none"
  PROVE  r.flags # {}
<1>1. Flagged(FALSE) = {"failure"}
  BY DEF Flagged
<1>2. \/ r \in Swallowed(s, FALSE, e) \/ r \in Reraised(s, FALSE, e)
      \/ r = Reply(Lost, {}, "DatabaseError", FALSE)
  BY DEF Rejected
<1>3. CASE r \in Swallowed(s, FALSE, e) \/ r \in Reraised(s, FALSE, e)
  <2>1. \E t, x : r = Reply(t, {"failure"}, x, FALSE)
    BY <1>1, <1>3 DEF Swallowed, Reraised
  <2> QED
    BY <2>1 DEF Reply
<1>4. CASE r = Reply(Lost, {}, "DatabaseError", FALSE)
  BY <1>4 DEF Reply
<1> QED
  BY <1>2, <1>3, <1>4

(* Statements and session properties leave the timeout of a session alone. *)
LEMMA TimeoutStays ==
  ASSUME NEW s \in Session
  PROVE  /\ Ran(s).limit = s.limit /\ Ran(s).alive = s.alive
         /\ Prepared(s).limit = s.limit /\ Prepared(s).alive = s.alive
         /\ Limited(s).limit
  BY DEF Session, Ran, Prepared, Limited

(* A statement in the loop that did as it was told keeps the timeout.      *)
LEMMA LimitKept ==
  ASSUME TypeInv, LimitInv, pc \in Limiting, pc' \in Limiting,
         UNCHANGED <<config, minTime>>, NEW r, NEW x, NEW next, Settle(r, x, next),
         KeepLimit(r), r.flags = {} => r.session \in {Ran(session), Prepared(session)}
  PROVE  LimitInv'
<1>1. pc \in InLoop
  BY DEF Limiting, InLoop, LoopSteps
<1>2. minTime' > 0
  BY <1>1 DEF LimitInv
<1>3. ASSUME config'.near, flags' = {}, session'.alive
      PROVE  session'.limit /\ limit' = LimitFor(minTime)'
  <2>1. flags = {} /\ r.flags = {} /\ session' = r.session
    BY <1>3 DEF Settle
  <2>2. session'.alive = session.alive /\ session'.limit = session.limit
    BY <2>1, OptionTypes, TimeoutStays
  <2>3. session.limit /\ limit = LimitFor(minTime)
    BY <1>3, <2>1, <2>2 DEF LimitInv
  <2>4. limit' = limit
    BY <2>1, <2>2, <2>3 DEF KeepLimit
  <2> QED
    BY <2>2, <2>3, <2>4
<1> QED
  BY <1>2, <1>3 DEF LimitInv

LEMMA LimitNext == TypeInv /\ LimitInv /\ [Next]_vars => LimitInv'
<1> SUFFICES ASSUME TypeInv, LimitInv, [Next]_vars PROVE LimitInv'
  OBVIOUS
<1> USE DEF InLoop, LoopSteps, Limiting
<1>0. session \in Session /\ config.exits \in BOOLEAN
      /\ Ran(session) \in Session /\ Limited(session) \in Session
  BY OptionTypes, SessionTypes
<1>1. ASSUME pc' \notin InLoop PROVE LimitInv'
  BY <1>1 DEF LimitInv
<1>2. CASE OriginalStep
  BY <1>1, <1>2, OriginalSteps
<1>3. CASE BeginOptimizations /\ ~kind.raises
  <2>1. StartTime > 0
    BY EvaluateAssumption DEF StartTime
  <2>2. minTime' = StartTime /\ pc' \in {"append", "validate"}
    BY <1>3 DEF BeginOptimizations
  <2> QED
    BY <2>1, <2>2 DEF LimitInv
<1>4. CASE AppendOptimization
  <2>1. /\ pc = "append" /\ UNCHANGED <<config, minTime>>
        /\ pc' = "limitOpt" \/ (pc' = "costsOff" /\ ~config.near)
    BY <1>4 DEF AppendOptimization
  <2> QED
    BY <2>1 DEF LimitInv
<1>5. CASE LimitOptimization
  <2>1. pc = "limitOpt" /\ UNCHANGED <<config, minTime>> /\ pc' \in {"costsOff", "except"}
    BY <1>5 DEF LimitOptimization, SetTimeoutByMinimum, SetTimeout, Settle, results
  <2>2. ASSUME pc' = "costsOff", flags' = {}
        PROVE  session'.limit /\ limit' = LimitFor(minTime)
    <3>1. CASE SetTimeout("limitOpt", LimitFor(minTime), "costsOff")
      <4>1. PICK r \in EvaluateSql(session, Limited(session), FALSE, config.exits) :
              /\ Settle(r, r.raised, "costsOff")
              /\ limit' = IF r.rows THEN LimitFor(minTime) ELSE 0
        BY <3>1 DEF SetTimeout
      <4>2. r.raised = "none" /\ r.flags = {} /\ session' = r.session
        BY <2>2, <4>1 DEF Settle
      <4>3. r.session = Limited(session) /\ r.rows
        BY <1>0, <4>2, SilentlyEvaluated
      <4> QED
        BY <1>0, <4>1, <4>2, <4>3, TimeoutStays
    <3>2. CASE ~SetTimeout("limitOpt", LimitFor(minTime), "costsOff")
      <4>1. PICK r \in Rejected(session, FALSE, config.exits) :
              Settle(r, IF r.raised = "DatabaseError" /\ r.flags # {}
                        THEN "InvalidTimeout" ELSE r.raised, "costsOff")
        BY <1>5, <3>2 DEF LimitOptimization, SetTimeoutByMinimum
      <4>2. r.raised = "none" /\ r.flags = {}
        BY <2>2, <4>1 DEF Settle
      <4> QED
        BY <4>2, NeverSilentlyRejected
    <3> QED
      BY <3>1, <3>2
  <2>3. (LimitFor(minTime))' = LimitFor(minTime)
    BY <2>1
  <2> QED
    BY <2>1, <2>2, <2>3 DEF LimitInv
<1>6. CASE ExplainCostsOff
  <2>1. PICK r \in EvaluateSql(session, Ran(session), FALSE, config.exits), p \in Plans :
          /\ Settle(r, Fetched(r), IF p \in checked THEN "newMin" ELSE "prepareOpt")
          /\ KeepLimit(r)
    BY <1>6 DEF ExplainCostsOff
  <2>2. pc = "costsOff" /\ UNCHANGED <<config, minTime>>
        /\ pc' \in {"newMin", "prepareOpt", "except"}
    BY <1>6, <2>1 DEF ExplainCostsOff, Settle
  <2>3. CASE pc' = "prepareOpt"
    <3>1. Fetched(r) = "none"
      BY <2>1, <2>3 DEF Settle
    <3>2. r.raised = "none"
      BY <3>1 DEF Fetched
    <3>3. ASSUME r.flags = {} PROVE r.session = Ran(session) /\ r.rows
      BY <1>0, <3>2, <3>3, SilentlyEvaluated
    <3>4. \E next : Settle(r, Fetched(r), next)
      BY <2>1
    <3> QED
      BY <2>1, <2>2, <2>3, <3>3, <3>4, LimitKept
  <2>4. CASE pc' # "prepareOpt"
    BY <2>2, <2>4 DEF LimitInv
  <2> QED
    BY <2>3, <2>4
<1>7. NextOptimization \in {"append", "validate"}
  BY DEF NextOptimization
<1>8. CASE PrepareOptimization
  <2>1. PICK r \in PrepareQueryExecution(session, config.exits) :
          SettleSkipping(r, r.raised, "explainOpt")
    BY <1>8 DEF PrepareOptimization
  <2>2. pc = "prepareOpt" /\ UNCHANGED <<config, minTime>>
        /\ pc' \in {"explainOpt", "append", "validate", "except"}
    BY <1>7, <1>8 DEF PrepareOptimization, SettleSkipping, Settle, results
  <2>3. CASE pc' = "explainOpt"
    <3>1. r.raised = "none" /\ Settle(r, r.raised, "explainOpt") /\ KeepLimit(r)
      BY <1>7, <2>1, <2>3 DEF SettleSkipping, Settle
    <3>2. r.flags = {} => r.session = Prepared(session)
      BY <1>0, <3>1, PrepareReplies
    <3> QED
      BY <2>2, <2>3, <3>1, <3>2, LimitKept
  <2>4. CASE pc' # "explainOpt"
    BY <2>2, <2>4 DEF LimitInv
  <2> QED
    BY <2>3, <2>4
<1>9. CASE ExplainOptimization
  <2>1. PICK r \in EvaluateSql(session, Ran(session), FALSE, config.exits) :
          SettleSkipping(r, Fetched(r), "measureOpt")
    BY <1>9 DEF ExplainOptimization
  <2>2. pc = "explainOpt" /\ UNCHANGED <<config, minTime>>
        /\ pc' \in {"measureOpt", "append", "validate", "except"}
    BY <1>7, <1>9 DEF ExplainOptimization, SettleSkipping, Settle, results
  <2>3. CASE pc' = "measureOpt"
    <3>1. Fetched(r) = "none" /\ Settle(r, Fetched(r), "measureOpt") /\ KeepLimit(r)
      BY <1>7, <2>1, <2>3 DEF SettleSkipping, Settle
    <3>2. r.raised = "none"
      BY <3>1 DEF Fetched
    <3>3. ASSUME r.flags = {} PROVE r.session = Ran(session) /\ r.rows
      BY <1>0, <3>2, <3>3, SilentlyEvaluated
    <3> QED
      BY <2>2, <2>3, <3>1, <3>3, LimitKept
  <2>4. CASE pc' # "measureOpt"
    BY <2>2, <2>4 DEF LimitInv
  <2> QED
    BY <2>3, <2>4
<1>10. CASE EstimateOptimization \/ MeasureOptimization
  <2>1. pc = "measureOpt" /\ minTime' = minTime /\ pc' \in {"newMin", "except"}
    BY <1>10 DEF EstimateOptimization, MeasureOptimization, Call, Settle
  <2> QED
    BY <2>1 DEF LimitInv
<1>11. CASE NewMinimum
  <2>1. /\ minTime' = IF Faster(opts[Current].time) THEN opts[Current].time ELSE minTime
        /\ pc = "newMin" /\ pc' \in {"append", "validate"}
    BY <1>7, <1>11 DEF NewMinimum
  <2>2. minTime' > 0
    <3>1. CASE Faster(opts[Current].time)
      <4>1. Current \in 1..Len(opts)
        BY <2>1, OptionTypes DEF TypeInv, Placed, OptimizationSteps, Current
      <4>2. opts[Current].time \in Int
        BY <4>1, TimesAreNumbers
      <4> QED
        BY <2>1, <3>1, <4>2 DEF Faster
    <3>2. CASE ~Faster(opts[Current].time)
      BY <2>1, <3>2 DEF LimitInv
    <3> QED
      BY <3>1, <3>2
  <2> QED
    BY <2>1, <2>2 DEF LimitInv
<1>12. CASE EndQuery
  BY <1>1, <1>12 DEF EndQuery, NextQuery
<1>13. CASE UNCHANGED vars
  BY <1>13 DEF vars, LimitInv, LimitFor
<1> QED
  BY <1>2, <1>3, <1>4, <1>5, <1>6, <1>8, <1>9, <1>10, <1>11, <1>12, <1>13
  DEF Next, Ended, OriginalStep

(* The division by 1000 loses less than a second, so an allowance of one   *)
(* leaves room for a run as fast as the fastest.                           *)
LEMMA LimitForBounds ==
  ASSUME NEW ms \in Int, ms > 0, Delta \in Nat
  PROVE  /\ LimitFor(ms) \in Nat
         /\ Delta > 0 => ms < 1000 * LimitFor(ms)
         /\ 1000 * LimitFor(ms) <= ms + 1000 * Delta
<1>1. LimitFor(ms) = ms \div 1000 + Delta
  BY DEF LimitFor
<1>2. ms \div 1000 \in Nat /\ 1000 * (ms \div 1000) <= ms /\ ms < 1000 * (ms \div 1000) + 1000
  OBVIOUS
<1>3. 1000 * LimitFor(ms) = 1000 * (ms \div 1000) + 1000 * Delta
  BY <1>1, <1>2
<1> QED
  BY <1>1, <1>2, <1>3

(* With look_near_best_plan every optimization runs under the timeout of   *)
(* the current minimum, in whole seconds and the allowance on top: no      *)
(* rollback undoes it, and no optimization is cut off that would have been *)
(* the fastest.                                                            *)
THEOREM LimitIsCurrent == Spec => []CurrentLimit
<1>1. Init => LimitInv
  BY DEF Init, LimitInv, InLoop, LoopSteps, Limiting
<1>2. TypeInv /\ LimitInv => CurrentLimit
  <2> SUFFICES ASSUME TypeInv, LimitInv, pc \in Limiting, config.near, flags = {},
                      session.alive
               PROVE  /\ session.limit /\ (Delta > 0 => minTime < 1000 * limit)
                      /\ 1000 * limit <= minTime + 1000 * Delta
    BY DEF CurrentLimit, Limiting
  <2>1. session.limit /\ limit = LimitFor(minTime) /\ minTime > 0
    BY DEF LimitInv, Limiting, InLoop, LoopSteps
  <2>2. minTime \in Int /\ Delta \in Nat
    BY OptionTypes, TimesAreNumbers
  <2> QED
    BY <2>1, <2>2, LimitForBounds
<1> QED
  BY <1>1, <1>2, AlwaysTypeInv, LimitNext, PTL DEF Spec
=============================================================================
