------------------------- MODULE AvgExecution_proofs -------------------------
(***************************************************************************)
(* Proofs about AvgExecution, for every number of retries, warm-ups and    *)
(* reruns, every set of times and every kind of call.                      *)
(***************************************************************************)
EXTENDS AvgExecution, DbSession_proofs, FiniteSetTheorems

(* The steps of one iteration of the measuring loop. *)
LoopSteps == {"reset", "prepare", "result", "warmup", "plan", "reprepare",
              "measure", "rollback"}

(* Inside the loop the iteration is one of those planned.                  *)
Looping == pc \in LoopSteps => iter < Iterations

(* The type invariant is inductive together with the loop bound and the    *)
(* finiteness of the list of samples.                                      *)
TypeInv == TypeOK /\ Looping /\ IsFiniteSet(all)

-----------------------------------------------------------------------------
(* Operators. *)

LEMMA IterationsType == Retries \in Nat /\ Retries >= 2 /\ Iterations \in Nat /\ Iterations >= 2
  BY AvgAssumption DEF Iterations, Retries

LEMMA FirstStepType == ASSUME NEW i PROVE FirstStep(i) \in {"reset", "prepare"}
  BY DEF FirstStep

LEMMA MainStepType == MainStep \in {"result", "warmup", "measure", "plan"}
  BY DEF MainStep

(* What the try of an iteration leaves is well typed. *)
LEMMA SettleTypes ==
  ASSUME TypeOK, NEW r \in Replies, NEW x \in Exceptions \cup {"none"},
         NEW q \in Query, NEW next \in Steps, Settle(r, x, q, next)
  PROVE  /\ session' \in Session /\ flags' \in SUBSET Flags /\ query' \in Query
         /\ answer' \in {"none", "true", "false", "raised", "exit"}
         /\ pc' \in {next, "rollback"} /\ pc' \in Steps
<1>1. session' \in Session /\ flags' \in SUBSET Flags
  BY DEF Settle, TypeOK, Replies
<1>2. query' \in Query
  <2>1. CASE x = "QueryCanceled"
    BY <2>1 DEF Settle, Recorded, Query
  <2>2. CASE x = "DatabaseError"
    BY <2>2 DEF Settle, Recorded, Query
  <2>3. CASE x \notin {"QueryCanceled", "DatabaseError"}
    BY <2>3 DEF Settle, Recorded
  <2> QED
    BY <2>1, <2>2, <2>3
<1>3. answer' \in {"none", "true", "false", "raised", "exit"}
  BY DEF Settle, AnswerTo
<1>4. pc' \in {next, "rollback"} /\ pc' \in Steps
  BY DEF Settle, Steps
<1> QED
  BY <1>1, <1>2, <1>3, <1>4

LEMMA SampleTimeType == ASSUME NEW p \in Samples PROVE TimeOf(p) \in Int
<1>1. TimeOf(p) \in {-1} \cup Times
  BY DEF Samples, TimeOf
<1>2. {-1} \cup Times \subseteq Int
  BY AvgAssumption
<1> QED
  BY <1>1, <1>2

(* Filtering only removes samples. *)
LEMMA CleanIsSubset == ASSUME NEW S PROVE CleanTimes(S) \subseteq S
  BY DEF CleanTimes

LEMMA OutliersAreSamples == ASSUME NEW S PROVE OutliersIn(S) \subseteq S
  BY DEF OutliersIn, Deviating

(* A new sample is a sample, and adding it keeps the list finite. *)
LEMMA SampledTypes ==
  ASSUME TypeOK, IsFiniteSet(all), NEW x, NEW t \in SampleTimes,
         Sampled(x, NewSample(t))
  PROVE  /\ all' \in SUBSET Samples /\ kept' \in SUBSET all' /\ plans' \in SUBSET all'
         /\ IsFiniteSet(all')
<1>1. CASE x = "none"
  <2> DEFINE Same == {s \in all : TimeOf(s) = t}
  <2>1. IsFiniteSet(Same) /\ Cardinality(Same) \in Nat
    BY FS_Subset, FS_CardinalityType
  <2>2. NewSample(t) \in Samples
    <3>1. t \in {-1} \cup Times
      BY DEF SampleTimes
    <3>2. Cardinality(Same) + 1 \in Nat \ {0}
      BY <2>1
    <3> QED
      BY <3>1, <3>2 DEF NewSample, Samples
  <2>3. all' = all \cup {NewSample(t)} /\ kept' = kept \cup {NewSample(t)}
    BY <1>1 DEF Sampled
  <2>4. plans' \in {plans, plans \cup {NewSample(t)}}
    BY <1>1 DEF Sampled
  <2>5. IsFiniteSet(all')
    BY <2>3, FS_AddElement
  <2> QED
    BY <2>2, <2>3, <2>4, <2>5 DEF TypeOK
<1>2. CASE x # "none"
  BY <1>2 DEF Sampled, TypeOK
<1> QED
  BY <1>1, <1>2

-----------------------------------------------------------------------------
LEMMA TypeInvInit == Init => TypeInv
<1> SUFFICES ASSUME Init PROVE TypeInv
  OBVIOUS
<1>1. 0 < Iterations /\ 0 \in 0..Iterations
  BY IterationsType
<1>2. pc \in Steps
  BY FirstStepType DEF Init, Steps
<1>3. query \in Query
  BY DEF Init, Query, NoPlan, Plan
<1>4. IsFiniteSet(all)
  BY FS_EmptySet DEF Init
<1>5. session \in Session /\ flags \in SUBSET Flags
  BY SessionTypes DEF Init, Flags
<1>6. /\ statsReset \in BOOLEAN /\ planCollected \in BOOLEAN /\ rerunFailed \in BOOLEAN
      /\ failedSample \in BOOLEAN /\ mode \in Modes
      /\ answer \in {"none", "true", "false", "raised", "exit"}
  BY Zenon DEF Init
<1>7. additional \in Nat /\ needed \in Int /\ iter \in 0..Iterations
  BY <1>1 DEF Init
<1>8. all \in SUBSET Samples /\ kept \in SUBSET all /\ plans \in SUBSET all
  BY DEF Init
<1>9. Looping
  BY <1>1 DEF Init, Looping
<1> QED
  BY <1>2, <1>3, <1>4, <1>5, <1>6, <1>7, <1>8, <1>9 DEF TypeInv, TypeOK

(* A statement of an iteration keeps the types, whatever its reply.        *)
LEMMA LoopStatementTypes ==
  ASSUME TypeInv, pc \in LoopSteps,
         NEW r \in Replies, NEW x \in Exceptions \cup {"none"},
         NEW q \in Query, NEW next \in LoopSteps, Settle(r, x, q, next),
         mode' = mode, iter' = iter, additional' = additional, needed' = needed,
         rerunFailed' = rerunFailed,
         statsReset' \in BOOLEAN, planCollected' \in BOOLEAN, failedSample' \in BOOLEAN,
         all' \in SUBSET Samples, kept' \in SUBSET all', plans' \in SUBSET all',
         IsFiniteSet(all')
  PROVE  TypeInv'
<1>1. next \in Steps
  BY DEF LoopSteps, Steps
<1>2. /\ session' \in Session /\ flags' \in SUBSET Flags /\ query' \in Query
      /\ answer' \in {"none", "true", "false", "raised", "exit"}
      /\ pc' \in Steps
  BY <1>1, SettleTypes DEF TypeInv
<1>3. Looping'
  BY DEF TypeInv, Looping, Iterations, Retries
<1>4. TypeOK'
  BY <1>2 DEF TypeInv, TypeOK, Iterations, Retries, Samples
<1> QED
  BY <1>3, <1>4 DEF TypeInv

(* The replies the loop's statements get, in this state.                   *)
LEMMA StatementReplies ==
  ASSUME TypeInv
  PROVE  /\ mode.exits \in BOOLEAN /\ Ran(session) \in Session
         /\ \A r \in EvaluateSql(session, Ran(session), FALSE, mode.exits) :
              /\ r \in Replies
              /\ Fetched(r) \in Exceptions \cup {"none"}
              /\ r.raised \in Exceptions \cup {"none"}
              /\ Drained(r) \in Exceptions \cup {"none"}
              /\ r.session \in Session
         /\ \A r \in PrepareQueryExecution(session, mode.exits) :
              r \in Replies /\ r.raised \in Exceptions \cup {"none"}
         /\ \A r \in Rollback(session) : r \in Replies /\ r.session \in Session
<1>1. mode.exits \in BOOLEAN
  BY AvgAssumption DEF TypeInv, TypeOK, Mode
<1>2. session \in Session
  BY DEF TypeInv, TypeOK
<1>3. Ran(session) \in Session
  BY <1>2, SessionTypes
<1>4. ASSUME NEW r \in EvaluateSql(session, Ran(session), FALSE, mode.exits)
      PROVE  /\ r \in Replies
             /\ Fetched(r) \in Exceptions \cup {"none"}
             /\ r.raised \in Exceptions \cup {"none"}
             /\ Drained(r) \in Exceptions \cup {"none"}
             /\ r.session \in Session
  <2>1. r \in Replies
    BY <1>1, <1>2, <1>3, EvaluateSqlReplies
  <2>2. r.raised \in Exceptions \cup {"none"} /\ r.session \in Session
    BY <2>1 DEF Replies
  <2> QED
    BY <2>1, <2>2, FetchedRows DEF Drained
<1>5. ASSUME NEW r \in PrepareQueryExecution(session, mode.exits)
      PROVE  r \in Replies /\ r.raised \in Exceptions \cup {"none"}
  <2>1. r \in Replies
    BY <1>1, <1>2, PrepareReplies
  <2> QED
    BY <2>1 DEF Replies
<1>6. ASSUME NEW r \in Rollback(session)
      PROVE  r \in Replies /\ r.session \in Session
  <2>1. r \in Replies
    BY <1>2, RollbackReplies
  <2> QED
    BY <2>1 DEF Replies
<1> QED
  BY <1>1, <1>3, <1>4, <1>5, <1>6

(* A rerun's statement keeps the types, whatever its reply.                *)
LEMMA RerunStatementTypes ==
  ASSUME TypeInv, NEW r \in Replies, NEW x \in Exceptions \cup {"none"},
         NEW next \in {"rerun", "rerunRollback"}, SettleRerun(r, x, next),
         UNCHANGED <<mode, iter, needed, query, statsReset, planCollected>>,
         additional' \in Nat, failedSample' \in BOOLEAN,
         all' \in SUBSET Samples, kept' \in SUBSET all', plans' \in SUBSET all',
         IsFiniteSet(all')
  PROVE  TypeInv'
<1>1. session' \in Session /\ flags' \in SUBSET Flags
  BY DEF SettleRerun, TypeInv, TypeOK, Replies
<1>2. pc' \in {"rerun", "rerunRollback"} /\ pc' \in Steps
  BY DEF SettleRerun, Steps
<1>3. answer' \in {"none", "true", "false", "raised", "exit"} /\ rerunFailed' \in BOOLEAN
  BY DEF SettleRerun, AnswerTo
<1>4. Looping'
  BY <1>2 DEF Looping, LoopSteps
<1>5. TypeOK'
  BY <1>1, <1>2, <1>3 DEF TypeInv, TypeOK, Iterations, Retries, Samples
<1> QED
  BY <1>4, <1>5 DEF TypeInv

(* The call's first part: one iteration after another.                     *)
LEMMA TypeInvLoop ==
  ASSUME TypeInv,
         ResetStats \/ Prepare \/ CollectResult \/ Warmup \/ CollectPlan
           \/ PrepareAgain \/ Measured
  PROVE  TypeInv'
<1> DEFINE Unsampled == UNCHANGED <<all, kept, plans, failedSample>>
<1>1. /\ query \in Query /\ statsReset \in BOOLEAN /\ planCollected \in BOOLEAN
      /\ failedSample \in BOOLEAN
      /\ all \in SUBSET Samples /\ kept \in SUBSET all /\ plans \in SUBSET all
      /\ IsFiniteSet(all)
  BY DEF TypeInv, TypeOK
<1>2. /\ {"prepare", "measure", "rollback", "reprepare"} \subseteq LoopSteps
      /\ MainStep \in LoopSteps
  BY MainStepType DEF LoopSteps
<1>3. CASE ResetStats
  <2>1. PICK r \in EvaluateSql(session, Ran(session), FALSE, mode.exits) :
          Settle(r, r.raised, query, "prepare") /\ statsReset' = (r.raised = "none")
    BY <1>3 DEF ResetStats
  <2>2. pc \in LoopSteps /\ statsReset' \in BOOLEAN
    BY <1>3, <2>1, Zenon DEF ResetStats, LoopSteps
  <2> QED
    BY <1>1, <1>2, <1>3, <2>1, <2>2, StatementReplies, LoopStatementTypes DEF ResetStats
<1>4. CASE Prepare
  <2>1. PICK r \in PrepareQueryExecution(session, mode.exits) :
          Settle(r, r.raised, query, MainStep)
    BY <1>4 DEF Prepare
  <2>2. pc \in LoopSteps
    BY <1>4 DEF Prepare, LoopSteps
  <2> QED
    BY <1>1, <1>2, <1>4, <2>1, <2>2, StatementReplies, LoopStatementTypes DEF Prepare
<1>5. CASE CollectResult
  <2> DEFINE Read(r) == IF mode.dml \/ mode.limitOnly THEN r.raised ELSE Fetched(r)
             Hashed(x) == [query EXCEPT !.hash = (x = "none")]
  <2>1. PICK r \in EvaluateSql(session, Ran(session), FALSE, mode.exits) :
          Settle(r, Read(r), Hashed(Read(r)), "rollback")
    BY <1>5, Zenon DEF CollectResult
  <2>2. pc \in LoopSteps
    BY <1>5 DEF CollectResult, LoopSteps
  <2>3. Read(r) \in Exceptions \cup {"none"}
    BY <2>1, StatementReplies
  <2>4. Hashed(Read(r)) \in Query
    BY <1>1 DEF Query
  <2> QED
    BY <1>1, <1>2, <1>5, <2>1, <2>2, <2>3, <2>4, StatementReplies, LoopStatementTypes
    DEF CollectResult
<1>6. CASE Warmup
  <2>1. PICK r \in EvaluateSql(session, Ran(session), FALSE, mode.exits) :
          Settle(r, Drained(r), query, "rollback")
    BY <1>6 DEF Warmup
  <2>2. pc \in LoopSteps
    BY <1>6 DEF Warmup, LoopSteps
  <2> QED
    BY <1>1, <1>2, <1>6, <2>1, <2>2, StatementReplies, LoopStatementTypes DEF Warmup
<1>7. CASE CollectPlan
  <2> DEFINE Explained == [query EXCEPT !.plan = Plan("explain", 0)]
  <2>1. PICK r \in EvaluateSql(session, Ran(session), FALSE, mode.exits) :
          \/ \E b \in Rollback(r.session) : Settle(b, b.raised, Explained, AfterPlan)
          \/ Settle(r, "none", PlanTimedOut, AfterPlan)
          \/ Settle(r, Fetched(r), query, "rollback")
    BY <1>7, Zenon DEF CollectPlan
  <2>2. pc \in LoopSteps /\ planCollected' \in BOOLEAN
    BY <1>7 DEF CollectPlan, LoopSteps
  <2>3. Explained \in Query /\ PlanTimedOut \in Query
    BY <1>1 DEF Query, Plan, PlanTimedOut
  <2>4. AfterPlan \in LoopSteps
    BY <1>2 DEF AfterPlan
  <2>5. UNCHANGED <<mode, iter, statsReset, additional, needed, rerunFailed>> /\ Unsampled
    BY <1>7 DEF CollectPlan
  <2>6. CASE \E b \in Rollback(r.session) : Settle(b, b.raised, Explained, AfterPlan)
    <3>1. PICK b \in Rollback(r.session) : Settle(b, b.raised, Explained, AfterPlan)
      BY <2>6
    <3>2. b \in Replies
      BY StatementReplies, RollbackReplies
    <3>3. b.raised \in Exceptions \cup {"none"}
      BY <3>2 DEF Replies
    <3> QED
      BY <1>1, <2>2, <2>3, <2>4, <2>5, <3>1, <3>2, <3>3, LoopStatementTypes
  <2>7. CASE Settle(r, "none", PlanTimedOut, AfterPlan)
    BY <1>1, <2>2, <2>3, <2>4, <2>5, <2>7, StatementReplies, LoopStatementTypes
  <2>8. CASE Settle(r, Fetched(r), query, "rollback")
    BY <1>1, <1>2, <2>2, <2>5, <2>8, StatementReplies, LoopStatementTypes
  <2> QED
    BY <2>1, <2>6, <2>7, <2>8
<1>8. CASE PrepareAgain
  <2>1. PICK r \in PrepareQueryExecution(session, mode.exits) :
          Settle(r, r.raised, query, "measure")
    BY <1>8 DEF PrepareAgain
  <2>2. pc \in LoopSteps
    BY <1>8 DEF PrepareAgain, LoopSteps
  <2> QED
    BY <1>1, <1>2, <1>8, <2>1, <2>2, StatementReplies, LoopStatementTypes DEF PrepareAgain
<1>9. CASE Measured
  <2>1. PICK r \in EvaluateSql(session, Ran(session), FALSE, mode.exits), t \in SampleTimes :
          /\ Settle(r, Drained(r), query, "rollback")
          /\ Sampled(Drained(r), NewSample(t))
          /\ failedSample' = (failedSample \/ (Drained(r) = "none" /\ ~r.rows))
    BY <1>9, Zenon DEF Measured
  <2>2. pc \in LoopSteps /\ failedSample' \in BOOLEAN
    BY <1>9, <2>1, Zenon DEF Measured, LoopSteps
  <2>3. /\ all' \in SUBSET Samples /\ kept' \in SUBSET all' /\ plans' \in SUBSET all'
        /\ IsFiniteSet(all')
    BY <1>1, <2>1, SampledTypes DEF TypeInv
  <2> QED
    BY <1>1, <1>2, <1>9, <2>1, <2>2, <2>3, StatementReplies, LoopStatementTypes DEF Measured
<1> QED
  BY <1>3, <1>4, <1>5, <1>6, <1>7, <1>8, <1>9

(* The rest of the call: the rollbacks, the reruns and the average.        *)
LEMMA TypeInvRest ==
  ASSUME TypeInv,
         EndIteration \/ DetectOutliers \/ RerunPrepare \/ Rerun \/ EndRerun
           \/ Finish \/ CollectStatistics
  PROVE  TypeInv'
<1>1. /\ query \in Query /\ failedSample \in BOOLEAN /\ session \in Session
      /\ all \in SUBSET Samples /\ kept \in SUBSET all /\ plans \in SUBSET all
      /\ IsFiniteSet(all) /\ iter \in 0..Iterations /\ Iterations \in Nat
      /\ additional \in Nat /\ needed \in Int
  BY IterationsType DEF TypeInv, TypeOK
<1>2. CASE EndIteration
  <2>1. session' \in Session
    BY <1>2, StatementReplies DEF EndIteration, EndTransaction
  <2>2. /\ iter' \in 0..Iterations /\ pc' \in Steps /\ Looping'
    <3>1. CASE answer = "none"
      <4>1. iter < Iterations
        BY <1>2 DEF EndIteration, TypeInv, Looping, LoopSteps
      <4>2. /\ iter' = iter + 1
            /\ pc' = IF iter + 1 < Iterations THEN FirstStep(iter + 1) ELSE "outliers"
        BY <1>2, <3>1 DEF EndIteration, NextIteration
      <4>3. FirstStep(iter + 1) \in {"reset", "prepare"}
        BY FirstStepType
      <4>4. iter' \in 0..Iterations /\ pc' \in Steps
        BY <1>1, <4>1, <4>2, <4>3 DEF Steps
      <4>5. pc' \in LoopSteps => iter' < Iterations
        BY <4>2 DEF LoopSteps
      <4> QED
        BY <4>4, <4>5 DEF Looping, Iterations, Retries
    <3>2. CASE answer # "none"
      BY <1>1, <1>2, <3>2 DEF EndIteration, Steps, Looping, LoopSteps
    <3> QED
      BY <3>1, <3>2
  <2> QED
    BY <1>1, <1>2, <2>1, <2>2
    DEF EndIteration, TypeInv, TypeOK, Iterations, Retries, Samples
<1>3. CASE DetectOutliers
  <2>1. kept' \subseteq kept /\ plans' \subseteq plans /\ all' = all
    BY <1>3, CleanIsSubset DEF DetectOutliers, WithTimesOf
  <2>2. needed' \in Int
    <3>1. IsFiniteSet(OutliersIn(kept))
      BY <1>1, OutliersAreSamples, FS_Subset
    <3>2. Cardinality(OutliersIn(kept)) \in Nat
      BY <3>1, FS_CardinalityType
    <3> QED
      BY <1>1, <1>3, <3>2, AvgAssumption DEF DetectOutliers, RunsNeeded
  <2>3. pc' \in Steps /\ pc' \notin LoopSteps
    BY <1>3 DEF DetectOutliers, Steps, LoopSteps
  <2> QED
    BY <1>1, <1>3, <2>1, <2>2, <2>3
    DEF DetectOutliers, TypeInv, TypeOK, Looping, Iterations, Retries, Samples
<1>4. CASE RerunPrepare
  <2>1. PICK r \in PrepareQueryExecution(session, mode.exits) :
          SettleRerun(r, r.raised, "rerun")
    BY <1>4 DEF RerunPrepare
  <2>2. additional' \in Nat
    BY <1>1, <1>4 DEF RerunPrepare
  <2> QED
    BY <1>1, <1>4, <2>1, <2>2, StatementReplies, RerunStatementTypes DEF RerunPrepare
<1>5. CASE Rerun
  <2>1. PICK r \in EvaluateSql(session, Ran(session), FALSE, mode.exits), t \in SampleTimes :
          /\ SettleRerun(r, Drained(r), "rerunRollback")
          /\ Sampled(Drained(r), NewSample(t))
          /\ failedSample' = (failedSample \/ (Drained(r) = "none" /\ ~r.rows))
    BY <1>5, Zenon DEF Rerun
  <2>2. failedSample' \in BOOLEAN
    BY <2>1, Zenon
  <2>3. /\ all' \in SUBSET Samples /\ kept' \in SUBSET all' /\ plans' \in SUBSET all'
        /\ IsFiniteSet(all')
    BY <1>1, <2>1, SampledTypes DEF TypeInv
  <2> QED
    BY <1>1, <1>5, <2>1, <2>2, <2>3, StatementReplies, RerunStatementTypes DEF Rerun
<1>6. CASE EndRerun
  <2>1. session' \in Session
    BY <1>6, StatementReplies DEF EndRerun, EndTransaction
  <2>2. pc' \in Steps /\ pc' \notin LoopSteps
    BY <1>6 DEF EndRerun, AfterRerun, Steps, LoopSteps
  <2>3. needed' \in Int
    BY <1>1, <1>6 DEF EndRerun
  <2> QED
    BY <1>1, <1>6, <2>1, <2>2, <2>3
    DEF EndRerun, TypeInv, TypeOK, Looping, Iterations, Retries, Samples
<1>7. CASE Finish
  <2>1. Averaged \in Query
    BY <1>1 DEF Averaged, Query
  <2>2. ASSUME NEW p \in Representatives
        PROVE  AveragedWithPlan(p) \in Query
    <3>1. TimeOf(p) \in Int
      <4>1. p \in Samples
        BY <1>1 DEF Representatives, WithTimesOf
      <4> QED
        BY <4>1, SampleTimeType
    <3>2. Plan("sample", TimeOf(p)) \in [kind : {"none", "empty", "explain", "sample"}, time : Int]
      BY <3>1 DEF Plan
    <3>3. AveragedWithPlan(p) = [Averaged EXCEPT !.plan = Plan("sample", TimeOf(p))]
      BY DEF AveragedWithPlan
    <3> QED
      BY <2>1, <3>2, <3>3 DEF Query
  <2>3. query' \in Query
    BY <1>7, <2>1, <2>2 DEF Finish
  <2>4. kept' \subseteq kept
    BY <1>7, CleanIsSubset DEF Finish, FinalTimes
  <2>5. pc' \in Steps /\ pc' \notin LoopSteps
    BY <1>7 DEF Finish, Steps, LoopSteps
  <2>6. answer' \in {"none", "true", "false", "raised", "exit"}
    BY <1>7 DEF Finish
  <2> QED
    BY <1>1, <1>7, <2>3, <2>4, <2>5, <2>6
    DEF Finish, TypeInv, TypeOK, Looping, Iterations, Retries, Samples
<1>8. CASE CollectStatistics
  <2>1. PICK r \in EvaluateSql(session, Ran(session), TRUE, mode.exits) :
          /\ session' = r.session /\ flags' = flags \cup r.flags
          /\ answer' = IF r.raised = "SystemExit" THEN "exit" ELSE "true"
    BY <1>8 DEF CollectStatistics
  <2>2. r \in Replies
    BY <1>1, StatementReplies, EvaluateSqlReplies
  <2>3. /\ session' \in Session /\ flags' \in SUBSET Flags
        /\ answer' \in {"none", "true", "false", "raised", "exit"}
    BY <2>1, <2>2 DEF Replies, TypeInv, TypeOK
  <2>4. pc' \in Steps /\ pc' \notin LoopSteps
    BY <1>8 DEF CollectStatistics, Steps, LoopSteps
  <2> QED
    BY <1>1, <1>8, <2>3, <2>4
    DEF CollectStatistics, TypeInv, TypeOK, Looping, Iterations, Retries, Samples
<1> QED
  BY <1>2, <1>3, <1>4, <1>5, <1>6, <1>7, <1>8

LEMMA TypeInvNext == TypeInv /\ [Next]_vars => TypeInv'
<1> SUFFICES ASSUME TypeInv, [Next]_vars PROVE TypeInv'
  OBVIOUS
<1>1. CASE UNCHANGED vars
  BY <1>1 DEF vars, TypeInv, TypeOK, Looping, Iterations, Retries, Samples
<1>2. CASE Next
  BY <1>1, <1>2, TypeInvLoop, TypeInvRest DEF Next, Returned
<1> QED
  BY <1>1, <1>2

(* In every reachable state every variable has its type.                   *)
THEOREM TypeCorrect == Spec => []TypeOK
<1>1. TypeInv => TypeOK
  BY DEF TypeInv
<1> QED
  BY <1>1, TypeInvInit, TypeInvNext, PTL DEF Spec

-----------------------------------------------------------------------------
(* The timed statements and their session.                                 *)

(* Only a preparation leads to a timed statement.                          *)
LEMMA OnlyPreparationLeadsToTiming ==
  ASSUME Next, pc' \in {"measure", "rerun"}
  PROVE  Prepare \/ PrepareAgain \/ RerunPrepare
<1>1. ~ResetStats /\ ~CollectResult /\ ~Warmup /\ ~Measured
  BY DEF ResetStats, CollectResult, Warmup, Measured, Settle
<1>2. ~CollectPlan
  BY DEF CollectPlan, Settle, AfterPlan
<1>3. ~EndIteration
  BY FirstStepType DEF EndIteration
<1>4. ~DetectOutliers /\ ~Rerun /\ ~EndRerun /\ ~Finish /\ ~CollectStatistics /\ ~Returned
  BY DEF DetectOutliers, Rerun, SettleRerun, EndRerun, AfterRerun, Finish,
         CollectStatistics, Returned, vars
<1> QED
  BY <1>1, <1>2, <1>3, <1>4 DEF Next

(* A preparation that raises nothing has the properties in force, or has   *)
(* flagged the run.                                                        *)
LEMMA PreparedOrFlagged ==
  ASSUME TypeInv, NEW r \in PrepareQueryExecution(session, mode.exits), r.raised = "none",
         session' = r.session, flags' = flags \cup r.flags
  PROVE  session'.props \/ "failure" \in flags'
<1>1. session \in Session /\ mode.exits \in BOOLEAN
  BY StatementReplies DEF TypeInv, TypeOK
<1>2. r.session = Prepared(session) \/ "failure" \in r.flags
  BY <1>1, PrepareReplies
<1>3. Prepared(session).props
  BY <1>1 DEF Prepared, Session
<1> QED
  BY <1>2, <1>3

(* A statement that is timed runs under the session properties and the     *)
(* query's own SETs, unless the run is flagged as failing.                 *)
THEOREM TimedUnderProps == Spec => []TimedUnderSessionProps
<1>1. Init => TimedUnderSessionProps
  BY FirstStepType DEF Init, TimedUnderSessionProps
<1>2. TypeInv /\ TimedUnderSessionProps /\ [Next]_vars => TimedUnderSessionProps'
  <2> SUFFICES ASSUME TypeInv, TimedUnderSessionProps, [Next]_vars,
                      pc' \in {"measure", "rerun"}, session'.alive
               PROVE  session'.props \/ "failure" \in flags'
    BY DEF TimedUnderSessionProps
  <2>1. CASE UNCHANGED vars
    BY <2>1 DEF vars, TimedUnderSessionProps
  <2>2. CASE Prepare
    <3>1. PICK r \in PrepareQueryExecution(session, mode.exits) :
            Settle(r, r.raised, query, MainStep)
      BY <2>2 DEF Prepare
    <3> QED
      BY <3>1, PreparedOrFlagged DEF Settle
  <2>3. CASE PrepareAgain
    <3>1. PICK r \in PrepareQueryExecution(session, mode.exits) :
            Settle(r, r.raised, query, "measure")
      BY <2>3 DEF PrepareAgain
    <3> QED
      BY <3>1, PreparedOrFlagged DEF Settle
  <2>4. CASE RerunPrepare
    <3>1. PICK r \in PrepareQueryExecution(session, mode.exits) :
            SettleRerun(r, r.raised, "rerun")
      BY <2>4 DEF RerunPrepare
    <3> QED
      BY <3>1, PreparedOrFlagged DEF SettleRerun
  <2> QED
    BY <2>1, <2>2, <2>3, <2>4, OnlyPreparationLeadsToTiming
<1> QED
  BY <1>1, <1>2, TypeInvInit, TypeInvNext, PTL DEF Spec

-----------------------------------------------------------------------------
(***************************************************************************)
(* The samples of AvgExecution: they keep their plans, they are clean when *)
(* there was budget to make them so, there is one to average, and no       *)
(* failure hides among them.                                               *)
(***************************************************************************)

(* A sample is only ever added, and its plan with it.                      *)
LEMMA SampledAdds ==
  ASSUME NEW x, NEW p, Sampled(x, p)
  PROVE  /\ kept \subseteq kept'
         /\ x = "none" => kept' # {}
         /\ mode.analyze /\ kept \subseteq plans => kept' \subseteq plans'
  BY DEF Sampled

(* What the two filters retain has the plans it had.                       *)
LEMMA FilterKeepsPlans ==
  ASSUME NEW S, NEW P, S \subseteq P
  PROVE  CleanTimes(S) \subseteq WithTimesOf(P, CleanTimes(S))
  BY CleanIsSubset DEF WithTimesOf

(* The steps that take no sample and filter none.                          *)
LEMMA SamplesKept ==
  ASSUME Next, ~Measured, ~Rerun, ~DetectOutliers, ~Finish
  PROVE  UNCHANGED <<kept, plans, mode>>
<1>1. CASE ResetStats \/ Prepare \/ CollectResult \/ Warmup \/ CollectPlan \/ PrepareAgain
  BY <1>1 DEF ResetStats, Prepare, CollectResult, Warmup, CollectPlan, PrepareAgain
<1>2. CASE EndIteration \/ RerunPrepare \/ EndRerun \/ CollectStatistics \/ Returned
  BY <1>2 DEF EndIteration, RerunPrepare, EndRerun, CollectStatistics, Returned, vars
<1> QED
  BY <1>1, <1>2 DEF Next

(* Every retained time of an EXPLAIN ANALYZE still has its plan, through   *)
(* all filtering and rerunning.                                            *)
THEOREM RetainedHavePlans == Spec => []KeptHavePlans
<1>1. Init => KeptHavePlans
  BY DEF Init, KeptHavePlans
<1>2. KeptHavePlans /\ [Next]_vars => KeptHavePlans'
  <2> SUFFICES ASSUME KeptHavePlans, [Next]_vars PROVE KeptHavePlans'
    OBVIOUS
  <2>1. CASE UNCHANGED vars
    BY <2>1 DEF vars, KeptHavePlans
  <2>2. CASE Measured
    <3>1. mode' = mode /\ \E x, p : Sampled(x, p)
      BY <2>2 DEF Measured
    <3> QED
      BY <3>1, SampledAdds DEF KeptHavePlans
  <2>3. CASE Rerun
    <3>1. mode' = mode /\ \E x, p : Sampled(x, p)
      BY <2>3 DEF Rerun, SettleRerun
    <3> QED
      BY <3>1, SampledAdds DEF KeptHavePlans
  <2>4. CASE DetectOutliers
    BY <2>4, FilterKeepsPlans DEF DetectOutliers, KeptHavePlans
  <2>5. CASE Finish
    <3>1. kept' \subseteq kept /\ UNCHANGED <<mode, plans>>
      BY <2>5, CleanIsSubset DEF Finish, FinalTimes
    <3> QED
      BY <3>1 DEF KeptHavePlans
  <2> QED
    BY <2>1, <2>2, <2>3, <2>4, <2>5, SamplesKept DEF KeptHavePlans
<1> QED
  BY <1>1, <1>2, PTL DEF Spec

-----------------------------------------------------------------------------
(* Failures among the samples.                                             *)

(* A statement whose failure drain_result does not notice has flagged the  *)
(* run.                                                                    *)
LEMMA UnnoticedIsFlagged ==
  ASSUME TypeInv, NEW r \in EvaluateSql(session, Ran(session), FALSE, mode.exits),
         Drained(r) = "none", ~r.rows
  PROVE  "failure" \in r.flags
<1>1. mode.exits \in BOOLEAN /\ session \in Session /\ Ran(session) \in Session
  BY StatementReplies DEF TypeInv, TypeOK
<1>2. r.raised = "none"
  BY DEF Drained, Fetched
<1>3. r = Reply(Ran(session), {}, "none", TRUE) \/ r.flags = Flagged(FALSE)
  BY <1>1, <1>2, EvaluateSqlReplies
<1> QED
  BY <1>3 DEF Reply, Flagged

(* No step takes a flag back.                                              *)
LEMMA FlagsGrow == ASSUME Next PROVE flags \subseteq flags'
<1>1. CASE ResetStats \/ Prepare \/ CollectResult \/ Warmup \/ CollectPlan \/ PrepareAgain
           \/ Measured
  BY <1>1 DEF ResetStats, Prepare, CollectResult, Warmup, CollectPlan, PrepareAgain,
              Measured, Settle
<1>2. CASE EndIteration \/ EndRerun \/ DetectOutliers \/ Finish \/ Returned
  BY <1>2 DEF EndIteration, EndRerun, DetectOutliers, Finish, Returned, vars
<1>3. CASE RerunPrepare \/ Rerun \/ CollectStatistics
  BY <1>3 DEF RerunPrepare, Rerun, SettleRerun, CollectStatistics
<1> QED
  BY <1>1, <1>2, <1>3 DEF Next

(* The steps that take no sample.                                          *)
LEMMA HistoryKept ==
  ASSUME Next, ~Measured, ~Rerun
  PROVE  failedSample' = failedSample
<1>1. CASE ResetStats \/ Prepare \/ CollectResult \/ Warmup \/ CollectPlan \/ PrepareAgain
  BY <1>1 DEF ResetStats, Prepare, CollectResult, Warmup, CollectPlan, PrepareAgain
<1>2. CASE EndIteration \/ RerunPrepare \/ EndRerun \/ CollectStatistics \/ Returned
           \/ DetectOutliers \/ Finish
  BY <1>2 DEF EndIteration, RerunPrepare, EndRerun, CollectStatistics, Returned,
              DetectOutliers, Finish, vars
<1> QED
  BY <1>1, <1>2 DEF Next

(* A sample is counted for a statement that failed only in a run flagged   *)
(* as failing.                                                             *)
THEOREM FailuresAreFlagged == Spec => []FailedSampleFlagged
<1>1. Init => FailedSampleFlagged
  BY DEF Init, FailedSampleFlagged
<1>2. TypeInv /\ FailedSampleFlagged /\ [Next]_vars => FailedSampleFlagged'
  <2> SUFFICES ASSUME TypeInv, FailedSampleFlagged, [Next]_vars, failedSample'
               PROVE  "failure" \in flags'
    BY DEF FailedSampleFlagged
  <2>1. CASE UNCHANGED vars
    BY <2>1 DEF vars, FailedSampleFlagged
  <2>2. CASE Measured
    <3>1. PICK r \in EvaluateSql(session, Ran(session), FALSE, mode.exits) :
            /\ flags' = flags \cup r.flags
            /\ failedSample' = (failedSample \/ (Drained(r) = "none" /\ ~r.rows))
      BY <2>2, Zenon DEF Measured, Settle
    <3>2. failedSample \/ (Drained(r) = "none" /\ ~r.rows)
      BY <3>1, Zenon
    <3> QED
      BY <3>1, <3>2, UnnoticedIsFlagged DEF FailedSampleFlagged
  <2>3. CASE Rerun
    <3>1. PICK r \in EvaluateSql(session, Ran(session), FALSE, mode.exits) :
            /\ flags' = flags \cup r.flags
            /\ failedSample' = (failedSample \/ (Drained(r) = "none" /\ ~r.rows))
      BY <2>3, Zenon DEF Rerun, SettleRerun
    <3>2. failedSample \/ (Drained(r) = "none" /\ ~r.rows)
      BY <3>1, Zenon
    <3> QED
      BY <3>1, <3>2, UnnoticedIsFlagged DEF FailedSampleFlagged
  <2> QED
    BY <2>1, <2>2, <2>3, FlagsGrow, HistoryKept DEF FailedSampleFlagged
<1> QED
  BY <1>1, <1>2, TypeInvInit, TypeInvNext, PTL DEF Spec

-----------------------------------------------------------------------------
(* The reruns.                                                             *)

(* The reruns still to do fit into what is left of the budget: the one     *)
(* under way is already counted.                                           *)
BudgetInv ==
  /\ RerunBudget
  /\ pc = "rerunPrepare" => needed >= 1 /\ additional + needed <= MaxAdditional
  /\ pc \in {"rerun", "rerunRollback"} =>
       needed >= 1 /\ additional + needed <= MaxAdditional + 1

Rerunning == {"rerunPrepare", "rerun", "rerunRollback"}

(* The first part of the call does no reruns. *)
LEMMA LoopStaysOut ==
  ASSUME ResetStats \/ Prepare \/ CollectResult \/ Warmup \/ CollectPlan \/ PrepareAgain
           \/ Measured \/ EndIteration \/ Finish \/ CollectStatistics
  PROVE  pc' \notin Rerunning /\ UNCHANGED <<additional, needed, rerunFailed>>
<1>1. CASE ResetStats \/ Prepare \/ CollectResult \/ Warmup \/ PrepareAgain \/ Measured
  BY <1>1, MainStepType
  DEF ResetStats, Prepare, CollectResult, Warmup, PrepareAgain, Measured, Settle, Rerunning
<1>2. CASE CollectPlan
  BY <1>2 DEF CollectPlan, Settle, AfterPlan, Rerunning
<1>3. CASE EndIteration
  BY <1>3, FirstStepType DEF EndIteration, Rerunning
<1>4. CASE Finish \/ CollectStatistics
  BY <1>4 DEF Finish, CollectStatistics, Rerunning
<1> QED
  BY <1>1, <1>2, <1>3, <1>4

LEMMA BudgetNext == TypeInv /\ BudgetInv /\ [Next]_vars => BudgetInv'
<1> SUFFICES ASSUME TypeInv, BudgetInv, [Next]_vars PROVE BudgetInv'
  OBVIOUS
<1>0. additional \in Nat /\ needed \in Int /\ MaxAdditional \in Nat /\ additional <= MaxAdditional
  BY AvgAssumption DEF TypeInv, TypeOK, BudgetInv, RerunBudget
<1>1. CASE UNCHANGED vars
  BY <1>1 DEF vars, BudgetInv, RerunBudget
<1>2. CASE ResetStats \/ Prepare \/ CollectResult \/ Warmup \/ CollectPlan \/ PrepareAgain
           \/ Measured \/ EndIteration \/ Finish \/ CollectStatistics
  BY <1>2, LoopStaysOut DEF BudgetInv, RerunBudget, Rerunning
<1>3. CASE DetectOutliers
  <2>1. CASE pc' = "rerunPrepare"
    <3>1. /\ additional < MaxAdditional /\ OutliersIn(kept) # {}
          /\ needed' = RunsNeeded /\ additional' = additional
      BY <1>3, <2>1 DEF DetectOutliers
    <3>2. Cardinality(OutliersIn(kept)) \in Nat /\ Cardinality(OutliersIn(kept)) # 0
      <4>1. IsFiniteSet(OutliersIn(kept))
        BY OutliersAreSamples, FS_Subset DEF TypeInv, TypeOK
      <4> QED
        BY <3>1, <4>1, FS_CardinalityType, FS_EmptySet
    <3>3. RunsNeeded >= 1 /\ additional + RunsNeeded <= MaxAdditional
      BY <1>0, <3>1, <3>2 DEF RunsNeeded
    <3> QED
      BY <1>0, <2>1, <3>1, <3>3 DEF BudgetInv, RerunBudget
  <2>2. CASE pc' # "rerunPrepare"
    BY <1>3, <2>2 DEF DetectOutliers, BudgetInv, RerunBudget
  <2> QED
    BY <2>1, <2>2
<1>4. CASE RerunPrepare
  <2>1. pc' \in {"rerun", "rerunRollback"} /\ pc = "rerunPrepare"
        /\ additional' = additional + 1 /\ needed' = needed
    BY <1>4 DEF RerunPrepare, SettleRerun
  <2> QED
    BY <1>0, <2>1 DEF BudgetInv, RerunBudget
<1>5. CASE Rerun
  <2>1. pc' = "rerunRollback" /\ pc = "rerun" /\ UNCHANGED <<additional, needed>>
    BY <1>5 DEF Rerun, SettleRerun
  <2> QED
    BY <2>1 DEF BudgetInv, RerunBudget
<1>6. CASE EndRerun
  <2>1. /\ pc = "rerunRollback" /\ needed' = needed - 1 /\ additional' = additional
        /\ pc' \in {"finish", "rerunPrepare", "outliers", "done"}
        /\ pc' = "rerunPrepare" => needed > 1
    BY <1>6 DEF EndRerun, AfterRerun
  <2> QED
    BY <1>0, <2>1 DEF BudgetInv, RerunBudget
<1> QED
  BY <1>1, <1>2, <1>3, <1>4, <1>5, <1>6 DEF Next, Returned

(* Outlier reruns never exceed max_additional_runs in total.               *)
THEOREM RerunsWithinBudget == Spec => []RerunBudget
<1>1. Init => BudgetInv
  BY FirstStepType, AvgAssumption DEF Init, BudgetInv, RerunBudget
<1>2. BudgetInv => RerunBudget
  BY DEF BudgetInv
<1> QED
  BY <1>1, <1>2, TypeInvInit, TypeInvNext, BudgetNext, PTL DEF Spec

(* When the budget is not spent and no rerun failed, the list the average  *)
(* is taken of holds no outlier any more.                                  *)
THEOREM SettledIsClean == Spec => []SettledMeansClean
<1>1. Init => SettledMeansClean
  BY FirstStepType DEF Init, SettledMeansClean
<1>2. TypeInv /\ SettledMeansClean /\ [Next]_vars => SettledMeansClean'
  <2> SUFFICES ASSUME TypeInv, SettledMeansClean, [Next]_vars,
                      pc' = "finish", additional' < MaxAdditional, ~rerunFailed'
               PROVE  OutliersIn(kept') = {}
    BY DEF SettledMeansClean, OutliersIn
  <2>1. CASE UNCHANGED vars
    BY <2>1 DEF vars, SettledMeansClean
  <2>2. CASE DetectOutliers
    BY <2>2, AvgAssumption DEF DetectOutliers, TypeInv, TypeOK
  <2>3. ~EndRerun
    BY DEF EndRerun, AfterRerun
  <2>4. ~RerunPrepare /\ ~Rerun
    BY DEF RerunPrepare, Rerun, SettleRerun
  <2>5. ~ResetStats /\ ~Prepare /\ ~CollectResult /\ ~Warmup /\ ~PrepareAgain /\ ~Measured
    BY MainStepType DEF ResetStats, Prepare, CollectResult, Warmup, PrepareAgain, Measured, Settle
  <2>6. ~CollectPlan /\ ~EndIteration /\ ~Finish /\ ~CollectStatistics
    BY FirstStepType DEF CollectPlan, Settle, AfterPlan, EndIteration, Finish, CollectStatistics
  <2> QED
    BY <2>1, <2>2, <2>3, <2>4, <2>5, <2>6 DEF Next, Returned
<1> QED
  BY <1>1, <1>2, TypeInvInit, TypeInvNext, PTL DEF Spec

-----------------------------------------------------------------------------
(* There is something to average.                                          *)

AfterLoop == {"outliers", "finish"} \cup Rerunning

(* An iteration past the first and past the warm-ups leaves a sample or an *)
(* answer; the last iteration is one of those.                             *)
SampleInv ==
  /\ pc = "result" => iter = 0
  /\ pc = "warmup" => iter < NumWarmup
  /\ pc = "rollback" /\ answer = "none" /\ iter > 0 /\ iter >= NumWarmup => kept # {}
  /\ pc \in AfterLoop => kept # {}

(* Filtering never rejects everything.                                     *)
LEMMA FilterLeavesSome ==
  ASSUME NEW S, S # {} PROVE CleanTimes(S) # {}
<1>1. CASE OutliersIn(S) = {}
  BY <1>1 DEF CleanTimes
<1>2. CASE OutliersIn(S) # {}
  <2> DEFINE R == Deviating(S, TwiceMedian(S))
  <2>1. OutliersIn(S) = R /\ ~(Cardinality(S \ R) < 2)
    BY <1>2 DEF OutliersIn
  <2>2. S \ R # {}
    BY <2>1, FS_EmptySet
  <2> QED
    BY <2>1, <2>2 DEF CleanTimes
<1> QED
  BY <1>1, <1>2

(* A step that raised ends the iteration with an answer.                   *)
LEMMA RaisedAnswers ==
  ASSUME NEW x \in Exceptions, NEW r, NEW q, NEW next, Settle(r, x, q, next)
  PROVE  answer' # "none" /\ pc' = "rollback"
  BY DEF Settle, AnswerTo, Exceptions

LEMMA SampleNext == TypeInv /\ SampleInv /\ [Next]_vars => SampleInv'
<1> SUFFICES ASSUME TypeInv, SampleInv, [Next]_vars PROVE SampleInv'
  OBVIOUS
<1>0. /\ iter \in Nat /\ NumWarmup \in Nat /\ Iterations \in Nat
      /\ Iterations >= NumWarmup + 2 /\ "none" \notin Exceptions
  BY AvgAssumption, IterationsType DEF TypeInv, TypeOK, Iterations, Retries, Exceptions
<1> USE DEF AfterLoop, Rerunning
<1>1. CASE UNCHANGED vars
  BY <1>1 DEF vars, SampleInv
<1>2. ASSUME NEW r, NEW x \in Exceptions \cup {"none"}, NEW q, NEW next,
             Settle(r, x, q, next),
             next \notin {"result", "warmup", "rollback"} \cup AfterLoop
      PROVE  SampleInv'
  <2>1. CASE x = "none"
    BY <1>2, <2>1 DEF Settle, SampleInv
  <2>2. CASE x # "none"
    BY <1>2, <2>2, RaisedAnswers DEF SampleInv
  <2> QED
    BY <2>1, <2>2
<1>3. CASE ResetStats
  <2>1. PICK r \in EvaluateSql(session, Ran(session), FALSE, mode.exits) :
          Settle(r, r.raised, query, "prepare")
    BY <1>3 DEF ResetStats
  <2> QED
    BY <1>2, <2>1, StatementReplies
<1>4. CASE PrepareAgain
  <2>1. PICK r \in PrepareQueryExecution(session, mode.exits) :
          Settle(r, r.raised, query, "measure")
    BY <1>4 DEF PrepareAgain
  <2> QED
    BY <1>2, <2>1, StatementReplies
<1>5. CASE Prepare
  <2>1. PICK r \in PrepareQueryExecution(session, mode.exits) :
          Settle(r, r.raised, query, MainStep)
    BY <1>5 DEF Prepare
  <2>2. iter' = iter
    BY <1>5 DEF Prepare
  <2>3. CASE r.raised = "none"
    <3>1. pc' = MainStep
      BY <2>1, <2>3 DEF Settle
    <3> QED
      BY <2>2, <3>1 DEF MainStep, SampleInv
  <2>4. CASE r.raised # "none"
    BY <2>1, <2>4, StatementReplies, RaisedAnswers DEF SampleInv
  <2> QED
    BY <2>3, <2>4
<1>6. CASE CollectResult
  <2>1. pc = "result" /\ iter' = iter /\ pc' = "rollback"
    BY <1>6 DEF CollectResult, Settle
  <2> QED
    BY <2>1 DEF SampleInv
<1>7. CASE Warmup
  <2>1. pc = "warmup" /\ iter' = iter /\ pc' = "rollback"
    BY <1>7 DEF Warmup, Settle
  <2> QED
    BY <1>0, <2>1 DEF SampleInv
<1>8. CASE CollectPlan
  <2>1. PICK r \in EvaluateSql(session, Ran(session), FALSE, mode.exits) :
          \/ \E b \in Rollback(r.session) : \E q : Settle(b, b.raised, q, AfterPlan)
          \/ Settle(r, "none", PlanTimedOut, AfterPlan)
          \/ Fetched(r) # "none" /\ Settle(r, Fetched(r), query, "rollback")
    BY <1>8, Zenon DEF CollectPlan
  <2>2. CASE \E b \in Rollback(r.session) : \E q : Settle(b, b.raised, q, AfterPlan)
    <3>1. PICK b \in Rollback(r.session) : \E q : Settle(b, b.raised, q, AfterPlan)
      BY <2>2
    <3>2. b \in Replies
      BY StatementReplies, RollbackReplies
    <3>3. b.raised \in Exceptions \cup {"none"}
      BY <3>2 DEF Replies
    <3>4. PICK q : Settle(b, b.raised, q, AfterPlan)
      BY <3>1
    <3> QED
      BY <1>2, <3>3, <3>4 DEF AfterPlan
  <2>3. CASE Settle(r, "none", PlanTimedOut, AfterPlan)
    BY <1>2, <2>3 DEF AfterPlan
  <2>4. CASE Fetched(r) # "none" /\ Settle(r, Fetched(r), query, "rollback")
    BY <2>4, StatementReplies, RaisedAnswers DEF SampleInv
  <2> QED
    BY <2>1, <2>2, <2>3, <2>4
<1>9. CASE Measured
  <2>1. PICK r \in EvaluateSql(session, Ran(session), FALSE, mode.exits), t \in SampleTimes :
          /\ Settle(r, Drained(r), query, "rollback")
          /\ Sampled(Drained(r), NewSample(t))
    BY <1>9, Zenon DEF Measured
  <2>2. CASE Drained(r) = "none"
    BY <2>1, <2>2, SampledAdds DEF Settle, SampleInv
  <2>3. CASE Drained(r) # "none"
    BY <2>1, <2>3, StatementReplies, RaisedAnswers DEF SampleInv
  <2> QED
    BY <2>2, <2>3
<1>10. CASE EndIteration
  <2>1. CASE answer = "none"
    <3>1. /\ iter' = iter + 1 /\ kept' = kept /\ pc = "rollback"
          /\ pc' = IF iter + 1 < Iterations THEN FirstStep(iter + 1) ELSE "outliers"
      BY <1>10, <2>1 DEF EndIteration, NextIteration
    <3>2. CASE iter + 1 < Iterations
      BY <3>1, <3>2, FirstStepType DEF SampleInv
    <3>3. CASE ~(iter + 1 < Iterations)
      <4>1. iter > 0 /\ iter >= NumWarmup
        BY <1>0, <3>3
      <4>2. kept # {}
        BY <2>1, <3>1, <4>1 DEF SampleInv
      <4> QED
        BY <3>1, <3>3, <4>2 DEF SampleInv
    <3> QED
      BY <3>2, <3>3
  <2>2. CASE answer # "none"
    BY <1>10, <2>2 DEF EndIteration, SampleInv
  <2> QED
    BY <2>1, <2>2
<1>11. CASE DetectOutliers
  <2>1. pc = "outliers" /\ pc' \in {"rerunPrepare", "finish"} /\ kept' \in {kept, CleanTimes(kept)}
    BY <1>11 DEF DetectOutliers
  <2> QED
    BY <2>1, FilterLeavesSome DEF SampleInv
<1>12. CASE RerunPrepare
  <2>1. pc = "rerunPrepare" /\ pc' \in {"rerun", "rerunRollback"} /\ kept' = kept
    BY <1>12 DEF RerunPrepare, SettleRerun
  <2> QED
    BY <2>1 DEF SampleInv
<1>13. CASE Rerun
  <2>1. pc = "rerun" /\ pc' = "rerunRollback" /\ \E x, p : Sampled(x, p)
    BY <1>13 DEF Rerun, SettleRerun
  <2> QED
    BY <2>1, SampledAdds DEF SampleInv
<1>14. CASE EndRerun
  <2>1. pc = "rerunRollback" /\ pc' \in {"finish", "rerunPrepare", "outliers", "done"} /\ kept' = kept
    BY <1>14 DEF EndRerun, AfterRerun
  <2> QED
    BY <2>1 DEF SampleInv
<1>15. CASE Finish \/ CollectStatistics
  BY <1>15 DEF Finish, CollectStatistics, SampleInv
<1> QED
  BY <1>1, <1>3, <1>4, <1>5, <1>6, <1>7, <1>8, <1>9, <1>10, <1>11, <1>12, <1>13, <1>14, <1>15
  DEF Next, Returned

(* The average is taken of at least one sample, whatever num-retries and   *)
(* num-warmup are: no division by zero.                                    *)
THEOREM NoEmptyAverage == Spec => []SomethingToAverage
<1>1. Init => SampleInv
  BY FirstStepType DEF Init, SampleInv, AfterLoop, Rerunning
<1>2. SampleInv => SomethingToAverage
  BY DEF SampleInv, SomethingToAverage, AfterLoop
<1> QED
  BY <1>1, <1>2, TypeInvInit, TypeInvNext, SampleNext, PTL DEF Spec

-----------------------------------------------------------------------------
(* AvgExecution implements Measure: the call ends once, in one of the ways *)
(* its callers are told about, with its transactions rolled back.          *)

(* The session after a rollback. *)
Closed == {Fresh, Lost}

(* While the call runs it has no time and no message but the plan's        *)
(* timeout, and past the first iteration the hash is known; between the    *)
(* iterations and after an answer no transaction is open.                  *)
RunInv ==
  /\ session.alive \/ session = Lost
  /\ answer = "none" =>
       /\ pc # "done"
       /\ query.error \in {"none", "PlanTimeout"}
       /\ query.time = IF pc = "stats" THEN "average" ELSE "zero"
       /\ iter > 0 \/ pc \notin {"reset", "prepare", "result"} => query.hash
  /\ answer # "none" => pc \in {"rollback", "rerunRollback", "done"}
  /\ answer # "none" /\ pc # "done" => session \in Closed
  /\ pc \in {"outliers", "rerunPrepare", "finish", "stats"} => session \in Closed

-----------------------------------------------------------------------------
(* Replies. *)

(* What an exception x of a statement with reply r may rely on, when f are *)
(* the flags then raised.                                                  *)
EndsWell(r, x, f, exits) ==
  /\ r.session.alive \/ r.session = Lost
  /\ x # "none" => r.session \in Closed
  /\ x = "InterfaceError" => r.session = Lost /\ "failure" \in f
  /\ x = "SystemExit" => exits /\ f # {}

LEMMA SessionFacts ==
  /\ Fresh.alive /\ ~Fresh.txn /\ ~Lost.alive /\ ~Lost.txn /\ Fresh # Lost
  /\ \A s \in Session : /\ s.alive => RolledBack(s) = Fresh /\ Ran(s).alive /\ Prepared(s).alive
                        /\ ~s.alive => RolledBack(s) = Lost
  BY DEF Fresh, Lost, RolledBack, Ran, Prepared, Session

(* Every reply of evaluate_sql ends well, read or unread; only a statement *)
(* that was done on an open connection can be read.                        *)
LEMMA EvaluateSqlEnds ==
  ASSUME NEW s \in Session, NEW d \in Session, s.alive => d.alive, NEW w \in BOOLEAN,
         NEW e \in BOOLEAN, NEW r \in EvaluateSql(s, d, w, e), NEW f, r.flags \subseteq f
  PROVE  /\ ~w => EndsWell(r, r.raised, f, e) /\ EndsWell(r, Fetched(r), f, e)
         /\ Fetched(r) = "none" => r.session = d /\ s.alive
         /\ r.session \in Closed \/ (r.session = d /\ s.alive /\ r.raised = "none")
         /\ r.session.alive \/ r.session = Lost
         /\ r.raised = "SystemExit" => e /\ f # {}
<1> USE SessionFacts DEF Closed, Reply, Fetched, EndsWell
<1>1. CASE s.alive /\ r = Reply(d, {}, "none", TRUE)
  BY <1>1
<1>2. CASE s.alive /\ r = Reply(RolledBack(s), {}, "QueryCanceled", FALSE)
  BY <1>2
<1>3. CASE r = Reply(Lost, {}, "DatabaseError", FALSE)
  BY <1>3
<1>4. Flagged(w) # {} /\ (~w => "failure" \in Flagged(w))
  BY DEF Flagged
<1>5. CASE s.alive /\ r \in Swallowed(s, w, e)
  <2>1. PICK t \in Closed :
          r = Reply(t, Flagged(w), IF e THEN "SystemExit" ELSE "none", FALSE)
    BY <1>5 DEF Swallowed
  <2> QED
    BY <1>4, <2>1
<1>6. CASE r \in Reraised(s, w, e)
  <2>1. r = Reply(RolledBack(s), Flagged(w),
                  IF e THEN "SystemExit"
                  ELSE IF s.alive THEN "DatabaseError" ELSE "InterfaceError", FALSE)
    BY <1>6 DEF Reraised
  <2> QED
    BY <1>4, <2>1
<1> QED
  BY <1>1, <1>2, <1>3, <1>5, <1>6 DEF EvaluateSql, Unflagged

LEMMA StatementEnds ==
  ASSUME NEW s \in Session, NEW d \in Session, s.alive => d.alive, NEW e \in BOOLEAN,
         NEW r \in EvaluateSql(s, d, FALSE, e), NEW f, r.flags \subseteq f
  PROVE  EndsWell(r, r.raised, f, e) /\ EndsWell(r, Fetched(r), f, e)
<1>1. ASSUME NEW w \in BOOLEAN, w = FALSE
      PROVE  EndsWell(r, r.raised, f, e) /\ EndsWell(r, Fetched(r), f, e)
  <2>1. r \in EvaluateSql(s, d, w, e)
    BY <1>1
  <2> QED
    BY <1>1, <2>1, EvaluateSqlEnds
<1> QED
  BY <1>1

(* A statement that only warns, as the one for the query statistics.       *)
LEMMA StatisticsEnd ==
  ASSUME NEW s \in Session, NEW e \in BOOLEAN,
         NEW r \in EvaluateSql(s, Ran(s), TRUE, e), NEW f, r.flags \subseteq f
  PROVE  /\ r.session \in Closed \/ (r.session = Ran(s) /\ s.alive /\ r.raised = "none")
         /\ r.session.alive \/ r.session = Lost
         /\ r.raised = "SystemExit" => e /\ f # {}
<1>1. ASSUME NEW w \in BOOLEAN, NEW d \in Session, s.alive => d.alive,
             r \in EvaluateSql(s, d, w, e)
      PROVE  /\ r.session \in Closed \/ (r.session = d /\ s.alive /\ r.raised = "none")
             /\ r.session.alive \/ r.session = Lost
             /\ r.raised = "SystemExit" => e /\ f # {}
  BY <1>1, EvaluateSqlEnds
<1>2. \E w \in BOOLEAN : r \in EvaluateSql(s, Ran(s), w, e)
  OBVIOUS
<1>3. Ran(s) \in Session /\ (s.alive => Ran(s).alive)
  BY SessionTypes, SessionFacts
<1> QED
  BY <1>1, <1>2, <1>3

(* So does a preparation, and a rollback of an open connection.            *)
LEMMA PrepareEnds ==
  ASSUME NEW s \in Session, NEW e \in BOOLEAN, NEW r \in PrepareQueryExecution(s, e), NEW f,
         r.flags \subseteq f
  PROVE  EndsWell(r, r.raised, f, e)
<1>1. Prepared(s) \in Session
  BY SessionTypes
<1>2. CASE r \in EvaluateSql(s, Prepared(s), FALSE, e)
  BY <1>1, <1>2, SessionFacts, StatementEnds
<1>3. CASE r \in {Reply(Ran(Fresh), {"failure"}, "none", FALSE),
                  Reply(Lost, {"failure"}, "InterfaceError", FALSE)}
  BY <1>3, SessionFacts, SessionTypes DEF EndsWell, Closed, Reply
<1> QED
  BY <1>2, <1>3 DEF PrepareQueryExecution

LEMMA RollbackEnds ==
  ASSUME NEW s \in Session, s.alive \/ s = Lost, NEW r \in Rollback(s)
  PROVE  /\ r.session \in Closed
         /\ s \in Closed => r.session = s
         /\ s.alive => \A f, e : EndsWell(r, r.raised, f, e)
  BY SessionFacts DEF Rollback, EndsWell, Closed, Reply

-----------------------------------------------------------------------------
(* One statement of an iteration, and one of a rerun.                      *)

MeasureStep == [Contract!Next]_(Contract!vars)

(* The constants of the specification implemented are these.               *)
LEMMA Replicas == Contract!Fresh = Fresh /\ Contract!Lost = Lost
                  /\ \A s : Contract!Ran(s) = Ran(s)
  BY DEF Contract!Fresh, Contract!Lost, Contract!Ran, Fresh, Lost, Ran

(* In an iteration an exception is the answer, and the message with it.    *)
LEMMA SettleImplements ==
  ASSUME TypeInv, RunInv, pc \in LoopSteps, pc # "rollback",
         NEW r, NEW x \in Exceptions \cup {"none"}, NEW q, NEW next \in LoopSteps,
         Settle(r, x, q, next), EndsWell(r, x, flags', mode.exits),
         mode' = mode, iter' = iter,
         q \in Query, q.time = "zero", q.error \in {"none", "PlanTimeout"},
         x = "none" /\ (iter > 0 \/ next \notin {"reset", "prepare", "result"}) => q.hash
  PROVE  RunInv' /\ MeasureStep
<1>1. answer = "none" /\ flags \subseteq flags' /\ session' = r.session
  BY DEF RunInv, LoopSteps, Settle
<1>2. CASE x = "none"
  <2>1. answer' = "none" /\ query' = q /\ pc' = next
    BY <1>2 DEF Settle, AnswerTo, Recorded
  <2>2. MeasureStep
    BY <1>1, <2>1 DEF MeasureStep, Contract!Next, Contract!Work
  <2>3. RunInv'
    BY <1>1, <1>2, <2>1 DEF RunInv, EndsWell, LoopSteps
  <2> QED
    BY <2>2, <2>3
<1>3. CASE x # "none"
  <2>1. pc' = "rollback" /\ session' \in Closed /\ answer' \in {"false", "raised", "exit"}
    BY <1>1, <1>3 DEF Settle, EndsWell, AnswerTo, Exceptions
  <2>2. Contract!Justified(answer', mode.exits, flags', session', query')
    <3>1. CASE x = "QueryCanceled"
      <4>1. query'.time = "timeout" /\ query'.error = "Timeout" /\ answer' = "false"
        BY <3>1 DEF Settle, Recorded, AnswerTo, Query
      <4> QED
        BY <4>1 DEF Contract!Justified
    <3>2. CASE x = "DatabaseError"
      <4>1. query'.time = "zero" /\ query'.error = "DatabaseError" /\ answer' = "false"
        BY <3>2 DEF Settle, Recorded, AnswerTo, Query
      <4> QED
        BY <4>1 DEF Contract!Justified
    <3>3. CASE x = "InterfaceError"
      <4>1. query' = q /\ answer' = "raised"
        BY <3>3 DEF Settle, Recorded, AnswerTo
      <4> QED
        BY <1>1, <3>3, <4>1, Replicas DEF Contract!Justified, EndsWell
    <3>4. CASE x = "SystemExit"
      <4>1. answer' = "exit"
        BY <3>4 DEF Settle, AnswerTo
      <4> QED
        BY <3>4, <4>1 DEF Contract!Justified, EndsWell
    <3> QED
      BY <1>3, <3>1, <3>2, <3>3, <3>4 DEF Exceptions
  <2>3. MeasureStep
    <3>1. answer' \in Contract!Answers /\ session' \in Contract!HandedBack
      BY <2>1, Replicas DEF Contract!Answers, Contract!HandedBack, Closed
    <3> QED
      BY <1>1, <2>2, <3>1 DEF MeasureStep, Contract!Next, Contract!Return
  <2>4. RunInv'
    BY <1>1, <2>1, SessionFacts DEF RunInv, Closed
  <2> QED
    BY <2>3, <2>4
<1> QED
  BY <1>2, <1>3

(* In a rerun only what leaves the function is an answer.                  *)
LEMMA RerunImplements ==
  ASSUME TypeInv, RunInv, pc \in {"rerunPrepare", "rerun"},
         NEW r, NEW x \in Exceptions \cup {"none"}, NEW next \in {"rerun", "rerunRollback"},
         SettleRerun(r, x, next), EndsWell(r, x, flags', mode.exits),
         UNCHANGED <<mode, iter, query>>
  PROVE  RunInv' /\ MeasureStep
<1>1. /\ answer = "none" /\ flags \subseteq flags' /\ session' = r.session
      /\ query.time = "zero" /\ query.error \in {"none", "PlanTimeout"} /\ query.hash
      /\ pc' \in {"rerun", "rerunRollback"}
  BY DEF RunInv, SettleRerun
<1>2. CASE x \in {"none", "QueryCanceled", "DatabaseError"}
  <2>1. answer' = "none"
    BY <1>2 DEF SettleRerun
  <2>2. MeasureStep
    BY <1>1, <2>1 DEF MeasureStep, Contract!Next, Contract!Work
  <2>3. RunInv'
    BY <1>1, <2>1 DEF RunInv, EndsWell
  <2> QED
    BY <2>2, <2>3
<1>3. CASE x \in {"InterfaceError", "SystemExit"}
  <2>1. /\ answer' = IF x = "InterfaceError" THEN "raised" ELSE "exit"
        /\ pc' = "rerunRollback" /\ session' \in Closed
    BY <1>1, <1>3 DEF SettleRerun, EndsWell, AnswerTo
  <2>2. Contract!Justified(answer', mode.exits, flags', session', query')
    BY <1>1, <1>3, <2>1, Replicas DEF Contract!Justified, EndsWell
  <2>3. answer' \in Contract!Answers /\ session' \in Contract!HandedBack
    BY <2>1, Replicas DEF Contract!Answers, Contract!HandedBack, Closed
  <2>4. MeasureStep
    BY <1>1, <2>2, <2>3 DEF MeasureStep, Contract!Next, Contract!Return
  <2>5. RunInv'
    BY <1>1, <2>1, SessionFacts DEF RunInv, Closed
  <2> QED
    BY <2>4, <2>5
<1> QED
  BY <1>2, <1>3 DEF Exceptions

-----------------------------------------------------------------------------
(* The actions. *)

LEMMA LoopImplements ==
  ASSUME TypeInv, RunInv,
         ResetStats \/ Prepare \/ CollectResult \/ Warmup \/ CollectPlan
           \/ PrepareAgain \/ Measured
  PROVE  RunInv' /\ MeasureStep
<1>1. /\ session \in Session /\ Ran(session) \in Session /\ mode.exits \in BOOLEAN
      /\ session.alive => Ran(session).alive
  BY StatementReplies, SessionFacts DEF TypeInv, TypeOK
<1>0. query \in Query /\ iter \in Nat
  BY IterationsType DEF TypeInv, TypeOK
<1>2. /\ pc \in LoopSteps /\ pc # "rollback" /\ mode' = mode /\ iter' = iter
      /\ flags \subseteq flags'
  BY DEF ResetStats, Prepare, CollectResult, Warmup, CollectPlan, PrepareAgain, Measured,
         Settle, LoopSteps
<1>3. /\ query.time = "zero" /\ query.error \in {"none", "PlanTimeout"}
      /\ iter > 0 \/ pc \notin {"reset", "prepare", "result"} => query.hash
  BY <1>2 DEF RunInv, LoopSteps
<1>4. ASSUME NEW r \in EvaluateSql(session, Ran(session), FALSE, mode.exits),
             r.flags \subseteq flags'
      PROVE  /\ EndsWell(r, r.raised, flags', mode.exits)
             /\ EndsWell(r, Fetched(r), flags', mode.exits)
             /\ EndsWell(r, Drained(r), flags', mode.exits)
  BY <1>0, <1>1, <1>4, StatementEnds DEF Drained
<1>5. ASSUME NEW r, NEW x, NEW q, NEW next, Settle(r, x, q, next)
      PROVE  r.flags \subseteq flags'
  BY <1>5 DEF Settle
<1>6. /\ {"prepare", "measure", "rollback", "reprepare"} \subseteq LoopSteps
      /\ MainStep \in LoopSteps
  BY MainStepType DEF LoopSteps
<1>7. CASE ResetStats
  <2>1. PICK r \in EvaluateSql(session, Ran(session), FALSE, mode.exits) :
          Settle(r, r.raised, query, "prepare")
    BY <1>7 DEF ResetStats
  <2> QED
    BY <1>0, <1>1, <1>2, <1>3, <1>4, <1>5, <1>6, <2>1, StatementReplies, SettleImplements
<1>8. CASE Prepare
  <2>1. PICK r \in PrepareQueryExecution(session, mode.exits) :
          Settle(r, r.raised, query, MainStep)
    BY <1>8 DEF Prepare
  <2>2. EndsWell(r, r.raised, flags', mode.exits)
    BY <1>0, <1>1, <1>5, <2>1, PrepareEnds
  <2>3. iter > 0 \/ MainStep \notin {"reset", "prepare", "result"} => query.hash
    BY <1>0, <1>1, <1>3 DEF MainStep
  <2> QED
    BY <1>0, <1>1, <1>2, <1>3, <1>6, <2>1, <2>2, <2>3, StatementReplies, SettleImplements
<1>9. CASE CollectResult
  <2> DEFINE Read(r) == IF mode.dml \/ mode.limitOnly THEN r.raised ELSE Fetched(r)
             Hashed(x) == [query EXCEPT !.hash = (x = "none")]
  <2>1. PICK r \in EvaluateSql(session, Ran(session), FALSE, mode.exits) :
          Settle(r, Read(r), Hashed(Read(r)), "rollback")
    BY <1>9, Zenon DEF CollectResult
  <2>2. Read(r) \in Exceptions \cup {"none"} /\ EndsWell(r, Read(r), flags', mode.exits)
    BY <1>4, <1>5, <2>1, StatementReplies
  <2>3. Hashed(Read(r)) \in Query
    BY <1>0 DEF Query
  <2>4. /\ Hashed(Read(r)).time = "zero" /\ Hashed(Read(r)).error \in {"none", "PlanTimeout"}
        /\ Read(r) = "none" => Hashed(Read(r)).hash
    BY <1>0, <1>1, <1>3 DEF Query
  <2> HIDE DEF Read, Hashed
  <2> QED
    BY <1>0, <1>1, <1>2, <1>6, <2>1, <2>2, <2>3, <2>4, SettleImplements
<1>10. CASE Warmup
  <2>1. PICK r \in EvaluateSql(session, Ran(session), FALSE, mode.exits) :
          Settle(r, Drained(r), query, "rollback")
    BY <1>10 DEF Warmup
  <2>2. query.hash
    BY <1>3, <1>10 DEF Warmup
  <2> QED
    BY <1>0, <1>1, <1>2, <1>3, <1>4, <1>5, <1>6, <2>1, <2>2, StatementReplies, SettleImplements
<1>11. CASE CollectPlan
  <2> DEFINE Explained == [query EXCEPT !.plan = Plan("explain", 0)]
  <2>1. PICK r \in EvaluateSql(session, Ran(session), FALSE, mode.exits) :
          \/ /\ Fetched(r) = "none"
             /\ \E b \in Rollback(r.session) : Settle(b, b.raised, Explained, AfterPlan)
          \/ Settle(r, "none", PlanTimedOut, AfterPlan)
          \/ Settle(r, Fetched(r), query, "rollback") /\ Fetched(r) # "none"
    BY <1>11, Zenon DEF CollectPlan
  <2>2. query.hash
    BY <1>3, <1>11 DEF CollectPlan
  <2>3. /\ Explained \in Query /\ Explained.time = "zero" /\ Explained.hash
        /\ Explained.error \in {"none", "PlanTimeout"}
    BY <1>0, <1>1, <1>3, <2>2 DEF Query, Plan
  <2>4. /\ PlanTimedOut \in Query /\ PlanTimedOut.time = "zero" /\ PlanTimedOut.hash
        /\ PlanTimedOut.error \in {"none", "PlanTimeout"}
    BY <1>0, <1>1, <2>2 DEF Query, Plan, PlanTimedOut
  <2>5. AfterPlan \in LoopSteps
    BY <1>6 DEF AfterPlan
  <2> HIDE DEF Explained
  <2>6. CASE /\ Fetched(r) = "none"
             /\ \E b \in Rollback(r.session) : Settle(b, b.raised, Explained, AfterPlan)
    <3>1. PICK b \in Rollback(r.session) : Settle(b, b.raised, Explained, AfterPlan)
      BY <2>6
    <3>2. r.session \in Session /\ r.session.alive
      <4>1. ASSUME NEW w \in BOOLEAN, w = FALSE
            PROVE  r.session = Ran(session) /\ session.alive
        <5>1. r \in EvaluateSql(session, Ran(session), w, mode.exits)
          BY <4>1
        <5> QED
          BY <1>0, <1>1, <2>6, <5>1, EvaluateSqlEnds
      <4> QED
        BY <1>0, <1>1, <4>1
    <3>3. b \in Replies /\ EndsWell(b, b.raised, flags', mode.exits)
      BY <3>2, RollbackReplies, RollbackEnds
    <3>4. b.raised \in Exceptions \cup {"none"}
      BY <3>3 DEF Replies
    <3> QED
      BY <1>0, <1>1, <1>2, <2>3, <2>5, <3>1, <3>3, <3>4, SettleImplements
  <2>7. CASE Settle(r, "none", PlanTimedOut, AfterPlan)
    <3>1. EndsWell(r, "none", flags', mode.exits)
      BY <1>4, <1>5, <2>7 DEF EndsWell
    <3> QED
      BY <1>0, <1>1, <1>2, <2>4, <2>5, <2>7, <3>1, SettleImplements
  <2>8. CASE Settle(r, Fetched(r), query, "rollback") /\ Fetched(r) # "none"
    BY <1>0, <1>1, <1>2, <1>3, <1>4, <1>5, <1>6, <2>2, <2>8, StatementReplies, SettleImplements
  <2> QED
    BY <2>1, <2>6, <2>7, <2>8
<1>12. CASE PrepareAgain
  <2>1. PICK r \in PrepareQueryExecution(session, mode.exits) :
          Settle(r, r.raised, query, "measure")
    BY <1>12 DEF PrepareAgain
  <2>2. EndsWell(r, r.raised, flags', mode.exits)
    BY <1>0, <1>1, <1>5, <2>1, PrepareEnds
  <2>3. query.hash
    BY <1>3, <1>12 DEF PrepareAgain
  <2> QED
    BY <1>0, <1>1, <1>2, <1>3, <1>6, <2>1, <2>2, <2>3, StatementReplies, SettleImplements
<1>13. CASE Measured
  <2>1. PICK r \in EvaluateSql(session, Ran(session), FALSE, mode.exits) :
          Settle(r, Drained(r), query, "rollback")
    BY <1>13 DEF Measured
  <2>2. query.hash
    BY <1>3, <1>13 DEF Measured
  <2> QED
    BY <1>0, <1>1, <1>2, <1>3, <1>4, <1>5, <1>6, <2>1, <2>2, StatementReplies, SettleImplements
<1> QED
  BY <1>7, <1>8, <1>9, <1>10, <1>11, <1>12, <1>13

LEMMA RerunsImplement ==
  ASSUME TypeInv, RunInv, RerunPrepare \/ Rerun \/ DetectOutliers
  PROVE  RunInv' /\ MeasureStep
<1>1. session \in Session /\ Ran(session) \in Session /\ mode.exits \in BOOLEAN
      /\ (session.alive => Ran(session).alive)
  BY StatementReplies, SessionFacts DEF TypeInv, TypeOK
<1>2. CASE RerunPrepare
  <2>1. PICK r \in PrepareQueryExecution(session, mode.exits) :
          SettleRerun(r, r.raised, "rerun")
    BY <1>2 DEF RerunPrepare
  <2>2. EndsWell(r, r.raised, flags', mode.exits)
    BY <1>1, <2>1, PrepareEnds DEF SettleRerun
  <2>3. pc = "rerunPrepare" /\ UNCHANGED <<mode, iter, query>>
    BY <1>2 DEF RerunPrepare
  <2> QED
    BY <2>1, <2>2, <2>3, StatementReplies, RerunImplements
<1>3. CASE Rerun
  <2>1. PICK r \in EvaluateSql(session, Ran(session), FALSE, mode.exits) :
          SettleRerun(r, Drained(r), "rerunRollback")
    BY <1>3 DEF Rerun
  <2>2. EndsWell(r, Drained(r), flags', mode.exits)
    BY <1>1, <2>1, StatementEnds DEF SettleRerun, Drained
  <2>3. pc = "rerun" /\ UNCHANGED <<mode, iter, query>>
    BY <1>3 DEF Rerun
  <2> QED
    BY <2>1, <2>2, <2>3, StatementReplies, RerunImplements
<1>4. CASE DetectOutliers
  <2>1. /\ pc = "outliers" /\ pc' \in {"rerunPrepare", "finish"}
        /\ UNCHANGED <<mode, iter, session, flags, query, answer>>
    BY <1>4 DEF DetectOutliers
  <2>2. answer = "none"
    BY <2>1 DEF RunInv
  <2> QED
    BY <2>1, <2>2 DEF RunInv, MeasureStep, Contract!Next, Contract!Work
<1> QED
  BY <1>2, <1>3, <1>4

LEMMA EndsImplement ==
  ASSUME TypeInv, RunInv, EndIteration \/ EndRerun \/ Finish \/ CollectStatistics
  PROVE  RunInv' /\ MeasureStep
<1>1. session \in Session /\ Ran(session) \in Session /\ mode.exits \in BOOLEAN
      /\ (session.alive => Ran(session).alive)
  BY StatementReplies, SessionFacts DEF TypeInv, TypeOK
<1>0. query \in Query /\ iter \in Nat
  BY IterationsType DEF TypeInv, TypeOK
<1>2. CASE EndIteration \/ EndRerun
  <2>1. /\ session' \in Closed /\ (session \in Closed => session' = session)
        /\ UNCHANGED <<mode, flags, query, answer>> /\ pc \in {"rollback", "rerunRollback"}
    BY <1>0, <1>1, <1>2, RollbackEnds DEF EndIteration, EndRerun, EndTransaction, RunInv
  <2>2. CASE answer = "none"
    <3>1. query.time = "zero" /\ query.error \in {"none", "PlanTimeout"} /\ query.hash
      BY <2>1, <2>2 DEF RunInv
    <3>2. pc' \notin {"stats", "done"}
      BY <1>2, <2>2, FirstStepType DEF EndIteration, EndRerun, AfterRerun
    <3> QED
      BY <1>0, <2>1, <2>2, <3>1, <3>2, SessionFacts
      DEF RunInv, Closed, MeasureStep, Contract!Next, Contract!Work
  <2>3. CASE answer # "none"
    <3>1. session' = session /\ pc' = "done"
      BY <1>2, <2>1, <2>3 DEF RunInv, EndIteration, EndRerun
    <3> QED
      BY <2>1, <2>3, <3>1 DEF RunInv, MeasureStep, Contract!vars
  <2> QED
    BY <2>2, <2>3
<1>3. CASE Finish
  <2>1. /\ pc = "finish" /\ answer = "none" /\ session \in Closed
        /\ query.error \in {"none", "PlanTimeout"} /\ query.hash
    BY <1>3 DEF Finish, RunInv
  <2>2. query'.time = "average" /\ query'.error = query.error /\ query'.hash = query.hash
    <3>1. query' = Averaged \/ \E p : query' = AveragedWithPlan(p)
      BY <1>3 DEF Finish
    <3> QED
      BY <1>0, <3>1 DEF Averaged, AveragedWithPlan, Query
  <2>3. UNCHANGED <<mode, iter, session, flags>>
    BY <1>3 DEF Finish
  <2>4. CASE mode.stats
    <3>1. pc' = "stats" /\ answer' = "none"
      BY <1>3, <2>4 DEF Finish
    <3> QED
      BY <2>1, <2>2, <2>3, <3>1 DEF RunInv, MeasureStep, Contract!Next, Contract!Work
  <2>5. CASE ~mode.stats
    <3>1. pc' = "done" /\ answer' = "true"
      BY <1>3, <2>5 DEF Finish
    <3>2. RunInv'
      BY <2>3, <3>1 DEF RunInv
    <3>3. Contract!Justified(answer', mode.exits, flags', session', query')
      BY <2>1, <2>2, <3>1 DEF Contract!Justified
    <3>4. answer' \in Contract!Answers /\ session' \in Contract!HandedBack
      BY <2>1, <2>3, <3>1, Replicas DEF Contract!Answers, Contract!HandedBack, Closed
    <3> QED
      BY <2>1, <2>3, <3>2, <3>3, <3>4 DEF MeasureStep, Contract!Next, Contract!Return
  <2> QED
    BY <2>4, <2>5
<1>4. CASE CollectStatistics
  <2>1. /\ pc = "stats" /\ answer = "none" /\ session \in Closed /\ query.time = "average"
        /\ query.error \in {"none", "PlanTimeout"} /\ query.hash
    BY <1>4 DEF CollectStatistics, RunInv
  <2>2. PICK r \in EvaluateSql(session, Ran(session), TRUE, mode.exits) :
          /\ session' = r.session /\ flags' = flags \cup r.flags
          /\ answer' = IF r.raised = "SystemExit" THEN "exit" ELSE "true"
    BY <1>4 DEF CollectStatistics
  <2>3. UNCHANGED <<mode, iter, query>> /\ pc' = "done"
    BY <1>4 DEF CollectStatistics
  <2>4. /\ r.session \in Closed \/ (r.session = Ran(session) /\ session.alive /\ r.raised = "none")
        /\ r.session.alive \/ r.session = Lost
        /\ r.raised = "SystemExit" => mode.exits /\ flags' # {}
    <3>1. r.flags \subseteq flags'
      BY <2>2
    <3> QED
      BY <1>1, <3>1, StatisticsEnd
  <2>5. session' \in Contract!HandedBack
    BY <2>1, <2>2, <2>4, Replicas, SessionFacts DEF Contract!HandedBack, Closed
  <2>6. Contract!Justified(answer', mode.exits, flags', session', query')
    BY <2>1, <2>2, <2>3, <2>4 DEF Contract!Justified
  <2>7. answer' \in Contract!Answers /\ flags \subseteq flags'
    BY <2>2 DEF Contract!Answers
  <2>8. RunInv'
    BY <2>2, <2>3, <2>4 DEF RunInv
  <2> QED
    BY <2>1, <2>3, <2>5, <2>6, <2>7, <2>8 DEF MeasureStep, Contract!Next, Contract!Return
<1> QED
  BY <1>2, <1>3, <1>4

(* Every step of the call is a step of Measure or invisible to it.         *)
LEMMA RunNext == TypeInv /\ RunInv /\ [Next]_vars => RunInv' /\ MeasureStep
<1> SUFFICES ASSUME TypeInv, RunInv, [Next]_vars PROVE RunInv' /\ MeasureStep
  OBVIOUS
<1>1. CASE UNCHANGED vars
  BY <1>1 DEF vars, RunInv, MeasureStep, Contract!vars
<1> QED
  BY <1>1, LoopImplements, RerunsImplement, EndsImplement DEF Next, Returned

LEMMA RunInit == Init => RunInv /\ Contract!Init
<1> SUFFICES ASSUME Init PROVE RunInv /\ Contract!Init
  OBVIOUS
<1>1. TypeOK
  BY TypeInvInit DEF TypeInv
<1>2. RunInv
  BY FirstStepType DEF Init, RunInv
<1>3. mode.exits \in BOOLEAN
  BY <1>1, AvgAssumption DEF TypeOK, Mode
<1>4. flags \in SUBSET Contract!Flags /\ session \in Contract!Session
  BY <1>1 DEF TypeOK, Contract!Flags, Contract!Session, Flags, Session
<1>5. answer = "none" /\ query.time = "zero" /\ query.error = "none" /\ ~query.hash
  BY DEF Init
<1> QED
  BY <1>2, <1>3, <1>4, <1>5 DEF Contract!Init

(* The call implements Measure: it ends once, in one of its four ways.     *)
THEOREM Implementation == Spec => MeasureSpec
<1>1. Spec => []TypeInv /\ []RunInv
  BY TypeInvInit, TypeInvNext, RunInit, RunNext, PTL DEF Spec
<1> QED
  BY <1>1, RunInit, RunNext, PTL DEF Spec, MeasureSpec, Contract!Spec, MeasureStep

-----------------------------------------------------------------------------
(* What the caller gets. *)

(* The plan of the query is that of a run that counts in its average.      *)
PlanStands ==
  \E p \in kept : /\ query.plan = Plan("sample", TimeOf(p))
                  /\ \A o \in kept : FromAverage(p, kept) <= FromAverage(o, kept)

(* Both results hold from the average on, while statistics are collected.  *)
ResultInv ==
  /\ answer = "true" => pc = "done"
  /\ pc = "stats" => mode.stats
  /\ HandedBackRolledBack
  /\ pc = "stats" \/ answer = "true" => (mode.analyze => PlanStands)

(* Before the average nothing is answered.                                 *)
LEMMA NoAverageYet ==
  ASSUME ResetStats \/ Prepare \/ CollectResult \/ Warmup \/ CollectPlan \/ PrepareAgain
           \/ Measured \/ DetectOutliers \/ RerunPrepare \/ Rerun,
         RunInv
  PROVE  answer' # "true" /\ pc' \notin {"stats", "done"}
<1>1. CASE ResetStats \/ Prepare \/ CollectResult \/ Warmup \/ PrepareAgain \/ Measured
  BY <1>1, MainStepType
  DEF ResetStats, Prepare, CollectResult, Warmup, PrepareAgain, Measured, Settle, AnswerTo
<1>2. CASE CollectPlan
  BY <1>2 DEF CollectPlan, Settle, AfterPlan, AnswerTo
<1>3. CASE DetectOutliers
  BY <1>3 DEF DetectOutliers, RunInv
<1>4. CASE RerunPrepare \/ Rerun
  BY <1>4 DEF RerunPrepare, Rerun, SettleRerun, AnswerTo
<1> QED
  BY <1>1, <1>2, <1>3, <1>4

(* Of the runs that took the same time, one is retained with its plan.     *)
LEMMA FinishShowsItsPlan ==
  ASSUME TypeInv, KeptHavePlans, Finish, mode.analyze
  PROVE  PlanStands'
<1>1. PICK p \in Representatives : query' = AveragedWithPlan(p)
  BY DEF Finish
<1>2. kept' = FinalTimes /\ FinalTimes \subseteq plans
  BY CleanIsSubset DEF Finish, FinalTimes, KeptHavePlans
<1>3. PICK s \in FinalTimes : TimeOf(s) = TimeOf(p)
  BY DEF Representatives, WithTimesOf
<1>4. query'.plan = Plan("sample", TimeOf(s))
  <2>1. Averaged \in Query
    BY DEF Averaged, Query, TypeInv, TypeOK
  <2> QED
    BY <1>1, <1>3, <2>1 DEF AveragedWithPlan, Query
<1>5. ASSUME NEW o \in FinalTimes
      PROVE  FromAverage(s, FinalTimes) <= FromAverage(o, FinalTimes)
  <2>1. o \in WithTimesOf(plans, FinalTimes)
    BY <1>2 DEF WithTimesOf
  <2>2. FromAverage(p, FinalTimes) <= FromAverage(o, FinalTimes)
    BY <2>1 DEF Representatives
  <2>3. FromAverage(s, FinalTimes) = FromAverage(p, FinalTimes)
    BY <1>3 DEF FromAverage
  <2> QED
    BY <2>2, <2>3
<1>6. \A o \in kept' : FromAverage(s, kept') <= FromAverage(o, kept')
  BY <1>2, <1>5
<1> QED
  BY <1>2, <1>4, <1>6 DEF PlanStands

LEMMA ResultNext ==
  TypeInv /\ RunInv /\ KeptHavePlans /\ ResultInv /\ [Next]_vars => ResultInv'
<1> SUFFICES ASSUME TypeInv, RunInv, KeptHavePlans, ResultInv, [Next]_vars
             PROVE  ResultInv'
  OBVIOUS
<1>1. CASE UNCHANGED vars
  BY <1>1 DEF vars, ResultInv, HandedBackRolledBack, PlanStands
<1>2. CASE ResetStats \/ Prepare \/ CollectResult \/ Warmup \/ CollectPlan \/ PrepareAgain
             \/ Measured \/ DetectOutliers \/ RerunPrepare \/ Rerun
  BY <1>2, NoAverageYet DEF ResultInv, HandedBackRolledBack
<1>3. CASE EndIteration \/ EndRerun
  <2>1. session' \in Closed
    BY <1>3, RollbackEnds DEF EndIteration, EndRerun, EndTransaction, RunInv, TypeInv, TypeOK
  <2>2. /\ answer' = answer /\ pc \in {"rollback", "rerunRollback"} /\ pc' # "stats"
    BY <1>3, FirstStepType DEF EndIteration, EndRerun, AfterRerun
  <2> QED
    BY <2>1, <2>2, SessionFacts DEF ResultInv, HandedBackRolledBack, Closed
<1>4. CASE Finish
  <2>1. session' = session /\ session \in Closed /\ mode' = mode
    BY <1>4 DEF Finish, RunInv
  <2>2. \/ pc' = "stats" /\ answer' = "none" /\ mode.stats
        \/ pc' = "done" /\ answer' = "true"
    BY <1>4 DEF Finish
  <2> QED
    BY <1>4, <2>1, <2>2, SessionFacts, FinishShowsItsPlan
    DEF ResultInv, HandedBackRolledBack, Closed
<1>5. CASE CollectStatistics
  <2>1. pc = "stats" /\ pc' = "done" /\ UNCHANGED <<mode, kept, query>>
    BY <1>5 DEF CollectStatistics
  <2>2. PICK r \in EvaluateSql(session, Ran(session), TRUE, mode.exits) :
          /\ session' = r.session
          /\ answer' = IF r.raised = "SystemExit" THEN "exit" ELSE "true"
    BY <1>5 DEF CollectStatistics
  <2>3. session \in Session /\ mode.exits \in BOOLEAN /\ session \in Closed /\ mode.stats
    BY <2>1, StatementReplies DEF RunInv, ResultInv, TypeInv, TypeOK
  <2>4. r.session \in Closed \/ (r.session = Ran(session) /\ session.alive /\ r.raised = "none")
    BY <2>3, StatisticsEnd
  <2>5. ~Ran(session).props
    BY <2>3 DEF Closed, Ran, Fresh, Lost
  <2>6. session'.txn => answer' = "true" /\ ~session'.props
    BY <2>2, <2>4, <2>5, SessionFacts DEF Closed
  <2>7. HandedBackRolledBack'
    BY <2>1, <2>3, <2>6 DEF HandedBackRolledBack
  <2>8. mode.analyze => PlanStands'
    BY <2>1 DEF ResultInv, PlanStands
  <2> QED
    BY <2>1, <2>7, <2>8 DEF ResultInv
<1> QED
  BY <1>1, <1>2, <1>3, <1>4, <1>5 DEF Next, Returned

LEMMA AlwaysResultInv == Spec => []ResultInv
<1>1. Init => ResultInv
  BY FirstStepType DEF Init, ResultInv, HandedBackRolledBack
<1>2. Spec => []KeptHavePlans
  BY RetainedHavePlans
<1> QED
  BY <1>1, <1>2, TypeInvInit, TypeInvNext, RunInit, RunNext, ResultNext, PTL DEF Spec

(* The plan reported with an average is the output of a run that counts in *)
(* that average, and no other such run is nearer to it.                    *)
THEOREM ShownPlanStands == Spec => []PlanStandsForAverage
<1>1. ResultInv => PlanStandsForAverage
  BY DEF ResultInv, PlanStandsForAverage, PlanStands
<1> QED
  BY <1>1, AlwaysResultInv, PTL

(* The caller gets the session back without the measured transaction; only *)
(* the statistics query leaves one open.                                   *)
THEOREM SessionHandedBack == Spec => []HandedBackRolledBack
<1>1. ResultInv => HandedBackRolledBack
  BY DEF ResultInv
<1> QED
  BY <1>1, AlwaysResultInv, PTL
=============================================================================
