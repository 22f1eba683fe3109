----------------------- MODULE BestOptimization_proofs -----------------------
(***************************************************************************)
(* Proofs about BestOptimization, for any number of optimizations and any  *)
(* times.                                                                  *)
(***************************************************************************)
EXTENDS BestOptimization, TLAPS

(* The optimizations the scan has passed. *)
Passed == {n \in 1..count : n < i}

(* What the scan knows: best is the query itself or a success that beats   *)
(* it, and nothing passed beats best.                                      *)
ScanInv ==
  /\ TypeOK
  /\ best > 0 => time[best] > 0 /\ (time[0] = -1 \/ time[best] < time[0])
  /\ \A n \in Passed : time[n] > 0 /\ time[0] # 0 => time[n] >= BestTime
  /\ answer # -1 => answer = Answer /\ i = count + 1

LEMMA TimesAreIntegers ==
  ASSUME TypeOK
  PROVE  /\ Infinity \in Nat /\ DeltaPct \in Nat /\ count \in Nat
         /\ \A n \in 0..count : time[n] \in Int /\ -1 <= time[n] /\ time[n] < Infinity
<1>1. /\ Infinity \in Nat /\ DeltaPct \in Nat /\ MaxOpts \in Nat
      /\ \A t \in Times : t \in Int /\ -1 <= t /\ t < Infinity
  BY BestAssumption
<1>2. count \in Nat /\ time \in [0..count -> Times]
  BY <1>1 DEF TypeOK
<1>3. ASSUME NEW n \in 0..count
      PROVE  time[n] \in Times
  BY <1>2
<1> QED
  BY <1>1, <1>2, <1>3

LEMMA ScanInvInit == Init => ScanInv
  BY BestAssumption DEF Init, ScanInv, TypeOK, Passed

LEMMA ScanInvNext == ScanInv /\ [Next]_vars => ScanInv'
<1> SUFFICES ASSUME ScanInv, [Next]_vars
             PROVE  ScanInv'
  OBVIOUS
<1>0. /\ Infinity \in Nat /\ DeltaPct \in Nat /\ count \in Nat
      /\ \A n \in 0..count : time[n] \in Int /\ -1 <= time[n] /\ time[n] < Infinity
  BY TimesAreIntegers DEF ScanInv
<1>1. CASE Look
  <2>1. i \in 1..count /\ count' = count /\ time' = time /\ answer' = answer /\ i' = i + 1
    BY <1>0, <1>1 DEF Look, ScanInv, TypeOK
  <2>2. TypeOK'
    BY <1>0, <1>1, <2>1 DEF Look, ScanInv, TypeOK
  <2>3. CASE Better(time[i])
    <3>1. best' = i
      BY <1>1, <2>3 DEF Look
    <3>2. time[i] > 0 /\ (time[0] = -1 \/ time[i] < time[0])
      BY <1>0, <2>1, <2>3 DEF Better, BestTime, ScanInv, TypeOK
    <3>3. BestTime' = time[i] /\ time[i] < BestTime
      BY <1>0, <2>1, <2>3, <3>1 DEF Better, BestTime, ScanInv, TypeOK
    <3>4. ASSUME NEW n \in Passed', time[n] > 0, time[0] # 0
          PROVE  time[n] >= BestTime'
      BY <1>0, <2>1, <3>3, <3>4 DEF Passed, ScanInv, TypeOK, BestTime
    <3> QED
      BY <1>1, <2>1, <2>2, <3>1, <3>2, <3>4 DEF ScanInv, Look
  <2>4. CASE ~Better(time[i])
    <3>1. best' = best /\ BestTime' = BestTime
      BY <1>1, <2>1, <2>4 DEF Look, BestTime
    <3>2. ASSUME NEW n \in Passed', time[n] > 0, time[0] # 0
          PROVE  time[n] >= BestTime'
      BY <1>0, <2>1, <2>4, <3>1, <3>2 DEF Passed, Better, ScanInv, TypeOK, BestTime
    <3> QED
      BY <1>1, <2>1, <2>2, <3>1, <3>2 DEF ScanInv, Look
  <2> QED
    BY <2>3, <2>4
<1>2. CASE Return
  <2>1. UNCHANGED <<count, time, i, best>> /\ answer' = Answer /\ i = count + 1
    BY <1>0, <1>2 DEF Return, ScanInv, TypeOK
  <2>2. Answer \in 0..count
    BY <1>0 DEF Answer, ScanInv, TypeOK
  <2>3. BestTime' = BestTime /\ Passed' = Passed /\ Answer' = Answer
    BY <2>1 DEF BestTime, Passed, Answer
  <2> QED
    BY <1>0, <2>1, <2>2, <2>3 DEF ScanInv, TypeOK
<1>3. CASE UNCHANGED vars
  BY <1>3 DEF vars, ScanInv, TypeOK, Passed, BestTime, Answer
<1> QED
  BY <1>1, <1>2, <1>3 DEF Next, Returned

LEMMA ScanInvAlways == Spec => []ScanInv
  BY ScanInvInit, ScanInvNext, PTL DEF Spec

(* The types, for any number of optimizations. *)
THEOREM BestTypes == Spec => []TypeOK
<1>1. ScanInv => TypeOK
  BY DEF ScanInv
<1> QED
  BY <1>1, ScanInvAlways, PTL

(* The answer is an optimization only if it succeeded, and only for a gain *)
(* above the allowed difference.                                           *)
THEOREM BestGains == Spec => []OnlyRealGains
<1>1. ASSUME ScanInv PROVE OnlyRealGains
  <2>1. ASSUME answer > 0 PROVE time[answer] > 0
    BY <1>1, <2>1, TimesAreIntegers DEF ScanInv, TypeOK, Answer
  <2>2. ASSUME answer > 0, time[0] # -1
        PROVE  time[answer] < time[0] /\ ~AllowedDiff(time[answer], time[0])
    BY <1>1, <2>2, TimesAreIntegers DEF ScanInv, TypeOK, Answer
  <2> QED
    BY <2>1, <2>2 DEF OnlyRealGains
<1> QED
  BY <1>1, ScanInvAlways, PTL

(* What lies between the best time and the query's own is within the       *)
(* allowed difference if the best time is.                                 *)
LEMMA AllowedBetween ==
  ASSUME NEW a \in Int, NEW b \in Int, NEW c \in Int, DeltaPct \in Nat,
         a <= b, b < c, AllowedDiff(a, c)
  PROVE  AllowedDiff(b, c)
<1>1. Distance(a, c) = c - a /\ Distance(b, c) = c - b
  BY DEF Distance
<1>2. c > 0 /\ 100 * (c - a) < DeltaPct * c
  BY <1>1 DEF AllowedDiff
<1>3. DeltaPct * c \in Int
  OBVIOUS
<1>4. 100 * (c - b) < DeltaPct * c
  BY <1>2, <1>3
<1> QED
  BY <1>1, <1>2, <1>4 DEF AllowedDiff

(* No optimization that succeeded beats the answer by more than the        *)
(* allowed difference, unless the query itself failed.                     *)
THEOREM BestFastest == Spec => []BestIsFastest
<1>1. ASSUME ScanInv PROVE BestIsFastest
  <2> SUFFICES ASSUME answer # -1, time[0] # 0, NEW n \in Succeeded
               PROVE  \/ answer > 0 /\ time[answer] <= time[n]
                      \/ /\ answer = 0 /\ time[0] > 0
                         /\ time[0] <= time[n] \/ AllowedDiff(time[n], time[0])
    BY DEF BestIsFastest
  <2>1. /\ Infinity \in Nat /\ DeltaPct \in Nat /\ count \in Nat
        /\ \A m \in 0..count : time[m] \in Int /\ -1 <= time[m] /\ time[m] < Infinity
    BY <1>1, TimesAreIntegers DEF ScanInv
  <2>2. n \in Passed /\ time[n] > 0 /\ n \in 0..count /\ best \in 0..count
    BY <1>1, <2>1 DEF Succeeded, Passed, ScanInv, TypeOK
  <2>3. time[n] >= BestTime /\ answer = Answer
    BY <1>1, <2>2 DEF ScanInv
  <2>4. time[best] # -1 /\ time[n] >= time[best]
    BY <2>1, <2>2, <2>3 DEF BestTime
  <2>5. CASE count > 0 /\ AllowedDiff(time[best], time[0])
    <3>1. answer = 0 /\ time[0] > 0
      BY <2>3, <2>5 DEF Answer, AllowedDiff
    <3>2. CASE time[0] <= time[n]
      BY <3>1, <3>2
    <3>3. CASE time[n] < time[0]
      <4>1. AllowedDiff(time[n], time[0])
        BY <2>1, <2>2, <2>4, <2>5, <3>3, AllowedBetween
      <4> QED
        BY <3>1, <4>1
    <3> QED
      BY <2>1, <2>2, <3>2, <3>3
  <2>6. CASE ~(count > 0 /\ AllowedDiff(time[best], time[0]))
    <3>1. answer = best
      BY <2>3, <2>6 DEF Answer
    <3> QED
      BY <2>1, <2>2, <2>4, <3>1
  <2> QED
    BY <2>5, <2>6
<1> QED
  BY <1>1, ScanInvAlways, PTL
=============================================================================
