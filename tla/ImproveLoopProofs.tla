------------------------- MODULE ImproveLoopProofs -------------------------
(***************************************************************************)
(* Theorems about ImproveLoop, for a pool of any size, any baseline, any   *)
(* bound on the rounds and any judge: the loop stops at the first passing  *)
(* gate, the gate passes exactly the candidates that keep every item of    *)
(* the baseline, the judge says GO only on a result that at most alpha of  *)
(* the equally likely outcomes reach, and a judge with a position habit    *)
(* never says GO.                                                          *)
(*                                                                         *)
(* The invariant ties what the loop counts to where it is: a round that    *)
(* begins has only failed ones behind it, a pair is judged once per item,  *)
(* and a judge that showed nothing but one habit has given no win.  The    *)
(* gate needs no history, only arithmetic: a candidate that keeps the      *)
(* baseline's items has a mean no lower, taken over however few items.     *)
(* Neither does GO: the tail counts outcomes (TailCounts).                 *)
(***************************************************************************)
EXTENDS ImproveLoop, BinomialProofs, SequenceTheorems

DraftStatus == {"draft", "evaluation_passed", "evaluation_failed",
                "gate_passed", "gate_failed"}

Failed == {"evaluation_failed", "gate_failed"}

\* A round begins below the bound, after failed rounds only; a round that is
\* under way has its draft.
RoundInv ==
    /\ pc = "reflect" => /\ Len(drafts) < MaxIterations
                         /\ \A k \in 1..Len(drafts) : drafts[k] \in Failed
    /\ pc \in {"item", "forward", "swapped", "decide"} => Len(drafts) > 0

\* At most one pair per item is judged, and a habit gives no win.
JudgeInv ==
    /\ pc \in {"forward", "swapped"} => next <= N
    /\ n < next
    /\ habit = "none" => n = 0
    /\ habit # "mixed" => wins = 0

IInv == TypeOK /\ RoundInv /\ StopsAtFirstPass /\ JudgeInv

---------------------------------------------------------------------------
(* The gate and the test *)

\* A candidate that solves every item of the baseline passes the aggregate
\* check, whatever it was scored on.
LEMMA KeepersHoldTheAggregate ==
  ASSUME NEW f, DOMAIN f \subseteq Items,
         \A i \in Baseline : i \in DOMAIN f /\ f[i] = 1
  PROVE  AggregateHolds(f)
<1> DEFINE hits == {i \in DOMAIN f : f[i] = 1}
<1>1. IsFiniteSet(Items) /\ Cardinality(Items) = N
  <2>1. IsFiniteSet(1..N) /\ Cardinality(1..N) = N
    BY ConstantsAssumption, FS_Interval
  <2> QED
    BY <2>1 DEF Items
<1>2. /\ Cardinality(DOMAIN f) \in Nat /\ Cardinality(DOMAIN f) <= N
      /\ IsFiniteSet(DOMAIN f)
  BY <1>1, FS_Subset, FS_CardinalityType
<1>3. IsFiniteSet(hits) /\ Cardinality(hits) \in Nat
  <2>1. hits \subseteq DOMAIN f
    OBVIOUS
  <2> QED
    BY <1>2, <2>1, FS_Subset, FS_CardinalityType
<1>4. Baseline \subseteq hits
  OBVIOUS
<1>5. Cardinality(Baseline) \in Nat /\ Cardinality(Baseline) <= Cardinality(hits)
  BY <1>3, <1>4, FS_Subset, FS_CardinalityType
<1>6. \A b, h, d \in Nat : b <= h /\ d <= N => h * N >= b * d
  BY ConstantsAssumption
<1>7. Cardinality(hits) * N >= Cardinality(Baseline) * Cardinality(DOMAIN f)
  BY <1>2, <1>3, <1>5, <1>6
<1>8. f = NoScores => Baseline = {}
  BY DEF NoScores
<1> QED
  BY <1>7, <1>8 DEF AggregateHolds, Total

\* The no-regression gate, in a word.
LEMMA GatePassesKeepers ==
  ASSUME NEW f, DOMAIN f \subseteq Items, \A i \in DOMAIN f : f[i] \in {0, 1}
  PROVE  PassesNoRegression(f) <=> \A i \in Baseline : i \in DOMAIN f /\ f[i] = 1
<1>1. ASSUME PassesNoRegression(f), NEW i \in Baseline
      PROVE  i \in DOMAIN f /\ f[i] = 1
  <2>1. i \in Items /\ N # 0
    BY ConstantsAssumption DEF Items
  <2>2. BaselineScore(i) <= Score(f, i)
    BY <1>1, <2>1 DEF PassesNoRegression
  <2> QED
    BY <2>2 DEF BaselineScore, Score
<1>2. ASSUME \A i \in Baseline : i \in DOMAIN f /\ f[i] = 1
      PROVE  PassesNoRegression(f)
  <2>1. AggregateHolds(f)
    BY <1>2, KeepersHoldTheAggregate
  <2>2. \A i \in Items : BaselineScore(i) <= Score(f, i)
    BY <1>2 DEF BaselineScore, Score
  <2> QED
    BY <2>1, <2>2 DEF PassesNoRegression
<1> QED
  BY <1>1, <1>2

\* Without a win there is no GO.
LEMMA NoWinNoGo ==
  ASSUME Alpha[1] < Alpha[2], NEW trials \in Nat
  PROVE  ~PassesTypeI(0, trials)
<1>1. Alpha[1] \in Nat /\ Alpha[2] \in Nat
  BY ConstantsAssumption DEF IsFraction
<1> QED
  BY <1>1 DEF PassesTypeI, UpperTail

\* An answer that is the same in both orders is no win.
LEMMA HabitIsNoWin ==
  ASSUME NEW a \in Answer
  PROVE  ~CandidateWins(a, a)
  BY DEF Answer, CandidateWins, Normalise

---------------------------------------------------------------------------

LEMMA InitInv == Init => IInv
<1> SUFFICES ASSUME Init PROVE IInv
  OBVIOUS
<1>1. drafts = <<>> /\ Len(drafts) = 0
  BY DEF Init
<1>2. TypeOK
  <2>1. drafts \in Seq(DraftStatus) /\ Len(drafts) <= MaxIterations
    BY <1>1, ConstantsAssumption
  <2>2. DOMAIN scores = {}
    BY DEF Init, NoScores
  <2>3. /\ next \in 1..(N + 1) /\ n \in 0..N /\ wins \in 0..n
        /\ forward \in Answer /\ habit \in Answer \cup {"none", "mixed"}
    BY ConstantsAssumption DEF Init, Answer
  <2> QED
    BY <2>1, <2>2, <2>3 DEF Init, TypeOK, DraftStatus
<1>3. RoundInv /\ StopsAtFirstPass /\ JudgeInv
  BY <1>1, ConstantsAssumption DEF Init, RoundInv, StopsAtFirstPass, JudgeInv
<1> QED
  BY <1>2, <1>3 DEF IInv

\* A new round begins.
LEMMA ReflectInv == ASSUME IInv, Reflect PROVE IInv'
<1>1. drafts \in Seq(DraftStatus) /\ Len(drafts) \in Nat
  BY DEF IInv, TypeOK, DraftStatus
<1>2. /\ drafts' = Append(drafts, "draft")
      /\ Len(drafts) < MaxIterations
      /\ \A k \in 1..Len(drafts) : drafts[k] \in Failed
  BY DEF Reflect, IInv, RoundInv
<1>3. /\ drafts' \in Seq(DraftStatus)
      /\ Len(drafts') = Len(drafts) + 1
      /\ \A k \in 1..Len(drafts) : drafts'[k] = drafts[k]
  BY <1>1, <1>2, AppendProperties DEF DraftStatus
<1>4. TypeOK'
  BY <1>1, <1>2, <1>3, ConstantsAssumption
  DEF Reflect, IInv, TypeOK, NoScores, DraftStatus
<1>5. RoundInv' /\ StopsAtFirstPass'
  BY <1>1, <1>2, <1>3 DEF Reflect, RoundInv, StopsAtFirstPass, Failed
<1>6. JudgeInv'
  BY DEF Reflect, JudgeInv
<1> QED
  BY <1>4, <1>5, <1>6 DEF IInv

\* The experiment goes on with the drafts as they are.
LEMMA ExperimentInv ==
  ASSUME IInv,
         RunItem \/ JudgeForward \/ JudgeFails \/ EndExperiment
  PROVE  IInv'
<1>1. /\ pc \in {"item", "forward", "swapped"}
      /\ pc' \in {"item", "forward", "swapped", "decide"}
      /\ UNCHANGED <<drafts, lane, blank, n, wins, habit>>
  BY DEF RunItem, JudgeForward, JudgeFails, EndExperiment
<1>2. RoundInv' /\ StopsAtFirstPass'
  BY <1>1 DEF IInv, RoundInv, StopsAtFirstPass
<1>3. next \in 1..(N + 1) /\ n < next
  BY DEF IInv, TypeOK, JudgeInv
<1>4. /\ next' \in {next, next + 1}
      /\ next' # next => next <= N
      /\ pc' \in {"forward", "swapped"} => next' <= N
  BY <1>1, <1>3 DEF RunItem, JudgeForward, JudgeFails, EndExperiment, Advance,
                    IInv, JudgeInv
<1>5. JudgeInv'
  BY <1>1, <1>3, <1>4 DEF IInv, TypeOK, JudgeInv
<1>6. DOMAIN scores' \subseteq Items /\ \A i \in DOMAIN scores' : scores'[i] \in {0, 1}
  <2>1. DOMAIN scores \subseteq Items /\ \A i \in DOMAIN scores : scores[i] \in {0, 1}
    BY DEF IInv, TypeOK
  <2>2. CASE scores' = scores
    BY <2>1, <2>2
  <2>3. CASE scores' # scores
    <3>1. next \in Items
      BY <1>3, <2>3 DEF RunItem, JudgeForward, JudgeFails, EndExperiment, Items
    <3>2. PICK hit \in {0, 1} :
            scores' = [i \in DOMAIN scores \cup {next} |->
                         IF i = next THEN hit ELSE scores[i]]
      BY <2>3 DEF RunItem, JudgeForward, JudgeFails, EndExperiment
    <3> QED
      BY <2>1, <3>1, <3>2
  <2> QED
    BY <2>2, <2>3
<1>7. forward' \in Answer
  BY DEF RunItem, JudgeForward, JudgeFails, EndExperiment, IInv, TypeOK
<1>8. next' \in 1..(N + 1)
  BY <1>3, <1>4, ConstantsAssumption
<1>9. TypeOK'
  BY <1>1, <1>6, <1>7, <1>8 DEF IInv, TypeOK
<1> QED
  BY <1>2, <1>5, <1>9 DEF IInv

\* An exception ends the loop with everything as it is.
LEMMA RaiseInv == ASSUME IInv, Raise PROVE IInv'
<1>1. /\ pc \in {"reflect", "item", "forward", "swapped", "decide"}
      /\ pc' = "raised"
      /\ UNCHANGED <<drafts, lane, blank, next, scores, forward, n, wins, habit>>
  BY DEF Raise, IInv, TypeOK
<1> QED
  BY <1>1 DEF IInv, TypeOK, RoundInv, StopsAtFirstPass, JudgeInv

\* A pair gets its verdict: a win only where the judge changed its position.
LEMMA JudgeSwappedInv == ASSUME IInv, JudgeSwapped PROVE IInv'
<1>1. PICK swapped \in Answer :
        /\ n' = n + 1
        /\ wins' = IF CandidateWins(forward, swapped) THEN wins + 1 ELSE wins
        /\ habit' = IF forward = swapped /\ habit \in {"none", forward}
                    THEN forward ELSE "mixed"
  BY DEF JudgeSwapped
<1>2. /\ pc = "swapped" /\ pc' = "item" /\ next' = next + 1
      /\ UNCHANGED <<drafts, lane, blank, scores, forward>>
  BY DEF JudgeSwapped, Advance
<1>3. /\ next \in 1..(N + 1) /\ next <= N /\ n < next
      /\ n \in 0..N /\ wins \in 0..n /\ forward \in Answer
  BY <1>2 DEF IInv, TypeOK, JudgeInv
<1>4. next' \in 1..(N + 1) /\ n' \in 0..N /\ wins' \in 0..n' /\ n' < next'
  BY <1>1, <1>2, <1>3, ConstantsAssumption
<1>5. habit' \in Answer \cup {"none", "mixed"} /\ habit' # "none"
  BY <1>1, <1>3 DEF Answer
<1>6. habit' # "mixed" => wins' = 0
  <2>1. SUFFICES ASSUME habit' # "mixed" PROVE wins' = 0
    OBVIOUS
  <2>2. forward = swapped /\ habit \in {"none", forward}
    BY <1>1, <2>1
  <2>3. habit # "mixed"
    BY <1>3, <2>2 DEF Answer
  <2>4. ~CandidateWins(forward, swapped)
    BY <1>3, <2>2, HabitIsNoWin
  <2> QED
    BY <1>1, <2>3, <2>4 DEF IInv, JudgeInv
<1>7. TypeOK'
  BY <1>2, <1>3, <1>4, <1>5 DEF IInv, TypeOK
<1>8. RoundInv' /\ StopsAtFirstPass'
  BY <1>2 DEF IInv, RoundInv, StopsAtFirstPass
<1>9. JudgeInv'
  BY <1>2, <1>4, <1>5, <1>6 DEF JudgeInv
<1> QED
  BY <1>7, <1>8, <1>9 DEF IInv

\* A round ends: it returns, or it failed and leaves room for another.
LEMMA EndRoundInv == ASSUME IInv, EndRound PROVE IInv'
<1> DEFINE last == Len(drafts)
           status == GateStatus(GatePassed)
<1>1. /\ drafts \in Seq(DraftStatus) /\ last \in Nat /\ last > 0
      /\ last <= MaxIterations
  BY DEF IInv, TypeOK, DraftStatus, EndRound, RoundInv
<1>2. status \in DraftStatus /\ (~GatePassed => status \in Failed)
  BY DEF GateStatus, DraftStatus, Failed
<1>3. /\ drafts' = [drafts EXCEPT ![last] = status]
      /\ pc' \in {"done", "reflect"}
      /\ pc' = "reflect" => ~GatePassed /\ last < MaxIterations
      /\ UNCHANGED <<lane, blank, next, scores, forward, n, wins, habit>>
  BY <1>1, ConstantsAssumption DEF EndRound
<1> HIDE DEF status
<1>4. /\ drafts' \in Seq(DraftStatus) /\ Len(drafts') = last
      /\ \A k \in 1..last : drafts'[k] = IF k = last THEN status ELSE drafts[k]
  BY <1>1, <1>2, <1>3, ExceptSeq
<1>5. \A k \in 1..(last - 1) : drafts[k] \in Failed
  BY DEF IInv, StopsAtFirstPass, Failed
<1>6. TypeOK'
  BY <1>1, <1>3, <1>4 DEF IInv, TypeOK, DraftStatus
<1>7. RoundInv'
  <2>1. ASSUME pc' = "reflect"
        PROVE  /\ Len(drafts') < MaxIterations
               /\ \A k \in 1..Len(drafts') : drafts'[k] \in Failed
    <3>1. status \in Failed /\ last < MaxIterations
      BY <1>2, <1>3, <2>1
    <3> QED
      BY <1>1, <1>4, <1>5, <3>1
  <2> QED
    BY <1>3, <2>1 DEF RoundInv
<1>8. StopsAtFirstPass'
  BY <1>1, <1>4, <1>5 DEF StopsAtFirstPass, Failed
<1>9. JudgeInv'
  BY <1>3 DEF IInv, JudgeInv
<1> QED
  BY <1>6, <1>7, <1>8, <1>9 DEF IInv

LEMMA NextInv == IInv /\ [Next]_vars => IInv'
<1>1. ASSUME IInv, UNCHANGED vars PROVE IInv'
  BY <1>1 DEF vars, IInv, TypeOK, RoundInv, StopsAtFirstPass, JudgeInv
<1> QED
  BY <1>1, ReflectInv, ExperimentInv, RaiseInv, JudgeSwappedInv, EndRoundInv
  DEF Next, Step, Returned

LEMMA Invariance == Spec => []IInv
  BY InitInv, NextInv, PTL DEF Spec

\* Every variable keeps its type; in particular no more pairs are judged than
\* the pool has items, and no more proposals drafted than the bound allows.
THEOREM TypeCorrect == Spec => []TypeOK
<1>1. IInv => TypeOK
  BY DEF IInv
<1> QED
  BY <1>1, Invariance, PTL

\* improve_loop drafts nothing after a round whose gate passed, whatever the
\* bound and whatever the gate answers.
THEOREM PassingRoundIsTheLast == Spec => []StopsAtFirstPass
<1>1. IInv => StopsAtFirstPass
  BY DEF IInv
<1> QED
  BY <1>1, Invariance, PTL

\* passes_no_regression, over a pool of any size, any baseline and any set of
\* items the experiment lost: the aggregate check refuses no candidate that
\* the item check accepts, and the item check lets no lost item through.
THEOREM GateIsExact == Spec => []GateKeepsEveryBaselineItem
<1>1. IInv => GateKeepsEveryBaselineItem
  <2> SUFFICES ASSUME IInv PROVE GateKeepsEveryBaselineItem
    OBVIOUS
  <2>1. PassesNoRegression(scores) <=>
          \A i \in Baseline : i \in DOMAIN scores /\ scores[i] = 1
    BY GatePassesKeepers DEF IInv, TypeOK
  <2> QED
    BY <2>1 DEF GateKeepsEveryBaselineItem, GatePassed
<1> QED
  BY <1>1, Invariance, PTL

\* passes_type_i is the test it says it is: at every significance level and
\* null win rate, after any number of pairs, GO means that at most a fraction
\* alpha of the equally likely outcomes has as many wins.  The sum of binomial
\* terms in binomial_upper_tail is that count.
THEOREM GoNeedsEvidence == Spec => []JudgeNeedsEvidence
<1>1. IInv => JudgeNeedsEvidence
  <2> SUFFICES ASSUME IInv, JudgeGo
               PROVE  Cardinality(AsManyWins(NullWinRate, wins, n)) * Alpha[2]
                        <= Alpha[1] * Cardinality(Outcomes(NullWinRate, n))
    BY DEF JudgeNeedsEvidence
  <2>1. wins \in Nat /\ n \in Nat /\ IsFraction(NullWinRate) /\ IsFraction(Alpha)
    BY ConstantsAssumption DEF IInv, TypeOK
  <2>2. LET p == UpperTail(NullWinRate, wins, n)
        IN  p[1] * Alpha[2] <= Alpha[1] * p[2]
    BY DEF JudgeGo, PassesTypeI
  <2>3. CASE wins = 0
    <3>1. AsManyWins(NullWinRate, wins, n) = Outcomes(NullWinRate, n)
      <4>1. \A o \in Outcomes(NullWinRate, n) : WinsOf(NullWinRate, o) \in 0..n
        BY <2>1, WinsBound
      <4> QED
        BY <2>3, <4>1 DEF AsManyWins
    <3>2. Cardinality(Outcomes(NullWinRate, n)) \in Nat
      BY <2>1, OutcomesCount, FS_CardinalityType
    <3>3. Alpha[2] <= Alpha[1] /\ Alpha[1] \in Nat /\ Alpha[2] \in Nat
      BY <2>1, <2>2, <2>3, FractionParts DEF UpperTail
    <3>4. \A c, a, b \in Nat : b <= a => c * b <= a * c
      OBVIOUS
    <3> QED
      BY <3>1, <3>2, <3>3, <3>4
  <2>4. CASE wins # 0
    <3>1. UpperTail(NullWinRate, wins, n) = BinomialTail(NullWinRate, wins, n)
      BY <2>4 DEF UpperTail
    <3> QED
      BY <2>1, <2>2, <2>4, <3>1, TailCounts
  <2> QED
    BY <2>3, <2>4
<1> QED
  BY <1>1, Invariance, PTL

\* At every significance level below one and every null win rate, a judge that
\* always answers with the same position says GO for no number of pairs: both
\* orders must agree on the candidate, and none ever do.
THEOREM HabitIsNoEvidence ==
  ASSUME Alpha[1] < Alpha[2]
  PROVE  Spec => []PositionBiasIsNoEvidence
<1>1. IInv => PositionBiasIsNoEvidence
  <2> SUFFICES ASSUME IInv, habit # "mixed" PROVE ~JudgeGo
    BY DEF PositionBiasIsNoEvidence
  <2>1. wins = 0 /\ n \in Nat
    BY ConstantsAssumption DEF IInv, TypeOK, JudgeInv
  <2>2. ~PassesTypeI(0, n)
    BY <2>1, NoWinNoGo
  <2> QED
    BY <2>1, <2>2 DEF JudgeGo
<1> QED
  BY <1>1, Invariance, PTL

=============================================================================
