---------------------------- MODULE ImproveLoop ----------------------------
(***************************************************************************)
(* The bounded improvement loop (services/reflective_proposer.py) and the  *)
(* gate it runs each round: an experiment over the held-out pool           *)
(* (services/eval_harness.py), scored by exact_match and, in the live      *)
(* lane, by the order-swapped LLM judge (eval/judges.py).                  *)
(*                                                                         *)
(* The default gate (evaluate_proposal) replays the expected outputs; an   *)
(* injected gate_fn runs a real candidate and the judge.  Either way the   *)
(* loop is one thread: it reflects, scores item after item, decides, and   *)
(* goes round again or returns.                                            *)
(*                                                                         *)
(* Abstracted: exact_match scores 1 or 0, and an item whose task or        *)
(* evaluator failed has no score; probabilities are exact fractions, the   *)
(* code's floats (no sum of binomial terms comes near alpha); the raw      *)
(* judge is any function of what it is shown and in which order.           *)
(***************************************************************************)
EXTENDS Binomial, Sequences

CONSTANTS
    N,              \* items in the held-out pool
    Baseline,       \* items the committed golden baseline solves
    MaxIterations,  \* SI_IMPROVE_MAX_ITERATIONS
    Alpha,          \* significance level, as a fraction <<a, b>>
    NullWinRate     \* null win rate, as a fraction <<a, b>>

Items == 1..N

\* _parse_max_iterations refuses a bound below 1.
ASSUME ConstantsAssumption ==
    /\ N \in Nat
    /\ Baseline \subseteq Items
    /\ MaxIterations \in Nat \ {0}
    /\ IsFraction(Alpha)
    /\ IsFraction(NullWinRate)

VARIABLES
    pc,       \* where the loop is
    drafts,   \* the proposals of the rounds so far
    lane,     \* "replay": the default gate; "candidate": an injected gate
    blank,    \* whether this round's patch is blank
    next,     \* the item the experiment is at
    scores,   \* scores_by_item: exact_match per scored item
    forward,  \* the judge's answer for (candidate, baseline) at this item
    n, wins,  \* judged pairs, and those the candidate won in both orders
    habit     \* what the judge answered all along: a position, "tie" or mixed

vars == <<pc, drafts, lane, blank, next, scores, forward, n, wins, habit>>

Answer == {"first", "second", "tie"}

TypeOK ==
    /\ pc \in {"reflect", "item", "forward", "swapped", "decide", "done",
               "raised"}
    /\ drafts \in Seq({"draft", "evaluation_passed", "evaluation_failed",
                       "gate_passed", "gate_failed"})
    /\ Len(drafts) <= MaxIterations
    /\ lane \in {"replay", "candidate"}
    /\ blank \in BOOLEAN
    /\ next \in 1..(N + 1)
    /\ DOMAIN scores \subseteq Items
    /\ \A i \in DOMAIN scores : scores[i] \in {0, 1}
    /\ forward \in Answer
    /\ n \in 0..N /\ wins \in 0..n
    /\ habit \in Answer \cup {"none", "mixed"}

NoScores == [i \in {} |-> 0]

Init ==
    /\ pc = "reflect"
    /\ drafts = <<>>
    /\ lane \in {"replay", "candidate"}
    /\ blank = FALSE
    /\ next = 1
    /\ scores = NoScores
    /\ forward = "tie"
    /\ n = 0 /\ wins = 0
    /\ habit = "none"

---------------------------------------------------------------------------
(* eval_harness: the no-regression gate *)

Score(candidate, i) == IF i \in DOMAIN candidate THEN candidate[i] ELSE 0

BaselineScore(i) == IF i \in Baseline THEN 1 ELSE 0

\* The sum of the scores: every score is 1 or 0.
Total(candidate) == Cardinality({i \in DOMAIN candidate : candidate[i] = 1})

\* mean(candidate) >= mean(baseline), each over its own items; the mean of no
\* scores is 0.
AggregateHolds(candidate) ==
    IF candidate = NoScores
    THEN Baseline = {}
    ELSE Total(candidate) * N >=
           Cardinality(Baseline) * Cardinality(DOMAIN candidate)

\* Mutant of PassesNoRegression: only the items that were scored are compared.
PassesOnScoredItems(candidate) ==
    /\ AggregateHolds(candidate)
    /\ \A i \in DOMAIN candidate : BaselineScore(i) <= candidate[i]

\* An item may drop by item_threshold = 0.05 at most, so not from 1 to 0; a
\* baseline item without a score counts as 0.
PassesNoRegression(candidate) ==
    \/ N = 0
    \/ /\ AggregateHolds(candidate)
       /\ \A i \in Items : BaselineScore(i) <= Score(candidate, i)

---------------------------------------------------------------------------
(* judges: order swap, and the binomial test on the wins *)

\* A positional answer, read as candidate, baseline or tie.
Normalise(answer, candidate_is_first) ==
    CASE answer = "tie" -> "tie"
      [] answer = "first" -> IF candidate_is_first THEN "candidate"
                             ELSE "baseline"
      [] OTHER -> IF candidate_is_first THEN "baseline" ELSE "candidate"

\* Mutant of CandidateWins: one order is enough.
CandidateWinsForward(fwd, swp) == Normalise(fwd, TRUE) = "candidate"

CandidateWins(fwd, swp) ==
    /\ Normalise(fwd, TRUE) = "candidate"
    /\ Normalise(swp, FALSE) = "candidate"

PassesTypeI(won, trials) ==
    LET p == UpperTail(NullWinRate, won, trials) IN
    /\ trials > 0
    /\ p[1] * Alpha[2] <= Alpha[1] * p[2]

\* What the round decides: the gate's verdict, and the judge's.
GatePassed == PassesNoRegression(scores) /\ ~(blank /\ lane = "replay")

JudgeGo == PassesTypeI(wins, n)

---------------------------------------------------------------------------
(* The loop *)

\* propose_from_traces inserts one draft; the experiment starts afresh.  The
\* default gate rejects a blank patch before it runs the harness.
Reflect ==
    /\ pc = "reflect"
    /\ blank' \in BOOLEAN
    /\ drafts' = Append(drafts, "draft")
    /\ pc' = IF blank' /\ lane = "replay" THEN "decide" ELSE "item"
    /\ next' = 1
    /\ scores' = NoScores
    /\ n' = 0 /\ wins' = 0 /\ habit' = "none"
    /\ UNCHANGED <<lane, forward>>

Advance == next' = next + 1

\* The task and exact_match on one item; replay_task returns the expected
\* output.  A failing task or evaluator leaves the item without a score.
RunItem ==
    /\ pc = "item"
    /\ next <= N
    /\ \/ \E hit \in {0, 1} :
            /\ lane = "replay" => hit = 1
            /\ scores' = [i \in DOMAIN scores \cup {next} |->
                            IF i = next THEN hit ELSE scores[i]]
       \/ UNCHANGED scores
    /\ IF lane = "candidate" THEN pc' = "forward" /\ UNCHANGED next
       ELSE UNCHANGED pc /\ Advance
    /\ UNCHANGED <<drafts, lane, blank, forward, n, wins, habit>>

\* The judge sees (candidate, baseline).  A reply it cannot parse is a tie.
JudgeForward ==
    /\ pc = "forward"
    /\ forward' \in Answer
    /\ pc' = "swapped"
    /\ UNCHANGED <<drafts, lane, blank, next, scores, n, wins, habit>>

\* ... and (baseline, candidate): one verdict of judge_decision.
JudgeSwapped ==
    /\ pc = "swapped"
    /\ \E swapped \in Answer :
         /\ n' = n + 1
         /\ wins' = IF CandidateWins(forward, swapped) THEN wins + 1 ELSE wins
         /\ habit' = IF forward = swapped /\ habit \in {"none", forward}
                     THEN forward ELSE "mixed"
    /\ pc' = "item"
    /\ Advance
    /\ UNCHANGED <<drafts, lane, blank, scores, forward>>

\* The judge's gateway call fails: the pair has no verdict.
JudgeFails ==
    /\ pc \in {"forward", "swapped"}
    /\ pc' = "item"
    /\ Advance
    /\ UNCHANGED <<drafts, lane, blank, scores, forward, n, wins, habit>>

EndExperiment ==
    /\ pc = "item"
    /\ next > N
    /\ pc' = "decide"
    /\ UNCHANGED <<drafts, lane, blank, next, scores, forward, n, wins, habit>>

\* The status of the draft after the gate: an injected gate does not set it.
GateStatus(passed) ==
    IF lane = "replay"
    THEN IF passed THEN "evaluation_passed" ELSE "evaluation_failed"
    ELSE IF passed THEN "gate_passed" ELSE "gate_failed"

\* Mutant of EndRound: one round too many.
EndRoundLate ==
    /\ pc = "decide"
    /\ drafts' = [drafts EXCEPT ![Len(drafts)] = GateStatus(GatePassed)]
    /\ pc' = IF GatePassed \/ Len(drafts) > MaxIterations THEN "done"
             ELSE "reflect"
    /\ UNCHANGED <<lane, blank, next, scores, forward, n, wins, habit>>

\* Mutant of EndRound: a passing gate does not end the loop.
EndRoundOnBound ==
    /\ pc = "decide"
    /\ drafts' = [drafts EXCEPT ![Len(drafts)] = GateStatus(GatePassed)]
    /\ pc' = IF Len(drafts) >= MaxIterations THEN "done" ELSE "reflect"
    /\ UNCHANGED <<lane, blank, next, scores, forward, n, wins, habit>>

\* Mutant of EndRound: a failed round is not counted.
EndRoundUncounted ==
    /\ pc = "decide"
    /\ drafts' = IF GatePassed THEN drafts ELSE SubSeq(drafts, 1, Len(drafts) - 1)
    /\ pc' = IF GatePassed \/ Len(drafts) >= MaxIterations THEN "done"
             ELSE "reflect"
    /\ UNCHANGED <<lane, blank, next, scores, forward, n, wins, habit>>

\* The loop returns once the gate passed, or after MaxIterations rounds.
EndRound ==
    /\ pc = "decide"
    /\ drafts' = [drafts EXCEPT ![Len(drafts)] = GateStatus(GatePassed)]
    /\ pc' = IF GatePassed \/ Len(drafts) >= MaxIterations THEN "done"
             ELSE "reflect"
    /\ UNCHANGED <<lane, blank, next, scores, forward, n, wins, habit>>

\* reflect_fn, the experiment as a whole, a scorer or a repository call raises,
\* at any step: the exception leaves the loop and the draft stays as it is.
Raise ==
    /\ pc \notin {"done", "raised"}
    /\ pc' = "raised"
    /\ UNCHANGED <<drafts, lane, blank, next, scores, forward, n, wins, habit>>

Returned ==
    /\ pc \in {"done", "raised"}
    /\ UNCHANGED vars

Step == \/ Reflect \/ RunItem \/ JudgeForward \/ JudgeSwapped \/ JudgeFails
        \/ EndExperiment \/ EndRound \/ Raise

Next == Step \/ Returned

\* One thread runs the loop, and every call it makes returns or raises.
Spec == Init /\ [][Next]_vars /\ WF_vars(Step)

---------------------------------------------------------------------------
(* Properties *)

\* The gate passes exactly the candidates that still solve every item the
\* baseline solves: a failed, lost or unscored item is never outweighed by
\* others, and the aggregate check, taken over whatever items were scored,
\* refuses nobody else (passes_no_regression, "the aggregate mean check alone
\* hides per-item regressions").
GateKeepsEveryBaselineItem ==
    pc = "decide" =>
        (GatePassed <=>
            /\ \A i \in Baseline : i \in DOMAIN scores /\ scores[i] = 1
            /\ ~(blank /\ lane = "replay"))

\* The judge says GO only if at most a fraction alpha of all equally likely
\* outcomes of n pairs, each won at the null rate, has as many wins
\* (passes_type_i against a count of the outcomes).
JudgeNeedsEvidence ==
    (pc = "decide" /\ JudgeGo) =>
        Cardinality(AsManyWins(NullWinRate, wins, n)) * Alpha[2]
            <= Alpha[1] * Cardinality(Outcomes(NullWinRate, n))

\* A judge that always answers with the same position never says GO, however
\* many pairs it saw (order_swap_verdict: "neutralises position bias by
\* construction").
PositionBiasIsNoEvidence ==
    (pc = "decide" /\ habit # "mixed") => ~JudgeGo

\* The loop stops at the first round whose gate passes: no proposal is drafted
\* after a passing one, and no round is left undecided but the last
\* (improve_loop).
StopsAtFirstPass ==
    \A k \in 1..(Len(drafts) - 1) :
        drafts[k] \in {"evaluation_failed", "gate_failed"}

\* The loop returns or raises, whatever gate and judge answer (improve_loop:
\* "never unbounded").
LoopHalts == <>(pc \in {"done", "raised"})

=============================================================================
