----------------------------- MODULE Binomial -----------------------------
(***************************************************************************)
(* The exact one-sided binomial test of the judge (eval/judges.py,         *)
(* binomial_upper_tail), over exact fractions where the code has floats.   *)
(* A rate <<a, b>> is a chance of a in b; a probability is a fraction over *)
(* the b^trials equally likely outcomes of the trials.                     *)
(***************************************************************************)
EXTENDS Naturals, FiniteSets, Combinatorics

IsFraction(f) == f \in Nat \X (Nat \ {0}) /\ f[1] <= f[2]

\* base ** exponent
Power(base, exponent) ==
    LET power[k \in Nat] == IF k = 0 THEN 1 ELSE base * power[k - 1]
    IN  power[exponent]

\* comb(n, k) * p**k * (1 - p)**(n - k), times b^trials.
Term(rate, trials, k) ==
    choose(trials, k) * (Power(rate[1], k) * Power(rate[2] - rate[1], trials - k))

\* The loop over range(wins, n + 1), for one win or more.
BinomialTail(rate, won, trials) ==
    LET tail[k \in 0..trials] ==
            IF k < won THEN 0 ELSE tail[k - 1] + Term(rate, trials, k)
    IN  <<tail[trials], Power(rate[2], trials)>>

\* Mutant of UpperTail: the tail starts above the wins seen.
UpperTailAbove(rate, won, trials) ==
    IF won = 0 THEN <<1, 1>> ELSE BinomialTail(rate, won + 1, trials)

\* binomial_upper_tail: P(X >= won), 1.0 without a win.
UpperTail(rate, won, trials) ==
    IF won = 0 THEN <<1, 1>> ELSE BinomialTail(rate, won, trials)

---------------------------------------------------------------------------
(* What the tail stands for *)

\* The equally likely outcomes of independent trials: each draws a number, and
\* the draws up to rate[1] are wins.
Outcomes(rate, trials) == [1..trials -> 1..rate[2]]

WinsOf(rate, outcome) ==
    Cardinality({i \in DOMAIN outcome : outcome[i] <= rate[1]})

\* The outcomes with so many wins or more.
AsManyWins(rate, won, trials) ==
    {o \in Outcomes(rate, trials) : WinsOf(rate, o) >= won}

===========================================================================
