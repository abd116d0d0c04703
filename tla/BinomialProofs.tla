-------------------------- MODULE BinomialProofs --------------------------
(***************************************************************************)
(* The tail of the binomial test counts outcomes: for every rate, every    *)
(* number of trials and every number of wins, the fraction that            *)
(* BinomialTail computes is the share of the equally likely outcomes that  *)
(* have so many wins or more.                                              *)
(*                                                                         *)
(* Induction is taken over a set of numbers (Induction), which first-order *)
(* provers can instantiate, and the recursive functions of Binomial are    *)
(* shown to exist before they are unfolded (Recursion).  The argument is   *)
(* the textbook one: Pascal's rule for choose, the same rule for the       *)
(* outcomes with exactly k wins, and a sum over k.                         *)
(***************************************************************************)
EXTENDS Binomial, FiniteSetTheorems, WellFoundedInduction, TLAPS

(* Induction and recursion over the naturals *)

LEMMA Induction ==
  ASSUME NEW S, 0 \in S, \A i \in Nat : i \in S => i + 1 \in S
  PROVE  \A i \in Nat : i \in S
<1> DEFINE less == OpToRel(<, Nat)
           rest == {i \in Nat : i \notin S}
<1>1. SUFFICES ASSUME rest # {} PROVE FALSE
  OBVIOUS
<1>2. PICK i \in rest : \A j \in rest : <<j, i>> \notin less
  <2> HIDE DEF less, rest
  <2>1. rest \subseteq Nat
    BY DEF rest
  <2> QED
    BY <1>1, <2>1, NatLessThanWellFounded, WFMin DEF less
<1>3. \A j \in Nat : j < i => <<j, i>> \in less
  BY DEF OpToRel
<1>4. i # 0 /\ i - 1 \in Nat /\ i - 1 < i
  OBVIOUS
<1>5. i - 1 \in S
  BY <1>2, <1>3, <1>4
<1>6. (i - 1) + 1 \in S
  BY <1>4, <1>5
<1> QED
  BY <1>4, <1>6

\* The values up to i of the function that starts at base and goes on by step.
Stage(base, step, i) ==
    {g \in [0..i -> Nat] : /\ g[0] = base
                         /\ \A j \in 0..(i - 1) : g[j + 1] = step[<<j, g[j]>>]}

LEMMA StagesAgree ==
  ASSUME NEW base, NEW step, NEW i \in Nat, NEW j \in Nat, i <= j,
         NEW g \in Stage(base, step, i), NEW h \in Stage(base, step, j)
  PROVE  g[i] = h[i]
<1> DEFINE S == {k \in Nat : k <= i => g[k] = h[k]}
<1>1. 0 \in S
  BY DEF Stage
<1>2. ASSUME NEW k \in Nat, k \in S PROVE k + 1 \in S
  <2> SUFFICES ASSUME k + 1 <= i PROVE g[k + 1] = h[k + 1]
    OBVIOUS
  <2>1. k \in 0..(i - 1) /\ k \in 0..(j - 1) /\ g[k] = h[k]
    BY <1>2
  <2> QED
    BY <2>1 DEF Stage
<1> HIDE DEF S
<1>3. \A k \in Nat : k \in S
  BY <1>1, <1>2, Induction
<1> QED
  BY <1>3 DEF S

LEMMA StagesExist ==
  ASSUME NEW base \in Nat, NEW step \in [Nat \X Nat -> Nat]
  PROVE  \A i \in Nat : \E g : g \in Stage(base, step, i)
<1> DEFINE S == {i \in Nat : \E g : g \in Stage(base, step, i)}
<1>1. 0 \in S
  <2>1. [k \in 0..0 |-> base] \in Stage(base, step, 0)
    BY DEF Stage
  <2> QED
    BY <2>1
<1>2. ASSUME NEW i \in Nat, i \in S PROVE i + 1 \in S
  <2>1. PICK g : g \in Stage(base, step, i)
    BY <1>2
  <2>2. /\ g \in [0..i -> Nat] /\ g[0] = base /\ g[i] \in Nat
        /\ \A j \in 0..(i - 1) : g[j + 1] = step[<<j, g[j]>>]
    BY <2>1 DEF Stage
  <2> DEFINE h == [k \in 0..(i + 1) |-> IF k = i + 1 THEN step[<<i, g[i]>>] ELSE g[k]]
  <2>3. step[<<i, g[i]>>] \in Nat
    BY <2>2
  <2>4. h \in [0..(i + 1) -> Nat] /\ h[0] = base
    BY <2>2, <2>3
  <2>5. ASSUME NEW j \in 0..i PROVE h[j + 1] = step[<<j, h[j]>>]
    <3>1. h[j] = g[j] /\ j + 1 \in 0..(i + 1)
      OBVIOUS
    <3>2. CASE j = i
      <4>1. h[j + 1] = step[<<i, g[i]>>]
        BY <3>1, <3>2
      <4> HIDE DEF h
      <4> QED
        BY <3>1, <3>2, <4>1
    <3>3. CASE j # i
      <4>1. j \in 0..(i - 1) /\ h[j + 1] = g[j + 1]
        BY <3>1, <3>3
      <4> HIDE DEF h
      <4> QED
        BY <2>2, <3>1, <4>1
    <3> QED
      BY <3>2, <3>3
  <2>6. (i + 1) - 1 = i
    OBVIOUS
  <2>7. h \in Stage(base, step, i + 1)
    <3> HIDE DEF h
    <3> QED
      BY <2>4, <2>5, <2>6 DEF Stage
  <2> QED
    BY <2>7
<1> HIDE DEF S
<1>3. \A i \in Nat : i \in S
  BY <1>1, <1>2, Induction
<1> QED
  BY <1>3 DEF S

LEMMA Recursion ==
  ASSUME NEW base \in Nat, NEW step \in [Nat \X Nat -> Nat]
  PROVE  \E f \in [Nat -> Nat] :
            f[0] = base /\ \A i \in Nat : f[i + 1] = step[<<i, f[i]>>]
<1> DEFINE stage(i) == CHOOSE g : g \in Stage(base, step, i)
           f == [i \in Nat |-> stage(i)[i]]
<1>1. \A i \in Nat : stage(i) \in Stage(base, step, i)
  BY StagesExist
<1> HIDE DEF stage
<1>2. f \in [Nat -> Nat] /\ f[0] = base
  BY <1>1 DEF Stage
<1>3. ASSUME NEW i \in Nat PROVE f[i + 1] = step[<<i, f[i]>>]
  <2>1. stage(i)[i] = stage(i + 1)[i]
    BY <1>1, StagesAgree
  <2>2. i \in 0..((i + 1) - 1)
    OBVIOUS
  <2>3. stage(i + 1) \in Stage(base, step, i + 1)
    BY <1>1
  <2>4. stage(i + 1)[i + 1] = step[<<i, stage(i + 1)[i]>>]
    BY <2>2, <2>3 DEF Stage
  <2> QED
    BY <2>1, <2>4
<1> QED
  BY <1>2, <1>3

---------------------------------------------------------------------------
(* Powers and binomial coefficients *)

LEMMA PowerFacts ==
  ASSUME NEW base \in Nat
  PROVE  /\ \A k \in Nat : Power(base, k) \in Nat
         /\ Power(base, 0) = 1
         /\ \A k \in Nat : Power(base, k + 1) = base * Power(base, k)
<1> DEFINE step == [p \in Nat \X Nat |-> base * p[2]]
           Is(g) == g = [k \in Nat |-> IF k = 0 THEN 1 ELSE base * g[k - 1]]
           power == CHOOSE g : Is(g)
<1>1. PICK f \in [Nat -> Nat] :
        f[0] = 1 /\ \A i \in Nat : f[i + 1] = base * f[i]
  <2>1. step \in [Nat \X Nat -> Nat]
    OBVIOUS
  <2>2. PICK f \in [Nat -> Nat] :
          f[0] = 1 /\ \A i \in Nat : f[i + 1] = step[<<i, f[i]>>]
    <3> HIDE DEF step
    <3>1. 1 \in Nat
      OBVIOUS
    <3> QED
      BY <2>1, <3>1, Recursion
  <2>3. \A i \in Nat : step[<<i, f[i]>>] = base * f[i]
    OBVIOUS
  <2> QED
    BY <2>2, <2>3
<1>2. Is(f)
  <2>1. ASSUME NEW k \in Nat, k # 0 PROVE f[k] = base * f[k - 1]
    <3>1. k - 1 \in Nat /\ (k - 1) + 1 = k
      BY <2>1
    <3> QED
      BY <1>1, <3>1
  <2> QED
    BY <1>1, <2>1
<1>3. Is(power)
  <2> HIDE DEF Is
  <2> QED
    BY <1>2
<1>4. \A k \in Nat : Power(base, k) = power[k]
  BY DEF Power
<1> HIDE DEF power
<1> DEFINE S == {k \in Nat : power[k] \in Nat}
<1>5. 0 \in S
  BY <1>3
<1>6. \A k \in Nat : power[k + 1] = base * power[k]
  BY <1>3
<1>7. \A k \in Nat : k \in S => k + 1 \in S
  BY <1>6
<1>8. \A k \in Nat : k \in S
  <2> HIDE DEF S
  <2> QED
    BY <1>5, <1>7, Induction
<1> QED
  BY <1>3, <1>4, <1>6, <1>8

LEMMA FactorialFacts ==
  /\ factorial[0] = 1
  /\ \A k \in Nat : factorial[k] \in Nat \ {0}
  /\ \A k \in Nat : factorial[k + 1] = (k + 1) * factorial[k]
<1> DEFINE step == [p \in Nat \X Nat |-> (p[1] + 1) * p[2]]
           Is(g) == g = [k \in Nat |-> IF k = 0 THEN 1 ELSE k * g[k - 1]]
<1>1. PICK f \in [Nat -> Nat] :
        f[0] = 1 /\ \A i \in Nat : f[i + 1] = (i + 1) * f[i]
  <2>1. step \in [Nat \X Nat -> Nat]
    OBVIOUS
  <2>2. PICK f \in [Nat -> Nat] :
          f[0] = 1 /\ \A i \in Nat : f[i + 1] = step[<<i, f[i]>>]
    <3> HIDE DEF step
    <3>1. 1 \in Nat
      OBVIOUS
    <3> QED
      BY <2>1, <3>1, Recursion
  <2>3. \A i \in Nat : step[<<i, f[i]>>] = (i + 1) * f[i]
    OBVIOUS
  <2> QED
    BY <2>2, <2>3
<1>2. Is(f)
  <2>1. ASSUME NEW k \in Nat, k # 0 PROVE f[k] = k * f[k - 1]
    <3>1. k - 1 \in Nat /\ (k - 1) + 1 = k
      BY <2>1
    <3> QED
      BY <1>1, <3>1
  <2> QED
    BY <1>1, <2>1
<1>3. Is(factorial)
  <2> HIDE DEF Is
  <2>1. factorial = CHOOSE g : Is(g)
    BY DEF factorial, Is
  <2> QED
    BY <1>2, <2>1
<1>4. factorial[0] = 1
  BY <1>3
<1>5. \A k \in Nat : factorial[k + 1] = (k + 1) * factorial[k]
  BY <1>3
<1> DEFINE S == {k \in Nat : factorial[k] \in Nat \ {0}}
<1>6. 0 \in S
  BY <1>4
<1>7. ASSUME NEW k \in Nat, k \in S PROVE k + 1 \in S
  <2>1. (k + 1) * factorial[k] \in Nat \ {0}
    BY <1>7
  <2> QED
    BY <1>5, <2>1
<1>8. \A k \in Nat : k \in S
  <2> HIDE DEF S
  <2> QED
    BY <1>6, <1>7, Induction
<1> QED
  BY <1>4, <1>5, <1>8

\* Division undoes multiplication.
LEMMA Quotient ==
  ASSUME NEW q \in Nat, NEW d \in Nat \ {0}
  PROVE  (q * d) \div d = q
  OBVIOUS

\* comb is an integer, and the factorial of m is its product with two others.
ChooseFactors(m, k) ==
    /\ choose(m, k) \in Nat
    /\ factorial[m] = choose(m, k) * (factorial[k] * factorial[m - k])

LEMMA ChooseFrom ==
  ASSUME NEW m \in Nat, NEW k \in 0..m, NEW q \in Nat,
         factorial[m] = q * (factorial[k] * factorial[m - k])
  PROVE  choose(m, k) = q /\ ChooseFactors(m, k)
<1>1. factorial[k] * factorial[m - k] \in Nat \ {0}
  <2>1. factorial[k] \in Nat \ {0} /\ factorial[m - k] \in Nat \ {0}
    BY FactorialFacts
  <2> QED
    BY <2>1
<1> DEFINE d == factorial[k] * factorial[m - k]
<1>2. choose(m, k) = (q * d) \div d
  BY DEF choose
<1>3. choose(m, k) = q
  <2> HIDE DEF d
  <2> QED
    BY <1>1, <1>2, Quotient DEF d
<1> QED
  BY <1>3 DEF ChooseFactors

LEMMA ChooseEnds ==
  ASSUME NEW m \in Nat
  PROVE  /\ choose(m, 0) = 1 /\ ChooseFactors(m, 0)
         /\ choose(m, m) = 1 /\ ChooseFactors(m, m)
<1>1. factorial[m] = 1 * (factorial[0] * factorial[m - 0])
  BY FactorialFacts
<1>2. factorial[m] = 1 * (factorial[m] * factorial[m - m])
  BY FactorialFacts
<1> QED
  BY <1>1, <1>2, ChooseFrom

\* (x + y)(k + 1)!(m - k)! = m!(k + 1) + m!(m - k), in numbers.
LEMMA PascalSum ==
  ASSUME NEW x \in Nat, NEW y \in Nat, NEW f \in Nat, NEW g \in Nat,
         NEW i \in Nat, NEW j \in Nat, NEW t \in Nat,
         t = x * (f * (j * g)), t = y * ((i * f) * g)
  PROVE  (i + j) * t = (x + y) * ((i * f) * (j * g))
<1>1. i * t = x * ((i * f) * (j * g))
  OBVIOUS
<1>2. j * t = y * ((i * f) * (j * g))
  OBVIOUS
<1> QED
  BY <1>1, <1>2

LEMMA PascalStep ==
  ASSUME NEW m \in Nat, NEW k \in Nat, k < m,
         ChooseFactors(m, k), ChooseFactors(m, k + 1)
  PROVE  /\ choose(m + 1, k + 1) = choose(m, k) + choose(m, k + 1)
         /\ ChooseFactors(m + 1, k + 1)
<1> DEFINE x == choose(m, k)
           y == choose(m, k + 1)
           f == factorial[k]
           g == factorial[m - (k + 1)]
           t == factorial[m]
<1>1. /\ x \in Nat /\ y \in Nat /\ f \in Nat /\ g \in Nat /\ t \in Nat
      /\ k + 1 \in Nat /\ m - k \in Nat /\ m - (k + 1) \in Nat
  BY FactorialFacts DEF ChooseFactors
<1>2. factorial[k + 1] = (k + 1) * f
  BY FactorialFacts
<1>3. factorial[m - k] = (m - k) * g
  <2>1. (m - (k + 1)) + 1 = m - k
    OBVIOUS
  <2> QED
    BY <1>1, <2>1, FactorialFacts
<1>4. t = x * (f * ((m - k) * g)) /\ t = y * (((k + 1) * f) * g)
  BY <1>2, <1>3 DEF ChooseFactors
<1>5. ((k + 1) + (m - k)) * t = (x + y) * (((k + 1) * f) * ((m - k) * g))
  <2> HIDE DEF x, y, f, g, t
  <2> QED
    BY <1>1, <1>4, PascalSum
<1>6. factorial[m + 1] = (x + y) * (factorial[k + 1] * factorial[(m + 1) - (k + 1)])
  <2>1. (k + 1) + (m - k) = m + 1 /\ (m + 1) - (k + 1) = m - k
    OBVIOUS
  <2>2. factorial[m + 1] = (m + 1) * t
    BY FactorialFacts
  <2> QED
    BY <1>2, <1>3, <1>5, <2>1, <2>2
<1>7. x + y \in Nat /\ m + 1 \in Nat /\ k + 1 \in 0..(m + 1)
  BY <1>1
<1> QED
  BY <1>6, <1>7, ChooseFrom

LEMMA ChooseIsIntegral ==
  \A m \in Nat : \A k \in 0..m : ChooseFactors(m, k)
<1> DEFINE S == {m \in Nat : \A k \in 0..m : ChooseFactors(m, k)}
<1>1. 0 \in S
  BY ChooseEnds
<1>2. ASSUME NEW m \in Nat, m \in S PROVE m + 1 \in S
  <2> SUFFICES ASSUME NEW k \in 0..(m + 1) PROVE ChooseFactors(m + 1, k)
    OBVIOUS
  <2>1. CASE k = 0 \/ k = m + 1
    BY <2>1, ChooseEnds
  <2>2. CASE k # 0 /\ k # m + 1
    <3>1. k - 1 \in Nat /\ k - 1 < m /\ (k - 1) + 1 = k
      BY <2>2
    <3>2. ChooseFactors(m, k - 1) /\ ChooseFactors(m, (k - 1) + 1)
      BY <1>2, <3>1
    <3>3. ChooseFactors(m + 1, (k - 1) + 1)
      BY <3>1, <3>2, PascalStep
    <3> QED
      BY <3>1, <3>3
  <2> QED
    BY <2>1, <2>2
<1> HIDE DEF S
<1>3. \A m \in Nat : m \in S
  BY <1>1, <1>2, Induction
<1> QED
  BY <1>3 DEF S

\* Pascal's rule.
LEMMA Pascal ==
  ASSUME NEW m \in Nat, NEW k \in Nat, k < m
  PROVE  choose(m + 1, k + 1) = choose(m, k) + choose(m, k + 1)
<1>1. ChooseFactors(m, k) /\ ChooseFactors(m, k + 1)
  BY ChooseIsIntegral
<1> QED
  BY <1>1, PascalStep

---------------------------------------------------------------------------
(* Outcomes *)

\* Outcomes of m trials, with one more draw.
Extend(o, m, draw) == [i \in 1..(m + 1) |-> IF i = m + 1 THEN draw ELSE o[i]]

Exactly(rate, k, m) == {o \in Outcomes(rate, m) : WinsOf(rate, o) = k}

LEMMA SameSize ==
  ASSUME NEW S, NEW T, IsFiniteSet(S), NEW f \in [S -> T],
         \A x, y \in S : f[x] = f[y] => x = y,
         \A t \in T : \E x \in S : f[x] = t
  PROVE  IsFiniteSet(T) /\ Cardinality(T) = Cardinality(S)
<1>1. f \in Bijection(S, T)
  BY DEF Bijection, Injection, Surjection, IsInjective
<1> QED
  BY <1>1, FS_Bijection DEF ExistsBijection

LEMMA FractionParts ==
  ASSUME NEW rate, IsFraction(rate)
  PROVE  /\ rate[1] \in Nat /\ rate[2] \in Nat \ {0} /\ rate[1] <= rate[2]
         /\ rate[2] - rate[1] \in Nat
  BY DEF IsFraction

LEMMA WinsBound ==
  ASSUME NEW rate, NEW m \in Nat, NEW o \in Outcomes(rate, m)
  PROVE  /\ IsFiniteSet({i \in 1..m : o[i] <= rate[1]})
         /\ WinsOf(rate, o) = Cardinality({i \in 1..m : o[i] <= rate[1]})
         /\ WinsOf(rate, o) \in 0..m
<1> DEFINE hits == {i \in 1..m : o[i] <= rate[1]}
<1>1. IsFiniteSet(1..m) /\ Cardinality(1..m) = m
  BY FS_Interval
<1>2. IsFiniteSet(hits) /\ Cardinality(hits) <= m
  <2>1. hits \subseteq 1..m
    OBVIOUS
  <2> QED
    BY <1>1, <2>1, FS_Subset
<1>3. WinsOf(rate, o) = Cardinality(hits)
  BY DEF WinsOf, Outcomes
<1>4. Cardinality(hits) \in Nat
  BY <1>2, FS_CardinalityType
<1> QED
  BY <1>2, <1>3, <1>4

LEMMA ExtendWins ==
  ASSUME NEW rate, IsFraction(rate), NEW m \in Nat,
         NEW o \in Outcomes(rate, m), NEW draw \in 1..rate[2]
  PROVE  /\ Extend(o, m, draw) \in Outcomes(rate, m + 1)
         /\ WinsOf(rate, Extend(o, m, draw)) =
              IF draw <= rate[1] THEN WinsOf(rate, o) + 1 ELSE WinsOf(rate, o)
<1> DEFINE e == Extend(o, m, draw)
           hits == {i \in 1..m : o[i] <= rate[1]}
           more == {i \in 1..(m + 1) : e[i] <= rate[1]}
<1>1. e \in Outcomes(rate, m + 1)
  BY DEF Extend, Outcomes
<1>2. \A i \in 1..(m + 1) : e[i] = IF i = m + 1 THEN draw ELSE o[i]
  BY DEF Extend
<1>3. more = IF draw <= rate[1] THEN hits \cup {m + 1} ELSE hits
  <2> HIDE DEF e
  <2>1. \A i \in 1..m : i \in 1..(m + 1) /\ i # m + 1
    OBVIOUS
  <2>2. \A i \in 1..(m + 1) : i # m + 1 => i \in 1..m
    OBVIOUS
  <2>3. m + 1 \in 1..(m + 1)
    OBVIOUS
  <2> QED
    BY <1>2, <2>1, <2>2, <2>3
<1>4. IsFiniteSet(hits) /\ WinsOf(rate, o) = Cardinality(hits)
  BY WinsBound
<1>5. WinsOf(rate, e) = Cardinality(more)
  <2>1. m + 1 \in Nat
    OBVIOUS
  <2> HIDE DEF e
  <2> QED
    BY <1>1, <2>1, WinsBound
<1>6. Cardinality(hits \cup {m + 1}) = Cardinality(hits) + 1
  <2>1. m + 1 \notin hits
    OBVIOUS
  <2> HIDE DEF hits
  <2> QED
    BY <1>4, <2>1, FS_AddElement
<1> QED
  BY <1>1, <1>3, <1>4, <1>5, <1>6

LEMMA ExtendOnto ==
  ASSUME NEW rate, IsFraction(rate), NEW m \in Nat,
         NEW e \in Outcomes(rate, m + 1)
  PROVE  \E o \in Outcomes(rate, m), draw \in 1..rate[2] : e = Extend(o, m, draw)
<1> DEFINE o == [i \in 1..m |-> e[i]]
<1>1. e \in [1..(m + 1) -> 1..rate[2]]
  BY DEF Outcomes
<1>2. o \in Outcomes(rate, m) /\ e[m + 1] \in 1..rate[2]
  BY <1>1 DEF Outcomes
<1>3. \A i \in 1..(m + 1) : e[i] = IF i = m + 1 THEN e[m + 1] ELSE o[i]
  OBVIOUS
<1>4. e = Extend(o, m, e[m + 1])
  <2> HIDE DEF o
  <2> QED
    BY <1>1, <1>3 DEF Extend
<1> QED
  BY <1>2, <1>4

LEMMA ExtendInjective ==
  ASSUME NEW rate, NEW m \in Nat,
         NEW o \in Outcomes(rate, m), NEW p \in Outcomes(rate, m), NEW c, NEW d,
         Extend(o, m, c) = Extend(p, m, d)
  PROVE  o = p /\ c = d
<1> DEFINE e == Extend(o, m, c)
<1>1. \A i \in 1..(m + 1) : e[i] = IF i = m + 1 THEN c ELSE o[i]
  BY DEF Extend
<1>2. \A i \in 1..(m + 1) : e[i] = IF i = m + 1 THEN d ELSE p[i]
  BY DEF Extend
<1>3. c = d
  BY <1>1, <1>2
<1>4. \A i \in 1..m : o[i] = p[i]
  BY <1>1, <1>2
<1>5. o \in [1..m -> 1..rate[2]] /\ p \in [1..m -> 1..rate[2]]
  BY DEF Outcomes
<1> QED
  BY <1>3, <1>4, <1>5

\* A set of outcomes of m + 1 trials that is made of the outcomes in won, each
\* with a winning draw, and of those in lost, each with a losing draw.
LEMMA ExtendedCount ==
  ASSUME NEW rate, IsFraction(rate), NEW m \in Nat,
         NEW won \in SUBSET Outcomes(rate, m), IsFiniteSet(won),
         NEW lost \in SUBSET Outcomes(rate, m), IsFiniteSet(lost),
         NEW T \in SUBSET Outcomes(rate, m + 1),
         \A o \in Outcomes(rate, m), draw \in 1..rate[2] :
            Extend(o, m, draw) \in T <=> IF draw <= rate[1] THEN o \in won
                                                            ELSE o \in lost
  PROVE  /\ IsFiniteSet(T)
         /\ Cardinality(T) = rate[1] * Cardinality(won)
                               + (rate[2] - rate[1]) * Cardinality(lost)
<1> DEFINE W == won \X (1..rate[1])
           L == lost \X ((rate[1] + 1)..rate[2])
           f == [s \in W \cup L |-> Extend(s[1], m, s[2])]
<1>1. /\ rate[1] \in Nat /\ rate[2] \in Nat \ {0} /\ rate[1] <= rate[2]
      /\ Cardinality(won) \in Nat /\ Cardinality(lost) \in Nat
  BY FractionParts, FS_CardinalityType
<1>2. /\ IsFiniteSet(W) /\ Cardinality(W) = Cardinality(won) * rate[1]
      /\ IsFiniteSet(L)
      /\ Cardinality(L) = Cardinality(lost) * (rate[2] - rate[1])
  <2>1. /\ IsFiniteSet(1..rate[1]) /\ Cardinality(1..rate[1]) = rate[1]
        /\ IsFiniteSet((rate[1] + 1)..rate[2])
        /\ Cardinality((rate[1] + 1)..rate[2]) = rate[2] - rate[1]
    <3>1. 1 \in Int /\ rate[1] \in Int /\ rate[1] + 1 \in Int /\ rate[2] \in Int
      BY <1>1
    <3>2. /\ IsFiniteSet(1..rate[1]) 
          /\ Cardinality(1..rate[1]) = IF 1 > rate[1] THEN 0 ELSE rate[1] - 1 + 1
      BY <3>1, FS_Interval
    <3>3. /\ IsFiniteSet((rate[1] + 1)..rate[2]) 
          /\ Cardinality((rate[1] + 1)..rate[2]) =
               IF rate[1] + 1 > rate[2] THEN 0 ELSE rate[2] - (rate[1] + 1) + 1
      BY <3>1, FS_Interval
    <3> QED
      BY <1>1, <3>2, <3>3
  <2> QED
    BY <2>1, FS_Product
<1>3. /\ \A s \in W : s[1] \in won /\ s[2] \in 1..rate[2] /\ s[2] <= rate[1]
      /\ \A s \in L : s[1] \in lost /\ s[2] \in 1..rate[2] /\ ~(s[2] <= rate[1])
  BY <1>1
<1>4. W \cap L = {}
  <2> HIDE DEF W, L
  <2> QED
    BY <1>3
<1>5. /\ IsFiniteSet(W \cup L)
      /\ Cardinality(W \cup L) = Cardinality(W) + Cardinality(L)
  <2> HIDE DEF W, L
  <2>1. Cardinality(W) \in Nat /\ Cardinality(L) \in Nat
    BY <1>2, FS_CardinalityType
  <2> QED
    <3>1. Cardinality(W \cap L) = 0
      BY <1>4, FS_EmptySet
    <3>2. /\ IsFiniteSet(W \cup L)
          /\ Cardinality(W \cup L) = Cardinality(W) + Cardinality(L) - Cardinality(W \cap L)
      BY <1>2, FS_Union
    <3> QED
      BY <2>1, <3>1, <3>2
<1>6. f \in [W \cup L -> T]
  <2> SUFFICES ASSUME NEW s \in W \cup L PROVE Extend(s[1], m, s[2]) \in T
    OBVIOUS
  <2> HIDE DEF W, L
  <2> QED
    BY <1>3
<1>7. \A s \in W \cup L : s = <<s[1], s[2]>> /\ s[1] \in Outcomes(rate, m)
  OBVIOUS
<1>8. ASSUME NEW s \in W \cup L, NEW t \in W \cup L, f[s] = f[t] PROVE s = t
  <2>1. Extend(s[1], m, s[2]) = Extend(t[1], m, t[2])
    BY <1>8
  <2> HIDE DEF W, L, f
  <2>2. s[1] = t[1] /\ s[2] = t[2]
    BY <1>7, <2>1, ExtendInjective
  <2> QED
    BY <1>7, <2>2
<1>9. ASSUME NEW e \in T PROVE \E s \in W \cup L : f[s] = e
  <2>1. PICK o \in Outcomes(rate, m), draw \in 1..rate[2] : e = Extend(o, m, draw)
    BY ExtendOnto
  <2>2. IF draw <= rate[1] THEN o \in won ELSE o \in lost
    BY <2>1
  <2>3. <<o, draw>> \in W \cup L
    BY <1>1, <2>2
  <2>4. f[<<o, draw>>] = Extend(o, m, draw)
    BY <2>3
  <2> HIDE DEF W, L, f
  <2> QED
    BY <2>1, <2>3, <2>4
<1>10. IsFiniteSet(T) /\ Cardinality(T) = Cardinality(W \cup L)
  <2> HIDE DEF W, L, f
  <2> QED
    BY <1>5, <1>6, <1>8, <1>9, SameSize
<1> HIDE DEF W, L
<1> QED
  BY <1>1, <1>2, <1>5, <1>10

LEMMA NoTrials ==
  ASSUME NEW rate, NEW o \in Outcomes(rate, 0)
  PROVE  o = [i \in 1..0 |-> 0] /\ WinsOf(rate, o) = 0
<1>1. 1..0 = {}
  OBVIOUS
<1>2. o = [i \in 1..0 |-> 0]
  BY <1>1 DEF Outcomes
<1>3. WinsOf(rate, o) \in 0..0
  BY WinsBound
<1> QED
  BY <1>2, <1>3

LEMMA OneEmptyOutcome ==
  ASSUME NEW rate
  PROVE  /\ IsFiniteSet(Outcomes(rate, 0)) /\ Cardinality(Outcomes(rate, 0)) = 1
         /\ IsFiniteSet(Exactly(rate, 0, 0)) /\ Cardinality(Exactly(rate, 0, 0)) = 1
<1> DEFINE empty == [i \in 1..0 |-> 0]
<1>1. empty \in Outcomes(rate, 0)
  BY DEF Outcomes
<1> HIDE DEF empty
<1>2. Outcomes(rate, 0) = {empty} /\ Exactly(rate, 0, 0) = {empty}
  BY <1>1, NoTrials DEF Exactly, empty
<1>3. IsFiniteSet({empty}) /\ Cardinality({empty}) = 1
  BY FS_Singleton
<1> QED
  BY <1>2, <1>3

\* Every trial has rate[2] draws.
LEMMA OutcomesCount ==
  ASSUME NEW rate, IsFraction(rate)
  PROVE  \A m \in Nat : /\ IsFiniteSet(Outcomes(rate, m))
                        /\ Cardinality(Outcomes(rate, m)) = Power(rate[2], m)
<1>1. rate[1] \in Nat /\ rate[2] \in Nat /\ rate[1] <= rate[2]
  BY FractionParts
<1> DEFINE S == {m \in Nat : /\ IsFiniteSet(Outcomes(rate, m))
                             /\ Cardinality(Outcomes(rate, m)) = Power(rate[2], m)}
<1>2. 0 \in S
  BY <1>1, OneEmptyOutcome, PowerFacts
<1>3. ASSUME NEW m \in Nat, m \in S PROVE m + 1 \in S
  <2> DEFINE all == Outcomes(rate, m)
             next == Outcomes(rate, m + 1)
  <2>1. IsFiniteSet(all) /\ Cardinality(all) = Power(rate[2], m)
    BY <1>3
  <2>2. \A o \in all, draw \in 1..rate[2] : Extend(o, m, draw) \in next
    BY ExtendWins
  <2>3. /\ IsFiniteSet(next)
        /\ Cardinality(next) = rate[1] * Cardinality(all)
                                 + (rate[2] - rate[1]) * Cardinality(all)
    <3> HIDE DEF all, next
    <3> QED
      BY <2>1, <2>2, ExtendedCount DEF all, next
  <2>4. Cardinality(all) \in Nat
    BY <2>1, FS_CardinalityType
  <2>5. \A a, b, x \in Nat : a * x + (b - a) * x = b * x
    OBVIOUS
  <2>6. Cardinality(next) = rate[2] * Cardinality(all)
    <3> HIDE DEF all, next
    <3> QED
      BY <1>1, <2>3, <2>4, <2>5
  <2>7. Power(rate[2], m + 1) = rate[2] * Power(rate[2], m)
    BY <1>1, PowerFacts
  <2> QED
    BY <2>1, <2>3, <2>6, <2>7
<1> HIDE DEF S
<1>4. \A m \in Nat : m \in S
  BY <1>2, <1>3, Induction
<1> QED
  BY <1>4 DEF S

\* The same rule for the outcomes with exactly k wins.
LEMMA ExactlyIsFinite ==
  ASSUME NEW rate, IsFraction(rate), NEW m \in Nat, NEW k
  PROVE  IsFiniteSet(Exactly(rate, k, m)) /\ Cardinality(Exactly(rate, k, m)) \in Nat
<1>1. Exactly(rate, k, m) \subseteq Outcomes(rate, m)
  BY DEF Exactly
<1> QED
  BY <1>1, OutcomesCount, FS_Subset, FS_CardinalityType

LEMMA TooManyWins ==
  ASSUME NEW rate, NEW m \in Nat, NEW k \in Nat, k > m
  PROVE  Exactly(rate, k, m) = {} /\ Cardinality(Exactly(rate, k, m)) = 0
<1>1. ASSUME NEW o \in Outcomes(rate, m) PROVE WinsOf(rate, o) # k
  <2>1. WinsOf(rate, o) \in 0..m
    BY WinsBound
  <2> QED
    BY <2>1
<1>2. Exactly(rate, k, m) = {}
  BY <1>1 DEF Exactly
<1> QED
  BY <1>2, FS_EmptySet

LEMMA ExactlyPascal ==
  ASSUME NEW rate, IsFraction(rate), NEW m \in Nat, NEW k \in Nat
  PROVE  Cardinality(Exactly(rate, k + 1, m + 1)) =
           rate[1] * Cardinality(Exactly(rate, k, m))
             + (rate[2] - rate[1]) * Cardinality(Exactly(rate, k + 1, m))
<1> DEFINE won == Exactly(rate, k, m)
           lost == Exactly(rate, k + 1, m)
           T == Exactly(rate, k + 1, m + 1)
<1>1. /\ won \in SUBSET Outcomes(rate, m) /\ lost \in SUBSET Outcomes(rate, m)
      /\ T \in SUBSET Outcomes(rate, m + 1)
  BY DEF Exactly
<1>2. IsFiniteSet(won) /\ IsFiniteSet(lost)
  BY ExactlyIsFinite
<1>3. ASSUME NEW o \in Outcomes(rate, m), NEW draw \in 1..rate[2]
      PROVE  Extend(o, m, draw) \in T <=> IF draw <= rate[1] THEN o \in won
                                                             ELSE o \in lost
  <2>1. /\ Extend(o, m, draw) \in Outcomes(rate, m + 1)
        /\ WinsOf(rate, Extend(o, m, draw)) =
             IF draw <= rate[1] THEN WinsOf(rate, o) + 1 ELSE WinsOf(rate, o)
    BY ExtendWins
  <2>2. WinsOf(rate, o) \in 0..m
    BY WinsBound
  <2>3. WinsOf(rate, o) + 1 = k + 1 <=> WinsOf(rate, o) = k
    BY <2>2
  <2> QED
    BY <2>1, <2>3 DEF Exactly
<1> HIDE DEF won, lost, T
<1>4. Cardinality(T) = rate[1] * Cardinality(won)
                         + (rate[2] - rate[1]) * Cardinality(lost)
  BY <1>1, <1>2, <1>3, ExtendedCount
<1> QED
  BY <1>4 DEF won, lost, T

LEMMA ExactlyNone ==
  ASSUME NEW rate, IsFraction(rate), NEW m \in Nat
  PROVE  Cardinality(Exactly(rate, 0, m + 1)) =
           (rate[2] - rate[1]) * Cardinality(Exactly(rate, 0, m))
<1> DEFINE lost == Exactly(rate, 0, m)
           T == Exactly(rate, 0, m + 1)
<1>1. lost \in SUBSET Outcomes(rate, m) /\ T \in SUBSET Outcomes(rate, m + 1)
  BY DEF Exactly
<1>2. IsFiniteSet(lost) /\ Cardinality(lost) \in Nat
  BY ExactlyIsFinite
<1>3. ASSUME NEW o \in Outcomes(rate, m), NEW draw \in 1..rate[2]
      PROVE  Extend(o, m, draw) \in T <=> IF draw <= rate[1] THEN o \in {}
                                                             ELSE o \in lost
  <2>1. /\ Extend(o, m, draw) \in Outcomes(rate, m + 1)
        /\ WinsOf(rate, Extend(o, m, draw)) =
             IF draw <= rate[1] THEN WinsOf(rate, o) + 1 ELSE WinsOf(rate, o)
    BY ExtendWins
  <2>2. WinsOf(rate, o) \in 0..m
    BY WinsBound
  <2>3. WinsOf(rate, o) + 1 # 0
    BY <2>2
  <2> QED
    BY <2>1, <2>3 DEF Exactly
<1> HIDE DEF lost, T
<1>4. /\ {} \in SUBSET Outcomes(rate, m)
      /\ IsFiniteSet({}) /\ Cardinality({}) = 0
  BY FS_EmptySet
<1>5. Cardinality(T) = rate[1] * Cardinality({})
                         + (rate[2] - rate[1]) * Cardinality(lost)
  BY <1>1, <1>2, <1>3, <1>4, ExtendedCount
<1>6. rate[1] \in Nat /\ rate[2] - rate[1] \in Nat
  BY FractionParts
<1>7. Cardinality(T) = (rate[2] - rate[1]) * Cardinality(lost)
  BY <1>2, <1>4, <1>5, <1>6
<1> QED
  BY <1>7 DEF lost, T

LEMMA TermFacts ==
  ASSUME NEW rate, IsFraction(rate), NEW m \in Nat
  PROVE  /\ \A k \in 0..m : Term(rate, m, k) \in Nat
         /\ Term(rate, 0, 0) = 1
         /\ Term(rate, m + 1, 0) = (rate[2] - rate[1]) * Term(rate, m, 0)
         /\ Term(rate, m + 1, m + 1) = rate[1] * Term(rate, m, m)
<1> DEFINE c == rate[2] - rate[1]
<1>1. rate[1] \in Nat /\ c \in Nat
  BY FractionParts
<1> HIDE DEF c
<1>2. /\ \A k \in Nat : Power(rate[1], k) \in Nat /\ Power(c, k) \in Nat
      /\ Power(rate[1], 0) = 1 /\ Power(c, 0) = 1
      /\ Power(rate[1], m + 1) = rate[1] * Power(rate[1], m)
      /\ Power(c, m + 1) = c * Power(c, m)
  BY <1>1, PowerFacts
<1>3. ASSUME NEW k \in 0..m PROVE Term(rate, m, k) \in Nat
  <2>1. choose(m, k) \in Nat
    BY ChooseIsIntegral DEF ChooseFactors
  <2>2. Power(rate[1], k) \in Nat /\ Power(c, m - k) \in Nat
    BY <1>2
  <2>3. Power(rate[1], k) * Power(c, m - k) \in Nat
    BY <2>2
  <2> QED
    BY <2>1, <2>3 DEF Term, c
<1>4. Term(rate, 0, 0) = 1
  <2>1. choose(0, 0) = 1 /\ 0 - 0 = 0
    BY ChooseEnds
  <2> QED
    BY <1>2, <2>1 DEF Term, c
<1>5. Term(rate, m + 1, 0) = c * Term(rate, m, 0)
  <2>1. /\ choose(m, 0) = 1 /\ choose(m + 1, 0) = 1
        /\ m - 0 = m /\ (m + 1) - 0 = m + 1
    BY ChooseEnds
  <2>2. Power(c, m) \in Nat /\ c * Power(c, m) \in Nat
    BY <1>1, <1>2
  <2>3. Term(rate, m, 0) = Power(c, m) /\ Term(rate, m + 1, 0) = Power(c, m + 1)
    BY <1>2, <2>1, <2>2 DEF Term, c
  <2> QED
    BY <1>2, <2>3
<1>6. Term(rate, m + 1, m + 1) = rate[1] * Term(rate, m, m)
  <2>1. /\ choose(m, m) = 1 /\ choose(m + 1, m + 1) = 1
        /\ m - m = 0 /\ (m + 1) - (m + 1) = 0
    BY ChooseEnds
  <2>2. Power(rate[1], m) \in Nat /\ rate[1] * Power(rate[1], m) \in Nat
    BY <1>1, <1>2
  <2>3. /\ Term(rate, m, m) = Power(rate[1], m)
        /\ Term(rate, m + 1, m + 1) = Power(rate[1], m + 1)
    BY <1>2, <2>1, <2>2 DEF Term, c
  <2> QED
    BY <1>2, <2>3
<1> QED
  BY <1>3, <1>4, <1>5, <1>6 DEF c

LEMMA TermSum ==
  ASSUME NEW a \in Nat, NEW c \in Nat, NEW x \in Nat, NEW y \in Nat,
         NEW p \in Nat, NEW q \in Nat
  PROVE  (x + y) * ((a * p) * (c * q)) =
           a * (x * (p * (c * q))) + c * (y * ((a * p) * q))
<1>1. x * ((a * p) * (c * q)) = a * (x * (p * (c * q)))
  OBVIOUS
<1>2. y * ((a * p) * (c * q)) = c * (y * ((a * p) * q))
  OBVIOUS
<1>3. \A z \in Nat : (x + y) * z = x * z + y * z
  OBVIOUS
<1>4. (a * p) * (c * q) \in Nat
  OBVIOUS
<1> QED
  BY <1>1, <1>2, <1>3, <1>4

LEMMA TermPascal ==
  ASSUME NEW rate, IsFraction(rate), NEW m \in Nat, NEW k \in Nat, k < m
  PROVE  Term(rate, m + 1, k + 1) =
           rate[1] * Term(rate, m, k) + (rate[2] - rate[1]) * Term(rate, m, k + 1)
<1> DEFINE a == rate[1]
           c == rate[2] - rate[1]
           x == choose(m, k)
           y == choose(m, k + 1)
           p == Power(a, k)
           q == Power(c, m - (k + 1))
<1>1. a \in Nat /\ c \in Nat
  BY FractionParts
<1>2. x \in Nat /\ y \in Nat
  BY ChooseIsIntegral DEF ChooseFactors
<1> HIDE DEF a, c
<1>3. k + 1 \in Nat /\ m - (k + 1) \in Nat /\ (m - (k + 1)) + 1 = m - k
  OBVIOUS
<1>4. /\ p \in Nat /\ q \in Nat
      /\ Power(a, k + 1) = a * p /\ Power(c, m - k) = c * q
  <2>1. /\ \A i \in Nat : Power(a, i) \in Nat /\ Power(c, i) \in Nat
        /\ \A i \in Nat : Power(a, i + 1) = a * Power(a, i)
        /\ \A i \in Nat : Power(c, i + 1) = c * Power(c, i)
    BY <1>1, PowerFacts
  <2>2. Power(c, (m - (k + 1)) + 1) = c * Power(c, m - (k + 1))
    BY <1>3, <2>1
  <2> QED
    BY <1>3, <2>1, <2>2
<1>5. /\ Term(rate, m, k) = x * (p * (c * q))
      /\ Term(rate, m, k + 1) = y * ((a * p) * q)
  BY <1>4 DEF Term, a, c
<1>6. choose(m + 1, k + 1) = x + y
  BY Pascal
<1>7. (m + 1) - (k + 1) = m - k
  OBVIOUS
<1>8. Term(rate, m + 1, k + 1) = (x + y) * ((a * p) * (c * q))
  BY <1>4, <1>6, <1>7 DEF Term, a, c
<1> HIDE DEF x, y, p, q
<1>9. Term(rate, m + 1, k + 1) = a * Term(rate, m, k) + c * Term(rate, m, k + 1)
  BY <1>1, <1>2, <1>4, <1>5, <1>8, TermSum
<1> QED
  BY <1>9 DEF a, c

\* A term of the distribution counts the outcomes with exactly k wins.
LEMMA TermCounts ==
  ASSUME NEW rate, IsFraction(rate)
  PROVE  \A m \in Nat : \A k \in 0..m :
            Cardinality(Exactly(rate, k, m)) = Term(rate, m, k)
<1> DEFINE Counts(m, k) == Cardinality(Exactly(rate, k, m)) = Term(rate, m, k)
           S == {m \in Nat : \A k \in 0..m : Counts(m, k)}
<1>1. 0 \in S
  BY OneEmptyOutcome, TermFacts
<1>2. ASSUME NEW m \in Nat, m \in S PROVE m + 1 \in S
  <2> SUFFICES ASSUME NEW k \in 0..(m + 1) PROVE Counts(m + 1, k)
    OBVIOUS
  <2>1. \A i \in 0..m : Cardinality(Exactly(rate, i, m)) = Term(rate, m, i)
    BY <1>2
  <2>2. CASE k = 0
    <3>1. Cardinality(Exactly(rate, 0, m + 1)) =
            (rate[2] - rate[1]) * Cardinality(Exactly(rate, 0, m))
      BY ExactlyNone
    <3>2. Cardinality(Exactly(rate, 0, m)) = Term(rate, m, 0)
      BY <2>1
    <3> QED
      BY <2>2, <3>1, <3>2, TermFacts
  <2>3. CASE k = m + 1
    <3>1. Cardinality(Exactly(rate, m + 1, m + 1)) =
            rate[1] * Cardinality(Exactly(rate, m, m))
              + (rate[2] - rate[1]) * Cardinality(Exactly(rate, m + 1, m))
      BY ExactlyPascal
    <3>2. Cardinality(Exactly(rate, m + 1, m)) = 0
      BY TooManyWins
    <3>3. Cardinality(Exactly(rate, m, m)) = Term(rate, m, m)
      BY <2>1
    <3>4. /\ rate[1] \in Nat /\ rate[2] - rate[1] \in Nat
          /\ Term(rate, m, m) \in Nat
      <4>1. m \in 0..m
        OBVIOUS
      <4> QED
        BY <4>1, FractionParts, TermFacts
    <3>5. Cardinality(Exactly(rate, m + 1, m + 1)) = rate[1] * Term(rate, m, m)
      BY <3>1, <3>2, <3>3, <3>4
    <3> QED
      BY <2>3, <3>5, TermFacts
  <2>4. CASE k # 0 /\ k # m + 1
    <3>1. k - 1 \in Nat /\ k - 1 < m /\ (k - 1) + 1 = k
      BY <2>4
    <3>2. Cardinality(Exactly(rate, (k - 1) + 1, m + 1)) =
            rate[1] * Cardinality(Exactly(rate, k - 1, m))
              + (rate[2] - rate[1]) * Cardinality(Exactly(rate, (k - 1) + 1, m))
      BY <3>1, ExactlyPascal
    <3>3. Term(rate, m + 1, (k - 1) + 1) =
            rate[1] * Term(rate, m, k - 1)
              + (rate[2] - rate[1]) * Term(rate, m, (k - 1) + 1)
      BY <3>1, TermPascal
    <3>4. /\ Cardinality(Exactly(rate, k - 1, m)) = Term(rate, m, k - 1)
          /\ Cardinality(Exactly(rate, k, m)) = Term(rate, m, k)
      BY <2>1, <3>1
    <3> QED
      BY <3>1, <3>2, <3>3, <3>4
  <2> QED
    BY <2>2, <2>3, <2>4
<1> HIDE DEF S
<1>3. \A m \in Nat : m \in S
  BY <1>1, <1>2, Induction
<1> QED
  BY <1>3 DEF S

---------------------------------------------------------------------------
(* The tail *)

\* The outcomes with won to k wins.
Between(rate, won, k, m) ==
    {o \in Outcomes(rate, m) : won <= WinsOf(rate, o) /\ WinsOf(rate, o) <= k}

LEMMA BetweenGrows ==
  ASSUME NEW rate, IsFraction(rate), NEW won \in Nat \ {0}, NEW m \in Nat,
         NEW k \in 0..m
  PROVE  /\ k < won => Cardinality(Between(rate, won, k, m)) = 0
         /\ k >= won => Cardinality(Between(rate, won, k, m)) =
              Cardinality(Between(rate, won, k - 1, m)) + Term(rate, m, k)
<1>1. \A o \in Outcomes(rate, m) : WinsOf(rate, o) \in 0..m
  BY WinsBound
<1>2. ASSUME k < won PROVE Cardinality(Between(rate, won, k, m)) = 0
  <2>1. Between(rate, won, k, m) = {}
    BY <1>1, <1>2 DEF Between
  <2> QED
    BY <2>1, FS_EmptySet
<1>3. ASSUME k >= won
      PROVE  Cardinality(Between(rate, won, k, m)) =
               Cardinality(Between(rate, won, k - 1, m)) + Term(rate, m, k)
  <2> DEFINE less == Between(rate, won, k - 1, m)
             here == Exactly(rate, k, m)
  <2>1. Between(rate, won, k, m) = less \cup here /\ less \cap here = {}
    BY <1>1, <1>3 DEF Between, Exactly
  <2>2. IsFiniteSet(less) /\ IsFiniteSet(here)
    <3>1. less \subseteq Outcomes(rate, m)
      BY DEF Between
    <3> QED
      BY <3>1, ExactlyIsFinite, OutcomesCount, FS_Subset
  <2> HIDE DEF less, here
  <2>3. Cardinality(less) \in Nat /\ Cardinality(here) \in Nat
    BY <2>2, FS_CardinalityType
  <2>4. Cardinality(less \cap here) = 0
    BY <2>1, FS_EmptySet
  <2>5. Cardinality(less \cup here) =
          Cardinality(less) + Cardinality(here) - Cardinality(less \cap here)
    BY <2>2, FS_Union
  <2>6. Cardinality(here) = Term(rate, m, k)
    BY TermCounts DEF here
  <2> QED
    BY <2>1, <2>3, <2>4, <2>5, <2>6 DEF less
<1> QED
  BY <1>2, <1>3

\* binomial_upper_tail sums what it says: the share of the outcomes with so
\* many wins or more, for one win or more.
THEOREM TailCounts ==
  ASSUME NEW rate, IsFraction(rate), NEW won \in Nat \ {0}, NEW m \in Nat
  PROVE  /\ BinomialTail(rate, won, m)[1] = Cardinality(AsManyWins(rate, won, m))
         /\ BinomialTail(rate, won, m)[2] = Cardinality(Outcomes(rate, m))
<1> DEFINE count(k) == Cardinality(Between(rate, won, k, m))
           f == [k \in 0..m |-> count(k)]
           Is(g) == g = [k \in 0..m |->
                           IF k < won THEN 0 ELSE g[k - 1] + Term(rate, m, k)]
           tail == CHOOSE g : Is(g)
<1>1. /\ \A k \in 0..m : k < won => count(k) = 0
      /\ \A k \in 0..m : ~(k < won) => count(k) = count(k - 1) + Term(rate, m, k)
  BY BetweenGrows
<1>2. \A k \in 0..m : ~(k < won) => k - 1 \in 0..m
  OBVIOUS
<1>3. Is(f)
  <2> HIDE DEF count
  <2>1. \A k \in 0..m : f[k] = IF k < won THEN 0 ELSE f[k - 1] + Term(rate, m, k)
    BY <1>1, <1>2
  <2> QED
    BY <2>1
<1>4. Is(tail)
  <2> HIDE DEF Is, f
  <2> QED
    BY <1>3
<1>5. BinomialTail(rate, won, m) = <<tail[m], Power(rate[2], m)>>
  BY DEF BinomialTail
<1> HIDE DEF tail
<1> DEFINE S == {k \in Nat : k <= m => tail[k] = count(k)}
<1>6. \A k \in 0..m : tail[k] = IF k < won THEN 0 ELSE tail[k - 1] + Term(rate, m, k)
  BY <1>4
<1> HIDE DEF count
<1>7. 0 \in S
  BY <1>1, <1>6
<1>8. ASSUME NEW k \in Nat, k \in S PROVE k + 1 \in S
  <2> SUFFICES ASSUME k + 1 <= m PROVE tail[k + 1] = count(k + 1)
    OBVIOUS
  <2>1. k + 1 \in 0..m /\ (k + 1) - 1 = k /\ tail[k] = count(k)
    BY <1>8
  <2> QED
    BY <1>1, <1>6, <2>1
<1>9. tail[m] = count(m)
  <2> HIDE DEF S
  <2>1. \A k \in Nat : k \in S
    BY <1>7, <1>8, Induction
  <2> QED
    BY <2>1 DEF S
<1>10. Between(rate, won, m, m) = AsManyWins(rate, won, m)
  <2>1. \A o \in Outcomes(rate, m) : WinsOf(rate, o) \in 0..m
    BY WinsBound
  <2> QED
    BY <2>1 DEF Between, AsManyWins
<1> QED
  BY <1>5, <1>9, <1>10, OutcomesCount DEF count

===========================================================================
