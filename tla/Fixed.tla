------------------------------- MODULE Fixed -------------------------------
(* The arithmetic the pricing rules share: Decimal figures that are        *)
(* quantized half up and bounded, weighted sums over named parts, and the  *)
(* type 7 percentile.  A share or a rate is counted in thousandths.        *)
EXTENDS Integers, FiniteSets, FiniteSetsExt, Functions, Sequences, SequencesExt

CONSTANT None       \* no value

\* No number stands for it.
ASSUME NoneIsNoNumber == None \notin Int

\* A quotient rounded to the nearest integer, halves away from zero.
Ratio(n, d) ==
    IF n < 0 THEN -((2 * (-n) + d) \div (2 * d)) ELSE (2 * n + d) \div (2 * d)

\* A share in thousandths.
Share(n, d) == Ratio(1000 * n, d)

\* Weights of some of the parts, in hundredths.
AreWeights(w, parts) ==
    /\ DOMAIN w \subseteq parts /\ SumFunction(w) = 100
    /\ \A n \in DOMAIN w : w[n] \in Nat

\* A figure kept between two bounds.
Bounded(low, x, high) == Max({low, Min({x, high})})

\* The weighted mean of the parts that are there, the weights of the others
\* left out; None when none is there.
WeightedMean(values, weights) ==
    LET there == {n \in DOMAIN weights : values[n] # None}
        total == SumFunctionOnSet(weights, there)
    IN  IF total = 0 THEN None
        ELSE Ratio(SumFunction([n \in there |-> values[n] * weights[n]]), total)

\* The weight of the parts that are there.
WeightOf(values, weights) ==
    SumFunctionOnSet(weights, {n \in DOMAIN weights : values[n] # None})

\* The k-th least of the figures that a function gives its members.
Ranked(figure, k) ==
    Min({v \in Range(figure) : Cardinality({x \in DOMAIN figure : figure[x] <= v}) >= k})

\* Between the two nearest ranks, p in hundredths.
Interpolated(figure, p) ==
    LET n == Cardinality(DOMAIN figure)
        place == (n - 1) * p
        below == Ranked(figure, place \div 100 + 1)
        above == Ranked(figure, Min({place \div 100 + 2, n}))
    IN  below + Ratio((above - below) * (place % 100), 100)

\* The percentile of the figures that a function gives its members.
Percentile(figure, p) ==
    IF DOMAIN figure = {} THEN None ELSE Interpolated(figure, p)

Median(figure) == Percentile(figure, 50)

\* The distance of two figures.
Distance(x, y) == IF x >= y THEN x - y ELSE y - x
=============================================================================
