--------------------------- MODULE MCAssessments ---------------------------
(* One worker or two, two sessions and two listings.                       *)
EXTENDS AssessmentsInvariant, TLC

CONSTANTS a, b, s1, s2, w1, w2

MCWindows == {1, 2}

\* A valuation batch, which commits each listing; two blind batches, which take
\* two listings in one transaction, in either order; an isolated validation.
MCTasks ==
    {[depth |-> 1, todo |-> <<a, b>>, each |-> TRUE, isolated |-> FALSE],
     [depth |-> 2, todo |-> <<a, b>>, each |-> FALSE, isolated |-> FALSE],
     [depth |-> 3, todo |-> <<b, a>>, each |-> FALSE, isolated |-> FALSE],
     [depth |-> 3, todo |-> <<a>>, each |-> FALSE, isolated |-> TRUE]}

AnyProcess == Permutations({s1, s2}) \cup Permutations({w1, w2})
=============================================================================
