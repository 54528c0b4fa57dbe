---------------------------- MODULE MCCollector ----------------------------
(* Instances of Collector for TLC. *)
EXTENDS CollectorInvariant, TLC

CONSTANTS w1, w2, l1, l2, s1, s2, r1, r2, r3

\* Two scopes of one source, the first collected twice.
TwoScopes == [r \in Runs |-> IF r = r2 THEN s2 ELSE s1]

\* Every listing absent, present, present after a rejected item, listed twice,
\* and two listings in both orders.
ShortFeeds ==
    {<<>>, <<Malformed>>} \cup {<<a>> : a \in Listings}
        \cup {<<a, b>> : a, b \in Listings}

\* Feeds that make two workers meet at two listings.
CrossingFeeds == {<<>>, <<l1, l2>>, <<l2, l1>>}

\* Every row, or a listing unknown to the scope or missed once.
AllRows == CountedRows
UnknownOrMissed == {NoRow, MissedRow(ObservedRow)}

Symmetry == Permutations(Workers)
=============================================================================
