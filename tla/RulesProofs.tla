---------------------------- MODULE RulesProofs ----------------------------
(* Lemmas about the operators the rules are built from: the arithmetic of  *)
(* Fixed, sums and means over finite sets, and what the market, valuation, *)
(* future and decision rules return, of which type, and how a result       *)
(* follows a factor that rises while all else stays as it was.             *)
EXTENDS DecisionRules, FiniteSetTheorems, TLAPS

-----------------------------------------------------------------------------
(* Quotients.                                                              *)

\* The quotient of an integer by a positive one.
LEMMA Quotient ==
    ASSUME NEW n \in Int, NEW d \in Int, d > 0
    PROVE  n \div d \in Int /\ d * (n \div d) <= n /\ n < d * (n \div d) + d
OBVIOUS

\* The quotient by a hundred and the rest.
LEMMA Remainder ==
    ASSUME NEW n \in Int
    PROVE  n \div 100 \in Int /\ n = 100 * (n \div 100) + (n % 100) /\ n % 100 \in 0 .. 99
OBVIOUS

\* Products keep the order.
LEMMA Products ==
    ASSUME NEW a \in Int, NEW b \in Int, NEW c \in Int, a <= b, c >= 0
    PROVE  a * c \in Int /\ b * c \in Int /\ a * c <= b * c /\ c * a <= c * b
OBVIOUS

\* A bound below or above a quotient.
LEMMA QuotientBounds ==
    ASSUME NEW n \in Int, NEW d \in Int, d > 0, NEW k \in Int
    PROVE  /\ k * d <= n => k <= n \div d
           /\ n < k * d => n \div d < k
           /\ n <= k * d => n \div d <= k
OBVIOUS

\* The quotient rises with its numerator.
LEMMA QuotientRises ==
    ASSUME NEW m \in Int, NEW n \in Int, NEW d \in Int, d > 0, m <= n
    PROVE  m \div d <= n \div d
OBVIOUS

-----------------------------------------------------------------------------
(* Rounded quotients.                                                      *)

\* A rounded quotient is a number; it keeps the sign of the numerator.
LEMMA RatioIsInt ==
    ASSUME NEW n \in Int, NEW d \in Int, d > 0
    PROVE  /\ Ratio(n, d) \in Int
           /\ n >= 0 => Ratio(n, d) >= 0
           /\ n <= 0 => Ratio(n, d) <= 0
BY Quotient, QuotientBounds DEF Ratio

\* It rises with the numerator.
LEMMA RatioRises ==
    ASSUME NEW m \in Int, NEW n \in Int, NEW d \in Int, d > 0, m <= n
    PROVE  Ratio(m, d) <= Ratio(n, d)
<1>1. CASE m >= 0
  BY <1>1, QuotientRises DEF Ratio
<1>2. CASE n < 0
  BY <1>2, QuotientRises DEF Ratio
<1>3. CASE m < 0 /\ n >= 0
  BY <1>3, RatioIsInt
<1> QED BY <1>1, <1>2, <1>3

\* The quotient of a multiple.
LEMMA RatioOfMultiple ==
    ASSUME NEW k \in Int, NEW d \in Int, d > 0
    PROVE  Ratio(k * d, d) = k
<1>1. CASE k * d >= 0
  <2>1. Ratio(k * d, d) = (2 * (k * d) + d) \div (2 * d)
    BY <1>1 DEF Ratio
  <2>2. k * (2 * d) <= 2 * (k * d) + d /\ 2 * (k * d) + d < (k + 1) * (2 * d)
    OBVIOUS
  <2> QED BY <2>1, <2>2, QuotientBounds, Quotient
<1>2. CASE k * d < 0
  <2>1. Ratio(k * d, d) = -((2 * (-(k * d)) + d) \div (2 * d))
    BY <1>2 DEF Ratio
  <2>2. (-k) * (2 * d) <= 2 * (-(k * d)) + d /\ 2 * (-(k * d)) + d < (-k + 1) * (2 * d)
    OBVIOUS
  <2>3. (2 * (-(k * d)) + d) \div (2 * d) = -k
    BY <2>2, QuotientBounds, Quotient
  <2> QED BY <2>1, <2>3
<1> QED BY <1>1, <1>2

\* What lies between two multiples has a quotient between their factors.
LEMMA RatioBetween ==
    ASSUME NEW n \in Int, NEW d \in Int, d > 0, NEW low \in Int, NEW high \in Int,
           low * d <= n, n <= high * d
    PROVE  Ratio(n, d) \in low .. high
<1>1. Ratio(low * d, d) = low /\ Ratio(high * d, d) = high
  BY RatioOfMultiple
<1>2. Ratio(low * d, d) <= Ratio(n, d) /\ Ratio(n, d) <= Ratio(high * d, d)
  BY RatioRises
<1> QED BY <1>1, <1>2, RatioIsInt

\* A part of a figure is no more than the figure.
LEMMA RatioOfPart ==
    ASSUME NEW n \in Int, NEW x \in Int, NEW d \in Int, d > 0, 0 <= n, n <= d
    PROVE  /\ x >= 0 => Ratio(x * n, d) \in 0 .. x
           /\ x <= 0 => Ratio(x * n, d) \in x .. 0
<1>1. ASSUME x >= 0 PROVE Ratio(x * n, d) \in 0 .. x
  <2>1. x * n \in Int /\ 0 * d <= x * n /\ x * n <= x * d
    BY <1>1, Products
  <2> QED BY <2>1, RatioBetween
<1>2. ASSUME x <= 0 PROVE Ratio(x * n, d) \in x .. 0
  <2>1. x * n \in Int /\ x * d <= x * n /\ x * n <= 0 * d
    BY <1>2, Products
  <2> QED BY <2>1, RatioBetween
<1> QED BY <1>1, <1>2

-----------------------------------------------------------------------------
(* Finite sets of numbers.  What a fold over a set returns, and that a     *)
(* finite set has a least member, is shown with the smallest part of the   *)
(* set for which it fails.                                                 *)

\* Of the parts of a finite set that have some property, one has no part of its
\* own that has it.
LEMMA LeastSubset ==
    ASSUME NEW S, IsFiniteSet(S), NEW C, C \subseteq SUBSET S, C # {}
    PROVE  \E T \in C : \A U \in C : U \subseteq T => U = T
<1>1. C \subseteq FiniteSubsetsOf(S)
  BY FS_FiniteSubsetsOfFinite
<1>2. IsWellFoundedOn(StrictSubsetOrdering(S), FiniteSubsetsOf(S))
  BY FS_StrictSubsetOrderingWellFounded
<1>3. PICK T \in C : \A U \in C : ~ (<<U, T>> \in StrictSubsetOrdering(S))
  BY <1>1, <1>2, WFMin
<1>4. ASSUME NEW U \in C, U \subseteq T PROVE U = T
  <2>1. <<U, T>> \notin StrictSubsetOrdering(S)
    BY <1>3
  <2>2. <<U, T>> \in (SUBSET S) \X (SUBSET S)
    OBVIOUS
  <2> QED BY <2>1, <2>2, <1>4 DEF StrictSubsetOrdering
<1> QED BY <1>4

\* A finite set has a member that no other precedes, in any strict order.
LEMMA FirstOfSet ==
    ASSUME NEW S, IsFiniteSet(S), S # {}, NEW R,
           \A x \in S : <<x, x>> \notin R,
           \A x, y, z \in S : <<x, y>> \in R /\ <<y, z>> \in R => <<x, z>> \in R
    PROVE  \E x \in S : \A y \in S : <<y, x>> \notin R
<1> DEFINE C == {T \in SUBSET S : T # {} /\ \A x \in T : \E y \in T : <<y, x>> \in R}
<1> SUFFICES ASSUME C # {} PROVE FALSE
  <2>1. (\A x \in S : \E y \in S : <<y, x>> \in R) => S \in C
    OBVIOUS
  <2> QED BY <2>1
<1>1. PICK T \in C : \A U \in C : U \subseteq T => U = T
  <2>1. C \subseteq SUBSET S
    OBVIOUS
  <2> HIDE DEF C
  <2> QED BY <2>1, LeastSubset
<1>2. PICK x \in T : TRUE
  OBVIOUS
<1> DEFINE U == T \ {x}
<1>3. U # {}
  <2>1. PICK y \in T : <<y, x>> \in R
    OBVIOUS
  <2> QED BY <2>1
<1>4. ASSUME NEW z \in U PROVE \E y \in U : <<y, z>> \in R
  <2>1. PICK y \in T : <<y, z>> \in R
    OBVIOUS
  <2>2. CASE y # x
    BY <2>1, <2>2
  <2>3. CASE y = x
    <3>1. PICK w \in T : <<w, x>> \in R
      OBVIOUS
    <3>2. <<w, z>> \in R /\ w # x
      BY <2>1, <2>3, <3>1
    <3> QED BY <3>2
  <2> QED BY <2>2, <2>3
<1>5. U \in C
  BY <1>3, <1>4
<1>6. U \subseteq T /\ U # T
  OBVIOUS
<1> HIDE DEF C, U
<1> QED BY <1>1, <1>5, <1>6

\* A finite set of numbers has a greatest and a least one.
LEMMA MinOfSet ==
    ASSUME NEW S, IsFiniteSet(S), S # {}, S \subseteq Int
    PROVE  Min(S) \in S /\ \A x \in S : Min(S) <= x
<1> DEFINE R == {p \in S \X S : p[1] < p[2]}
<1>1. /\ \A x \in S : <<x, x>> \notin R
      /\ \A x, y, z \in S : <<x, y>> \in R /\ <<y, z>> \in R => <<x, z>> \in R
  OBVIOUS
<1>2. \A x, y \in S : <<y, x>> \notin R => x <= y
  OBVIOUS
<1> HIDE DEF R
<1>3. \E x \in S : \A y \in S : <<y, x>> \notin R
  BY <1>1, FirstOfSet
<1>4. \E x \in S : \A y \in S : x <= y
  BY <1>2, <1>3
<1> QED BY <1>4 DEF Min

\* The largest of some integers is one of them.
LEMMA MaxOfSet ==
    ASSUME NEW S, IsFiniteSet(S), S # {}, S \subseteq Int
    PROVE  Max(S) \in S /\ \A x \in S : x <= Max(S)
<1> DEFINE R == {p \in S \X S : p[1] > p[2]}
<1>1. /\ \A x \in S : <<x, x>> \notin R
      /\ \A x, y, z \in S : <<x, y>> \in R /\ <<y, z>> \in R => <<x, z>> \in R
  OBVIOUS
<1>2. \A x, y \in S : <<y, x>> \notin R => x >= y
  OBVIOUS
<1> HIDE DEF R
<1>3. \E x \in S : \A y \in S : <<y, x>> \notin R
  BY <1>1, FirstOfSet
<1>4. \E x \in S : \A y \in S : x >= y
  BY <1>2, <1>3
<1>5. Max(S) \in S /\ \A x \in S : Max(S) >= x
  BY <1>4 DEF Max
<1> QED BY <1>5

\* Of two numbers.
LEMMA MaxOfTwo ==
    ASSUME NEW a \in Int, NEW b \in Int
    PROVE  Max({a, b}) = IF a >= b THEN a ELSE b
<1>1. \E x \in {a, b} : \A y \in {a, b} : x >= y
  OBVIOUS
<1>2. Max({a, b}) \in {a, b} /\ \A y \in {a, b} : Max({a, b}) >= y
  BY <1>1 DEF Max
<1> QED BY <1>2

\* The smaller of two numbers.
LEMMA MinOfTwo ==
    ASSUME NEW a \in Int, NEW b \in Int
    PROVE  Min({a, b}) = IF a <= b THEN a ELSE b
<1>1. \E x \in {a, b} : \A y \in {a, b} : x <= y
  OBVIOUS
<1>2. Min({a, b}) \in {a, b} /\ \A y \in {a, b} : Min({a, b}) <= y
  BY <1>1 DEF Min
<1> QED BY <1>2

\* A bounded figure is within its bounds, and rises with the figure.
LEMMA BoundedIs ==
    ASSUME NEW low \in Int, NEW x \in Int, NEW high \in Int
    PROVE  Bounded(low, x, high) =
              IF x >= high THEN (IF low >= high THEN low ELSE high) ELSE IF x <= low THEN low ELSE x
BY MaxOfTwo, MinOfTwo DEF Bounded

-----------------------------------------------------------------------------
(* Sums.                                                                   *)

\* The member of a set that a fold takes first.
Pick(s) == CHOOSE x \in s : TRUE

\* A table of the sums of a function over the parts of a set.
IsTable(f, S, g) ==
    g = [s \in SUBSET S |-> IF s = {} THEN 0 ELSE f[Pick(s)] + g[s \ {Pick(s)}]]

\* It is a member.
LEMMA PickIn == ASSUME NEW S, S # {} PROVE Pick(S) \in S
BY DEF Pick

\* Two tables agree where both say something.
LEMMA TablesAgree ==
    ASSUME NEW f, NEW S, IsFiniteSet(S), NEW T, NEW g, NEW h, IsTable(f, S, g), IsTable(f, T, h)
    PROVE  \A s \in (SUBSET S) \cap (SUBSET T) : g[s] = h[s]
<1> DEFINE C == {s \in (SUBSET S) \cap (SUBSET T) : g[s] # h[s]}
<1> SUFFICES ASSUME C # {} PROVE FALSE
  OBVIOUS
<1>1. PICK s \in C : \A U \in C : U \subseteq s => U = s
  <2>1. C \subseteq SUBSET S
    OBVIOUS
  <2> HIDE DEF C
  <2> QED BY <2>1, LeastSubset
<1>2. s # {}
  <2> SUFFICES ASSUME s = {} PROVE g[s] = h[s]
    OBVIOUS
  <2>1. g[s] = 0
    BY DEF IsTable
  <2>2. h[s] = 0
    BY DEF IsTable
  <2> QED BY <2>1, <2>2
<1> DEFINE r == s \ {Pick(s)}
<1>3. r \subseteq s /\ r # s
  BY <1>2, PickIn
<1>4. g[r] = h[r]
  BY <1>1, <1>3
<1>5. g[s] = f[Pick(s)] + g[r]
  BY <1>2 DEF IsTable
<1>6. h[s] = f[Pick(s)] + h[r]
  BY <1>2 DEF IsTable
<1> QED BY <1>4, <1>5, <1>6

\* There is a table.
LEMMA TableExists ==
    ASSUME NEW f, NEW S, IsFiniteSet(S)
    PROVE  \E g : IsTable(f, S, g)
<1> DEFINE C == {T \in SUBSET S : ~\E g : IsTable(f, T, g)}
<1> SUFFICES ASSUME C # {} PROVE FALSE
  OBVIOUS
<1>1. PICK T \in C : \A U \in C : U \subseteq T => U = T
  <2>1. C \subseteq SUBSET S
    OBVIOUS
  <2> HIDE DEF C
  <2> QED BY <2>1, LeastSubset
<1> DEFINE G(U) == CHOOSE g : IsTable(f, U, g)
           next(s) == IF s = {} THEN 0 ELSE f[Pick(s)] + G(s \ {Pick(s)})[s \ {Pick(s)}]
           h == [s \in SUBSET T |-> next(s)]
<1>2. ASSUME NEW U \in SUBSET T, U # T PROVE IsTable(f, U, G(U))
  BY <1>1, <1>2
<1>3. IsFiniteSet(T)
  BY FS_Subset
<1>4. ASSUME NEW U \in SUBSET T, U # T PROVE h[U] = G(U)[U]
  <2>1. IsTable(f, U, G(U))
    BY <1>2, <1>4
  <2>2. CASE U = {}
    BY <2>1, <2>2 DEF IsTable
  <2>3. CASE U # {}
    <3> DEFINE r == U \ {Pick(U)}
    <3>1. r \in SUBSET U /\ r \in SUBSET T /\ r # T /\ Pick(U) \in U
      BY <2>3, PickIn
    <3>2. IsTable(f, r, G(r))
      BY <3>1, <1>2
    <3>3. G(U)[U] = f[Pick(U)] + G(U)[r]
      BY <2>1, <2>3 DEF IsTable
    <3>4. G(U)[r] = G(r)[r]
      <4>1. IsFiniteSet(U)
        BY <1>3, FS_Subset
      <4> HIDE DEF G
      <4> QED BY <2>1, <3>2, <4>1, <3>1, TablesAgree
    <3>5. h[U] = f[Pick(U)] + G(r)[r]
      BY <2>3
    <3> QED BY <3>3, <3>4, <3>5
  <2> QED BY <2>2, <2>3
<1>5. ASSUME NEW s \in SUBSET T, s # {} PROVE next(s) = f[Pick(s)] + h[s \ {Pick(s)}]
  <2>1. s \ {Pick(s)} \in SUBSET T /\ s \ {Pick(s)} # T
    BY <1>5, PickIn
  <2>2. h[s \ {Pick(s)}] = G(s \ {Pick(s)})[s \ {Pick(s)}]
    BY <2>1, <1>4
  <2> HIDE DEF h, G
  <2>3. next(s) = f[Pick(s)] + G(s \ {Pick(s)})[s \ {Pick(s)}]
    BY <1>5
  <2> HIDE DEF next
  <2> QED BY <2>2, <2>3
<1>6. \A s \in SUBSET T : h[s] = next(s)
  BY DEF h
<1>7. h = [s \in SUBSET T |-> h[s]]
  OBVIOUS
<1>8. next({}) = 0
  OBVIOUS
<1> HIDE DEF h, next
<1>9. \A s \in SUBSET T : h[s] = IF s = {} THEN 0 ELSE f[Pick(s)] + h[s \ {Pick(s)}]
  BY <1>5, <1>6, <1>8
<1>10. IsTable(f, T, h)
  BY <1>7, <1>9 DEF IsTable
<1> QED BY <1>10

\* The sum is what the table says of the whole set.
LEMMA SumIsTable ==
    ASSUME NEW f, NEW S, NEW g, IsFiniteSet(S), IsTable(f, S, g)
    PROVE  SumFunctionOnSet(f, S) = g[S]
<1> DEFINE i == CHOOSE h : IsTable(f, S, h)
<1>1. SumFunctionOnSet(f, S) = i[S]
  BY DEF SumFunctionOnSet, FoldFunctionOnSet, MapThenFoldSet, IsTable, Pick
<1>2. IsTable(f, S, i)
  OBVIOUS
<1> HIDE DEF i
<1> QED BY <1>1, <1>2, TablesAgree

\* The sum over no members, and over some.
LEMMA SumOfNothing == ASSUME NEW f PROVE SumFunctionOnSet(f, {}) = 0
<1>1. PICK g : IsTable(f, {}, g)
  BY TableExists, FS_EmptySet
<1>2. SumFunctionOnSet(f, {}) = g[{}]
  BY <1>1, SumIsTable, FS_EmptySet
<1>3. g[{}] = 0
  BY <1>1 DEF IsTable
<1> QED BY <1>2, <1>3

\* The first member and the others.
LEMMA SumOfMore ==
    ASSUME NEW f, NEW S, IsFiniteSet(S), S # {}
    PROVE  /\ Pick(S) \in S
           /\ SumFunctionOnSet(f, S) = f[Pick(S)] + SumFunctionOnSet(f, S \ {Pick(S)})
<1> DEFINE R == S \ {Pick(S)}
<1>1. PICK g : IsTable(f, S, g)
  BY TableExists
<1>2. IsFiniteSet(R)
  BY FS_Subset
<1>3. PICK h : IsTable(f, R, h)
  BY <1>2, TableExists
<1>4. g[S] = f[Pick(S)] + g[R]
  BY <1>1 DEF IsTable
<1>5. g[R] = h[R]
  <2>1. R \in (SUBSET S) \cap (SUBSET R)
    OBVIOUS
  <2> HIDE DEF R
  <2> QED BY <1>1, <1>3, <2>1, TablesAgree
<1>6. SumFunctionOnSet(f, S) = g[S] /\ SumFunctionOnSet(f, R) = h[R]
  BY <1>1, <1>2, <1>3, SumIsTable
<1> QED BY <1>4, <1>5, <1>6, PickIn

\* A sum of numbers is a number.
LEMMA SumIsInt ==
    ASSUME NEW f, NEW S, IsFiniteSet(S), \A x \in S : f[x] \in Int
    PROVE  SumFunctionOnSet(f, S) \in Int
<1> DEFINE C == {T \in SUBSET S : SumFunctionOnSet(f, T) \notin Int}
<1> SUFFICES ASSUME C # {} PROVE FALSE
  OBVIOUS
<1>1. PICK T \in C : \A U \in C : U \subseteq T => U = T
  <2>1. C \subseteq SUBSET S
    OBVIOUS
  <2> HIDE DEF C
  <2> QED BY <2>1, LeastSubset
<1>2. T # {}
  BY SumOfNothing
<1>3. IsFiniteSet(T)
  BY FS_Subset
<1> DEFINE R == T \ {Pick(T)}
<1>4. Pick(T) \in T /\ SumFunctionOnSet(f, T) = f[Pick(T)] + SumFunctionOnSet(f, R)
  BY <1>2, <1>3, SumOfMore
<1>5. SumFunctionOnSet(f, R) \in Int
  BY <1>1, <1>4
<1> QED BY <1>4, <1>5

\* A sum rises with its figures.
LEMMA SumIsMonotonic ==
    ASSUME NEW f, NEW g, NEW S, IsFiniteSet(S),
           \A x \in S : f[x] \in Int /\ g[x] \in Int /\ f[x] <= g[x]
    PROVE  SumFunctionOnSet(f, S) <= SumFunctionOnSet(g, S)
<1> DEFINE C == {T \in SUBSET S : ~(SumFunctionOnSet(f, T) <= SumFunctionOnSet(g, T))}
<1> SUFFICES ASSUME C # {} PROVE FALSE
  OBVIOUS
<1>1. PICK T \in C : \A U \in C : U \subseteq T => U = T
  <2>1. C \subseteq SUBSET S
    OBVIOUS
  <2> HIDE DEF C
  <2> QED BY <2>1, LeastSubset
<1>2. T # {}
  BY SumOfNothing
<1>3. IsFiniteSet(T)
  BY FS_Subset
<1> DEFINE R == T \ {Pick(T)}
<1>4. /\ Pick(T) \in T
      /\ SumFunctionOnSet(f, T) = f[Pick(T)] + SumFunctionOnSet(f, R)
      /\ SumFunctionOnSet(g, T) = g[Pick(T)] + SumFunctionOnSet(g, R)
  BY <1>2, <1>3, SumOfMore
<1>5. SumFunctionOnSet(f, R) <= SumFunctionOnSet(g, R)
  BY <1>1, <1>4
<1>6. SumFunctionOnSet(f, R) \in Int /\ SumFunctionOnSet(g, R) \in Int
  BY <1>3, FS_Subset, SumIsInt
<1> QED BY <1>4, <1>5, <1>6

\* A sum of multiples.
LEMMA SumOfMultiples ==
    ASSUME NEW f, NEW g, NEW S, IsFiniteSet(S), NEW c \in Int,
           \A x \in S : f[x] \in Int /\ g[x] = c * f[x]
    PROVE  SumFunctionOnSet(g, S) = c * SumFunctionOnSet(f, S)
<1> DEFINE C == {T \in SUBSET S : SumFunctionOnSet(g, T) # c * SumFunctionOnSet(f, T)}
<1> SUFFICES ASSUME C # {} PROVE FALSE
  OBVIOUS
<1>1. PICK T \in C : \A U \in C : U \subseteq T => U = T
  <2>1. C \subseteq SUBSET S
    OBVIOUS
  <2> HIDE DEF C
  <2> QED BY <2>1, LeastSubset
<1>2. T # {}
  <2>1. SumFunctionOnSet(f, {}) = 0 /\ SumFunctionOnSet(g, {}) = 0
    BY SumOfNothing
  <2>2. SumFunctionOnSet(g, {}) = c * SumFunctionOnSet(f, {})
    BY <2>1
  <2> QED BY <2>2
<1>3. IsFiniteSet(T)
  BY FS_Subset
<1> DEFINE R == T \ {Pick(T)}
<1>4. /\ Pick(T) \in T
      /\ SumFunctionOnSet(f, T) = f[Pick(T)] + SumFunctionOnSet(f, R)
      /\ SumFunctionOnSet(g, T) = g[Pick(T)] + SumFunctionOnSet(g, R)
  BY <1>2, <1>3, SumOfMore
<1>5. SumFunctionOnSet(g, R) = c * SumFunctionOnSet(f, R)
  BY <1>1, <1>4
<1>6. SumFunctionOnSet(f, R) \in Int /\ f[Pick(T)] \in Int /\ g[Pick(T)] = c * f[Pick(T)]
  BY <1>3, <1>4, FS_Subset, SumIsInt
<1>7. SumFunctionOnSet(g, T) # c * SumFunctionOnSet(f, T)
  OBVIOUS
<1> HIDE DEF C, R
<1> QED BY <1>4, <1>5, <1>6, <1>7

\* A sum of numbers that are not negative.
LEMMA SumIsNat ==
    ASSUME NEW f, NEW S, IsFiniteSet(S), \A x \in S : f[x] \in Nat
    PROVE  SumFunctionOnSet(f, S) \in Nat
<1> DEFINE z == [x \in S |-> 0]
<1>1. \A x \in S : z[x] \in Int /\ z[x] = 0 * f[x] /\ f[x] \in Int /\ z[x] <= f[x]
  OBVIOUS
<1>2. SumFunctionOnSet(f, S) \in Int
  BY SumIsInt
<1> HIDE DEF z
<1>3. SumFunctionOnSet(z, S) = 0 * SumFunctionOnSet(f, S)
  BY <1>1, SumOfMultiples
<1>4. SumFunctionOnSet(z, S) <= SumFunctionOnSet(f, S)
  BY <1>1, SumIsMonotonic
<1> QED BY <1>2, <1>3, <1>4

\* Any member and the others.
LEMMA SumOfAny ==
    ASSUME NEW f, NEW S, IsFiniteSet(S), \A x \in S : f[x] \in Int, NEW m \in S
    PROVE  SumFunctionOnSet(f, S) = f[m] + SumFunctionOnSet(f, S \ {m})
<1> DEFINE sum(T) == SumFunctionOnSet(f, T)
           C == {T \in SUBSET S : \E n \in T : sum(T) # f[n] + sum(T \ {n})}
<1>1. \A T \in SUBSET S : IsFiniteSet(T) /\ sum(T) \in Int
  <2> TAKE T \in SUBSET S
  <2>1. IsFiniteSet(T) /\ \A x \in T : f[x] \in Int
    BY FS_Subset
  <2> QED BY <2>1, SumIsInt
<1>2. \A T \in SUBSET S : T # {} => Pick(T) \in T /\ sum(T) = f[Pick(T)] + sum(T \ {Pick(T)})
  BY <1>1, SumOfMore
<1> HIDE DEF sum
<1> SUFFICES ASSUME C # {} PROVE FALSE
  BY DEF sum
<1>3. C \subseteq SUBSET S
  OBVIOUS
<1> HIDE DEF C
<1>4. PICK T \in C : \A V \in C : V \subseteq T => V = T
  BY <1>3, LeastSubset
<1>5. T \in SUBSET S
  BY <1>3
<1>6. PICK n \in T : sum(T) # f[n] + sum(T \ {n})
  BY <1>4 DEF C
<1> DEFINE y == Pick(T)
<1>7. y \in T /\ sum(T) = f[y] + sum(T \ {y})
  BY <1>2, <1>5, <1>6
<1> HIDE DEF y
<1>8. y # n
  BY <1>6, <1>7
<1>9. ASSUME NEW z \in T, NEW x \in T \ {z} PROVE sum(T \ {z}) = f[x] + sum((T \ {z}) \ {x})
  <2>1. T \ {z} \notin C
    BY <1>4
  <2> QED BY <1>5, <2>1 DEF C
<1>10. sum(T \ {y}) = f[n] + sum((T \ {y}) \ {n}) /\ sum(T \ {n}) = f[y] + sum((T \ {n}) \ {y})
  BY <1>6, <1>7, <1>8, <1>9
<1>11. (T \ {y}) \ {n} = (T \ {n}) \ {y}
  OBVIOUS
<1>12. f[n] \in Int /\ f[y] \in Int /\ sum((T \ {n}) \ {y}) \in Int
  BY <1>1, <1>5, <1>6, <1>7
<1> DEFINE a == f[n]
           b == f[y]
           c == sum((T \ {n}) \ {y})
<1>13. sum(T) = b + (a + c) /\ sum(T) # a + (b + c)
  BY <1>6, <1>7, <1>10, <1>11
<1>14. a \in Int /\ b \in Int /\ c \in Int
  BY <1>12
<1> HIDE DEF a, b, c
<1> QED BY <1>13, <1>14

\* A part of what is not negative adds up to no more.
LEMMA SumOfPart ==
    ASSUME NEW f, NEW S, IsFiniteSet(S), \A x \in S : f[x] \in Nat, NEW P \in SUBSET S
    PROVE  SumFunctionOnSet(f, P) <= SumFunctionOnSet(f, S)
<1> DEFINE sum(T) == SumFunctionOnSet(f, T)
           C == {T \in SUBSET S : ~(sum(T \cap P) <= sum(T))}
<1>1. \A T \in SUBSET S : IsFiniteSet(T) /\ sum(T) \in Nat
  <2> TAKE T \in SUBSET S
  <2>1. IsFiniteSet(T) /\ \A x \in T : f[x] \in Nat
    BY FS_Subset
  <2> QED BY <2>1, SumIsNat
<1>2. ASSUME NEW T \in SUBSET S, NEW m \in T PROVE sum(T) = f[m] + sum(T \ {m})
  <2>1. IsFiniteSet(T) /\ \A x \in T : f[x] \in Int
    BY <1>1
  <2> QED BY <2>1, SumOfAny
<1>3. sum({}) = 0
  BY SumOfNothing
<1>4. S \cap P = P
  OBVIOUS
<1> HIDE DEF sum
<1> SUFFICES ASSUME ~(sum(P) <= sum(S)) PROVE FALSE
  BY DEF sum
<1>5. C \subseteq SUBSET S /\ C # {}
  BY <1>4
<1> HIDE DEF C
<1>6. PICK T \in C : \A V \in C : V \subseteq T => V = T
  BY <1>5, LeastSubset
<1>7. T \in SUBSET S /\ ~(sum(T \cap P) <= sum(T))
  BY <1>6 DEF C
<1>8. T # {}
  BY <1>3, <1>7
<1>9. PICK m : m \in T
  BY <1>8
<1> DEFINE U == T \ {m}
<1>10. sum(U \cap P) <= sum(U)
  <2>1. U \notin C
    BY <1>6, <1>9
  <2> QED BY <1>7, <2>1 DEF C
<1>11. sum(T) = f[m] + sum(U)
  BY <1>2, <1>7, <1>9
<1>12. f[m] \in Nat /\ sum(U) \in Nat /\ sum(U \cap P) \in Nat
  <2>1. U \in SUBSET S /\ U \cap P \in SUBSET S /\ m \in S
    BY <1>7, <1>9
  <2> HIDE DEF U
  <2> QED BY <1>1, <2>1
<1> DEFINE a == f[m]
           b == sum(U)
           c == sum(U \cap P)
<1>13. CASE m \in P
  <2>1. sum(T \cap P) = f[m] + sum((T \cap P) \ {m})
    BY <1>2, <1>7, <1>9, <1>13
  <2>2. (T \cap P) \ {m} = U \cap P
    OBVIOUS
  <2>3. sum(T \cap P) = a + c
    BY <2>1, <2>2
  <2>4. ~(a + c <= a + b) /\ c <= b
    BY <1>7, <1>10, <1>11, <2>3
  <2>5. a \in Nat /\ b \in Nat /\ c \in Nat
    BY <1>12
  <2> HIDE DEF a, b, c
  <2> QED BY <2>4, <2>5
<1>14. CASE m \notin P
  <2>1. T \cap P = U \cap P
    BY <1>14
  <2>2. ~(c <= a + b) /\ c <= b
    BY <1>7, <1>10, <1>11, <2>1
  <2>3. a \in Nat /\ b \in Nat /\ c \in Nat
    BY <1>12
  <2> HIDE DEF a, b, c
  <2> QED BY <2>2, <2>3
<1> QED BY <1>13, <1>14

\* A sum of figures of which one is not nothing is more than nothing.
LEMMA SumIsPositive ==
    ASSUME NEW f, NEW S, IsFiniteSet(S), \A x \in S : f[x] \in Nat, NEW m \in S, f[m] > 0
    PROVE  SumFunctionOnSet(f, S) > 0
<1> DEFINE C == {T \in SUBSET S : m \in T /\ SumFunctionOnSet(f, T) = 0}
<1> SUFFICES ASSUME SumFunctionOnSet(f, S) = 0 PROVE FALSE
  <2>1. SumFunctionOnSet(f, S) \in Nat
    BY SumIsNat
  <2> QED BY <2>1
<1>1. C \subseteq SUBSET S /\ C # {}
  OBVIOUS
<1> HIDE DEF C
<1>2. PICK T \in C : \A V \in C : V \subseteq T => V = T
  BY <1>1, LeastSubset
<1>3. T \subseteq S /\ m \in T /\ SumFunctionOnSet(f, T) = 0 /\ IsFiniteSet(T)
  BY <1>2, FS_Subset DEF C
<1> DEFINE y == Pick(T)
           U == T \ {y}
<1>4. y \in T /\ SumFunctionOnSet(f, T) = f[y] + SumFunctionOnSet(f, U)
  BY <1>3, SumOfMore
<1>5. SumFunctionOnSet(f, U) \in Nat /\ f[y] \in Nat
  <2>1. IsFiniteSet(U) /\ U \subseteq S
    BY <1>3, FS_Subset
  <2> HIDE DEF U, y
  <2> QED BY <1>3, <1>4, <2>1, SumIsNat
<1> HIDE DEF y
<1>6. SumFunctionOnSet(f, U) = 0 /\ f[y] = 0
  BY <1>3, <1>4, <1>5
<1>7. m \in U
  BY <1>3, <1>6
<1>8. U \in C /\ U \subseteq T /\ U # T
  BY <1>3, <1>4, <1>6, <1>7 DEF C
<1> QED BY <1>2, <1>8

-----------------------------------------------------------------------------
(* Weighted means.                                                         *)

\* Weights by name, none negative.
IsWeights(w) == IsFiniteSet(DOMAIN w) /\ \A n \in DOMAIN w : w[n] \in Nat

\* Figures for the names that weights have, some of them unknown.
AreParts(values, w) == \A n \in DOMAIN w : values[n] # None => values[n] \in Int

\* The names whose figure is known.
There(values, w) == {n \in DOMAIN w : values[n] # None}

\* The weight of what is known, and the weighted sum.
LEMMA PartsAdd ==
    ASSUME NEW values, NEW w, IsWeights(w), AreParts(values, w)
    PROVE  /\ IsFiniteSet(There(values, w))
           /\ WeightOf(values, w) \in Nat
           /\ WeightOf(values, w) = SumFunctionOnSet(w, There(values, w))
           /\ SumFunction([n \in There(values, w) |-> values[n] * w[n]]) \in Int
           /\ WeightedMean(values, w) =
                 IF WeightOf(values, w) = 0 THEN None
                 ELSE Ratio(SumFunction([n \in There(values, w) |-> values[n] * w[n]]), WeightOf(values, w))
<1> DEFINE T == There(values, w)
           f == [n \in T |-> values[n] * w[n]]
<1>1. IsFiniteSet(T) /\ T \subseteq DOMAIN w
  BY FS_Subset DEF IsWeights, There
<1>2. \A n \in T : w[n] \in Nat /\ f[n] \in Int
  BY DEF IsWeights, AreParts, There
<1>3. WeightOf(values, w) = SumFunctionOnSet(w, T)
  BY DEF WeightOf, There
<1>4. WeightedMean(values, w) = IF SumFunctionOnSet(w, T) = 0 THEN None ELSE Ratio(SumFunction(f), SumFunctionOnSet(w, T))
  BY DEF WeightedMean, There
<1>5. SumFunction(f) = SumFunctionOnSet(f, T)
  BY DEF SumFunction
<1> HIDE DEF T, f
<1>6. SumFunctionOnSet(w, T) \in Nat
  BY <1>1, <1>2, SumIsNat
<1>7. SumFunctionOnSet(f, T) \in Int
  BY <1>1, <1>2, SumIsInt
<1> QED BY <1>1, <1>3, <1>4, <1>5, <1>6, <1>7 DEF T, f

\* A weighted mean lies between the bounds of its figures.
LEMMA MeanBetween ==
    ASSUME NEW values, NEW w, IsWeights(w), AreParts(values, w), NEW low \in Int, NEW high \in Int,
           \A n \in DOMAIN w : values[n] # None => low <= values[n] /\ values[n] <= high
    PROVE  IF WeightOf(values, w) = 0 THEN WeightedMean(values, w) = None
           ELSE WeightedMean(values, w) \in low .. high
<1> DEFINE T == There(values, w)
           f == [n \in T |-> values[n] * w[n]]
           g == [n \in T |-> low * w[n]]
           h == [n \in T |-> high * w[n]]
<1>1. IsFiniteSet(T) /\ WeightOf(values, w) = SumFunctionOnSet(w, T) /\ WeightOf(values, w) \in Nat
  BY PartsAdd
<1>2. ASSUME NEW n \in T
      PROVE  /\ w[n] \in Int /\ f[n] \in Int /\ g[n] \in Int /\ h[n] \in Int
             /\ g[n] = low * w[n] /\ h[n] = high * w[n] /\ g[n] <= f[n] /\ f[n] <= h[n]
  <2>1. w[n] \in Nat /\ values[n] \in Int /\ low <= values[n] /\ values[n] <= high
    BY DEF There, IsWeights, AreParts
  <2>2. low * w[n] <= values[n] * w[n] /\ values[n] * w[n] <= high * w[n]
    BY <2>1, Products
  <2> QED BY <2>1, <2>2
<1>3. SumFunction(f) = SumFunctionOnSet(f, T) /\ SumFunction(f) \in Int
  BY PartsAdd DEF SumFunction
<1>4. WeightedMean(values, w) =
        IF WeightOf(values, w) = 0 THEN None ELSE Ratio(SumFunction(f), WeightOf(values, w))
  BY PartsAdd
<1> HIDE DEF T, f, g, h
<1>5. SumFunctionOnSet(g, T) = low * SumFunctionOnSet(w, T)
  BY <1>1, <1>2, SumOfMultiples
<1>6. SumFunctionOnSet(h, T) = high * SumFunctionOnSet(w, T)
  BY <1>1, <1>2, SumOfMultiples
<1>7. SumFunctionOnSet(g, T) <= SumFunctionOnSet(f, T)
  BY <1>1, <1>2, SumIsMonotonic
<1>8. SumFunctionOnSet(f, T) <= SumFunctionOnSet(h, T)
  BY <1>1, <1>2, SumIsMonotonic
<1>9. WeightOf(values, w) # 0 => Ratio(SumFunction(f), WeightOf(values, w)) \in low .. high
  BY <1>1, <1>3, <1>5, <1>6, <1>7, <1>8, RatioBetween
<1> QED BY <1>4, <1>9

\* A weighted mean rises with its figures.
LEMMA MeanRises ==
    ASSUME NEW values, NEW better, NEW w, IsWeights(w), AreParts(values, w), AreParts(better, w),
           \A n \in DOMAIN w : /\ (values[n] = None) = (better[n] = None)
                               /\ values[n] # None => values[n] <= better[n]
    PROVE  /\ WeightOf(values, w) = WeightOf(better, w)
           /\ WeightOf(values, w) # 0 => WeightedMean(values, w) <= WeightedMean(better, w)
<1> DEFINE T == There(values, w)
           f == [n \in T |-> values[n] * w[n]]
           g == [n \in T |-> better[n] * w[n]]
<1>1. T = There(better, w)
  BY DEF There
<1>2. /\ IsFiniteSet(T) /\ WeightOf(values, w) \in Nat /\ WeightOf(values, w) = SumFunctionOnSet(w, T)
      /\ SumFunction(f) \in Int
      /\ WeightedMean(values, w) =
            IF WeightOf(values, w) = 0 THEN None ELSE Ratio(SumFunction(f), WeightOf(values, w))
  BY PartsAdd
<1>3. /\ WeightOf(better, w) = SumFunctionOnSet(w, T)
      /\ SumFunction(g) \in Int
      /\ WeightedMean(better, w) =
            IF WeightOf(better, w) = 0 THEN None ELSE Ratio(SumFunction(g), WeightOf(better, w))
  BY <1>1, PartsAdd
<1>4. ASSUME NEW n \in T PROVE f[n] \in Int /\ g[n] \in Int /\ f[n] <= g[n]
  <2>1. w[n] \in Nat /\ values[n] \in Int /\ better[n] \in Int /\ values[n] <= better[n]
    BY DEF There, IsWeights, AreParts
  <2>2. values[n] * w[n] <= better[n] * w[n]
    BY <2>1, Products
  <2> QED BY <2>1, <2>2
<1>5. SumFunction(f) = SumFunctionOnSet(f, T) /\ SumFunction(g) = SumFunctionOnSet(g, T)
  BY DEF SumFunction
<1> HIDE DEF T, f, g
<1>6. SumFunctionOnSet(f, T) <= SumFunctionOnSet(g, T)
  BY <1>2, <1>4, SumIsMonotonic
<1>7. WeightOf(values, w) # 0 =>
        Ratio(SumFunction(f), WeightOf(values, w)) <= Ratio(SumFunction(g), WeightOf(better, w))
  BY <1>2, <1>3, <1>5, <1>6, RatioRises
<1>8. WeightOf(values, w) = WeightOf(better, w)
  BY <1>2, <1>3
<1> QED BY <1>2, <1>3, <1>7, <1>8

-----------------------------------------------------------------------------
(* Order statistics.                                                       *)

\* Figures of the members of a finite set.
IsFigure(f) == IsFiniteSet(DOMAIN f) /\ \A x \in DOMAIN f : f[x] \in Int

\* The values that at least k members do not exceed.
Reaching(f, k) == {v \in Range(f) : Cardinality({x \in DOMAIN f : f[x] <= v}) >= k}

\* A function has no more values than places.
LEMMA ValuesAreFinite ==
    ASSUME NEW f, IsFiniteSet(DOMAIN f)
    PROVE  IsFiniteSet(Range(f))
<1> DEFINE g == [x \in DOMAIN f |-> f[x]]
<1>1. g \in Surjection(DOMAIN f, Range(f))
  BY DEF Surjection, Range
<1> QED BY <1>1, FS_Surjection

\* There is one for each rank, the figure of a member.
LEMMA RankedIs ==
    ASSUME NEW f, IsFigure(f), NEW k \in Int, k <= Cardinality(DOMAIN f), DOMAIN f # {}
    PROVE  /\ Ranked(f, k) \in Reaching(f, k) /\ Ranked(f, k) \in Int
           /\ Ranked(f, k) \in Range(f)
           /\ \A v \in Reaching(f, k) : Ranked(f, k) <= v
<1> DEFINE R == Range(f)
<1>1. R = {f[x] : x \in DOMAIN f}
  BY DEF Range
<1>2. IsFiniteSet(R) /\ R \subseteq Int /\ R # {}
  BY <1>1, ValuesAreFinite DEF IsFigure
<1> DEFINE top == Max(R)
<1>3. top \in R /\ \A v \in R : v <= top
  BY <1>2, MaxOfSet
<1>4. {x \in DOMAIN f : f[x] <= top} = DOMAIN f
  BY <1>1, <1>3
<1> HIDE DEF R, top
<1>5. top \in Reaching(f, k)
  BY <1>3, <1>4 DEF Reaching, R
<1>6. IsFiniteSet(Reaching(f, k)) /\ Reaching(f, k) \subseteq Int /\ Reaching(f, k) \subseteq R
  <2>1. Reaching(f, k) \subseteq R
    BY DEF Reaching, R
  <2> QED BY <2>1, <1>2, FS_Subset
<1>7. Ranked(f, k) = Min(Reaching(f, k))
  BY DEF Ranked, Reaching
<1>8. Min(Reaching(f, k)) \in Reaching(f, k) /\ \A v \in Reaching(f, k) : Min(Reaching(f, k)) <= v
  BY <1>5, <1>6, MinOfSet
<1> QED BY <1>6, <1>7, <1>8 DEF R

\* A later rank is no less.
LEMMA RankedRises ==
    ASSUME NEW f, IsFigure(f), NEW j \in Int, NEW k \in Int, j <= k, k <= Cardinality(DOMAIN f), DOMAIN f # {}
    PROVE  Ranked(f, j) <= Ranked(f, k)
<1>1. Ranked(f, k) \in Reaching(f, k)
  BY RankedIs
<1>2. Ranked(f, k) \in Reaching(f, j)
  <2>1. \A v \in Range(f) : Cardinality({x \in DOMAIN f : f[x] <= v}) \in Int
    <3> TAKE v \in Range(f)
    <3>1. IsFiniteSet({x \in DOMAIN f : f[x] <= v})
      BY FS_Subset DEF IsFigure
    <3> QED BY <3>1, FS_CardinalityType
  <2> QED BY <1>1, <2>1 DEF Reaching
<1>3. Cardinality(DOMAIN f) \in Int
  BY FS_CardinalityType DEF IsFigure
<1> QED BY <1>2, <1>3, RankedIs

\* The ranks a percentile lies between, and how far it is from the first.
Place(f, p) == (Cardinality(DOMAIN f) - 1) * p
\* The ranks a percentile lies between.
Below(f, p) == Place(f, p) \div 100 + 1
Above(f, p) == Min({Place(f, p) \div 100 + 2, Cardinality(DOMAIN f)})

\* They are ranks of the figures.
LEMMA PlaceIs ==
    ASSUME NEW f, IsFigure(f), DOMAIN f # {}, NEW p \in 0 .. 100
    PROVE  /\ Place(f, p) \in Int /\ Place(f, p) % 100 \in 0 .. 99
           /\ Below(f, p) \in 1 .. Cardinality(DOMAIN f)
           /\ Above(f, p) \in Below(f, p) .. Cardinality(DOMAIN f)
           /\ Place(f, p) = 100 * (Below(f, p) - 1) + (Place(f, p) % 100)
           /\ Below(f, p) < Cardinality(DOMAIN f) => Above(f, p) = Below(f, p) + 1
           /\ Cardinality(DOMAIN f) \in Int
<1> DEFINE n == Cardinality(DOMAIN f)
<1>1. n \in Nat /\ n >= 1
  BY FS_CardinalityType, FS_EmptySet DEF IsFigure
<1>2. Place(f, p) = (n - 1) * p
  BY DEF Place
<1> HIDE DEF n
<1>3. Place(f, p) \in Int /\ 0 <= Place(f, p) /\ Place(f, p) <= (n - 1) * 100
  BY <1>1, <1>2, Products
<1> DEFINE P == Place(f, p)
           q == P \div 100
<1> HIDE DEF P
<1>4. P \in Int /\ 0 <= P /\ P <= (n - 1) * 100
  BY <1>3 DEF P
<1>5. q \in Int /\ 0 <= q /\ q <= n - 1 /\ P = 100 * q + (P % 100) /\ P % 100 \in 0 .. 99
  <2>1. P \div 100 \in Int /\ P = 100 * (P \div 100) + (P % 100) /\ P % 100 \in 0 .. 99
    BY <1>4, Remainder
  <2>2. 0 <= P \div 100
    BY <1>4, <2>1
  <2>3. P \div 100 <= n - 1
    BY <1>1, <1>4, <2>1
  <2> QED BY <2>1, <2>2, <2>3
<1>6. Below(f, p) = q + 1 /\ Above(f, p) = Min({q + 2, n})
  BY DEF Below, Above, P, n
<1> HIDE DEF q
<1>7. Above(f, p) = IF q + 2 <= n THEN q + 2 ELSE n
  BY <1>1, <1>5, <1>6, MinOfTwo
<1>8. /\ Below(f, p) \in 1 .. n /\ Above(f, p) \in Below(f, p) .. n
      /\ P = 100 * (Below(f, p) - 1) + (P % 100)
      /\ Below(f, p) < n => Above(f, p) = Below(f, p) + 1
  BY <1>1, <1>5, <1>6, <1>7
<1> QED BY <1>1, <1>4, <1>5, <1>8 DEF P, n

\* A percentile lies between two ranks, in the proportion of its place.
LEMMA PercentileIs ==
    ASSUME NEW f, IsFigure(f), DOMAIN f # {}, NEW p \in 0 .. 100
    PROVE  /\ Percentile(f, p) = Ranked(f, Below(f, p))
                 + Ratio((Ranked(f, Above(f, p)) - Ranked(f, Below(f, p))) * (Place(f, p) % 100), 100)
           /\ Ranked(f, Below(f, p)) \in Range(f) /\ Ranked(f, Above(f, p)) \in Range(f)
           /\ Ranked(f, Below(f, p)) \in Int /\ Ranked(f, Above(f, p)) \in Int
           /\ Percentile(f, p) \in Ranked(f, Below(f, p)) .. Ranked(f, Above(f, p))
<1> DEFINE a == Ranked(f, Below(f, p))
           b == Ranked(f, Above(f, p))
           r == Place(f, p) % 100
<1>1. Percentile(f, p) = a + Ratio((b - a) * r, 100)
  BY DEF Percentile, Interpolated, Below, Above, Place
<1>2. a \in Int /\ b \in Int /\ a \in Range(f) /\ b \in Range(f)
  BY PlaceIs, RankedIs
<1>3. a <= b
  BY PlaceIs, RankedRises
<1>4. r \in 0 .. 99
  BY PlaceIs
<1> HIDE DEF a, b, r
<1>5. Ratio((b - a) * r, 100) \in 0 .. b - a
  <2>1. b - a \in Int /\ b - a >= 0 /\ r \in Int /\ 0 <= r /\ r <= 100
    BY <1>2, <1>3, <1>4
  <2> DEFINE x == b - a
  <2> HIDE DEF x
  <2>2. Ratio(x * r, 100) \in 0 .. x
    <3>1. x \in Int /\ x >= 0 /\ 100 \in Int /\ 100 > 0
      BY <2>1 DEF x
    <3> QED BY <2>1, <3>1, RatioOfPart
  <2> QED BY <2>2 DEF x
<1>6. Percentile(f, p) \in a .. b
  BY <1>1, <1>2, <1>5
<1> QED BY <1>1, <1>2, <1>6 DEF a, b, r

\* A percentile is a figure between the bounds of the figures.
LEMMA PercentileBetween ==
    ASSUME NEW f, IsFigure(f), DOMAIN f # {}, NEW p \in 0 .. 100, NEW low \in Int, NEW high \in Int,
           \A x \in DOMAIN f : low <= f[x] /\ f[x] <= high
    PROVE  Percentile(f, p) \in low .. high
<1>1. \A v \in Range(f) : v \in low .. high
  BY DEF Range, IsFigure
<1> QED BY <1>1, PercentileIs

\* It is a number, at any rate.
LEMMA PercentileIsInt ==
    ASSUME NEW f, IsFigure(f), NEW p \in 0 .. 100
    PROVE  Percentile(f, p) \in Int \cup {None}
<1>1. CASE DOMAIN f = {}
  BY <1>1 DEF Percentile
<1>2. CASE DOMAIN f # {}
  BY <1>2, PercentileIs
<1> QED BY <1>1, <1>2

\* A higher percentile is no less.
LEMMA PercentileRises ==
    ASSUME NEW f, IsFigure(f), DOMAIN f # {}, NEW p \in 0 .. 100, NEW q \in 0 .. 100, p <= q
    PROVE  Percentile(f, p) <= Percentile(f, q)
<1> DEFINE i == Below(f, p)
           j == Below(f, q)
           n == Cardinality(DOMAIN f)
<1>1. n \in Nat /\ n >= 1
  BY FS_CardinalityType, FS_EmptySet DEF IsFigure
<1>2. Place(f, p) <= Place(f, q) /\ Place(f, p) \in Int /\ Place(f, q) \in Int
  BY <1>1, Products DEF Place
<1>3. i \in Int /\ j \in Int /\ i <= j /\ j <= n
  <2>1. Place(f, p) \div 100 <= Place(f, q) \div 100
    BY <1>2, QuotientRises
  <2>2. Place(f, p) \div 100 \in Int /\ Place(f, q) \div 100 \in Int
    BY <1>2, Quotient
  <2>3. i = Place(f, p) \div 100 + 1 /\ j = Place(f, q) \div 100 + 1
    BY DEF Below
  <2>4. j <= n
    BY <1>1, PlaceIs
  <2> HIDE DEF i, j
  <2> QED BY <2>1, <2>2, <2>3, <2>4
<1>4. CASE i = j
  <2>1. Place(f, p) % 100 <= Place(f, q) % 100
    <3>1. /\ Place(f, p) = 100 * (i - 1) + (Place(f, p) % 100) /\ Place(f, p) % 100 \in 0 .. 99
          /\ Place(f, q) = 100 * (j - 1) + (Place(f, q) % 100) /\ Place(f, q) % 100 \in 0 .. 99
      BY PlaceIs
    <3>2. i = j
      BY <1>4
    <3> HIDE DEF i, j
    <3> QED BY <1>2, <1>3, <3>1, <3>2
  <2>2. Above(f, p) = Above(f, q)
    <3>1. Place(f, p) \div 100 = Place(f, q) \div 100
      <4>1. Place(f, p) \div 100 \in Int /\ Place(f, q) \div 100 \in Int
        BY <1>2, Quotient
      <4>2. i = Place(f, p) \div 100 + 1 /\ j = Place(f, q) \div 100 + 1
        BY DEF Below
      <4>3. i = j
        BY <1>4
      <4> HIDE DEF i, j
      <4> QED BY <4>1, <4>2, <4>3
    <3> QED BY <3>1 DEF Above
  <2> DEFINE a == Ranked(f, i)
             b == Ranked(f, Above(f, p))
             r == Place(f, p) % 100
             s == Place(f, q) % 100
  <2>3. a \in Int /\ b \in Int /\ a <= b
    BY PercentileIs
  <2>4. r \in Int /\ s \in Int /\ r <= s
    BY <2>1, PlaceIs
  <2>5. Percentile(f, p) = a + Ratio((b - a) * r, 100) /\ Percentile(f, q) = a + Ratio((b - a) * s, 100)
    BY <1>4, <2>2, PercentileIs
  <2> HIDE DEF a, b, r, s
  <2>6. (b - a) * r \in Int /\ (b - a) * s \in Int /\ (b - a) * r <= (b - a) * s
    BY <2>3, <2>4, Products
  <2>7. Ratio((b - a) * r, 100) <= Ratio((b - a) * s, 100)
    BY <2>6, RatioRises
  <2>8. Ratio((b - a) * r, 100) \in Int /\ Ratio((b - a) * s, 100) \in Int
    BY <2>6, RatioIsInt
  <2> QED BY <2>3, <2>5, <2>7, <2>8
<1>5. CASE i < j
  <2>1. Above(f, p) <= j
    <3>1. i < n => Above(f, p) = i + 1
      BY PlaceIs
    <3>2. i < j
      BY <1>5
    <3> HIDE DEF i, j, n
    <3> QED BY <1>1, <1>3, <3>1, <3>2
  <2>2. Ranked(f, Above(f, p)) <= Ranked(f, j)
    BY <2>1, PlaceIs, RankedRises
  <2>3. Percentile(f, p) <= Ranked(f, Above(f, p)) /\ Ranked(f, j) <= Percentile(f, q)
    BY PercentileIs
  <2>4. /\ Percentile(f, p) \in Int /\ Percentile(f, q) \in Int
        /\ Ranked(f, Above(f, p)) \in Int /\ Ranked(f, j) \in Int
    BY PercentileIs
  <2> QED BY <2>2, <2>3, <2>4
<1> QED BY <1>3, <1>4, <1>5

\* The first numbers are finitely many.
LEMMA FirstNumbers ==
    ASSUME NEW S, NEW n \in Int, S \subseteq 1 .. n
    PROVE  IsFiniteSet(S) /\ S \subseteq Int
<1> DEFINE one == 1
<1>1. one \in Int /\ S \subseteq one .. n /\ S \subseteq Int
  OBVIOUS
<1> HIDE DEF one
<1> QED BY <1>1, FS_Interval, FS_Subset

\* A function of the first numbers has finitely many values.
LEMMA SequenceIsFinite ==
    ASSUME NEW s, NEW k \in Nat, DOMAIN s = 1 .. k
    PROVE  IsFiniteSet(Range(s))
BY ValuesAreFinite, FS_Interval

\* Figures kept between nothing and all.
LEMMA Kept ==
    ASSUME NEW y \in Int
    PROVE  /\ Bounded(0, y, 1000) \in 0 .. 1000
           /\ Bounded(0, y, 100) \in 0 .. 100
<1>1. Bounded(0, y, 1000) = IF y >= 1000 THEN (IF 0 >= 1000 THEN 0 ELSE 1000) ELSE IF y <= 0 THEN 0 ELSE y
  BY BoundedIs
<1>2. Bounded(0, y, 100) = IF y >= 100 THEN (IF 0 >= 100 THEN 0 ELSE 100) ELSE IF y <= 0 THEN 0 ELSE y
  BY BoundedIs
<1> QED BY <1>1, <1>2

-----------------------------------------------------------------------------
(* Weights, levels and slices.                                             *)

\* Weights of some of the parts are weights, and not all of them are nothing.
LEMMA AreWeightsIs ==
    ASSUME NEW w, NEW parts, IsFiniteSet(parts), AreWeights(w, parts)
    PROVE  IsWeights(w) /\ DOMAIN w \subseteq parts /\ SumFunctionOnSet(w, DOMAIN w) = 100
<1>1. IsFiniteSet(DOMAIN w)
  BY FS_Subset DEF AreWeights
<1> QED BY <1>1 DEF AreWeights, IsWeights, SumFunction

\* What is known of such parts has a weight in hundredths.
LEMMA WeightOfSome ==
    ASSUME NEW w, NEW parts, IsFiniteSet(parts), AreWeights(w, parts), NEW values, AreParts(values, w)
    PROVE  WeightOf(values, w) \in 0 .. 100
<1>1. IsWeights(w) /\ SumFunctionOnSet(w, DOMAIN w) = 100
  BY AreWeightsIs
<1>2. WeightOf(values, w) \in Nat /\ WeightOf(values, w) = SumFunctionOnSet(w, There(values, w))
  BY <1>1, PartsAdd
<1>3. There(values, w) \in SUBSET DOMAIN w
  BY DEF There
<1>4. SumFunctionOnSet(w, There(values, w)) <= SumFunctionOnSet(w, DOMAIN w)
  BY <1>1, <1>3, SumOfPart DEF IsWeights
<1> QED BY <1>1, <1>2, <1>4

\* A level of trust.
IsLevel(l) == l \in {"insufficient", "low", "medium", "high"}

\* The levels there are.
LEMMA LevelsAre ==
    /\ ToSet(Levels) = {"insufficient", "low", "medium", "high"}
    /\ DOMAIN Levels = 1 .. 4
    /\ LevelOrder("insufficient") = 1 /\ LevelOrder("low") = 2 /\ LevelOrder("medium") = 3 /\ LevelOrder("high") = 4
    /\ \A l : IsLevel(l) => LevelOrder(l) \in 1 .. 4 /\ Levels[LevelOrder(l)] = l
<1>1. DOMAIN Levels = 1 .. 4 /\ Levels[1] = "insufficient" /\ Levels[2] = "low" /\ Levels[3] = "medium" /\ Levels[4] = "high"
  BY DEF Levels
<1>2. \A i \in 1 .. 4 : i = 1 \/ i = 2 \/ i = 3 \/ i = 4
  OBVIOUS
<1>3. ToSet(Levels) = {"insufficient", "low", "medium", "high"}
  BY <1>1, <1>2 DEF ToSet
<1>4. ASSUME NEW k \in 1 .. 4 PROVE LevelOrder(Levels[k]) = k
  <2>1. \A i \in 1 .. 4 : Levels[i] = Levels[k] => i = k
    BY <1>1, <1>2, <1>4
  <2> QED BY <1>1, <2>1 DEF LevelOrder
<1> QED BY <1>1, <1>2, <1>3, <1>4 DEF IsLevel

\* The levels that scores and caps give.
LEMMA LevelsStay ==
    ASSUME NEW score, NEW c, NEW a, NEW b, IsLevel(a), IsLevel(b)
    PROVE  IsLevel(LevelForScore(score, c)) /\ IsLevel(CapLevel(a, b))
BY DEF LevelForScore, CapLevel, IsLevel

\* A number, or nothing.
IsMaybe(x) == x = None \/ x \in Int

\* A liquidity, in points.
IsDepth(x) == x = None \/ x \in 0 .. 100

\* What is typed in a slice.
IsFigured(s) ==
    /\ s.samples \in Nat /\ IsLevel(s.confidence) /\ IsMaybe(s.liquidity) /\ IsDepth(s.liquidity)
    /\ \A p \in {"p10", "p25", "p50", "p75", "p90"} : IsMaybe(s.price[p]) /\ IsMaybe(s.unit[p])

\* Observations with their figures.
AreFigured(os) ==
    IsFiniteSet(os) /\ \A o \in os : \A f \in {"id", "day", "firstSeen", "area", "price", "unit"} : o[f] \in Int

\* A part of them has percentiles.
LEMMA PercentilesAreFigures ==
    ASSUME NEW f, IsFigure(f), NEW p \in {"p10", "p25", "p50", "p75", "p90"}
    PROVE  IsMaybe(PercentileSet(f)[p])
BY PercentileIsInt DEF PercentileSet, IsMaybe

\* Figures of a part of the observations.
LEMMA FiguresOfPart ==
    ASSUME NEW os, AreFigured(os), NEW S, S \subseteq os
    PROVE  /\ IsFiniteSet(S) /\ Cardinality(S) \in Nat
           /\ IsFigure([o \in S |-> o.price]) /\ IsFigure([o \in S |-> o.unit])
<1>1. IsFiniteSet(S)
  BY FS_Subset DEF AreFigured
<1> QED BY <1>1, FS_CardinalityType DEF AreFigured, IsFigure

\* The entities of some observations are no more than the observations.
LEMMA EntitiesAreFinite ==
    ASSUME NEW S, IsFiniteSet(S)
    PROVE  IsFiniteSet({Entity(o) : o \in S})
<1> DEFINE f == [o \in S |-> Entity(o)]
<1>1. Range(f) = {Entity(o) : o \in S}
  BY DEF Range
<1>2. IsFiniteSet(Range(f))
  BY ValuesAreFinite
<1> QED BY <1>1, <1>2

\* What listings have been doing is counted, and its shares are numbers.
LEMMA MetricsAreFigures ==
    ASSUME NEW all, AreFigured(all), NEW key, NEW now \in Int
    PROVE  LET m == ListingMetrics(all, key, now)
           IN  /\ m.active \in Nat /\ m.new \in Nat /\ m.exits \in Nat
               /\ IsMaybe(m.cutRatio) /\ IsMaybe(m.daysOnMarket) /\ IsMaybe(m.relisting)
<1> DEFINE scoped == {o \in all : Matches(o, key) /\ o.day <= now}
           window == WindowOf(scoped, now, key.days)
           current == TrustedState(scoped, now)
           entities == {Entity(o) : o \in scoped}
           of(e) == {o \in scoped : Entity(o) = e}
           follows(p, o) == Later(p, o) /\ ~\E q \in of(Entity(o)) : Later(q, o) /\ Later(p, q)
           cohort == {Entity(o) : o \in window}
           cut == {Entity(o) : o \in {o \in window : "PRICE_CUT" \in o.events}}
                  \cup {e \in entities : \E o, p \in of(e) : follows(p, o) /\ p.price < o.price}
           relisted == {Entity(o) : o \in {o \in window : "RELISTED" \in o.events}}
           new == {Entity(o) : o \in {o \in window : "NEW" \in o.events \/ o.firstSeen > now - key.days}}
           gone == {o \in current : o.complete /\ o.status \in {"missing", "inactive"}}
           days == [o \in Active(current) |-> Max({0, now + 1 - o.firstSeen})]
           m == ListingMetrics(all, key, now)
<1>1. /\ m.active = Cardinality(Active(current)) /\ m.new = Cardinality(new) /\ m.exits = Cardinality(gone)
      /\ m.cutRatio = IF cohort = {} THEN None ELSE Share(Cardinality(cut \cap cohort), Cardinality(cohort))
      /\ m.daysOnMarket = Median(days)
      /\ m.relisting = IF new \cup relisted = {} THEN None
                       ELSE Share(Cardinality(relisted), Cardinality(new \cup relisted))
  BY DEF ListingMetrics
<1>2. scoped \subseteq all /\ window \subseteq all /\ current \subseteq all /\ Active(current) \subseteq all /\ gone \subseteq all
  BY DEF WindowOf, TrustedState, Active
<1>3. IsFiniteSet(window) /\ IsFiniteSet(Active(current)) /\ IsFiniteSet(gone)
  BY <1>2, FiguresOfPart
<1>4. IsFiniteSet(cohort) /\ IsFiniteSet(relisted) /\ IsFiniteSet(new)
  <2>1. /\ IsFiniteSet({o \in window : "RELISTED" \in o.events})
        /\ IsFiniteSet({o \in window : "NEW" \in o.events \/ o.firstSeen > now - key.days})
    BY <1>3, FS_Subset
  <2> QED BY <1>3, <2>1, EntitiesAreFinite
<1>5. IsFigure(days)
  <2>1. \A o \in Active(current) : o.firstSeen \in Int
    BY <1>2 DEF AreFigured
  <2>2. \A o \in Active(current) : Max({0, now + 1 - o.firstSeen}) \in Int
    BY <2>1, MaxOfTwo
  <2> QED BY <1>3, <2>2 DEF IsFigure
<1> HIDE DEF scoped, window, current, entities, cohort, cut, relisted, new, gone, days, m
<1>6. m.active \in Nat /\ m.new \in Nat /\ m.exits \in Nat
  BY <1>1, <1>3, <1>4, FS_CardinalityType
<1>7. ASSUME NEW A, NEW B, IsFiniteSet(A), IsFiniteSet(B), B # {} PROVE Share(Cardinality(A), Cardinality(B)) \in Int
  <2>1. Cardinality(A) \in Nat /\ Cardinality(B) \in Nat /\ Cardinality(B) > 0
    BY <1>7, FS_CardinalityType, FS_EmptySet
  <2> QED BY <2>1, RatioIsInt DEF Share
<1>8. IsFiniteSet(cut \cap cohort) /\ IsFiniteSet(new \cup relisted)
  BY <1>4, FS_Subset, FS_Union
<1>9. IsMaybe(m.cutRatio) /\ IsMaybe(m.relisting)
  BY <1>1, <1>4, <1>7, <1>8 DEF IsMaybe
<1>10. IsMaybe(m.daysOnMarket)
  BY <1>1, <1>5, PercentileIsInt DEF IsMaybe, Median
<1> QED BY <1>6, <1>9, <1>10 DEF m

\* A weighted mean over enough of the weight is a number.
LEMMA MeanOfEnough ==
    ASSUME NEW values, NEW w, IsWeights(w), AreParts(values, w)
    PROVE  /\ WeightOf(values, w) \in Nat
           /\ IsMaybe(WeightedMean(values, w))
           /\ WeightOf(values, w) > 0 => WeightedMean(values, w) \in Int
<1> DEFINE T == There(values, w)
           sum == SumFunction([n \in T |-> values[n] * w[n]])
           total == WeightOf(values, w)
<1>1. /\ total \in Nat /\ sum \in Int
      /\ WeightedMean(values, w) = IF total = 0 THEN None ELSE Ratio(sum, total)
  BY PartsAdd
<1> HIDE DEF sum, total
<1>2. total # 0 => Ratio(sum, total) \in Int
  BY <1>1, RatioIsInt
<1>3. total \in Nat /\ IsMaybe(WeightedMean(values, w)) /\ (total > 0 => WeightedMean(values, w) \in Int)
  BY <1>1, <1>2 DEF IsMaybe
<1> QED BY <1>3 DEF total

\* A share of something, kept between nothing and all of it, and the rest of it.
Part(y) == Bounded(0, y, 1000)
PartShare(x, d) == Part(Share(x, d))
PartRest(x, d) == Part(1000 - Share(x, d))
\* They are thousandths.
IsPart(x) == x \in 0 .. 1000

\* Whatever the numbers.
LEMMA PartsAreKept ==
    ASSUME NEW x \in Int, NEW d \in Nat \ {0}
    PROVE  IsPart(PartShare(x, d)) /\ IsPart(PartRest(x, d))
<1>1. Share(x, d) \in Int
  BY RatioIsInt DEF Share
<1>2. 1000 - Share(x, d) \in Int
  BY <1>1
<1>3. ASSUME NEW y \in Int PROVE IsPart(Part(y))
  BY Kept DEF IsPart, Part
<1>4. \A y \in Int : IsPart(Part(y))
  BY <1>3
<1> QED BY <1>1, <1>2, <1>4 DEF PartShare, PartRest

\* A weighted mean of thousandths, to hundredths.
LEMMA MeanOfThousandths ==
    ASSUME NEW values, NEW w, IsWeights(w), \A n \in DOMAIN w : values[n] # None => IsPart(values[n])
    PROVE  /\ AreParts(values, w)
           /\ WeightOf(values, w) \in Nat
           /\ WeightOf(values, w) # 0 => IsPart(WeightedMean(values, w)) /\ Ratio(WeightedMean(values, w), 10) \in 0 .. 100
<1> DEFINE a == 0
           b == 1000
           x == WeightedMean(values, w)
<1>1. a \in Int /\ b \in Int /\ \A y : IsPart(y) <=> y \in a .. b
  BY DEF IsPart
<1> HIDE DEF a, b, x
<1>2. AreParts(values, w) /\ \A n \in DOMAIN w : values[n] # None => a <= values[n] /\ values[n] <= b
  BY <1>1 DEF AreParts
<1>3. WeightOf(values, w) \in Nat
  BY <1>2, PartsAdd
<1>4. WeightOf(values, w) # 0 => IsPart(x)
  BY <1>1, <1>2, MeanBetween DEF x
<1>5. ASSUME IsPart(x) PROVE Ratio(x, 10) \in 0 .. 100
  <2> DEFINE low == 0
             high == 100
             d == 10
  <2>1. x \in Int /\ low \in Int /\ high \in Int /\ d \in Int /\ d > 0 /\ low * d <= x /\ x <= high * d
    BY <1>5 DEF IsPart
  <2> HIDE DEF low, high, d
  <2>2. Ratio(x, d) \in low .. high
    BY <2>1, RatioBetween
  <2> QED BY <2>2 DEF low, high, d
<1> QED BY <1>2, <1>3, <1>4, <1>5 DEF x

\* Liquidity is between 0 and 100, or not known.
LEMMA LiquidityIs ==
    ASSUME NEW m, m.active \in Nat, m.new \in Nat, m.exits \in Nat,
           IsMaybe(m.cutRatio), IsMaybe(m.daysOnMarket), IsMaybe(m.relisting)
    PROVE  Liquidity(m) = None \/ Liquidity(m) \in 0 .. 100
<1> DEFINE c == MarketConfig.liquidity
           k == 1000
           inverse(x, whole) == IF x = None THEN None ELSE PartRest(x, whole)
           parts == [inventory_depth |-> PartShare(m.active, c.inventory),
                  new_listing_velocity |-> PartShare(m.new, c.new),
                  listing_exit_velocity |-> PartShare(m.exits, c.exits),
                  days_on_market_speed |-> inverse(m.daysOnMarket, c.days),
                  price_stability |-> inverse(m.cutRatio, k),
                  relisting_stability |-> inverse(m.relisting, k),
                  buyer_pool_depth |-> None]
           w == c.weights
<1>1. /\ AreWeights(w, LiquidityParts)
      /\ c.available \in Nat \ {0} /\ c.inventory \in Nat \ {0} /\ c.new \in Nat \ {0}
      /\ c.exits \in Nat \ {0} /\ c.days \in Nat \ {0} /\ k \in Nat \ {0}
  BY MarketConfigIsValid DEF IsMarketConfig
<1>2. IsFiniteSet(LiquidityParts)
  <2> DEFINE s == <<"inventory_depth", "new_listing_velocity", "listing_exit_velocity", "days_on_market_speed",
                    "price_stability", "relisting_stability", "buyer_pool_depth">>
  <2>1. DOMAIN s = 1 .. 7 /\ Range(s) = LiquidityParts
    BY DEF Range, LiquidityParts
  <2> HIDE DEF s
  <2> QED BY <2>1, SequenceIsFinite
<1>3. IsWeights(w) /\ DOMAIN w \subseteq LiquidityParts
  BY <1>1, <1>2, AreWeightsIs
<1>4. Liquidity(m) = IF m = None \/ WeightOf(parts, w) < c.available THEN None ELSE Ratio(WeightedMean(parts, w), 10)
  BY DEF Liquidity, PartShare, PartRest, Part
<1> HIDE DEF c, k
<1>5. /\ IsPart(PartShare(m.active, c.inventory)) /\ IsPart(PartShare(m.new, c.new)) /\ IsPart(PartShare(m.exits, c.exits))
  BY <1>1, PartsAreKept
<1>6. ASSUME NEW x, IsMaybe(x), NEW d \in Nat \ {0} PROVE inverse(x, d) # None => IsPart(inverse(x, d))
  BY <1>6, PartsAreKept DEF IsMaybe
<1>7. /\ inverse(m.daysOnMarket, c.days) # None => IsPart(inverse(m.daysOnMarket, c.days))
      /\ inverse(m.cutRatio, k) # None => IsPart(inverse(m.cutRatio, k))
      /\ inverse(m.relisting, k) # None => IsPart(inverse(m.relisting, k))
  BY <1>1, <1>6
<1> HIDE DEF inverse
<1>8. \A n \in LiquidityParts : parts[n] # None => IsPart(parts[n])
  BY <1>5, <1>7 DEF LiquidityParts
<1> HIDE DEF parts, w
<1>9. /\ WeightOf(parts, w) \in Nat
      /\ WeightOf(parts, w) # 0 => Ratio(WeightedMean(parts, w), 10) \in 0 .. 100
  BY <1>3, <1>8, MeanOfThousandths
<1> QED BY <1>1, <1>4, <1>9

\* The observations of a slice are some of those there are.
LEMMA SliceIsFigured ==
    ASSUME NEW all, AreFigured(all), NEW key, NEW now \in Int
    PROVE  IsFigured(ComputeSlice(all, key, now))
<1> DEFINE S == LatestOf({o \in WindowOf(all, now, key.days) : Matches(o, key)})
           p == OutliersOf([o \in S |-> o.price])
           u == OutliersOf([o \in S |-> o.unit])
           q == IF key.type # "listing" THEN None ELSE Liquidity(ListingMetrics(all, key, now))
           s == SliceOf(S, p, u, q, key, now)
<1>1. ComputeSlice(all, key, now) = s
  BY DEF ComputeSlice
<1>2. S \subseteq all
  BY DEF LatestOf, WindowOf
<1>3. Cardinality(S) \in Nat /\ IsFigure([o \in S \ p |-> o.price]) /\ IsFigure([o \in S \ u |-> o.unit])
  <2>1. S \ p \subseteq all /\ S \ u \subseteq all
    BY <1>2
  <2> HIDE DEF S, p, u
  <2> QED BY <1>2, <2>1, FiguresOfPart
<1>4. IsMaybe(q) /\ IsDepth(q)
  BY MetricsAreFigures, LiquidityIs DEF IsMaybe, IsDepth
<1> HIDE DEF S, p, u, q
<1>5. /\ s.samples = Cardinality(S) /\ s.liquidity = q
      /\ s.confidence = BaselineConfidence(S, p \cup u, now, key.days)
      /\ s.price = PercentileSet([o \in S \ p |-> o.price]) /\ s.unit = PercentileSet([o \in S \ u |-> o.unit])
  BY DEF SliceOf
<1>6. IsLevel(BaselineConfidence(S, p \cup u, now, key.days))
  BY LevelsStay DEF BaselineConfidence, IsLevel, LevelForScore, CapLevel
<1> HIDE DEF s
<1>7. \A n \in {"p10", "p25", "p50", "p75", "p90"} : IsMaybe(s.price[n]) /\ IsMaybe(s.unit[n])
  BY <1>3, <1>5, PercentilesAreFigures
<1> QED BY <1>1, <1>3, <1>4, <1>5, <1>6, <1>7 DEF IsFigured

\* A baseline with its figures.
IsBaseline(b) ==
    /\ b.samples \in Nat /\ IsLevel(b.confidence)
    /\ IsMaybe(b.p25) /\ IsMaybe(b.p50) /\ IsMaybe(b.p75) /\ IsMaybe(b.price) /\ IsMaybe(b.liquidity)

\* A slice of another place drawn upon.
LEMMA BlendIs ==
    ASSUME NEW x, IsMaybe(x), NEW y, IsMaybe(y), NEW w \in Int
    PROVE  IsMaybe(Blend(x, y, w))
<1>1. x \in Int /\ y \in Int => Ratio(x * w + y * (1000 - w), 1000) \in Int
  <2> DEFINE n == x * w + y * (1000 - w)
             d == 1000
  <2>1. x \in Int /\ y \in Int => n \in Int
    OBVIOUS
  <2>2. d \in Int /\ d > 0
    OBVIOUS
  <2> HIDE DEF n, d
  <2>3. n \in Int => Ratio(n, d) \in Int
    BY <2>2, RatioIsInt
  <2> QED BY <2>1, <2>3 DEF n, d
<1> QED BY <1>1 DEF Blend, IsMaybe

\* What a home falls back to is a slice or a blend of two.
LEMMA BaselineIs ==
    ASSUME NEW slices,
           \A n \in {"community", "submarket", "district", "shanghai"} : slices[n] = None \/ IsFigured(slices[n])
    PROVE  ResolveHierarchy(slices) = None \/ IsBaseline(ResolveHierarchy(slices))
<1> DEFINE f == MarketConfig.fallback
           as(level, s) == [level |-> level, confidence |-> s.confidence, samples |-> s.samples,
                            p25 |-> s.unit.p25, p50 |-> s.unit.p50, p75 |-> s.unit.p75,
                            price |-> s.price.p50, liquidity |-> s.liquidity]
           c == slices["community"]
           s == slices["submarket"]
           w == Share(c.samples, c.samples + f.prior)
           wider == <<<<"submarket", f.submarket>>, <<"district", f.district>>, <<"shanghai", f.district>>>>
           usable == {i \in DOMAIN wider : Usable(slices[wider[i][1]], wider[i][2])}
           blend == [level |-> "shrunk", samples |-> c.samples,
                     confidence |-> CapLevel(c.confidence, s.confidence),
                     p25 |-> Blend(c.unit.p25, s.unit.p25, w), p50 |-> Blend(c.unit.p50, s.unit.p50, w),
                     p75 |-> Blend(c.unit.p75, s.unit.p75, w), price |-> Blend(c.price.p50, s.price.p50, w),
                     liquidity |-> Blend(c.liquidity, s.liquidity, w)]
           i == Min(usable)
<1>1. ASSUME NEW x, IsFigured(x), NEW level PROVE IsBaseline(as(level, x))
  BY <1>1 DEF IsFigured, IsBaseline
<1>2. ASSUME c # None, s # None PROVE IsBaseline(blend)
  <2>1. IsFigured(c) /\ IsFigured(s)
    BY <1>2
  <2>2. w \in Int
    <3>1. c.samples \in Nat /\ f.prior \in Nat \ {0}
      BY <2>1, MarketConfigIsValid DEF IsFigured, IsMarketConfig
    <3> HIDE DEF c, f
    <3>2. 1000 * c.samples \in Int /\ c.samples + f.prior \in Int /\ c.samples + f.prior > 0
      BY <3>1
    <3> QED BY <3>2, RatioIsInt DEF Share
  <2> HIDE DEF c, s, w
  <2>3. IsLevel(CapLevel(c.confidence, s.confidence))
    BY <2>1, LevelsStay DEF IsFigured
  <2> QED BY <2>1, <2>2, <2>3, BlendIs DEF IsFigured, IsBaseline
<1>3. usable # {} => wider[i][1] \in {"submarket", "district", "shanghai"} /\ slices[wider[i][1]] # None
  <2>1. usable \subseteq 1 .. 3
    OBVIOUS
  <2>2. IsFiniteSet(usable) /\ usable \subseteq Int
    <3> DEFINE three == 3
    <3>1. usable \subseteq 1 .. three /\ three \in Int
      BY <2>1
    <3> HIDE DEF three, usable
    <3> QED BY <3>1, FirstNumbers
  <2>3. usable # {} => i \in usable
    <3> HIDE DEF usable
    <3> QED BY <2>2, MinOfSet
  <2>4. \A k \in usable : wider[k][1] \in {"submarket", "district", "shanghai"} /\ slices[wider[k][1]] # None
    <3>1. \A k \in 1 .. 3 : wider[k][1] \in {"submarket", "district", "shanghai"}
      OBVIOUS
    <3> HIDE DEF wider
    <3> QED BY <2>1, <3>1 DEF Usable
  <2> HIDE DEF usable, wider, i
  <2> QED BY <2>3, <2>4
<1>4. ResolveHierarchy(slices) =
        IF Usable(c, f.community) THEN as("community", c)
        ELSE IF c # None /\ c.samples > 0 /\ Usable(s, f.submarket) THEN blend
        ELSE IF usable = {} THEN None ELSE as(wider[i][1], slices[wider[i][1]])
  BY DEF ResolveHierarchy
<1>5. /\ Usable(c, f.community) => c # None
      /\ Usable(s, f.submarket) => s # None
  BY DEF Usable
<1> HIDE DEF as, blend, usable, wider, i, f
<1> QED BY <1>1, <1>2, <1>3, <1>4, <1>5

\* The baseline of a home's own segment, from slices with their figures.
LEMMA BestBaselineIs ==
    ASSUME NEW published, \A key \in DOMAIN published : IsFigured(published[key]), NEW t, NEW type
    PROVE  \/ BestBaseline(published, t, type) = None
           \/ IsBaseline(BestBaseline(published, t, type).baseline)
<1> DEFINE windows == ValuationConfig.comparables.windows
           key(level, days) ==
            [type |-> type, days |-> days, level |-> level, bucket |-> AreaBucket(t.area), layout |-> t.layout,
             district |-> IF level = "shanghai" THEN None ELSE t.district,
             submarket |-> IF level \in {"community", "submarket"} THEN t.submarket ELSE None,
             community |-> IF level = "community" THEN t.community ELSE None]
           slices(days) == [level \in {"community", "submarket", "district", "shanghai"} |->
             IF key(level, days) \in DOMAIN published THEN published[key(level, days)] ELSE None]
           found == {i \in DOMAIN windows : ResolveHierarchy(slices(windows[i])) # None}
           b == ResolveHierarchy(slices(windows[Min(found)]))
<1>1. BestBaseline(published, t, type) = IF found = {} THEN None ELSE [baseline |-> b, type |-> type]
  BY DEF BestBaseline
<1>2. \A days : ResolveHierarchy(slices(days)) = None \/ IsBaseline(ResolveHierarchy(slices(days)))
  <2> TAKE days
  <2>1. \A n \in {"community", "submarket", "district", "shanghai"} :
           slices(days)[n] = None \/ IsFigured(slices(days)[n])
    <3> HIDE DEF key
    <3> QED OBVIOUS
  <2> HIDE DEF slices
  <2> QED BY <2>1, BaselineIs
<1> HIDE DEF slices
<1>3. found # {} => b # None
  <2>1. windows \in Seq(Nat \ {0})
    BY ValuationConfigIsValid DEF IsComparableConfig
  <2>2. IsFiniteSet(found) /\ found \subseteq Int
    <3>1. found \subseteq 1 .. Len(windows) /\ Len(windows) \in Int
      BY <2>1
    <3> HIDE DEF found, windows
    <3> QED BY <3>1, FirstNumbers
  <2>3. found # {} => Min(found) \in found
    <3> HIDE DEF found
    <3> QED BY <2>2, MinOfSet
  <2> QED BY <2>3
<1> HIDE DEF found, b
<1>4. b = None \/ IsBaseline(b)
  BY <1>2 DEF b
<1> QED BY <1>1, <1>3, <1>4

-----------------------------------------------------------------------------
(* Comparables and fair value.                                             *)

\* All parts are there: the mean is a number.
LEMMA MeanOfAll ==
    ASSUME NEW values, NEW w, NEW parts, IsFiniteSet(parts), AreWeights(w, parts), \A n \in parts : values[n] \in Int
    PROVE  WeightedMean(values, w) \in Int
<1>1. IsWeights(w) /\ DOMAIN w \subseteq parts /\ SumFunctionOnSet(w, DOMAIN w) = 100
  BY AreWeightsIs
<1>2. \A n \in DOMAIN w : values[n] \in Int /\ values[n] # None
  BY <1>1, NoneIsNoNumber
<1>3. AreParts(values, w) /\ There(values, w) = DOMAIN w
  BY <1>2 DEF AreParts, There
<1>4. WeightOf(values, w) = SumFunctionOnSet(w, DOMAIN w)
  BY <1>1, <1>3, PartsAdd
<1>5. WeightOf(values, w) > 0
  BY <1>1, <1>4
<1> QED BY <1>1, <1>3, <1>5, MeanOfEnough

\* A home or a comparable with its figures.
IsTyped(o) ==
    /\ o.area \in Int /\ o.area > 0 /\ o.day \in Int /\ o.unit \in Int /\ o.trust \in Int
    /\ IsHome(o.home)

\* Differences are numbers; that of the ages may not be known.
LEMMA DifferencesAre ==
    ASSUME NEW t, IsTyped(t), NEW o, IsTyped(o)
    PROVE  /\ AreaDifference(t, o) \in Int
           /\ IsMaybe(AgeDifference(t, o))
<1>1. \A x, y \in Int : Distance(x, y) \in Int
  BY DEF Distance
<1>2. AreaDifference(t, o) \in Int
  <2> DEFINE n == 1000 * Distance(o.area, t.area)
             d == t.area
  <2>1. o.area \in Int /\ d \in Int /\ d > 0
    BY DEF IsTyped
  <2>2. n \in Int
    <3>1. Distance(o.area, t.area) \in Int
      BY <1>1, <2>1
    <3> QED BY <3>1
  <2>3. AreaDifference(t, o) = Ratio(n, d)
    BY DEF AreaDifference, Share
  <2> HIDE DEF n, d
  <2> QED BY <2>1, <2>2, <2>3, RatioIsInt
<1>3. ASSUME NEW h, IsHome(h) PROVE h.year = None \/ h.year \in Nat
  <2>1. \A n \in {"floors", "year", "metro", "bedrooms"} : h[n] = None \/ h[n] \in Nat
    BY <1>3 DEF IsHome
  <2> QED BY <2>1
<1>4. AgeDifference(t, o) = None \/ AgeDifference(t, o) \in Int
  <2>1. /\ t.home.year = None \/ t.home.year \in Nat
        /\ o.home.year = None \/ o.home.year \in Nat
    BY <1>3 DEF IsTyped
  <2>2. t.home.year # None /\ o.home.year # None => Distance(t.home.year, o.home.year) \in Int
    <3>1. \A n \in Nat : n \in Int
      OBVIOUS
    <3> QED BY ONLY <1>1, <2>1, <3>1, Zenon
  <2> QED BY <2>2 DEF AgeDifference
<1> QED BY <1>2, <1>4 DEF IsMaybe

\* What the configuration of the comparables gives.
LEMMA ComparableConfig ==
    LET c == ValuationConfig.comparables
    IN  /\ AreWeights(c.weights, SimilarityParts) /\ IsFiniteSet(SimilarityParts)
        /\ c.horizon \in Nat \ {0} /\ c.unknown \in Int /\ c.cross \in Int /\ c.adjacentSimilarity \in Int
        /\ \A n \in 1 .. 3 : c.multipliers[n] \in Int
        /\ c.transaction \in Int /\ c.baselineWeight \in Nat \ {0}
        /\ c.windows \in Seq(Nat \ {0}) /\ c.windows # <<>>
<1> DEFINE c == ValuationConfig.comparables
<1>1. IsComparableConfig(c)
  BY ValuationConfigIsValid
<1>2. IsFiniteSet(SimilarityParts)
  <2> DEFINE s == <<"geography", "community", "area", "layout", "building_age", "floor", "elevator", "orientation",
                    "freshness", "source_confidence">>
  <2>1. DOMAIN s = 1 .. 10 /\ Range(s) = SimilarityParts
    BY DEF Range, SimilarityParts
  <2> HIDE DEF s
  <2> QED BY <2>1, SequenceIsFinite
<1>3. \A n \in 1 .. 3 : c.multipliers[n] \in Int
  BY <1>1 DEF IsComparableConfig
<1> HIDE DEF c
<1>4. /\ c.unknown \in Int /\ c.cross \in Int /\ c.adjacentSimilarity \in Int
  <2>1. \A n \in {"unknown", "cross", "adjacentSimilarity"} : c[n] \in 0 .. 100
    BY <1>1 DEF IsComparableConfig
  <2> QED BY <2>1
<1>5. c.horizon \in Nat \ {0} /\ c.baselineWeight \in Nat \ {0}
  <2>1. \A n \in {"minimum", "target", "maximum", "horizon", "baselineWeight"} : c[n] \in Nat \ {0}
    BY <1>1 DEF IsComparableConfig
  <2> QED BY <2>1
<1>6. /\ AreWeights(c.weights, SimilarityParts) /\ c.transaction \in Int
      /\ c.windows \in Seq(Nat \ {0}) /\ c.windows # <<>>
  BY <1>1 DEF IsComparableConfig
<1> QED BY <1>2, <1>3, <1>4, <1>5, <1>6 DEF c

\* The similarity of a record, and its weight, are numbers.
LEMMA RawWeightIs ==
    ASSUME NEW t, IsTyped(t), NEW o, IsTyped(o), NEW tier \in 1 .. 3, NEW now \in Int, NEW days \in Nat \ {0}
    PROVE  RawWeight(t, o, tier, now, days) \in Int
<1> DEFINE c == ValuationConfig.comparables
           same(x, y) == IF ~Known(x) \/ ~Known(y) THEN 10 * c.unknown ELSE IF x = y THEN 1000 ELSE 0
           age == AgeDifference(t, o)
           geography == 10 * c.multipliers[tier]
           community == IF o.community = t.community THEN 1000 ELSE 10 * c.cross
           area == Max({0, 1000 - AreaDifference(t, o)})
           layout == IF None \in {t.layout, o.layout} THEN 10 * c.unknown
                     ELSE IF t.layout = o.layout THEN 1000
                     ELSE IF Adjacent(t, o) THEN 10 * c.adjacentSimilarity ELSE 0
           years == IF age = None THEN 10 * c.unknown ELSE Max({0, 1000 - Share(age, c.horizon)})
           fresh == Max({0, 1000 - Share(now - o.day, days)})
           parts ==
             [geography |-> geography, community |-> community, area |-> area, layout |-> layout, building_age |-> years,
              floor |-> same(FloorCategory(t.home), FloorCategory(o.home)),
              elevator |-> same(t.home.elevator, o.home.elevator),
              orientation |-> same(t.home.orientation, o.home.orientation),
              freshness |-> fresh, source_confidence |-> o.trust]
<1>1. Similarity(t, o, tier, now, days) = WeightedMean(parts, c.weights)
  BY DEF Similarity
<1>2. /\ AreWeights(c.weights, SimilarityParts) /\ IsFiniteSet(SimilarityParts)
      /\ c.horizon \in Nat \ {0} /\ c.unknown \in Int /\ c.cross \in Int /\ c.adjacentSimilarity \in Int
      /\ c.multipliers[tier] \in Int /\ c.transaction \in Int
  BY ComparableConfig
<1>3. AreaDifference(t, o) \in Int /\ IsMaybe(age) /\ o.trust \in Int /\ o.day \in Int
  BY DifferencesAre DEF IsTyped
<1> HIDE DEF c, age
<1>4. ASSUME NEW x \in Int PROVE Max({0, 1000 - x}) \in Int
  BY MaxOfTwo
<1>5. ASSUME NEW n \in Int, NEW d \in Nat \ {0} PROVE Share(n, d) \in Int
  BY RatioIsInt DEF Share
<1>6. area \in Int /\ years \in Int /\ fresh \in Int
  <2>1. area \in Int
    BY <1>3, <1>4
  <2>2. now - o.day \in Int
    BY <1>3
  <2>3. Share(now - o.day, days) \in Int
    BY <1>5, <2>2
  <2>4. fresh \in Int
    BY <1>4, <2>3
  <2>5. age # None => Share(age, c.horizon) \in Int
    BY <1>2, <1>3, <1>5 DEF IsMaybe
  <2>6. years \in Int
    BY <1>2, <1>4, <2>5
  <2> QED BY <2>1, <2>4, <2>6
<1>7. geography \in Int /\ community \in Int /\ layout \in Int /\ \A x, y : same(x, y) \in Int
  BY <1>2
<1> HIDE DEF area, years, fresh, geography, community, layout, same
<1>8. \A n \in SimilarityParts : parts[n] \in Int
  BY <1>3, <1>6, <1>7 DEF SimilarityParts
<1> HIDE DEF parts
<1>9. Similarity(t, o, tier, now, days) \in Int
  BY <1>1, <1>2, <1>8, MeanOfAll
<1> DEFINE s == Similarity(t, o, tier, now, days)
           k == IF o.type = "transaction" THEN c.transaction ELSE 100
           d == 10000
<1>10. RawWeight(t, o, tier, now, days) = Ratio(s * c.multipliers[tier] * k, d)
  BY DEF RawWeight, c
<1>11. s \in Int /\ k \in Int /\ d \in Int /\ d > 0
  BY <1>2, <1>9
<1> HIDE DEF s, k, d
<1>12. s * c.multipliers[tier] * k \in Int
  BY <1>2, <1>11
<1> QED BY <1>10, <1>11, <1>12, RatioIsInt

\* The window is one of the configuration's.
LEMMA WindowForIs ==
    ASSUME NEW tier, NEW now
    PROVE  WindowFor(tier, now) \in Nat \ {0}
<1> DEFINE c == ValuationConfig.comparables
           enough == {days \in ToSet(c.windows) : Cardinality(UpTo(tier, now, days, 3)) >= c.minimum}
<1>1. c.windows \in Seq(Nat \ {0}) /\ c.windows # <<>>
  BY ComparableConfig
<1>2. WindowFor(tier, now) = IF enough = {} THEN Last(c.windows) ELSE Min(enough)
  BY DEF WindowFor
<1> HIDE DEF c
<1>3. ToSet(c.windows) = Range(c.windows) /\ DOMAIN c.windows = 1 .. Len(c.windows) /\ Len(c.windows) \in Nat
  BY <1>1 DEF ToSet, Range
<1>4. IsFiniteSet(ToSet(c.windows)) /\ ToSet(c.windows) \subseteq Nat \ {0}
  BY <1>1, <1>3, SequenceIsFinite DEF Range
<1>5. IsFiniteSet(enough) /\ enough \subseteq Nat \ {0} /\ enough \subseteq Int
  BY <1>4, FS_Subset
<1>6. Last(c.windows) \in Nat \ {0}
  BY <1>1 DEF Last
<1> HIDE DEF enough
<1> QED BY <1>2, <1>5, <1>6, MinOfSet

\* A comparable record is in one of three tiers.
LEMMA TierIs ==
    ASSUME NEW t, NEW o
    PROVE  Tier(t, o) = None \/ Tier(t, o) \in 1 .. 3
BY DEF Tier

\* Comparables: typed records, with their shares of the weight.
IsItems(items) ==
    IsFiniteSet(items) /\ \A x \in items : IsTyped(x.record) /\ x.weight \in Int

\* The heaviest of the records picked.
LEMMA HeaviestIs ==
    ASSUME NEW picked, IsFiniteSet(picked), \A x \in picked : IsTyped(x.record) /\ x.raw \in Int,
           NEW now, NEW days
    PROVE  IsItems(Heaviest(picked, now, days).items)
<1> DEFINE before(x, y) == \/ x.raw > y.raw
                           \/ x.raw = y.raw /\ x.record.day > y.record.day
                           \/ x.raw = y.raw /\ x.record.day = y.record.day /\ x.record.id < y.record.id
           kept == {x \in picked : Cardinality({y \in picked : before(y, x)}) < ValuationConfig.comparables.maximum}
           raw == [x \in kept |-> x.raw]
           total == SumFunction(raw)
           item(x) == [record |-> x.record, tier |-> x.tier, weight |-> Share(x.raw, total)]
           table == [x \in kept |-> item(x)]
<1>1. Heaviest(picked, now, days).items = IF total <= 0 THEN {} ELSE {item(x) : x \in kept}
  BY DEF Heaviest
<1>2. IsFiniteSet(kept) /\ \A x \in kept : IsTyped(x.record) /\ x.raw \in Int
  <2>1. kept \subseteq picked
    OBVIOUS
  <2> HIDE DEF kept
  <2> QED BY <2>1, FS_Subset
<1> HIDE DEF kept
<1>3. total \in Int
  <2>1. DOMAIN raw = kept /\ \A x \in kept : raw[x] \in Int
    BY <1>2
  <2>2. total = SumFunctionOnSet(raw, kept)
    BY <2>1 DEF SumFunction
  <2> HIDE DEF raw
  <2> QED BY <1>2, <2>1, <2>2, SumIsInt
<1>4. Range(table) = {item(x) : x \in kept} /\ DOMAIN table = kept
  BY DEF Range
<1> HIDE DEF total
<1>5. ASSUME total > 0, NEW x \in kept PROVE IsTyped(item(x).record) /\ item(x).weight \in Int
  <2> DEFINE n == 1000 * x.raw
  <2>1. n \in Int
    BY <1>2
  <2>2. item(x).weight = Ratio(n, total)
    BY DEF Share
  <2> HIDE DEF n
  <2>3. item(x).weight \in Int
    BY <1>3, <1>5, <2>1, <2>2, RatioIsInt
  <2> QED BY <1>2, <2>3
<1> HIDE DEF table, item
<1>6. IsFiniteSet({item(x) : x \in kept})
  BY <1>2, <1>4, ValuesAreFinite
<1>7. total <= 0 \/ total > 0
  BY <1>3
<1>8. IsFiniteSet({})
  BY FS_EmptySet
<1> QED BY <1>1, <1>5, <1>6, <1>7, <1>8 DEF IsItems

\* The comparables of a home are typed.
LEMMA ComparablesAre ==
    ASSUME NEW candidates, IsFiniteSet(candidates), \A o \in candidates : IsTyped(o),
           NEW t, IsTyped(t), NEW now \in Int
    PROVE  IsItems(SelectComparables(candidates, t, now).items)
<1> DEFINE tier == [o \in candidates |-> Tier(t, o)]
           days == WindowFor(tier, now)
           S == UpTo(tier, now, days, TiersFor(tier, now, days))
           weighed(o) == [record |-> o, tier |-> tier[o], raw |-> RawWeight(t, o, tier[o], now, days)]
           table == [o \in S |-> weighed(o)]
           picked == {weighed(o) : o \in S}
<1>1. SelectComparables(candidates, t, now) = Heaviest(picked, now, days)
  BY DEF SelectComparables
<1>2. days \in Nat \ {0}
  BY WindowForIs
<1>3. \A o \in S : o \in candidates /\ tier[o] \in 1 .. 3
  <2>1. \A o \in S : o \in candidates /\ tier[o] # None
    BY DEF UpTo
  <2> QED BY <2>1, TierIs
<1> HIDE DEF tier, days, S
<1>4. IsFiniteSet(S)
  BY <1>3, FS_Subset
<1>5. \A o \in S : weighed(o).record = o /\ weighed(o).raw \in Int
  BY <1>2, <1>3, RawWeightIs
<1>6. Range(table) = picked /\ DOMAIN table = S
  BY DEF Range
<1> HIDE DEF table
<1>7. IsFiniteSet(picked)
  BY <1>4, <1>6, ValuesAreFinite
<1>8. \A x \in picked : IsTyped(x.record) /\ x.raw \in Int
  <2> HIDE DEF weighed
  <2> QED BY <1>3, <1>5 DEF picked
<1> HIDE DEF picked
<1> QED BY <1>1, <1>7, <1>8, HeaviestIs

-----------------------------------------------------------------------------
(* Adjustments and the fair value.                                         *)

\* What the configuration of the adjustments gives.
LEMMA AdjustmentConfig ==
    LET a == ValuationConfig.adjustments
    IN  /\ a.perYear \in Int /\ a.maxAge \in Int /\ a.maximum \in Int
        /\ \A s \in {"walk_up", "elevator", "high_rise"}, n \in FloorNames : a.floors[s][n] \in Int
        /\ \A n \in {"near", "walkable", "extended", "far"} : a.metroRates[n] \in Int
        /\ \A n \in DOMAIN a.orientation : a.orientation[n] \in Int
<1> DEFINE cfg == ValuationConfig.adjustments
<1>1. IsAdjustmentConfig(cfg)
  BY ValuationConfigIsValid
<1> HIDE DEF cfg
<1>2. \A n \in {"perYear", "maxAge", "base", "perMissing"} : cfg[n] \in Nat
  BY <1>1 DEF IsAdjustmentConfig
<1>3. cfg.perYear \in Nat /\ cfg.maxAge \in Nat
  BY <1>2
<1>4. cfg.maximum \in Int
  <2> DEFINE most == cfg.maximum
             limit == 10000
  <2>1. most \in 1 .. limit /\ limit \in Int
    BY <1>1 DEF IsAdjustmentConfig
  <2> HIDE DEF most, limit
  <2>2. most \in Int
    BY <2>1
  <2> QED BY <2>2 DEF most
<1>5. \A s \in {"walk_up", "elevator", "high_rise"}, n \in FloorNames : cfg.floors[s][n] \in Int
  BY <1>1 DEF IsAdjustmentConfig
<1>6. \A n \in {"near", "walkable", "extended", "far"} : cfg.metroRates[n] \in Int
  BY <1>1 DEF IsAdjustmentConfig
<1>7. \A n \in DOMAIN cfg.orientation : cfg.orientation[n] \in Int
  BY <1>1 DEF IsAdjustmentConfig
<1> QED BY <1>3, <1>4, <1>5, <1>6, <1>7 DEF cfg

\* A home to value: nothing is said of its layout's quality nor of its noise.
IsTarget(t) ==
    /\ IsTyped(t) /\ t.price \in Int
    /\ t.home.layoutQuality = None /\ t.home.noise = None

\* The features of a home.
LEMMA FeaturesAre ==
    ASSUME NEW h, IsHome(h)
    PROVE  /\ FloorCategory(h) = None \/ FloorCategory(h) \in FloorNames
           /\ BuildingSegment(h) \in {"walk_up", "elevator", "high_rise"}
           /\ h.year = None \/ h.year \in Int
           /\ h.metro = None \/ h.metro \in Int
           /\ h.orientation = None \/ h.orientation \in DOMAIN ValuationConfig.adjustments.orientation
<1>1. \A n \in {"floors", "year", "metro", "bedrooms"} : h[n] = None \/ h[n] \in Nat
  BY DEF IsHome
<1>2. /\ h.year = None \/ h.year \in Int
      /\ h.metro = None \/ h.metro \in Int
  BY <1>1
<1>3. FloorCategory(h) = None \/ FloorCategory(h) \in FloorNames
  <2>1. h.floor = None \/ h.floor[1] = "at" \/ (h.floor[1] = "named" /\ h.floor[2] \in FloorNames)
    BY DEF IsHome
  <2>2. "ground" \in FloorNames /\ "top" \in FloorNames /\ "low" \in FloorNames /\ "middle" \in FloorNames
        /\ "high" \in FloorNames
    BY DEF FloorNames
  <2>3. h.floor # None /\ h.floor[1] = "named" => FloorCategory(h) = h.floor[2]
    BY DEF FloorCategory
  <2>4. h.floor # None /\ h.floor[1] # "named" => FloorCategory(h) \in {None, "ground", "top", "low", "middle", "high"}
    BY DEF FloorCategory
  <2>5. h.floor = None => FloorCategory(h) = None
    BY DEF FloorCategory
  <2> QED BY <2>1, <2>2, <2>3, <2>4, <2>5
<1>4. BuildingSegment(h) \in {"walk_up", "elevator", "high_rise"}
  BY DEF BuildingSegment
<1>5. h.orientation = None \/ h.orientation \in DOMAIN ValuationConfig.adjustments.orientation
  BY DEF IsHome
<1> QED BY <1>2, <1>3, <1>4, <1>5

\* The adjusted price of a comparable is a number.
LEMMA AdjustedUnitIs ==
    ASSUME NEW t, IsTarget(t), NEW o, IsTyped(o)
    PROVE  AdjustedUnit(t, o) \in Int
<1> DEFINE a == ValuationConfig.adjustments
           h == t.home
           g == o.home
           floor == FloorElevatorDelta(t, o)
           metro == MetroDelta(t, o)
           facing == RateDelta(a.orientation, h.orientation, g.orientation)
           age == IF None \in {h.year, g.year} THEN 0 ELSE Bounded(-a.maxAge, (h.year - g.year) * a.perYear, a.maxAge)
<1>1. IsHome(h) /\ IsHome(g)
  BY DEF IsTarget, IsTyped
<1>2. floor \in Int
  <2>1. \A s \in {"walk_up", "elevator", "high_rise"}, n \in FloorNames : a.floors[s][n] \in Int
    BY AdjustmentConfig
  <2>2. /\ FloorCategory(h) = None \/ FloorCategory(h) \in FloorNames
        /\ FloorCategory(g) = None \/ FloorCategory(g) \in FloorNames
        /\ BuildingSegment(h) \in {"walk_up", "elevator", "high_rise"}
        /\ BuildingSegment(g) \in {"walk_up", "elevator", "high_rise"}
    BY <1>1, FeaturesAre
  <2> DEFINE x == a.floors[BuildingSegment(h)][FloorCategory(h)]
             y == a.floors[BuildingSegment(g)][FloorCategory(g)]
  <2>3. /\ FloorCategory(h) # None => x \in Int
        /\ FloorCategory(g) # None => y \in Int
    BY <2>1, <2>2
  <2>4. floor = IF ~Known(FloorCategory(h)) \/ ~Known(FloorCategory(g)) \/ None \in {h.elevator, g.elevator} THEN 0
                ELSE x - y
    BY DEF FloorElevatorDelta
  <2> HIDE DEF x, y, floor
  <2> QED BY <2>3, <2>4 DEF Known
<1>3. metro \in Int
  <2> DEFINE x == a.metroRates[MetroBucket(h.metro, a.metro)]
             y == a.metroRates[MetroBucket(g.metro, a.metro)]
  <2>1. \A n \in {"near", "walkable", "extended", "far"} : a.metroRates[n] \in Int
    BY AdjustmentConfig
  <2>2. \A m, s : MetroBucket(m, s) \in {"near", "walkable", "extended", "far"}
    BY DEF MetroBucket
  <2>3. x \in Int /\ y \in Int
    BY <2>1, <2>2
  <2>4. metro = x - y \/ metro = 0
    BY DEF MetroDelta
  <2> HIDE DEF x, y, metro
  <2> QED BY <2>3, <2>4
<1>4. facing \in Int
  <2>1. \A n \in DOMAIN a.orientation : a.orientation[n] \in Int
    BY AdjustmentConfig
  <2>2. /\ h.orientation # None => a.orientation[h.orientation] \in Int
        /\ g.orientation # None => a.orientation[g.orientation] \in Int
    BY <1>1, <2>1, FeaturesAre
  <2>3. facing = IF h.orientation # None /\ g.orientation # None
                 THEN a.orientation[h.orientation] - a.orientation[g.orientation] ELSE 0
    BY DEF RateDelta, Known
  <2> HIDE DEF facing
  <2> QED BY <2>2, <2>3
<1>5. \A low, x, high \in Int : Bounded(low, x, high) \in Int
  BY BoundedIs
<1>6. a.perYear \in Int /\ a.maxAge \in Int /\ a.maximum \in Int
  BY AdjustmentConfig
<1>7. age \in Int
  <2>1. /\ h.year = None \/ h.year \in Int
        /\ g.year = None \/ g.year \in Int
    BY <1>1, FeaturesAre
  <2>2. h.year # None /\ g.year # None => (h.year - g.year) * a.perYear \in Int /\ -a.maxAge \in Int
    BY <1>6, <2>1
  <2>3. h.year # None /\ g.year # None => Bounded(-a.maxAge, (h.year - g.year) * a.perYear, a.maxAge) \in Int
    BY <1>5, <1>6, <2>2
  <2> QED BY <2>3
<1>8. \A rates, x, y : x = None => RateDelta(rates, x, y) = 0
  BY DEF RateDelta, Known
<1>9. h.layoutQuality = None /\ h.noise = None /\ o.unit \in Int
  BY DEF IsTarget, IsTyped
<1>10. AdjustmentRate(t, o) = Bounded(-a.maximum, floor + facing + age + metro
          + RateDelta(a.layoutQuality, h.layoutQuality, g.layoutQuality) + RateDelta(a.noise, h.noise, g.noise), a.maximum)
  BY DEF AdjustmentRate
<1> HIDE DEF floor, metro, facing, age, a
<1>11. RateDelta(a.layoutQuality, h.layoutQuality, g.layoutQuality) = 0 /\ RateDelta(a.noise, h.noise, g.noise) = 0
  BY <1>8, <1>9
<1> DEFINE sum == floor + facing + age + metro + 0 + 0
<1>12. sum \in Int /\ -a.maximum \in Int
  BY <1>2, <1>3, <1>4, <1>6, <1>7
<1> DEFINE least == -a.maximum
<1>13. AdjustmentRate(t, o) = Bounded(least, sum, a.maximum) /\ least \in Int
  BY <1>10, <1>11, <1>12
<1> HIDE DEF sum, least
<1>14. AdjustmentRate(t, o) \in Int
  BY <1>5, <1>6, <1>12, <1>13
<1> DEFINE n == o.unit * (10000 + AdjustmentRate(t, o))
           d == 10000
<1>15. AdjustedUnit(t, o) = Ratio(n, d)
  BY DEF AdjustedUnit
<1>16. n \in Int /\ d \in Int /\ d > 0
  BY <1>9, <1>14
<1> HIDE DEF n, d
<1> QED BY <1>15, <1>16, RatioIsInt

\* Points of a price: numbers, with their weights.
ArePoints(points) ==
    IsFiniteSet(points) /\ \A p \in points : p.value \in Int /\ p.weight \in Int

\* Their weight is a number.
LEMMA WeightOfPointsIs ==
    ASSUME NEW points, ArePoints(points), NEW S, S \subseteq points
    PROVE  WeightOfPoints(S) \in Int
<1> DEFINE f == [p \in S |-> p.weight]
<1>1. IsFiniteSet(S) /\ DOMAIN f = S /\ \A p \in S : f[p] \in Int
  BY FS_Subset DEF ArePoints
<1>2. WeightOfPoints(S) = SumFunctionOnSet(f, S)
  BY <1>1 DEF WeightOfPoints, SumFunction
<1> HIDE DEF f
<1> QED BY <1>1, <1>2, SumIsInt

\* The quantile of points with any weight is the value of one of them.
LEMMA QuantileIs ==
    ASSUME NEW points, ArePoints(points), WeightOfPoints(points) > 0, NEW q \in 0 .. 100
    PROVE  \E p \in points : WeightedQuantile(points, q) = p.value
<1> DEFINE upTo(v) == WeightOfPoints({p \in points : p.value <= v})
           total == WeightOfPoints(points)
           reaching == {p \in points : 100 * upTo(p.value) >= q * total}
           value == [p \in reaching |-> p.value]
           values == {p.value : p \in reaching}
           all == [p \in points |-> p.value]
<1>1. WeightedQuantile(points, q) = Min(values)
  BY DEF WeightedQuantile
<1>2. total \in Int
  BY WeightOfPointsIs
<1>3. points # {}
  <2>1. ASSUME points = {} PROVE FALSE
    <3> DEFINE f == [p \in points |-> p.weight]
    <3>1. WeightOfPoints(points) = SumFunctionOnSet(f, {})
      BY <2>1 DEF WeightOfPoints, SumFunction
    <3> HIDE DEF f
    <3>2. WeightOfPoints(points) = 0
      BY <3>1, SumOfNothing
    <3> QED BY <3>2
  <2> QED BY <2>1
<1>4. PICK m \in points : \A p \in points : p.value <= m.value
  <2>1. IsFiniteSet(Range(all)) /\ Range(all) = {p.value : p \in points}
    BY ValuesAreFinite DEF ArePoints, Range
  <2> HIDE DEF all
  <2>2. Range(all) # {} /\ Range(all) \subseteq Int
    BY <1>3, <2>1 DEF ArePoints
  <2>3. Max(Range(all)) \in Range(all) /\ \A x \in Range(all) : x <= Max(Range(all))
    BY <2>1, <2>2, MaxOfSet
  <2> QED BY <2>1, <2>3
<1>5. m \in reaching
  <2>1. {p \in points : p.value <= m.value} = points
    BY <1>4
  <2>2. upTo(m.value) = total
    BY <2>1
  <2>3. 100 * total >= q * total
    <3> HIDE DEF total
    <3>1. q \in Int /\ 100 - q >= 0 /\ total > 0
      BY DEF total
    <3>2. (100 - q) * total >= 0
      BY <1>2, <3>1
    <3>3. (100 - q) * total = 100 * total - q * total
      BY <1>2, <3>1
    <3> QED BY <1>2, <3>1, <3>2, <3>3
  <2> QED BY <2>2, <2>3
<1>6. reaching \subseteq points
  OBVIOUS
<1> HIDE DEF reaching, upTo, total
<1>7. IsFiniteSet(reaching) /\ DOMAIN value = reaching /\ Range(value) = values
  BY <1>6, FS_Subset DEF ArePoints, Range
<1>8. IsFiniteSet(values) /\ values # {} /\ values \subseteq Int
  <2>1. IsFiniteSet(values)
    BY <1>7, ValuesAreFinite
  <2>2. values # {} /\ values \subseteq Int
    BY <1>5, <1>6 DEF ArePoints
  <2> QED BY <2>1, <2>2
<1> HIDE DEF value
<1>9. Min(values) \in values
  <2> HIDE DEF values
  <2> QED BY <1>8, MinOfSet
<1> QED BY <1>1, <1>6, <1>9

\* Outliers are taken from the comparables.
LEMMA RetainedAre ==
    ASSUME NEW t, NEW items
    PROVE  RemoveOutliers(t, items) \subseteq items
<1> DEFINE figure == [x \in items |-> AdjustedUnit(t, x.record)]
<1>1. DOMAIN Apart(figure) = items
  BY DEF Apart
<1>2. ASSUME NEW apart, NEW mad PROVE NearTheMedian(apart, mad) \subseteq DOMAIN apart
  BY DEF NearTheMedian
<1> HIDE DEF figure
<1> QED BY <1>1, <1>2 DEF RemoveOutliers, figure

\* The points that a price is made of.
LEMMA PricePointsAre ==
    ASSUME NEW t, IsTarget(t), NEW items, IsItems(items), NEW b, b = None \/ IsBaseline(b)
    PROVE  ArePoints(PricePoints(t, items, b))
<1> DEFINE middle == IF b = None THEN None ELSE IF b.p50 # None THEN b.p50 * t.area ELSE b.price
           point(x) == [of |-> x.record.id, value |-> AdjustedUnit(t, x.record) * t.area, weight |-> x.weight]
           table == [x \in items |-> point(x)]
           whole == [of |-> 0, value |-> middle, weight |-> 10 * ValuationConfig.comparables.baselineWeight]
           own == {point(x) : x \in items}
           other == IF middle = None THEN {} ELSE {whole}
<1>1. PricePoints(t, items, b) = own \cup other
  BY DEF PricePoints
<1>2. Range(table) = own /\ DOMAIN table = items /\ IsFiniteSet(items)
  BY DEF Range, IsItems
<1>3. t.area \in Int
  BY DEF IsTarget, IsTyped
<1>4. \A x \in items : point(x).value \in Int /\ point(x).weight \in Int
  <2> TAKE x \in items
  <2>1. AdjustedUnit(t, x.record) \in Int /\ x.weight \in Int
    BY AdjustedUnitIs DEF IsItems
  <2>2. AdjustedUnit(t, x.record) * t.area \in Int
    BY <1>3, <2>1
  <2> QED BY <2>1, <2>2
<1>5. middle # None => whole.value \in Int /\ whole.weight \in Int
  <2>1. ASSUME b # None PROVE middle # None => middle \in Int
    <3>1. (b.p50 = None \/ b.p50 \in Int) /\ (b.price = None \/ b.price \in Int)
      BY <2>1 DEF IsBaseline, IsMaybe
    <3> QED BY <1>3, <2>1, <3>1
  <2>2. 10 * ValuationConfig.comparables.baselineWeight \in Int
    <3>1. ValuationConfig.comparables.baselineWeight \in Nat \ {0}
      BY ComparableConfig
    <3> QED BY <3>1
  <2> HIDE DEF middle
  <2>3. b # None \/ middle = None
    BY DEF middle
  <2> QED BY <2>1, <2>2, <2>3
<1> HIDE DEF table, point, whole
<1>6. IsFiniteSet(own)
  BY <1>2, ValuesAreFinite
<1>7. IsFiniteSet(other)
  BY FS_EmptySet, FS_Singleton
<1>8. \A p \in own : p.value \in Int /\ p.weight \in Int
  BY <1>4
<1>9. \A p \in other : p.value \in Int /\ p.weight \in Int
  BY <1>5
<1> HIDE DEF own, other
<1>10. IsFiniteSet(own \cup other)
  BY <1>6, <1>7, FS_Union
<1> QED BY <1>1, <1>8, <1>9, <1>10 DEF ArePoints

\* A fair value is a number, whatever it is made of.
LEMMA FairValueIs ==
    ASSUME NEW t, IsTarget(t), NEW items, IsItems(items), NEW b, b = None \/ IsBaseline(b), NEW missing
    PROVE  LET value == AggregateFairValue(t, items, b, missing)
           IN  value # None => value.fair \in Int /\ IsItems(value.retained)
<1> DEFINE kept == RemoveOutliers(t, items)
           points == PricePoints(t, kept, b)
           half == 50
<1>1. kept \subseteq items
  BY RetainedAre
<1> HIDE DEF kept
<1>2. IsItems(kept)
  BY <1>1, FS_Subset DEF IsItems
<1>3. ArePoints(points)
  BY <1>2, PricePointsAre
<1>4. AggregateFairValue(t, items, b, missing) = FairValueOf(points, kept, t, b, missing)
  BY DEF AggregateFairValue, kept
<1> HIDE DEF points
<1>5. half \in 0 .. 100
  OBVIOUS
<1> HIDE DEF half
<1>6. FairValueOf(points, kept, t, b, missing) # None =>
         /\ ~(WeightOfPoints(points) <= 0)
         /\ FairValueOf(points, kept, t, b, missing).fair = WeightedQuantile(points, half)
         /\ FairValueOf(points, kept, t, b, missing).retained = kept
  BY DEF FairValueOf, half
<1>7. WeightOfPoints(points) \in Int
  BY <1>3, WeightOfPointsIs
<1>8. WeightOfPoints(points) > 0 => WeightedQuantile(points, half) \in Int
  BY <1>3, <1>5, QuantileIs DEF ArePoints
<1> QED BY <1>2, <1>4, <1>6, <1>7, <1>8

\* As many as that count is never less than nothing.
LEMMA EffectiveIs ==
    ASSUME NEW items, IsItems(items)
    PROVE  EffectiveCount(items) >= 0
<1> DEFINE f == [x \in items |-> x.weight]
           g == [x \in items |-> x.weight * x.weight]
           sum == SumFunctionOnSet(f, items)
           squares == SumFunctionOnSet(g, items)
           k == 100 * sum * sum
<1>1. EffectiveCount(items) = IF sum = 0 THEN 0 ELSE 10 * Ratio(k, squares)
  BY DEF EffectiveCount, SumFunction
<1>2. IsFiniteSet(items) /\ \A x \in items : f[x] \in Int /\ g[x] = f[x] * f[x]
  BY DEF IsItems
<1> HIDE DEF f, g
<1>3. \A x \in items : g[x] \in Nat /\ (f[x] # 0 => g[x] > 0)
  <2>1. \A y \in Int : y * y \in Nat /\ (y # 0 => y * y > 0)
    OBVIOUS
  <2> QED BY <1>2, <2>1
<1>4. sum \in Int /\ squares \in Nat
  BY <1>2, <1>3, SumIsInt, SumIsNat
<1>5. ASSUME sum # 0 PROVE squares > 0
  <2>1. PICK m \in items : f[m] # 0
    <3> SUFFICES ASSUME \A m \in items : f[m] = 0 PROVE FALSE
      OBVIOUS
    <3>1. \A x \in items : f[x] \in Int /\ f[x] = 0 * f[x]
      BY <1>2
    <3>2. sum = 0 * sum
      BY <1>2, <3>1, SumOfMultiples
    <3>3. sum = 0
      BY <1>4, <3>2
    <3> QED BY <1>5, <3>3
  <2> QED BY <1>2, <1>3, <2>1, SumIsPositive
<1>6. k \in Nat
  <2> HIDE DEF sum
  <2>1. sum * sum \in Nat
    BY <1>4
  <2> QED BY <1>4, <2>1
<1> HIDE DEF sum, squares, k
<1>7. ASSUME sum # 0 PROVE Ratio(k, squares) \in Int /\ Ratio(k, squares) >= 0
  <2> DEFINE zero == 0
  <2>1. squares \in Int /\ squares > 0 /\ zero \in Int /\ zero * squares <= k /\ zero * squares \in Int
    BY <1>4, <1>5, <1>6, <1>7
  <2> HIDE DEF zero
  <2>2. Ratio(zero * squares, squares) = zero
    BY <2>1, RatioOfMultiple
  <2>3. Ratio(zero * squares, squares) <= Ratio(k, squares)
    BY <1>6, <2>1, RatioRises
  <2>4. Ratio(k, squares) \in Int
    BY <1>6, <2>1, RatioIsInt
  <2> QED BY <2>2, <2>3, <2>4 DEF zero
<1> QED BY <1>1, <1>7

\* What a decision looks at in a valuation.
IsPriced(v) ==
    v.fair \in Int /\ v.liquidity \in 0 .. 100 /\ IsLevel(v.confidence) /\ IsLevel(v.baseline)

\* The liquidity of the home, from that of its slice.
LEMMA ProductLiquidityIs ==
    ASSUME NEW t, NEW liquidity, IsMaybe(liquidity)
    PROVE  ProductLiquidity(t, liquidity) \in 0 .. 100
<1> DEFINE c == ValuationConfig.score
           m == c.modifiers
           if(p, x) == IF p THEN x ELSE 0
           price == if(c.mainstreamPrice[1] <= t.price /\ t.price <= c.mainstreamPrice[2], m.price)
           area == if(c.mainstreamArea[1] <= t.area /\ t.area <= c.mainstreamArea[2], m.area)
           layout == if(t.layout # None, m.layout)
           floor == if(FloorCategory(t.home) \in {"ground", "top"}, m.floor)
           unusual == if(t.home.building \in c.unusual, m.unusual)
           sum == liquidity + price + area + layout + floor + unusual
<1>1. \A n \in {"price", "area", "layout", "floor", "unusual"} : m[n] \in Int
  <2>1. IsScoreConfig(c)
    BY ValuationConfigIsValid
  <2> HIDE DEF c
  <2> QED BY <2>1 DEF IsScoreConfig
<1>2. m.price \in Int /\ m.area \in Int /\ m.layout \in Int /\ m.floor \in Int /\ m.unusual \in Int
  BY <1>1
<1>3. price \in Int /\ area \in Int /\ layout \in Int /\ floor \in Int /\ unusual \in Int
  <2> HIDE DEF m
  <2> QED BY <1>2
<1>4. ProductLiquidity(t, liquidity) = IF liquidity = None THEN 0 ELSE Bounded(0, sum, 100)
  BY DEF ProductLiquidity
<1> HIDE DEF price, area, layout, floor, unusual
<1>5. liquidity # None => sum \in Int
  BY <1>3 DEF IsMaybe
<1> HIDE DEF sum
<1>6. liquidity # None => Bounded(0, sum, 100) \in 0 .. 100
  BY <1>5, Kept
<1> QED BY <1>4, <1>6

\* A row that a decision may be made from meets the constraints of its table.
LEMMA RowIs ==
    ASSUME NEW t, NEW selection, NEW b, b = None \/ IsBaseline(b.baseline), NEW liquidity,
           NEW value, IsItems(value.retained), NEW trust, IsLevel(trust.level),
           trust.support \in {"none", "weak", "strong"}, NEW score,
           ValidInputs(ValuationRow(t, selection, b, liquidity, value, trust, score))
    PROVE  IsValuationRow(ValuationRow(t, selection, b, liquidity, value, trust, score))
<1> DEFINE v == ValuationRow(t, selection, b, liquidity, value, trust, score)
<1>1. /\ v.decision = DecisionForScore(v.score) /\ v.confidence = trust.level /\ v.support = trust.support
      /\ v.baseline = IF b = None THEN "insufficient" ELSE b.baseline.confidence
      /\ v.basis = ValuationBasis(value.retained, b) /\ v.effective = EffectiveCount(value.retained)
  BY DEF ValuationRow
<1>8. ValidInputs(v)
  OBVIOUS
<1> HIDE DEF v
<1>2. v.ask > 0 /\ v.low <= v.fair /\ v.fair <= v.high /\ v.score \in Scores
  BY <1>8 DEF ValidInputs
<1>3. v.decision \in {"pass", "watch", "contact", "view", "attack"}
  BY <1>1 DEF DecisionForScore
<1>4. {v.confidence, v.baseline} \subseteq ToSet(Levels)
  BY <1>1, LevelsAre DEF IsBaseline, IsLevel
<1>5. v.basis \in {"listing_derived", "transaction_supported", "mixed_source"}
  BY <1>1 DEF ValuationBasis
<1>6. v.effective >= 0
  BY <1>1, EffectiveIs
<1>7. v.support \in {"none", "weak", "strong"}
  BY <1>1
<1>9. IsValuationRow(v)
  BY <1>2, <1>3, <1>4, <1>5, <1>6, <1>7 DEF IsValuationRow
<1> QED BY <1>9 DEF v

\* A valuation with a fair value can be decided upon.
LEMMA ValuedIs ==
    ASSUME NEW t, IsTarget(t), NEW selection, IsItems(selection.items),
           NEW listing, listing = None \/ IsBaseline(listing.baseline),
           NEW b, b = None \/ IsBaseline(b.baseline), NEW history
    PROVE  LET v == Valued(t, selection, listing, b, history)
           IN  v.fair # None => IsPriced(v) /\ (ValidInputs(v) => IsValuationRow(v))
<1> DEFINE liquidity == IF listing = None THEN None ELSE listing.baseline.liquidity
           middle == IF b = None THEN None ELSE b.baseline
           value == AggregateFairValue(t, selection.items, middle, Cardinality(Missing(t)))
           v == Rated(t, selection, b, liquidity, value, history)
<1>1. Valued(t, selection, listing, b, history) = v
  BY DEF Valued
<1>2. middle = None \/ IsBaseline(middle)
  OBVIOUS
<1>3. IsMaybe(liquidity)
  BY DEF IsMaybe, IsBaseline
<1> HIDE DEF middle, liquidity
<1>4. value # None => value.fair \in Int /\ IsItems(value.retained)
  BY <1>2, FairValueIs
<1> HIDE DEF value
<1>5. value = None => v.fair = None
  BY DEF Rated, NoValuation
<1>6. value # None => /\ v.fair = value.fair
                      /\ v.liquidity = ProductLiquidity(t, liquidity)
                      /\ v.confidence = ValuationConfidence(selection, value, b, Cardinality(Missing(t))).level
                      /\ v.baseline = IF b = None THEN "insufficient" ELSE b.baseline.confidence
  BY DEF Rated, ValuationRow
<1>7. ASSUME NEW missing
      PROVE  LET trust == ValuationConfidence(selection, value, b, missing)
             IN  IsLevel(trust.level) /\ trust.support \in {"none", "weak", "strong"}
  BY DEF ValuationConfidence, TransactionSupport, LevelForScore, IsLevel
<1>10. value # None => v = ValuationRow(t, selection, b, liquidity, value,
                               ValuationConfidence(selection, value, b, Cardinality(Missing(t))),
                               ValueScore(t, value.fair, liquidity, history, MedianYear(value.retained)))
  BY DEF Rated
<1> HIDE DEF v
<1>8. ProductLiquidity(t, liquidity) \in 0 .. 100
  BY <1>3, ProductLiquidityIs
<1>9. value # None => IsLevel(v.baseline)
  BY <1>6 DEF IsBaseline, IsLevel
<1>11. value # None /\ ValidInputs(v) => IsValuationRow(v)
  BY <1>4, <1>7, <1>10, RowIs
<1> QED BY <1>1, <1>4, <1>5, <1>6, <1>7, <1>8, <1>9, <1>11 DEF IsPriced

\* The valuation of a home from typed candidates and published slices.
LEMMA EvaluationIs ==
    ASSUME NEW t, IsTarget(t), NEW all, NEW now \in Int,
           IsFiniteSet(Candidates(all, t, now)), \A o \in Candidates(all, t, now) : IsTyped(o),
           NEW published, \A key \in DOMAIN published : IsFigured(published[key]), NEW history
    PROVE  LET v == EvaluateValuation(all, published, t, history, now)
           IN  v.fair # None => IsPriced(v) /\ (ValidInputs(v) => IsValuationRow(v))
<1> DEFINE listing == BestBaseline(published, t, "listing")
           sales == BestBaseline(published, t, "transaction")
           b == ChooseBaseline(listing, sales)
           selection == SelectComparables(Candidates(all, t, now), t, now)
<1>1. EvaluateValuation(all, published, t, history, now) = Valued(t, selection, listing, b, history)
  BY DEF EvaluateValuation
<1>2. listing = None \/ IsBaseline(listing.baseline)
  BY BestBaselineIs
<1>3. sales = None \/ IsBaseline(sales.baseline)
  BY BestBaselineIs
<1>4. IsItems(selection.items)
  BY ComparablesAre DEF IsTarget
<1>5. b \in {listing, sales}
  BY DEF ChooseBaseline
<1> HIDE DEF listing, sales, b, selection
<1>6. b = None \/ IsBaseline(b.baseline)
  BY <1>2, <1>3, <1>5
<1> QED BY <1>1, <1>2, <1>4, <1>6, ValuedIs

-----------------------------------------------------------------------------
(* The factors of a home's future.                                         *)

\* A sum of figures between two bounds.
LEMMA SumBetween ==
    ASSUME NEW f, NEW S, IsFiniteSet(S), NEW low \in Int, NEW high \in Int,
           \A x \in S : f[x] \in Int /\ low <= f[x] /\ f[x] <= high
    PROVE  /\ SumFunctionOnSet(f, S) \in Int
           /\ low * Cardinality(S) <= SumFunctionOnSet(f, S)
           /\ SumFunctionOnSet(f, S) <= high * Cardinality(S)
<1> DEFINE Fine(T) == /\ low * Cardinality(T) <= SumFunctionOnSet(f, T)
                      /\ SumFunctionOnSet(f, T) <= high * Cardinality(T)
           C == {T \in SUBSET S : ~Fine(T)}
<1>1. SumFunctionOnSet(f, S) \in Int
  BY SumIsInt
<1> SUFFICES ASSUME C # {} PROVE FALSE
  BY <1>1
<1>2. PICK T \in C : \A U \in C : U \subseteq T => U = T
  <2>1. C \subseteq SUBSET S
    OBVIOUS
  <2> HIDE DEF C
  <2> QED BY <2>1, LeastSubset
<1>3. IsFiniteSet(T)
  BY FS_Subset
<1>4. T # {}
  <2>1. Cardinality({}) = 0
    BY FS_EmptySet
  <2> QED BY <2>1, SumOfNothing
<1> DEFINE R == T \ {Pick(T)}
<1>5. Pick(T) \in T /\ SumFunctionOnSet(f, T) = f[Pick(T)] + SumFunctionOnSet(f, R)
  BY <1>3, <1>4, SumOfMore
<1>6. /\ IsFiniteSet(R) /\ Cardinality(R) \in Int /\ Cardinality(T) = Cardinality(R) + 1
  <2>1. IsFiniteSet(R) /\ Cardinality(R) = Cardinality(T) - 1
    BY <1>3, <1>5, FS_RemoveElement
  <2>2. Cardinality(R) \in Nat /\ Cardinality(T) \in Nat
    BY <1>3, <2>1, FS_CardinalityType
  <2> QED BY <2>1, <2>2
<1>7. Fine(R)
  BY <1>2, <1>5
<1>8. SumFunctionOnSet(f, R) \in Int
  BY <1>6, SumIsInt
<1> DEFINE n == Cardinality(R)
           x == f[Pick(T)]
           sum == SumFunctionOnSet(f, R)
<1>9. x \in Int /\ low <= x /\ x <= high
  BY <1>5
<1>10. n \in Int /\ sum \in Int /\ low * n <= sum /\ sum <= high * n
  BY <1>6, <1>7, <1>8
<1>11. ~(low * (n + 1) <= x + sum /\ x + sum <= high * (n + 1))
  BY <1>2, <1>5, <1>6
<1> HIDE DEF n, x, sum, C
<1> QED BY <1>9, <1>10, <1>11

\* The mean of some figures is between their bounds.
LEMMA MeanOfIs ==
    ASSUME NEW f, IsFigure(f), DOMAIN f # {}, NEW low \in Int, NEW high \in Int,
           \A x \in DOMAIN f : low <= f[x] /\ f[x] <= high
    PROVE  MeanOf(f) \in low .. high
<1> DEFINE n == Cardinality(DOMAIN f)
           sum == SumFunctionOnSet(f, DOMAIN f)
<1>1. n \in Int /\ n > 0
  BY FS_CardinalityType, FS_EmptySet DEF IsFigure
<1>2. sum \in Int /\ low * n <= sum /\ sum <= high * n
  BY SumBetween DEF IsFigure
<1>3. MeanOf(f) = Ratio(sum, n)
  BY DEF MeanOf, SumFunction
<1> HIDE DEF n, sum
<1> QED BY <1>1, <1>2, <1>3, RatioBetween

\* The greatest score.
Whole == 10000
\* A score, from none to the whole of it.
InScore(x) == x \in 0 .. Whole

\* It is a number.
LEMMA WholeIs == Whole \in Int /\ 0 <= Whole /\ \A x : InScore(x) => x \in Int /\ 0 <= x /\ x <= Whole
<1>1. Whole \in Int /\ 0 <= Whole
  BY DEF Whole
<1> QED BY <1>1 DEF InScore

\* The scores of the rules are these.
LEMMA ScoresAre == \A x : x \in Scores <=> InScore(x)
BY DEF Scores, InScore, Whole

\* A curve of scores gives scores.
LEMMA CurveIs ==
    ASSUME NEW curve, IsCurve(curve), NEW x \in Int
    PROVE  InScore(PiecewiseLinear(x, curve))
<1> DEFINE n == Len(curve)
           below == {i \in DOMAIN curve : curve[i][1] <= x}
           i == Max(below)
           first == 1
<1>1. /\ n \in Int /\ n >= 2 /\ DOMAIN curve = 1 .. n
      /\ \A k \in 1 .. n : curve[k][1] \in Int /\ InScore(curve[k][2])
  <2>1. curve \in Seq(Nat \X Scores) /\ n >= 2
    BY DEF IsCurve
  <2>2. n \in Nat /\ DOMAIN curve = 1 .. n /\ \A k \in 1 .. n : curve[k] \in Nat \X Scores
    BY <2>1
  <2> HIDE DEF n
  <2>3. \A k \in 1 .. n : curve[k][1] \in Nat /\ curve[k][2] \in Scores
    BY <2>2
  <2> QED BY <2>1, <2>2, <2>3, ScoresAre
<1>2. \A k \in 1 .. n - 1 : curve[k][1] < curve[k + 1][1]
  BY DEF IsCurve
<1>3. Last(curve) = curve[n] /\ first \in 1 .. n /\ n \in 1 .. n
  BY <1>1 DEF Last
<1>4. PiecewiseLinear(x, curve) =
        IF x <= curve[first][1] THEN curve[first][2] ELSE IF x >= curve[n][1] THEN curve[n][2]
        ELSE curve[i][2] + Ratio((x - curve[i][1]) * (curve[i + 1][2] - curve[i][2]), curve[i + 1][1] - curve[i][1])
  BY <1>3 DEF PiecewiseLinear
<1> HIDE DEF n, first
<1>5. CASE x <= curve[first][1] \/ x >= curve[n][1]
  BY <1>1, <1>3, <1>4, <1>5
<1>6. CASE x > curve[first][1] /\ x < curve[n][1]
  <2>1. below \subseteq 1 .. n /\ first \in below
    BY <1>1, <1>3, <1>6
  <2> HIDE DEF below
  <2>2. i \in below /\ \A k \in below : k <= i
    BY <1>1, <2>1, FirstNumbers, MaxOfSet
  <2> HIDE DEF i
  <2>3. i \in 1 .. n /\ curve[i][1] <= x
    BY <2>1, <2>2 DEF below
  <2>4. i # n
    BY <1>1, <1>3, <1>6, <2>3
  <2>5. i + 1 \in 1 .. n /\ i \in 1 .. n - 1
    BY <1>1, <2>3, <2>4
  <2>6. i + 1 \notin below
    BY <2>2, <2>3
  <2>7. x < curve[i + 1][1]
    BY <1>1, <2>5, <2>6 DEF below
  <2> DEFINE p == x - curve[i][1]
             d == curve[i + 1][1] - curve[i][1]
             y == curve[i][2]
             z == curve[i + 1][2]
             rise == z - y
  <2>8. /\ p \in Int /\ d \in Int /\ d > 0 /\ 0 <= p /\ p <= d
        /\ InScore(y) /\ InScore(z)
    BY <1>1, <1>2, <2>3, <2>5, <2>7
  <2>9. PiecewiseLinear(x, curve) = y + Ratio(p * (z - y), d)
    BY <1>1, <1>3, <1>4, <1>6
  <2> HIDE DEF p, d, y, z
  <2>10. y \in Int /\ z \in Int /\ 0 <= y /\ y <= Whole /\ 0 <= z /\ z <= Whole
    BY <2>8, WholeIs
  <2>11. rise \in Int /\ p * (z - y) = rise * p
    BY <2>8, <2>10
  <2>12. rise = z - y
    OBVIOUS
  <2> HIDE DEF rise
  <2>13. /\ rise >= 0 => Ratio(rise * p, d) \in 0 .. rise
         /\ rise <= 0 => Ratio(rise * p, d) \in rise .. 0
    BY <2>8, <2>11, RatioOfPart
  <2> DEFINE r == Ratio(rise * p, d)
  <2>14. PiecewiseLinear(x, curve) = y + r
    BY <2>9, <2>11
  <2>15. /\ rise >= 0 => r \in 0 .. rise
         /\ rise <= 0 => r \in rise .. 0
    BY <2>13
  <2> HIDE DEF r
  <2> QED BY <2>10, <2>11, <2>12, <2>14, <2>15, WholeIs DEF InScore
<1> QED BY <1>1, <1>3, <1>5, <1>6

\* The fields of a factor.
FactorFields == {"current", "future", "confidence", "at"}
\* A score, or none.
IsMaybeScore(x) == x = None \/ InScore(x)

\* A factor with its figures.
IsFactor(f) ==
    /\ f = [n \in FactorFields |-> f[n]]
    /\ IsMaybeScore(f.current) /\ IsMaybeScore(f.future) /\ f.confidence \in Nat /\ IsMaybe(f.at)

\* One is made of its figures.
LEMMA FactorIs ==
    ASSUME NEW current, IsMaybeScore(current), NEW future, IsMaybeScore(future),
           NEW confidence \in Nat, NEW at, IsMaybe(at)
    PROVE  IsFactor([current |-> current, future |-> future, confidence |-> confidence, at |-> at])
<1> DEFINE f == [current |-> current, future |-> future, confidence |-> confidence, at |-> at]
<1>1. f = [n \in FactorFields |-> f[n]]
  BY DEF FactorFields
<1>2. f.current = current /\ f.future = future /\ f.confidence = confidence /\ f.at = at
  OBVIOUS
<1> HIDE DEF f
<1>3. IsFactor(f)
  BY <1>1, <1>2 DEF IsFactor
<1> QED BY <1>3 DEF f

\* Of nothing, nothing is known.
LEMMA NoFactorIs == IsFactor(NoFactor)
<1> DEFINE zero == 0
<1>1. zero \in Nat
  OBVIOUS
<1>2. NoFactor = [current |-> None, future |-> None, confidence |-> zero, at |-> None]
  BY DEF NoFactor
<1> HIDE DEF zero
<1> QED BY <1>1, <1>2, FactorIs DEF IsMaybeScore, IsMaybe

\* The last day something was seen.
LEMMA LastDayIs ==
    ASSUME NEW S, IsFiniteSet(S), S # {}, \A x \in S : x.at \in Int
    PROVE  Max({x.at : x \in S}) \in Int
<1> DEFINE f == [x \in S |-> x.at]
<1>1. Range(f) = {x.at : x \in S} /\ IsFiniteSet(Range(f))
  BY ValuesAreFinite DEF Range
<1>2. Range(f) # {} /\ Range(f) \subseteq Int
  BY <1>1
<1> HIDE DEF f
<1>3. Max(Range(f)) \in Int
  BY <1>1, <1>2, MaxOfSet
<1> QED BY <1>1, <1>3

\* The mean of figures by the weights of all of them.
LEMMA MeanByWeight ==
    ASSUME NEW figure, NEW weight, IsWeights(weight), SumFunction(weight) > 0, NEW low \in Int, NEW high \in Int,
           \A x \in DOMAIN weight : figure[x] \in Int /\ low <= figure[x] /\ figure[x] <= high
    PROVE  Ratio(SumFunction([x \in DOMAIN weight |-> figure[x] * weight[x]]), SumFunction(weight)) \in low .. high
<1>1. There(figure, weight) = DOMAIN weight /\ AreParts(figure, weight)
  BY NoneIsNoNumber DEF There, AreParts
<1>2. WeightOf(figure, weight) = SumFunction(weight)
  BY <1>1, PartsAdd DEF SumFunction
<1>3. WeightedMean(figure, weight)
        = Ratio(SumFunction([x \in DOMAIN weight |-> figure[x] * weight[x]]), SumFunction(weight))
  BY <1>1, <1>2, PartsAdd
<1>4. WeightedMean(figure, weight) \in low .. high
  BY <1>1, <1>2, MeanBetween
<1> QED BY <1>3, <1>4

\* What the configuration of the factors gives.
LEMMA FactorConfig ==
    /\ IsCurve(FutureConfig.employment.points) /\ IsCurve(FutureConfig.transport.points)
    /\ FutureConfig.employment.minimum \in Nat /\ FutureConfig.employment.minimum > 0
    /\ FutureConfig.transport.uplift \in Nat /\ FutureConfig.firstYear \in Nat
    /\ \A s \in Statuses : FutureConfig.planning[s] \in 0 .. 100
BY FutureConfigIsValid DEF IsFutureConfig, Statuses

\* The employment centres.
LEMMA EmploymentIs ==
    ASSUME NEW e, NEW centers, IsFiniteSet(centers), \A c \in centers : IsCenter(c)
    PROVE  IsFactor(EmploymentAccessibility(e, centers))
<1> DEFINE c == FutureConfig.employment
           today == [x \in centers |-> x.weight]
           later == [x \in centers |-> x.futureWeight]
           score == [x \in centers |-> PiecewiseLinear(x.distance, c.points)]
           sure == [x \in centers |-> x.confidence]
           mean(figure, weight) ==
              Ratio(SumFunction([x \in centers |-> figure[x] * weight[x]]), SumFunction(weight))
           at == Max({x.at : x \in centers})
           no == ~e.located \/ SumFunction(today) < c.minimum \/ SumFunction(later) < c.minimum
           zero == 0
           hundred == 100
<1>1. EmploymentAccessibility(e, centers) = IF no THEN NoFactor
         ELSE [current |-> mean(score, today), future |-> mean(score, later), confidence |-> mean(sure, today), at |-> at]
  BY DEF EmploymentAccessibility
<1>2. \A x \in centers : /\ x.weight \in Nat /\ x.futureWeight \in Nat /\ x.distance \in Nat /\ x.at \in Int
                         /\ x.confidence \in 0 .. 100
  BY DEF IsCenter
<1>3. IsWeights(today) /\ IsWeights(later) /\ DOMAIN today = centers /\ DOMAIN later = centers
  BY <1>2 DEF IsWeights
<1>4. \A x \in centers : InScore(score[x])
  <2>1. IsCurve(c.points)
    BY FactorConfig
  <2> HIDE DEF c
  <2>2. ASSUME NEW x \in centers PROVE InScore(PiecewiseLinear(x.distance, c.points))
    <3>1. x.distance \in Int
      BY <1>2
    <3> QED BY <2>1, <3>1, CurveIs
  <2> QED BY <2>2
<1>5. \A x \in centers : sure[x] \in Int /\ zero <= sure[x] /\ sure[x] <= hundred
  BY <1>2
<1>6. \A x \in centers : score[x] \in Int /\ zero <= score[x] /\ score[x] <= Whole
  <2> HIDE DEF score
  <2> QED BY <1>4, WholeIs
<1>7. c.minimum > 0 /\ c.minimum \in Nat
  BY FactorConfig
<1>8. zero \in Int /\ hundred \in Int /\ Whole \in Int
  BY WholeIs
<1>9. SumFunction(today) \in Nat /\ SumFunction(later) \in Nat
  <2>1. /\ SumFunction(today) = SumFunctionOnSet(today, centers)
        /\ SumFunction(later) = SumFunctionOnSet(later, centers)
    BY DEF SumFunction
  <2>2. \A x \in centers : today[x] \in Nat /\ later[x] \in Nat
    BY <1>2
  <2> HIDE DEF today, later
  <2> QED BY <2>1, <2>2, SumIsNat
<1>10. centers = {} => SumFunction(today) = 0
  <2>1. centers = {} => SumFunction(today) = SumFunctionOnSet(today, {})
    BY DEF SumFunction
  <2> HIDE DEF today
  <2> QED BY <2>1, SumOfNothing
<1> HIDE DEF today, later, score, sure, c, zero, hundred
<1>11. ASSUME ~no
       PROVE  /\ mean(score, today) \in zero .. Whole /\ mean(score, later) \in zero .. Whole
              /\ mean(sure, today) \in zero .. hundred
  <2>1. SumFunction(today) > 0 /\ SumFunction(later) > 0
    BY <1>7, <1>9, <1>11
  <2> QED BY <1>3, <1>5, <1>6, <1>8, <2>1, MeanByWeight
<1>12. ASSUME ~no PROVE at \in Int
  <2>1. centers # {}
    BY <1>7, <1>9, <1>10, <1>12
  <2> QED BY <1>2, <2>1, LastDayIs
<1> HIDE DEF mean, at, no
<1>13. ASSUME ~no
       PROVE  /\ IsMaybeScore(mean(score, today)) /\ IsMaybeScore(mean(score, later))
              /\ mean(sure, today) \in Nat /\ IsMaybe(at)
  BY <1>8, <1>11, <1>12, <1>13 DEF IsMaybeScore, InScore, IsMaybe, zero
<1> QED BY <1>1, <1>13, FactorIs, NoFactorIs

\* How likely a project is.
LEMMA ProbabilityIs ==
    ASSUME NEW p, IsProject(p)
    PROVE  ProjectProbability(p) \in 0 .. 100
<1>1. FutureConfig.planning[p.status] \in 0 .. 100
  BY FactorConfig DEF IsProject
<1>2. p.probability = None \/ p.probability \in 0 .. 100
  BY DEF IsProject
<1> DEFINE a == FutureConfig.planning[p.status]
           b == p.probability
<1>3. ProjectProbability(p) = IF b = None THEN a ELSE Min({a, b})
  BY DEF ProjectProbability
<1> HIDE DEF a, b
<1>4. a \in 0 .. 100 /\ (b = None \/ b \in 0 .. 100)
  BY <1>1, <1>2 DEF a, b
<1>5. b # None => Min({a, b}) = (IF a <= b THEN a ELSE b)
  <2>1. a \in Int /\ (b # None => b \in Int)
    BY <1>4
  <2> QED BY <2>1, MinOfTwo
<1> QED BY <1>3, <1>4, <1>5

\* The best of some scores, none if there is none.
LEMMA BestScoreIs ==
    ASSUME NEW f, IsFiniteSet(DOMAIN f), \A x \in DOMAIN f : InScore(f[x])
    PROVE  InScore(Max({0} \cup Range(f)))
<1> DEFINE zero == 0
           S == {zero} \cup Range(f)
<1>1. zero \in Int /\ InScore(zero)
  BY WholeIs DEF InScore
<1>2. IsFiniteSet(Range(f)) /\ \A y \in Range(f) : InScore(y)
  BY ValuesAreFinite DEF Range
<1> HIDE DEF zero
<1>3. IsFiniteSet(S) /\ S # {}
  BY <1>2, FS_Singleton, FS_Union
<1>4. \A y \in S : InScore(y) /\ y \in Int
  BY <1>1, <1>2, WholeIs
<1> HIDE DEF S
<1>5. Max(S) \in S
  BY <1>3, <1>4, MaxOfSet
<1> QED BY <1>4, <1>5 DEF S, zero

\* A part of a score.
LEMMA PartOfScore ==
    ASSUME NEW x, InScore(x), NEW n \in 0 .. 100
    PROVE  InScore(Ratio(x * n, 100))
<1> DEFINE d == 100
           m == n
<1>1. d \in Int /\ d > 0 /\ m \in Int /\ 0 <= m /\ m <= d
  OBVIOUS
<1>2. x \in Int /\ 0 <= x /\ x <= Whole
  BY WholeIs
<1> HIDE DEF d, m
<1>3. Ratio(x * m, d) \in 0 .. x
  BY <1>1, <1>2, RatioOfPart
<1> DEFINE y == Ratio(x * m, d)
<1>4. InScore(y)
  <2>1. y \in 0 .. x
    BY <1>3
  <2> HIDE DEF y
  <2> QED BY <1>2, <2>1, WholeIs DEF InScore
<1> QED BY <1>4 DEF d, m

\* The transport projects.
LEMMA TransportIs ==
    ASSUME NEW e, NEW projects, IsFiniteSet(projects), \A p \in projects : IsProject(p)
    PROVE  IsFactor(TransportAccessibility(e, projects))
<1> DEFINE c == FutureConfig.transport
           located == {p \in projects : p.type = "transport" /\ p.distance # None}
           there == {p \in located : p.status = "current"}
           score(p) == PiecewiseLinear(p.distance, c.points)
           today == [p \in there |-> score(p)]
           hoped == [p \in located |-> Ratio(score(p) * ProjectProbability(p), 100)]
           current == Max({0} \cup {score(p) : p \in there})
           raw == Max({0} \cup {Ratio(score(p) * ProjectProbability(p), 100) : p \in located})
           future == Min({current + c.uplift, Max({current, raw})})
           share == MeanOf([p \in located |-> ProjectProbability(p)])
           trust == MeanOf([p \in located |-> p.confidence])
           sure == Min({100, Ratio(trust * (100 + share), 200)})
           at == Max({p.at : p \in located})
           no == ~e.located \/ located = {}
<1>1. TransportAccessibility(e, projects) =
        IF no THEN NoFactor ELSE [current |-> current, future |-> future, confidence |-> sure, at |-> at]
  BY DEF TransportAccessibility
<1>2. \A p \in located : /\ InScore(score(p)) /\ ProjectProbability(p) \in 0 .. 100 /\ p.confidence \in 0 .. 100
                         /\ p.at \in Int
  <2>1. IsCurve(c.points)
    BY FactorConfig
  <2> HIDE DEF c
  <2> TAKE p \in located
  <2>2. p \in projects /\ p.distance # None
    OBVIOUS
  <2>3. p.distance \in Int /\ p.confidence \in 0 .. 100 /\ p.at \in Int
    BY <2>2 DEF IsProject
  <2>4. ProjectProbability(p) \in 0 .. 100
    BY <2>2, ProbabilityIs
  <2> QED BY <2>1, <2>3, <2>4, CurveIs
<1>3. located \subseteq projects /\ there \subseteq located
  OBVIOUS
<1>4. c.uplift \in Nat
  BY FactorConfig
<1> HIDE DEF located, there, score, c
<1>5. IsFiniteSet(located) /\ IsFiniteSet(there)
  BY <1>3, FS_Subset
<1>6. InScore(current)
  <2>1. DOMAIN today = there /\ \A p \in there : InScore(today[p])
    BY <1>2, <1>3
  <2>2. Range(today) = {score(p) : p \in there}
    BY DEF Range
  <2> HIDE DEF today
  <2> QED BY <1>5, <2>1, <2>2, BestScoreIs
<1>7. InScore(raw)
  <2>1. DOMAIN hoped = located /\ \A p \in located : InScore(hoped[p])
    BY <1>2, PartOfScore
  <2>2. Range(hoped) = {Ratio(score(p) * ProjectProbability(p), 100) : p \in located}
    BY DEF Range
  <2> HIDE DEF hoped
  <2> QED BY <1>5, <2>1, <2>2, BestScoreIs
<1> HIDE DEF current, raw
<1>8. InScore(future)
  <2> DEFINE x == current + c.uplift
             y == Max({current, raw})
  <2>1. current \in Int /\ raw \in Int /\ 0 <= current /\ 0 <= raw /\ current <= Whole /\ raw <= Whole
    BY <1>6, <1>7, WholeIs
  <2>2. x \in Int /\ 0 <= x
    BY <1>4, <2>1
  <2>3. y = IF current >= raw THEN current ELSE raw
    BY <2>1, MaxOfTwo
  <2>4. y \in Int /\ 0 <= y /\ y <= Whole
    BY <2>1, <2>3
  <2> HIDE DEF x, y
  <2>5. Min({x, y}) = IF x <= y THEN x ELSE y
    BY <2>2, <2>4, MinOfTwo
  <2>6. InScore(Min({x, y}))
    BY <2>2, <2>4, <2>5, WholeIs DEF InScore
  <2> QED BY <2>6 DEF x, y
<1>9. ASSUME ~no PROVE sure \in Nat /\ at \in Int
  <2> DEFINE f == [p \in located |-> ProjectProbability(p)]
             g == [p \in located |-> p.confidence]
             zero == 0
             hundred == 100
             d == 200
             q == Ratio(trust * (100 + share), d)
  <2>1. located # {}
    BY <1>9
  <2>2. \A p \in located : /\ f[p] \in Int /\ zero <= f[p] /\ f[p] <= hundred
                           /\ g[p] \in Int /\ zero <= g[p] /\ g[p] <= hundred
    BY <1>2
  <2>3. IsFigure(f) /\ IsFigure(g) /\ DOMAIN f = located /\ DOMAIN g = located
    BY <1>5, <2>2 DEF IsFigure
  <2>4. /\ share = MeanOf(f) /\ trust = MeanOf(g) /\ zero \in Int /\ hundred \in Int
        /\ zero = 0 /\ hundred >= 0
    OBVIOUS
  <2> HIDE DEF f, g, share, trust, zero, hundred
  <2>5. share \in Int /\ trust \in Int /\ share >= 0 /\ trust >= 0
    <3>1. share \in zero .. hundred /\ trust \in zero .. hundred
      BY <2>1, <2>2, <2>3, <2>4, MeanOfIs
    <3> QED BY <2>4, <3>1
  <2>6. trust * (100 + share) \in Int /\ trust * (100 + share) >= 0 /\ d \in Int /\ d > 0
    <3>1. 100 + share \in Int /\ 100 + share >= 0
      BY <2>5
    <3>2. \A x, y \in Int : x >= 0 /\ y >= 0 => x * y \in Int /\ x * y >= 0
      OBVIOUS
    <3> QED BY <2>5, <3>1, <3>2
  <2> HIDE DEF d
  <2>7. q \in Int /\ q >= 0
    BY <2>6, RatioIsInt
  <2> HIDE DEF q
  <2>8. Min({hundred, q}) = IF hundred <= q THEN hundred ELSE q
    BY <2>4, <2>7, MinOfTwo
  <2>9. sure = Min({hundred, q})
    BY DEF q, d, hundred
  <2>10. sure \in Nat
    BY <2>4, <2>7, <2>8, <2>9
  <2>11. at \in Int
    BY <1>2, <1>5, <2>1, LastDayIs
  <2> QED BY <2>10, <2>11
<1> HIDE DEF future, sure, at, no
<1> QED BY <1>1, <1>6, <1>8, <1>9, FactorIs, NoFactorIs DEF IsMaybeScore, IsMaybe

\* Projects that are not there yet.
LEMMA PlannedIs ==
    ASSUME NEW probability, IsFiniteSet(DOMAIN probability),
           \A p \in DOMAIN probability : IsProject(p) /\ probability[p] \in 0 .. 100
    PROVE  IsFactor(Planned(probability))
<1> DEFINE S == DOMAIN probability
           f == [p \in S |-> probability[p] * p.confidence]
           g == [p \in S |-> p.confidence]
           at == Max({p.at : p \in S})
           zero == 0
           hundred == 100
           future == MeanOf(f)
           sure == MeanOf(g)
<1>1. Planned(probability) = IF S = {} THEN NoFactor
         ELSE [current |-> zero, future |-> future, confidence |-> sure, at |-> at]
  BY DEF Planned
<1>2. \A p \in S : probability[p] \in 0 .. 100 /\ p.confidence \in 0 .. 100 /\ p.at \in Int
  BY DEF IsProject
<1>3. \A p \in S : g[p] \in Int /\ zero <= g[p] /\ g[p] <= hundred
  BY <1>2
<1>4. \A p \in S : f[p] \in Int /\ zero <= f[p] /\ f[p] <= Whole
  <2>1. \A x, y \in 0 .. 100 : x * y \in Int /\ 0 <= x * y /\ x * y <= Whole
    <3>1. \A x, y \in 0 .. 100 : x * y \in Int /\ 0 <= x * y /\ x * y <= 10000
      OBVIOUS
    <3> QED BY <3>1 DEF Whole
  <2> TAKE p \in S
  <2>2. f[p] = probability[p] * p.confidence
    OBVIOUS
  <2>3. zero = 0
    OBVIOUS
  <2> HIDE DEF f, zero
  <2> QED BY <1>2, <2>1, <2>2, <2>3
<1>5. DOMAIN f = S /\ DOMAIN g = S /\ zero \in Int /\ hundred \in Int
  OBVIOUS
<1>6. InScore(zero)
  BY WholeIs DEF InScore
<1>7. \A x : x \in zero .. Whole => InScore(x)
  BY DEF InScore
<1>12. zero = 0
  OBVIOUS
<1> HIDE DEF f, g, zero, hundred, S
<1>8. IsFigure(f) /\ IsFigure(g)
  BY <1>3, <1>4, <1>5 DEF IsFigure, S
<1>9. ASSUME S # {} PROVE future \in zero .. Whole /\ sure \in zero .. hundred
  BY <1>3, <1>4, <1>5, <1>8, <1>9, WholeIs, MeanOfIs
<1>10. ASSUME S # {} PROVE at \in Int
  BY <1>2, <1>10, LastDayIs DEF S
<1> HIDE DEF future, sure, at
<1>11. ASSUME S # {} PROVE sure \in Nat /\ InScore(future)
  BY <1>5, <1>7, <1>9, <1>11, <1>12
<1> QED BY <1>1, <1>6, <1>10, <1>11, FactorIs, NoFactorIs DEF IsMaybeScore, IsMaybe

\* What is planned, and what is renewed.
LEMMA ProjectFactorsAre ==
    ASSUME NEW projects, IsFiniteSet(projects), \A p \in projects : IsProject(p)
    PROVE  IsFactor(PlanningRealization(projects)) /\ IsFactor(RenewalFactor(projects))
<1> DEFINE S == {p \in projects : p.status # "current"}
           T == {p \in projects : p.type = "urban_renewal"}
           f == [p \in S |-> ProjectProbability(p)]
           g == [p \in T |-> IF p.probability = None THEN 0 ELSE p.probability]
<1>1. PlanningRealization(projects) = Planned(f) /\ RenewalFactor(projects) = Planned(g)
  BY DEF PlanningRealization, RenewalFactor
<1>2. S \subseteq projects /\ T \subseteq projects /\ DOMAIN f = S /\ DOMAIN g = T
  OBVIOUS
<1>3. \A p \in S : f[p] \in 0 .. 100
  BY ProbabilityIs
<1>4. \A p \in T : g[p] \in 0 .. 100
  BY DEF IsProject
<1> HIDE DEF S, T, f, g
<1>5. IsFiniteSet(S) /\ IsFiniteSet(T)
  BY <1>2, FS_Subset
<1> QED BY <1>1, <1>2, <1>3, <1>4, <1>5, PlannedIs

\* What the configuration of the risk gives.
LEMMA RiskConfig ==
    LET c == FutureConfig.obsolescence
    IN  /\ IsWeights(c.weights) /\ DOMAIN c.weights \subseteq RiskParts /\ IsFiniteSet(RiskParts)
        /\ AreWeights(c.weights, RiskParts)
        /\ SumFunctionOnSet(c.weights, DOMAIN c.weights) = 100
        /\ InScore(c.walkUp) /\ InScore(c.elevatorUnknown) /\ c.perYear \in Nat /\ c.grace \in Nat
        /\ c.mainstream[1] \in Nat \ {0} /\ c.mainstream[2] \in Nat \ {0}
<1> DEFINE c == FutureConfig.obsolescence
<1>1. IsObsolescenceConfig(c)
  BY FutureConfigIsValid
<1>2. IsFiniteSet(RiskParts)
  <2> DEFINE s == <<"building_aging", "elevator_disadvantage", "parking_deficiency", "layout_obsolescence",
     "property_management_weakness", "community_deterioration", "competing_supply",
     "buyer_pool_shrinkage", "total_price_mismatch", "product_replacement">>
  <2>1. DOMAIN s = 1 .. 10 /\ Range(s) = RiskParts
    BY DEF Range, RiskParts
  <2> HIDE DEF s
  <2> QED BY <2>1, SequenceIsFinite
<1> HIDE DEF c
<1>3. AreWeights(c.weights, RiskParts)
  BY <1>1 DEF IsObsolescenceConfig
<1>4. InScore(c.walkUp) /\ InScore(c.elevatorUnknown)
  <2>1. c.walkUp \in Scores /\ c.elevatorUnknown \in Scores
    BY <1>1, Zenon DEF IsObsolescenceConfig
  <2> QED BY <2>1, ScoresAre
<1>5. c.perYear \in Nat /\ c.grace \in Nat /\ c.mainstream[1] \in Nat \ {0} /\ c.mainstream[2] \in Nat \ {0}
  BY <1>1 DEF IsObsolescenceConfig
<1> QED BY <1>2, <1>3, <1>4, <1>5, AreWeightsIs DEF c

\* The risk of an age.
LEMMA AgeRiskIs ==
    ASSUME NEW age \in Int
    PROVE  InScore(AgeRisk(age))
<1> DEFINE c == FutureConfig.obsolescence
           over == age - c.grace
           years == Max({0, over})
           risk == years * c.perYear
<1>1. c.perYear \in Nat /\ c.grace \in Nat
  BY RiskConfig
<1>2. AgeRisk(age) = Min({Whole, risk})
  BY DEF AgeRisk, Whole
<1> HIDE DEF c
<1>3. over \in Int
  BY <1>1
<1> HIDE DEF over
<1>4. years \in Int /\ years >= 0
  <2> DEFINE zero == 0
  <2>1. zero \in Int
    OBVIOUS
  <2> HIDE DEF zero
  <2>2. Max({zero, over}) = IF zero >= over THEN zero ELSE over
    BY <1>3, <2>1, MaxOfTwo
  <2> QED BY <1>3, <2>2 DEF zero
<1> HIDE DEF years
<1>5. risk \in Int /\ risk >= 0
  <2>1. c.perYear \in Int /\ c.perYear >= 0
    BY <1>1
  <2> QED BY <1>4, <2>1
<1> HIDE DEF risk
<1>6. Min({Whole, risk}) = IF Whole <= risk THEN Whole ELSE risk
  BY <1>5, WholeIs, MinOfTwo
<1> QED BY <1>2, <1>5, <1>6, WholeIs DEF InScore

\* The year of a day.
LEMMA YearIs == ASSUME NEW now \in Int PROVE Year(now) \in Int
<1> DEFINE d == 365
<1>1. d \in Int /\ d > 0
  OBVIOUS
<1>2. Year(now) = FutureConfig.firstYear + now \div d
  BY DEF Year
<1> HIDE DEF d
<1>3. now \div d \in Int
  BY <1>1, Quotient
<1>4. FutureConfig.firstYear \in Nat
  BY FactorConfig
<1> QED BY <1>2, <1>3, <1>4

\* A number of years, none when it is negative.
LEMMA YearsAre == ASSUME NEW x \in Int PROVE Max({0, x}) \in Int
<1> DEFINE zero == 0
<1>1. zero \in Int
  OBVIOUS
<1> HIDE DEF zero
<1>2. Max({zero, x}) \in Int
  BY <1>1, MaxOfTwo
<1> QED BY <1>2 DEF zero

\* The building's age.
LEMMA AgingIs ==
    ASSUME NEW t, IsHome(t.home), NEW now \in Int
    PROVE  IsFactor(AgingFactor(t, now))
<1> DEFINE years == Year(now) - t.home.year
           age == Max({0, years})
           ninety == 90
<1>1. AgingFactor(t, now) = IF t.home.year = None THEN NoFactor
        ELSE [current |-> AgeRisk(age), future |-> AgeRisk(age + 5), confidence |-> ninety, at |-> now]
  BY DEF AgingFactor
<1>2. Year(now) \in Int
  BY YearIs
<1>3. t.home.year # None => years \in Int
  <2>1. t.home.year = None \/ t.home.year \in Int
    BY FeaturesAre
  <2> QED BY <1>2, <2>1
<1> HIDE DEF years
<1>4. t.home.year # None => age \in Int
  BY <1>3, YearsAre
<1> HIDE DEF age
<1>5. t.home.year # None => InScore(AgeRisk(age)) /\ InScore(AgeRisk(age + 5))
  <2> DEFINE old == age + 5
  <2>1. t.home.year # None => old \in Int
    BY <1>4
  <2> HIDE DEF old
  <2>2. t.home.year # None => InScore(AgeRisk(age)) /\ InScore(AgeRisk(old))
    BY <1>4, <2>1, AgeRiskIs
  <2> QED BY <2>2 DEF old
<1>6. ninety \in Nat
  OBVIOUS
<1> HIDE DEF ninety
<1> QED BY <1>1, <1>5, <1>6, FactorIs, NoFactorIs DEF IsMaybeScore, IsMaybe

\* The risk of a quality.
LEMMA QualityRiskIs == \A q : IsMaybeScore(QualityRisk(q))
<1> TAKE q
<1>1. \A k \in DOMAIN Qualities : Qualities[k] \in {1000, 2500, 5000, 8200, 9500}
  BY DEF Qualities
<1>2. \A x \in {1000, 2500, 5000, 8200, 9500} : InScore(x)
  BY DEF InScore, Whole
<1> QED BY <1>1, <1>2 DEF QualityRisk, IsMaybeScore

\* What is seen of the product.
LEMMA ProductIs ==
    ASSUME NEW e, NEW t, NEW at \in Int
    PROVE  IsFactor(ProductFactor(e, t, at))
<1> DEFINE kinds == {"parking", "management", "maintenance", "layout"}
           table == [k \in kinds |-> <<k, QualityRisk(e.quality[k])>>]
           risks == {<<k, QualityRisk(e.quality[k])>> : k \in kinds}
           lift == <<"elevator", IF t.home.elevator THEN 1500 ELSE 8200>>
           own == {x \in risks : x[2] # None}
           other == IF t.home.elevator = None THEN {} ELSE {lift}
           seen == own \cup other
           f == [x \in seen |-> x[2]]
           current == MeanOf(f)
           future == Min({10000, current + 500})
           sure == Min({100, 20 * Cardinality(seen)})
           zero == 0
<1>1. ProductFactor(e, t, at) = IF seen = {} THEN NoFactor
        ELSE [current |-> current, future |-> future, confidence |-> sure, at |-> at]
  BY DEF ProductFactor
<1>2. IsFiniteSet(kinds)
  <2> DEFINE s == <<"parking", "management", "maintenance", "layout">>
  <2>1. DOMAIN s = 1 .. 4 /\ Range(s) = kinds
    BY DEF Range
  <2> HIDE DEF s, kinds
  <2> QED BY <2>1, SequenceIsFinite
<1>3. IsFiniteSet(risks)
  <2>1. DOMAIN table = kinds /\ Range(table) = risks
    BY DEF Range
  <2> HIDE DEF table, risks, kinds
  <2> QED BY <1>2, <2>1, ValuesAreFinite
<1>4. \A x \in risks : IsMaybeScore(x[2])
  <2>1. \A k, v : <<k, v>>[2] = v
    OBVIOUS
  <2> QED BY <2>1, QualityRiskIs
<1>5. InScore(lift[2])
  <2>1. lift[2] \in {1500, 8200}
    OBVIOUS
  <2>2. \A x \in {1500, 8200} : InScore(x)
    BY DEF InScore, Whole
  <2> QED BY <2>1, <2>2
<1> HIDE DEF risks, lift
<1>6. IsFiniteSet(own) /\ \A x \in own : InScore(x[2])
  <2>1. own \subseteq risks
    OBVIOUS
  <2> QED BY <1>3, <1>4, <2>1, FS_Subset DEF IsMaybeScore
<1>7. IsFiniteSet(other) /\ \A x \in other : InScore(x[2])
  BY <1>5, FS_EmptySet, FS_Singleton
<1> HIDE DEF own, other
<1>8. IsFiniteSet(seen) /\ \A x \in seen : InScore(x[2])
  BY <1>6, <1>7, FS_Union
<1> HIDE DEF seen
<1>9. zero \in Int
  OBVIOUS
<1>10. \A x \in seen : f[x] \in Int /\ zero <= f[x] /\ f[x] <= Whole
  BY <1>8, WholeIs
<1>11. DOMAIN f = seen
  OBVIOUS
<1>12. zero = 0
  OBVIOUS
<1> HIDE DEF f, zero
<1>13. seen # {} => current \in zero .. Whole
  BY <1>8, <1>9, <1>10, <1>11, WholeIs, MeanOfIs DEF IsFigure
<1> HIDE DEF current
<1>14. seen # {} => InScore(current)
  BY <1>12, <1>13 DEF InScore
<1>15. ASSUME seen # {} PROVE InScore(future)
  <2> DEFINE x == current + 500
  <2>1. current \in Int /\ 0 <= current
    BY <1>14, <1>15, WholeIs
  <2>2. x \in Int /\ 0 <= x
    BY <2>1
  <2>3. future = Min({Whole, x})
    BY DEF Whole
  <2> HIDE DEF x, future
  <2>4. Min({Whole, x}) = IF Whole <= x THEN Whole ELSE x
    BY <2>2, WholeIs, MinOfTwo
  <2> QED BY <2>2, <2>3, <2>4, WholeIs DEF InScore
<1>16. sure \in Nat
  <2> DEFINE x == 20 * Cardinality(seen)
             hundred == 100
  <2>1. Cardinality(seen) \in Nat
    BY <1>8, FS_CardinalityType
  <2>2. x \in Nat /\ hundred \in Nat
    BY <2>1
  <2> HIDE DEF x, hundred
  <2>3. Min({hundred, x}) = IF hundred <= x THEN hundred ELSE x
    BY <2>2, MinOfTwo
  <2> QED BY <2>2, <2>3 DEF hundred, x
<1> HIDE DEF future, sure
<1> QED BY <1>1, <1>14, <1>15, <1>16, FactorIs, NoFactorIs DEF IsMaybeScore, IsMaybe

\* The levels of scopes, the smallest place last.
LEMMA SpecificityIs ==
    ASSUME NEW r, r.level \in ToSet(ScopeLevels), NEW t
    PROVE  Specificity(r, t) \in Int
<1>1. DOMAIN ScopeLevels = 1 .. 5
  BY DEF ScopeLevels
<1>2. \E i \in DOMAIN ScopeLevels : ScopeLevels[i] = r.level
  BY DEF ToSet
<1>3. Specificity(r, t) = 6 \/ Specificity(r, t) \in DOMAIN ScopeLevels
  BY <1>2 DEF Specificity
<1> QED BY <1>1, <1>3

\* The best row about a factor.
LEMMA BestIs ==
    ASSUME NEW rows, IsFiniteSet(rows), \A r \in rows : IsFactorRow(r), NEW t, NEW factor
    PROVE  IsFactor(BestFactorEvidence(rows, t, factor))
<1> DEFINE better(r, s) ==
            \/ Specificity(r, t) > Specificity(s, t)
            \/ Specificity(r, t) = Specificity(s, t) /\ r.observed > s.observed
            \/ Specificity(r, t) = Specificity(s, t) /\ r.observed = s.observed /\ r.confidence > s.confidence
           of == {r \in rows : r.factor = factor}
           best == CHOOSE r \in of : ~\E s \in of : better(s, r)
           R == {p \in of \X of : better(p[1], p[2])}
<1>1. BestFactorEvidence(rows, t, factor) = IF of = {} THEN NoFactor
        ELSE [current |-> best.current, future |-> best.future, confidence |-> best.confidence, at |-> best.at]
  BY DEF BestFactorEvidence
<1>2. of \subseteq rows
  OBVIOUS
<1> HIDE DEF of
<1>3. IsFiniteSet(of)
  BY <1>2, FS_Subset
<1>4. \A r \in of : Specificity(r, t) \in Int /\ r.observed \in Int /\ r.confidence \in Nat /\ r.at \in Int
  BY <1>2, SpecificityIs DEF IsFactorRow
<1>5. /\ \A x \in of : <<x, x>> \notin R
      /\ \A x, y, z \in of : <<x, y>> \in R /\ <<y, z>> \in R => <<x, z>> \in R
  BY <1>4
<1>6. \A x, y \in of : better(x, y) => <<x, y>> \in R
  OBVIOUS
<1> HIDE DEF R, better
<1>7. of # {} => \E x \in of : \A y \in of : <<y, x>> \notin R
  BY <1>3, <1>5, FirstOfSet
<1>8. of # {} => best \in of
  <2>1. of # {} => \E x \in of : ~\E s \in of : better(s, x)
    BY <1>6, <1>7
  <2> QED BY <2>1
<1> HIDE DEF best
<1>9. of # {} => /\ IsMaybeScore(best.current) /\ IsMaybeScore(best.future) /\ best.confidence \in Nat
                 /\ IsMaybe(best.at)
  <2>1. of # {} => IsScore(best.current) /\ IsScore(best.future)
    BY <1>2, <1>8 DEF IsFactorRow
  <2>2. \A x : IsScore(x) => IsMaybeScore(x)
    BY ScoresAre DEF IsScore, IsMaybeScore
  <2> QED BY <1>4, <1>8, <2>1, <2>2 DEF IsMaybe
<1> QED BY <1>1, <1>9, FactorIs, NoFactorIs

\* A slice of the baselines, and the day of its run.
IsCarried(slice) == slice = None \/ (IsFigured(slice.figures) /\ slice.day \in Int)

\* What a slice says of the buyer pool.
LEMMA StandInIs ==
    ASSUME NEW factor, NEW slice, IsCarried(slice)
    PROVE  IsFactor(P3Factor(factor, slice))
<1> DEFINE liquidity == slice.figures.liquidity
           current == IF liquidity = None THEN None ELSE 100 * liquidity
           zero == 0
<1>1. ASSUME slice # None, factor = "buyer_pool_depth"
      PROVE  P3Factor(factor, slice) = [current |-> current, future |-> None, confidence |-> zero, at |-> slice.day]
  BY <1>1 DEF P3Factor, NoFactor
<1>2. slice = None \/ factor # "buyer_pool_depth" => P3Factor(factor, slice) = NoFactor
  BY DEF P3Factor
<1>3. slice # None => IsMaybeScore(current)
  <2>1. slice # None => liquidity = None \/ liquidity \in 0 .. 100
    BY DEF IsCarried, IsFigured, IsDepth
  <2>2. \A x \in 0 .. 100 : InScore(100 * x)
    BY DEF InScore, Whole
  <2> QED BY <2>1, <2>2 DEF IsMaybeScore
<1>4. zero \in Nat
  OBVIOUS
<1> HIDE DEF current, zero, liquidity
<1>5. IsMaybeScore(None) /\ (slice # None => IsMaybe(slice.day))
  BY DEF IsMaybeScore, IsMaybe, IsCarried
<1> QED BY <1>1, <1>2, <1>3, <1>4, <1>5, FactorIs, NoFactorIs

\* What is known of a home: finitely many rows, centres and projects, as they
\* are stored.
LEMMA KnownIs ==
    ASSUME NEW e, IsEvidence(e), NEW t, NEW now
    PROVE  /\ IsFiniteSet(FactorRows(e, t, now)) /\ \A r \in FactorRows(e, t, now) : IsFactorRow(r)
           /\ IsFiniteSet(CentersOf(e, now)) /\ \A c \in CentersOf(e, now) : IsCenter(c)
           /\ IsFiniteSet(ProjectsOf(e, t, now)) /\ \A p \in ProjectsOf(e, t, now) : IsProject(p)
<1> DEFINE rows == FactorRows(e, t, now)
           centers == CentersOf(e, now)
           projects == ProjectsOf(e, t, now)
<1>1. rows \subseteq e.rows /\ centers \subseteq e.centers /\ projects \subseteq e.projects
  BY DEF FactorRows, CentersOf, ProjectsOf
<1>2. /\ IsFiniteSet(e.rows) /\ IsFiniteSet(e.centers) /\ IsFiniteSet(e.projects)
      /\ \A r \in e.rows : IsFactorRow(r)
      /\ \A c \in e.centers : IsCenter(c)
      /\ \A p \in e.projects : IsProject(p)
  BY Zenon DEF IsEvidence
<1> HIDE DEF rows, centers, projects
<1>3. IsFiniteSet(rows) /\ IsFiniteSet(centers) /\ IsFiniteSet(projects)
  BY <1>1, <1>2, FS_Subset
<1>4. (\A r \in rows : IsFactorRow(r)) /\ (\A c \in centers : IsCenter(c)) /\ (\A p \in projects : IsProject(p))
  BY <1>1, <1>2
<1> QED BY <1>3, <1>4 DEF rows, centers, projects

\* The day of the last thing that is known is a day.
LEMMA TimestampIs ==
    ASSUME NEW e, IsEvidence(e), NEW t, t.day \in Int, NEW slice, IsCarried(slice), NEW now
    PROVE  DataTimestamp(e, t, slice, now) \in Int
<1> DEFINE rows == FactorRows(e, t, now)
           centers == CentersOf(e, now)
           projects == ProjectsOf(e, t, now)
           known == rows \cup centers \cup projects
           at == [x \in known |-> x.at]
           seen == {t.day}
           carried == IF slice = None THEN {} ELSE {slice.day}
           placed == IF e.hierarchyAt = None THEN {} ELSE {e.hierarchyAt}
           days == {x.at : x \in known}
<1>1. /\ IsFiniteSet(rows) /\ IsFiniteSet(centers) /\ IsFiniteSet(projects)
      /\ \A r \in rows : IsFactorRow(r)
      /\ \A c \in centers : IsCenter(c)
      /\ \A p \in projects : IsProject(p)
  BY KnownIs
<1>2. DataTimestamp(e, t, slice, now) = Max(seen \cup days \cup carried \cup placed)
  BY DEF DataTimestamp
<1> HIDE DEF rows, centers, projects
<1>3. IsFiniteSet(known)
  BY <1>1, FS_Union
<1>4. \A x \in known : x.at \in Int
  <2>1. \A r : IsFactorRow(r) => r.at \in Int
    BY DEF IsFactorRow
  <2>2. \A c : IsCenter(c) => c.at \in Int
    BY DEF IsCenter
  <2>3. \A p : IsProject(p) => p.at \in Int
    BY DEF IsProject
  <2> QED BY <1>1, <2>1, <2>2, <2>3
<1> HIDE DEF known
<1>5. IsFiniteSet(days) /\ days \subseteq Int
  <2>1. DOMAIN at = known /\ Range(at) = days /\ days \subseteq Int
    BY <1>4 DEF Range
  <2> HIDE DEF at, days
  <2> QED BY <1>3, <2>1, ValuesAreFinite
<1>6. IsFiniteSet(seen) /\ seen \subseteq Int /\ seen # {}
  BY FS_Singleton
<1>7. IsFiniteSet(carried) /\ carried \subseteq Int
  BY FS_Singleton, FS_EmptySet DEF IsCarried
<1>8. IsFiniteSet(placed) /\ placed \subseteq Int
  <2>1. e.hierarchyAt = None \/ e.hierarchyAt \in Int
    BY Zenon DEF IsEvidence
  <2> QED BY <2>1, FS_Singleton, FS_EmptySet
<1> HIDE DEF seen, days, carried, placed
<1>9. IsFiniteSet(seen \cup days \cup carried \cup placed)
  BY <1>5, <1>6, <1>7, <1>8, FS_Union
<1> QED BY <1>2, <1>5, <1>6, <1>7, <1>8, <1>9, MaxOfSet

\* Factors with their figures.
AreFactors(factors) ==
    /\ factors = [n \in AllFutureFactors |-> factors[n]]
    /\ \A n \in AllFutureFactors : IsFactor(factors[n])

\* Factors of a home are typed, whatever decides them.
LEMMA FactorsAre ==
    ASSUME NEW e, IsEvidence(e), NEW t, IsHome(t.home), t.day \in Int,
           NEW slice, IsCarried(slice), NEW now \in Int
    PROVE  AreFactors(BuildFactors(e, t, slice, now))
<1> DEFINE rows == FactorRows(e, t, now)
           centers == CentersOf(e, now)
           projects == ProjectsOf(e, t, now)
           last == DataTimestamp(e, t, slice, now)
           factors == BuildFactors(e, t, slice, now)
<1>1. IsFiniteSet(rows) /\ \A r \in rows : IsFactorRow(r)
  BY KnownIs
<1>2. IsFiniteSet(centers) /\ \A c \in centers : IsCenter(c)
  BY KnownIs
<1>3. IsFiniteSet(projects) /\ \A p \in projects : IsProject(p)
  BY KnownIs
<1>4. factors = [n \in AllFutureFactors |-> factors[n]]
  BY DEF BuildFactors
<1>5. \A n \in AllFutureFactors :
         factors[n] \in {EmploymentAccessibility(e, centers), TransportAccessibility(e, projects),
                         PlanningRealization(projects), RenewalFactor(projects), AgingFactor(t, now),
                         ProductFactor(e, t, last), BestFactorEvidence(rows, t, n), P3Factor(n, slice)}
  BY DEF BuildFactors
<1>9. last \in Int
  BY TimestampIs
<1> HIDE DEF rows, centers, projects, factors, last
<1>6. /\ IsFactor(EmploymentAccessibility(e, centers)) /\ IsFactor(TransportAccessibility(e, projects))
      /\ IsFactor(PlanningRealization(projects)) /\ IsFactor(RenewalFactor(projects))
      /\ IsFactor(AgingFactor(t, now)) /\ IsFactor(ProductFactor(e, t, last))
  BY <1>2, <1>3, <1>9, EmploymentIs, TransportIs, ProjectFactorsAre, AgingIs, ProductIs
<1>7. \A n : IsFactor(BestFactorEvidence(rows, t, n)) /\ IsFactor(P3Factor(n, slice))
  BY <1>1, BestIs, StandInIs
<1>8. AreFactors(factors)
  BY <1>4, <1>5, <1>6, <1>7 DEF AreFactors
<1> QED BY <1>8 DEF factors

-----------------------------------------------------------------------------
(* Score, risk, alpha and trust: their types, and that they only gain when *)
(* the factors that speak for a home do.                                   *)

\* Parts that are scores, where they are there.
AreScores(values, w) == \A n \in DOMAIN w : IsMaybeScore(values[n])

\* A sum of rounded quotients exceeds the quotient of the sum by no more than a
\* half for each.
LEMMA RoundedSum ==
    ASSUME NEW f, NEW q, NEW S, IsFiniteSet(S), NEW d \in Int, d > 0,
           \A x \in S : f[x] \in Nat /\ q[x] = Ratio(f[x], d)
    PROVE  /\ SumFunctionOnSet(q, S) \in Nat
           /\ (2 * d) * SumFunctionOnSet(q, S) <= 2 * SumFunctionOnSet(f, S) + d * Cardinality(S)
<1>1. \A x \in S : q[x] \in Nat /\ f[x] \in Nat /\ (2 * d) * q[x] <= 2 * f[x] + d
  <2> TAKE x \in S
  <2> DEFINE n == 2 * f[x] + d
             k == 2 * d
  <2>1. q[x] = n \div k
    BY DEF Ratio
  <2>2. n \in Int /\ k \in Int /\ k > 0
    OBVIOUS
  <2>3. q[x] \in Int /\ q[x] >= 0
    BY RatioIsInt
  <2>4. k * (n \div k) <= n
    BY <2>2, Quotient
  <2> QED BY <2>1, <2>3, <2>4
<1> DEFINE Fine(T) == (2 * d) * SumFunctionOnSet(q, T) <= 2 * SumFunctionOnSet(f, T) + d * Cardinality(T)
           C == {T \in SUBSET S : ~Fine(T)}
<1>2. SumFunctionOnSet(q, S) \in Nat
  BY <1>1, SumIsNat
<1> SUFFICES ASSUME C # {} PROVE FALSE
  BY <1>2
<1>3. PICK T \in C : \A U \in C : U \subseteq T => U = T
  <2>1. C \subseteq SUBSET S
    OBVIOUS
  <2> HIDE DEF C
  <2> QED BY <2>1, LeastSubset
<1>4. IsFiniteSet(T) /\ T # {}
  <2>1. Cardinality({}) = 0 /\ SumFunctionOnSet(q, {}) = 0 /\ SumFunctionOnSet(f, {}) = 0
    BY FS_EmptySet, SumOfNothing
  <2>2. Fine({})
    BY <2>1
  <2> QED BY <2>2, FS_Subset
<1> DEFINE R == T \ {Pick(T)}
<1>5. /\ Pick(T) \in T
      /\ SumFunctionOnSet(q, T) = q[Pick(T)] + SumFunctionOnSet(q, R)
      /\ SumFunctionOnSet(f, T) = f[Pick(T)] + SumFunctionOnSet(f, R)
  BY <1>4, SumOfMore
<1>6. /\ IsFiniteSet(R) /\ Cardinality(R) \in Int /\ Cardinality(T) = Cardinality(R) + 1
  <2>1. IsFiniteSet(R) /\ Cardinality(R) = Cardinality(T) - 1
    BY <1>4, <1>5, FS_RemoveElement
  <2>2. Cardinality(R) \in Nat /\ Cardinality(T) \in Nat
    BY <1>4, <2>1, FS_CardinalityType
  <2> QED BY <2>1, <2>2
<1>7. Fine(R)
  BY <1>3, <1>5
<1>8. SumFunctionOnSet(q, R) \in Nat /\ SumFunctionOnSet(f, R) \in Nat
  BY <1>1, <1>6, SumIsNat
<1> DEFINE n == Cardinality(R)
           x == q[Pick(T)]
           y == f[Pick(T)]
           qs == SumFunctionOnSet(q, R)
           fs == SumFunctionOnSet(f, R)
<1>9. x \in Int /\ y \in Int /\ (2 * d) * x <= 2 * y + d
  BY <1>1, <1>5
<1>10. n \in Int /\ qs \in Int /\ fs \in Int /\ (2 * d) * qs <= 2 * fs + d * n
  BY <1>6, <1>7, <1>8
<1>11. ~((2 * d) * (x + qs) <= 2 * (y + fs) + d * (n + 1))
  BY <1>3, <1>5, <1>6
<1> HIDE DEF n, x, y, qs, fs, C
<1>12. (2 * d) * (x + qs) = (2 * d) * x + (2 * d) * qs /\ d * (n + 1) = d * n + d
  BY <1>9, <1>10
<1> QED BY <1>9, <1>10, <1>11, <1>12

\* A mean that was rounded part by part is a number.
LEMMA RoundedMeanIs ==
    ASSUME NEW parts, IsFiniteSet(parts), NEW x, IsRoundedMean(x, parts), x # None
    PROVE  x \in Int /\ 0 <= x /\ IsMaybe(x)
<1> DEFINE n == Cardinality(parts) \div 2
<1>1. n \in Int
  BY FS_CardinalityType
<1>2. x \in 0 .. 10000 + n
  BY DEF IsRoundedMean
<1> HIDE DEF n
<1> QED BY <1>1, <1>2 DEF IsMaybe

\* What a gated score adds up: its known parts, by their weights.
GatedPart(values, w) == [n \in There(values, w) |-> Ratio(values[n] * w[n], WeightOf(values, w))]

\* A gated score is missing, or the sum of its parts.
LEMMA GatedAdds ==
    ASSUME NEW values, NEW c, IsWeights(c.weights), AreScores(values, c.weights)
    PROVE  /\ AreParts(values, c.weights)
           /\ WeightOf(values, c.weights) \in Nat
           /\ IsFiniteSet(There(values, c.weights)) /\ There(values, c.weights) \subseteq DOMAIN c.weights
           /\ WeightOf(values, c.weights) = SumFunctionOnSet(c.weights, There(values, c.weights))
           /\ GatedScore(values, c).coverage = WeightOf(values, c.weights)
           /\ GatedScore(values, c).score =
                 IF WeightOf(values, c.weights) < c.coverage \/ WeightOf(values, c.weights) = 0 THEN None
                 ELSE SumFunctionOnSet(GatedPart(values, c.weights), There(values, c.weights))
<1>1. AreParts(values, c.weights)
  BY WholeIs DEF AreScores, AreParts, IsMaybeScore
<1>2. DOMAIN GatedPart(values, c.weights) = There(values, c.weights)
  BY DEF GatedPart
<1>3. GatedScore(values, c) =
        [score |-> IF WeightOf(values, c.weights) < c.coverage \/ WeightOf(values, c.weights) = 0 THEN None
                   ELSE SumFunction(GatedPart(values, c.weights)),
         coverage |-> WeightOf(values, c.weights)]
  BY DEF GatedScore, GatedPart, There
<1>4. SumFunction(GatedPart(values, c.weights)) = SumFunctionOnSet(GatedPart(values, c.weights), There(values, c.weights))
  BY <1>2 DEF SumFunction
<1>5. /\ IsFiniteSet(There(values, c.weights)) /\ WeightOf(values, c.weights) \in Nat
      /\ WeightOf(values, c.weights) = SumFunctionOnSet(c.weights, There(values, c.weights))
  BY <1>1, PartsAdd
<1>6. There(values, c.weights) \subseteq DOMAIN c.weights
  BY DEF There
<1> QED BY <1>1, <1>3, <1>4, <1>5, <1>6

\* A gated score is missing, or a mean that was rounded part by part.
LEMMA GatedIs ==
    ASSUME NEW values, NEW c, NEW parts, IsFiniteSet(parts), IsWeights(c.weights), DOMAIN c.weights \subseteq parts,
           AreScores(values, c.weights), c.coverage \in Int
    PROVE  /\ IsRoundedMean(GatedScore(values, c).score, parts) /\ GatedScore(values, c).coverage \in Int
<1> DEFINE w == c.weights
           T == There(values, w)
           a == WeightOf(values, w)
           f == [n \in T |-> values[n] * w[n]]
           h == [n \in T |-> Whole * w[n]]
           q == GatedPart(values, w)
           total == SumFunctionOnSet(q, T)
           k == Cardinality(T)
           m == Cardinality(parts)
<1>1. /\ a \in Nat /\ IsFiniteSet(T) /\ T \subseteq DOMAIN w /\ a = SumFunctionOnSet(w, T)
      /\ GatedScore(values, c).coverage = a
      /\ GatedScore(values, c).score = IF a < c.coverage \/ a = 0 THEN None ELSE total
  BY GatedAdds
<1>2. ASSUME NEW n \in T
      PROVE  /\ w[n] \in Int /\ f[n] \in Nat /\ h[n] \in Int /\ h[n] = Whole * w[n] /\ f[n] <= h[n]
             /\ q[n] = Ratio(f[n], a)
  <2>1. n \in DOMAIN w /\ values[n] # None
    BY DEF There
  <2>2. w[n] \in Nat /\ values[n] \in Int /\ 0 <= values[n] /\ values[n] <= Whole
    BY <2>1, WholeIs DEF IsWeights, AreScores, IsMaybeScore
  <2>3. values[n] * w[n] \in Int /\ 0 * w[n] <= values[n] * w[n] /\ values[n] * w[n] <= Whole * w[n]
    BY <2>2, WholeIs, Products
  <2>4. q[n] = Ratio(values[n] * w[n], a)
    BY DEF GatedPart
  <2> QED BY <2>2, <2>3, <2>4, WholeIs
<1>3. k \in Int /\ m \in Int /\ k <= m
  <2>1. T \subseteq parts
    BY <1>1
  <2>2. k \in Nat /\ m \in Nat /\ k <= m
    BY <2>1, FS_Subset, FS_CardinalityType
  <2> QED BY <2>2
<1> HIDE DEF T, a, f, h, q
<1>4. ASSUME a # 0 PROVE total \in 0 .. Whole + m \div 2
  <2>1. a \in Int /\ a > 0
    BY <1>1, <1>4
  <2>2. total \in Nat /\ (2 * a) * total <= 2 * SumFunctionOnSet(f, T) + a * k
    BY <1>1, <1>2, <2>1, RoundedSum
  <2>3. SumFunctionOnSet(f, T) <= SumFunctionOnSet(h, T)
    BY <1>1, <1>2, SumIsMonotonic
  <2>4. SumFunctionOnSet(h, T) = Whole * SumFunctionOnSet(w, T)
    <3>1. Whole \in Int
      BY WholeIs
    <3> QED BY <1>1, <1>2, <3>1, SumOfMultiples
  <2> DEFINE fs == SumFunctionOnSet(f, T)
  <2>5. fs \in Int /\ fs <= Whole * a
    <3>1. fs \in Int
      BY <1>1, <1>2, SumIsInt
    <3> QED BY <1>1, <2>3, <2>4, <3>1
  <2> HIDE DEF fs, total, k, m
  <2>6. (2 * a) * total <= 2 * (Whole * a) + a * k
    BY <1>3, <2>1, <2>2, <2>5, WholeIs DEF fs
  <2> DEFINE x == 2 * total
             y == 2 * Whole + k
  <2>7. x \in Int /\ y \in Int
    BY <1>3, <2>2, WholeIs
  <2>8. x * a <= y * a
    <3>1. (2 * a) * total = (2 * total) * a
      BY <2>1, <2>2
    <3>2. 2 * (Whole * a) + a * k = (2 * Whole + k) * a
      BY <1>3, <2>1, WholeIs
    <3> QED BY <2>6, <3>1, <3>2
  <2>9. x <= y
    <3> HIDE DEF x, y
    <3>1. ASSUME y < x PROVE FALSE
      <4>1. y + 1 <= x
        BY <2>7, <3>1
      <4>2. (y + 1) * a <= x * a
        BY <2>1, <2>7, <4>1, Products
      <4>3. (y + 1) * a = y * a + a /\ y * a \in Int /\ x * a \in Int
        BY <2>1, <2>7
      <4> QED BY <2>1, <2>8, <4>2, <4>3
    <3> QED BY <2>7, <3>1
  <2> DEFINE over == total - Whole
             two == 2
  <2>10. over \in Int /\ over * two <= m /\ two \in Int /\ two > 0
    BY <1>3, <2>2, <2>9, WholeIs
  <2>11. total = over + Whole
    BY <2>2, WholeIs
  <2> HIDE DEF over, two
  <2>12. over <= m \div two /\ m \div two \in Int
    BY <1>3, <2>10, QuotientBounds, Quotient
  <2> QED BY <2>2, <2>10, <2>11, <2>12, WholeIs DEF two
<1>5. GatedScore(values, c).score = None \/ GatedScore(values, c).score \in 0 .. Whole + m \div 2
  BY <1>1, <1>4
<1> QED BY <1>1, <1>5 DEF IsRoundedMean, Whole

\* Its coverage is in hundredths.
LEMMA CoverageIs ==
    ASSUME NEW values, NEW c, NEW parts, IsFiniteSet(parts), AreWeights(c.weights, parts),
           AreScores(values, c.weights)
    PROVE  GatedScore(values, c).coverage \in 0 .. 100
<1>1. AreParts(values, c.weights)
  BY WholeIs DEF AreScores, AreParts, IsMaybeScore
<1>2. WeightOf(values, c.weights) \in 0 .. 100
  BY <1>1, WeightOfSome
<1> QED BY <1>2 DEF GatedScore

\* It rises with its parts.
LEMMA GatedRises ==
    ASSUME NEW values, NEW better, NEW c, IsWeights(c.weights), c.coverage \in Int,
           AreScores(values, c.weights), AreScores(better, c.weights),
           \A n \in DOMAIN c.weights : /\ (values[n] = None) = (better[n] = None)
                                       /\ values[n] # None => values[n] <= better[n]
    PROVE  LET low == GatedScore(values, c)
               high == GatedScore(better, c)
           IN  /\ low.coverage = high.coverage /\ (low.score = None) = (high.score = None)
               /\ low.score # None => low.score <= high.score
<1> DEFINE w == c.weights
           T == There(values, w)
           a == WeightOf(values, w)
           f == GatedPart(values, w)
           g == GatedPart(better, w)
<1>1. There(better, w) = T /\ WeightOf(better, w) = a
  <2>1. There(better, w) = T
    BY DEF There
  <2> QED BY <2>1 DEF There, WeightOf
<1>2. /\ a \in Nat /\ IsFiniteSet(T) /\ GatedScore(values, c).coverage = a
      /\ GatedScore(values, c).score = IF a < c.coverage \/ a = 0 THEN None ELSE SumFunctionOnSet(f, T)
  BY GatedAdds
<1>3. /\ GatedScore(better, c).coverage = a
      /\ GatedScore(better, c).score = IF a < c.coverage \/ a = 0 THEN None ELSE SumFunctionOnSet(g, T)
  BY <1>1, GatedAdds
<1>4. ASSUME a # 0, NEW n \in T PROVE f[n] \in Int /\ g[n] \in Int /\ f[n] <= g[n]
  <2>1. n \in DOMAIN w /\ values[n] # None /\ better[n] # None /\ values[n] <= better[n]
    BY DEF There
  <2>2. w[n] \in Nat /\ values[n] \in Int /\ better[n] \in Int
    BY <2>1, WholeIs DEF IsWeights, AreScores, IsMaybeScore
  <2>3. values[n] * w[n] \in Int /\ better[n] * w[n] \in Int /\ values[n] * w[n] <= better[n] * w[n]
    BY <2>1, <2>2, Products
  <2>4. f[n] = Ratio(values[n] * w[n], a) /\ g[n] = Ratio(better[n] * w[n], a)
    BY <1>1 DEF GatedPart
  <2>5. a \in Int /\ a > 0
    BY <1>2, <1>4
  <2> HIDE DEF a, w, f, g
  <2> QED BY <2>3, <2>4, <2>5, RatioRises, RatioIsInt
<1> HIDE DEF T, a, f, g
<1>5. ASSUME a # 0
      PROVE  /\ SumFunctionOnSet(f, T) \in Int /\ SumFunctionOnSet(g, T) \in Int
             /\ SumFunctionOnSet(f, T) <= SumFunctionOnSet(g, T)
  BY <1>2, <1>4, <1>5, SumIsInt, SumIsMonotonic
<1> QED BY <1>2, <1>3, <1>5, NoneIsNoNumber

\* The factors of a home and the names of them.
LEMMA FactorNames ==
    /\ IsFiniteSet(AllFutureFactors) /\ IsFiniteSet(ScoreFactors) /\ ScoreFactors \subseteq AllFutureFactors
    /\ AllFutureFactors # {}
<1> DEFINE s == <<"employment_accessibility", "transport_accessibility", "supply_scarcity", "buyer_pool_depth",
                  "community_competitiveness", "urban_renewal", "rental_demand", "public_services",
                  "planning_realization", "market_cycle", "building_aging", "product_obsolescence">>
<1>1. DOMAIN s = 1 .. 12 /\ Range(s) = AllFutureFactors
  BY DEF Range, AllFutureFactors, ScoreFactors
<1> HIDE DEF s
<1>2. IsFiniteSet(AllFutureFactors)
  BY <1>1, SequenceIsFinite
<1>3. ScoreFactors \subseteq AllFutureFactors /\ "market_cycle" \in AllFutureFactors
  BY DEF AllFutureFactors
<1> QED BY <1>2, <1>3, FS_Subset

\* What the configuration of the score gives.
LEMMA ScoreConfig ==
    LET c == FutureConfig.score
    IN  IsWeights(c.weights) /\ DOMAIN c.weights \subseteq ScoreFactors /\ c.coverage \in Int
BY FutureConfigIsValid, FactorNames, AreWeightsIs

\* The future score.
LEMMA FutureScoreIs ==
    ASSUME NEW factors, AreFactors(factors)
    PROVE  /\ AreScores([n \in ScoreFactors |-> factors[n].future], FutureConfig.score.weights)
           /\ IsRoundedMean(FutureScore(factors).score, ScoreFactors) /\ FutureScore(factors).coverage \in Int
           /\ FutureScore(factors).coverage \in 0 .. 100
<1> DEFINE c == FutureConfig.score
           values == [n \in ScoreFactors |-> factors[n].future]
<1>1. IsWeights(c.weights) /\ DOMAIN c.weights \subseteq ScoreFactors /\ c.coverage \in Int
  BY ScoreConfig
<1>2. \A n \in ScoreFactors : IsMaybeScore(values[n])
  BY FactorNames DEF AreFactors, IsFactor
<1>5. AreWeights(c.weights, ScoreFactors)
  BY FutureConfigIsValid
<1> HIDE DEF c, values
<1>3. AreScores(values, c.weights)
  BY <1>1, <1>2 DEF AreScores
<1>4. IsRoundedMean(GatedScore(values, c).score, ScoreFactors) /\ GatedScore(values, c).coverage \in Int
  BY <1>1, <1>3, FactorNames, GatedIs
<1>6. GatedScore(values, c).coverage \in 0 .. 100
  BY <1>3, <1>5, FactorNames, CoverageIs
<1> QED BY <1>3, <1>4, <1>6 DEF FutureScore, c, values

\* Factors that are known alike, and no less favourable: what wears a home down
\* is the same.
Brighter(high, low) ==
    \A n \in AllFutureFactors :
       /\ high[n].current = low[n].current /\ high[n].confidence = low[n].confidence /\ high[n].at = low[n].at
       /\ (high[n].future = None) = (low[n].future = None)
       /\ low[n].future # None => low[n].future <= high[n].future
       /\ n \in {"building_aging", "product_obsolescence"} => high[n].future = low[n].future

\* The future score rises.
LEMMA ScoreRises ==
    ASSUME NEW high, AreFactors(high), NEW low, AreFactors(low), Brighter(high, low)
    PROVE  /\ FutureScore(low).coverage = FutureScore(high).coverage
           /\ (FutureScore(low).score = None) = (FutureScore(high).score = None)
           /\ FutureScore(low).score # None => FutureScore(low).score <= FutureScore(high).score
<1> DEFINE c == FutureConfig.score
           old == [n \in ScoreFactors |-> low[n].future]
           new == [n \in ScoreFactors |-> high[n].future]
<1>1. IsWeights(c.weights) /\ DOMAIN c.weights \subseteq ScoreFactors /\ c.coverage \in Int
  BY ScoreConfig
<1>2. AreScores(old, c.weights) /\ AreScores(new, c.weights)
  BY FutureScoreIs
<1>3. \A n \in ScoreFactors : /\ (old[n] = None) = (new[n] = None)
                              /\ old[n] # None => old[n] <= new[n]
  BY FactorNames DEF Brighter
<1>4. FutureScore(low) = GatedScore(old, c) /\ FutureScore(high) = GatedScore(new, c)
  BY DEF FutureScore
<1> HIDE DEF c, old, new
<1>5. \A n \in DOMAIN c.weights : /\ (old[n] = None) = (new[n] = None)
                                  /\ old[n] # None => old[n] <= new[n]
  BY <1>1, <1>3
<1> QED BY <1>1, <1>2, <1>4, <1>5, GatedRises

\* The other side of a score.
LEMMA InverseIs ==
    ASSUME NEW x, IsMaybeScore(x)
    PROVE  /\ IsMaybeScore(Inverse100(x)) /\ (Inverse100(x) = None) = (x = None)
           /\ \A y : IsMaybeScore(y) /\ x # None /\ y # None /\ x <= y => Inverse100(y) <= Inverse100(x)
<1>1. \A y : IsMaybeScore(y) => Inverse100(y) = IF y = None THEN None ELSE Whole - y
  BY DEF Inverse100, Whole
<1>2. \A y : InScore(y) => Whole - y \in Int /\ 0 <= Whole - y /\ Whole - y <= Whole
  BY WholeIs
<1>3. \A y : y \in Int /\ 0 <= y /\ y <= Whole => InScore(y)
  BY WholeIs DEF InScore
<1>4. \A y : IsMaybeScore(y) /\ y # None => y \in Int
  BY WholeIs DEF IsMaybeScore
<1>5. IsMaybeScore(Inverse100(x)) /\ (Inverse100(x) = None) = (x = None)
  BY <1>1, <1>2, <1>3, NoneIsNoNumber DEF IsMaybeScore
<1>6. ASSUME NEW y, IsMaybeScore(y), x # None, y # None, x <= y PROVE Inverse100(y) <= Inverse100(x)
  BY <1>1, <1>4, <1>6, WholeIs
<1> QED BY <1>5, <1>6

\* Figures that are written down.
LEMMA PlainScores ==
    /\ InScore(1500) /\ InScore(2000) /\ InScore(4500) /\ InScore(6800) /\ InScore(8200)
BY DEF InScore, Whole

\* The risk of a price far from the mainstream.
LEMMA TotalPriceIs ==
    ASSUME NEW fair \in Int
    PROVE  InScore(TotalPriceRisk(fair))
<1> DEFINE m == FutureConfig.obsolescence.mainstream
           bound == IF fair < m[1] THEN m[1] ELSE m[2]
           k == 5000
           far == Distance(fair, bound)
           over == far * k
           risk == k + Ratio(over, bound)
<1>1. m[1] \in Nat \ {0} /\ m[2] \in Nat \ {0}
  BY RiskConfig
<1>2. TotalPriceRisk(fair) \in {2000, Min({Whole, risk})}
  BY DEF TotalPriceRisk, Whole
<1>3. k \in Int /\ k >= 0
  OBVIOUS
<1> HIDE DEF m, k
<1>4. bound \in Int /\ bound > 0
  BY <1>1
<1> HIDE DEF bound
<1>5. far \in Int /\ far >= 0
  BY <1>4 DEF Distance
<1> HIDE DEF far
<1>6. over \in Int /\ over >= 0
  BY <1>3, <1>5
<1> HIDE DEF over
<1>7. Ratio(over, bound) \in Int /\ Ratio(over, bound) >= 0
  BY <1>4, <1>6, RatioIsInt
<1>8. risk \in Int /\ risk >= 0
  BY <1>3, <1>7
<1> HIDE DEF risk
<1>9. Min({Whole, risk}) = IF Whole <= risk THEN Whole ELSE risk
  BY <1>8, WholeIs, MinOfTwo
<1>10. InScore(Min({Whole, risk}))
  BY <1>8, <1>9, WholeIs DEF InScore
<1> QED BY <1>2, <1>10, PlainScores

\* The risk of a layout.
LEMMA LayoutIs ==
    ASSUME NEW e, NEW t
    PROVE  IsMaybeScore(LayoutRisk(e, t))
<1>1. LayoutRisk(e, t) \in {QualityRisk(e.quality.layout), None, 2000, 4500, 6800}
  BY DEF LayoutRisk
<1> QED BY <1>1, QualityRiskIs, PlainScores DEF IsMaybeScore

\* The risk of the age that the building is to have.
LEMMA BuildingAgeIs ==
    ASSUME NEW t, IsHome(t.home), NEW factors, AreFactors(factors), NEW now \in Int
    PROVE  IsMaybeScore(BuildingAgeRisk(t, factors, now))
<1> DEFINE years == Year(now) + 5 - t.home.year
           age == Max({0, years})
           given == factors["building_aging"].future
<1>1. BuildingAgeRisk(t, factors, now) = IF given # None THEN given ELSE IF t.home.year = None THEN None ELSE AgeRisk(age)
  BY DEF BuildingAgeRisk
<1>2. IsMaybeScore(given)
  BY DEF AreFactors, IsFactor, AllFutureFactors
<1>3. t.home.year = None \/ t.home.year \in Int
  BY FeaturesAre
<1>4. t.home.year # None => years \in Int
  BY <1>3, YearIs
<1> HIDE DEF years, given
<1>5. t.home.year # None => age \in Int
  BY <1>4, YearsAre
<1> HIDE DEF age
<1>6. t.home.year # None => InScore(AgeRisk(age))
  BY <1>5, AgeRiskIs
<1> QED BY <1>1, <1>2, <1>6 DEF IsMaybeScore

\* The parts of the risk.
LEMMA RiskPartsAre ==
    ASSUME NEW e, NEW t, IsHome(t.home), NEW fair \in Int, NEW factors, AreFactors(factors), NEW now \in Int
    PROVE  \A n \in RiskParts : IsMaybeScore(ObsolescenceParts(e, t, fair, factors, now)[n])
<1> DEFINE c == FutureConfig.obsolescence
           f(n) == factors[n].future
           aging == BuildingAgeRisk(t, factors, now)
           lift == IF t.home.elevator = None THEN c.elevatorUnknown
                   ELSE IF t.home.elevator THEN 1500 ELSE c.walkUp
           parts == ObsolescenceParts(e, t, fair, factors, now)
<1>1. /\ parts["building_aging"] = aging /\ parts["elevator_disadvantage"] = lift
      /\ parts["parking_deficiency"] = QualityRisk(e.quality.parking)
      /\ parts["layout_obsolescence"] = LayoutRisk(e, t)
      /\ parts["property_management_weakness"] = QualityRisk(e.quality.management)
      /\ parts["community_deterioration"] = Inverse100(f("community_competitiveness"))
      /\ parts["competing_supply"] = Inverse100(f("supply_scarcity"))
      /\ parts["buyer_pool_shrinkage"] = Inverse100(f("buyer_pool_depth"))
      /\ parts["total_price_mismatch"] = TotalPriceRisk(fair)
      /\ parts["product_replacement"] = f("product_obsolescence")
  BY DEF ObsolescenceParts, CompetingSupply
<1>2. \A n \in AllFutureFactors : IsMaybeScore(f(n))
  BY DEF AreFactors, IsFactor
<1>7. IsMaybeScore(aging)
  BY BuildingAgeIs
<1>4. InScore(c.walkUp) /\ InScore(c.elevatorUnknown)
  BY RiskConfig
<1>5. InScore(lift)
  <2>1. lift \in {1500, c.walkUp, c.elevatorUnknown}
    OBVIOUS
  <2> HIDE DEF lift
  <2> QED BY <1>4, <2>1, PlainScores
<1>6. {"building_aging", "community_competitiveness", "supply_scarcity", "buyer_pool_depth",
       "product_obsolescence"} \subseteq AllFutureFactors
  BY DEF AllFutureFactors, ScoreFactors
<1> HIDE DEF parts, f, aging, lift
<1>8. IsMaybeScore(QualityRisk(e.quality.parking)) /\ IsMaybeScore(QualityRisk(e.quality.management))
  BY QualityRiskIs
<1>9. IsMaybeScore(TotalPriceRisk(fair)) /\ IsMaybeScore(lift)
  BY <1>5, TotalPriceIs DEF IsMaybeScore
<1>10. /\ IsMaybeScore(Inverse100(f("community_competitiveness")))
       /\ IsMaybeScore(Inverse100(f("supply_scarcity"))) /\ IsMaybeScore(Inverse100(f("buyer_pool_depth")))
  BY <1>2, <1>6, InverseIs
<1>11. \A n \in RiskParts : IsMaybeScore(parts[n])
  BY <1>1, <1>2, <1>6, <1>7, <1>8, <1>9, <1>10, LayoutIs DEF RiskParts
<1> QED BY <1>11 DEF parts

\* The risk, and that it falls as the factors get brighter.
LEMMA RiskFalls ==
    ASSUME NEW e, NEW t, IsHome(t.home), NEW fair \in Int, NEW now \in Int,
           NEW high, AreFactors(high), NEW low, AreFactors(low), Brighter(high, low)
    PROVE  LET old == ObsolescenceRisk(e, t, fair, low, now)
               new == ObsolescenceRisk(e, t, fair, high, now)
           IN  /\ IsRoundedMean(old.score, RiskParts) /\ old.coverage \in Int /\ old.coverage \in 0 .. 100
               /\ new.coverage = old.coverage /\ (new.score = None) = (old.score = None)
               /\ new.score # None => new.score <= old.score
<1> DEFINE c == FutureConfig.obsolescence
           old == ObsolescenceParts(e, t, fair, low, now)
           new == ObsolescenceParts(e, t, fair, high, now)
<1>1. IsWeights(c.weights) /\ DOMAIN c.weights \subseteq RiskParts /\ c.coverage \in Int
  <2>1. IsWeights(c.weights) /\ DOMAIN c.weights \subseteq RiskParts
    BY RiskConfig
  <2>2. IsObsolescenceConfig(c)
    BY FutureConfigIsValid
  <2> HIDE DEF c
  <2>3. c.coverage \in 0 .. 100
    BY <2>2 DEF IsObsolescenceConfig
  <2> QED BY <2>1, <2>3
<1>2. (\A n \in RiskParts : IsMaybeScore(old[n])) /\ (\A n \in RiskParts : IsMaybeScore(new[n]))
  BY RiskPartsAre
<1>3. \A n \in {"community_competitiveness", "supply_scarcity", "buyer_pool_depth"} :
         /\ (Inverse100(high[n].future) = None) = (Inverse100(low[n].future) = None)
         /\ Inverse100(high[n].future) # None => Inverse100(high[n].future) <= Inverse100(low[n].future)
  <2> TAKE n \in {"community_competitiveness", "supply_scarcity", "buyer_pool_depth"}
  <2>1. n \in AllFutureFactors
    BY DEF AllFutureFactors, ScoreFactors
  <2>2. IsMaybeScore(high[n].future) /\ IsMaybeScore(low[n].future)
    BY <2>1 DEF AreFactors, IsFactor
  <2>3. /\ (high[n].future = None) = (low[n].future = None)
        /\ low[n].future # None => low[n].future <= high[n].future
    BY <2>1 DEF Brighter
  <2> QED BY <2>2, <2>3, InverseIs
<1>4. \A n \in {"building_aging", "product_obsolescence"} : high[n].future = low[n].future
  BY DEF Brighter, AllFutureFactors
<1>5. \A n \in RiskParts \ {"community_deterioration", "competing_supply", "buyer_pool_shrinkage"} :
         new[n] = old[n]
  BY <1>4 DEF ObsolescenceParts, BuildingAgeRisk, RiskParts
<1>6. /\ old["community_deterioration"] = Inverse100(low["community_competitiveness"].future)
      /\ new["community_deterioration"] = Inverse100(high["community_competitiveness"].future)
      /\ old["competing_supply"] = Inverse100(low["supply_scarcity"].future)
      /\ new["competing_supply"] = Inverse100(high["supply_scarcity"].future)
      /\ old["buyer_pool_shrinkage"] = Inverse100(low["buyer_pool_depth"].future)
      /\ new["buyer_pool_shrinkage"] = Inverse100(high["buyer_pool_depth"].future)
  BY DEF ObsolescenceParts, CompetingSupply
<1>7. /\ ObsolescenceRisk(e, t, fair, low, now) = GatedScore(old, c)
      /\ ObsolescenceRisk(e, t, fair, high, now) = GatedScore(new, c)
  BY DEF ObsolescenceRisk
<1> HIDE DEF c, old, new
<1>8. \A n \in RiskParts : (new[n] = None) = (old[n] = None)
  BY <1>3, <1>5, <1>6
<1>9. \A n \in RiskParts : new[n] # None => new[n] <= old[n]
  <2>1. \A x : IsMaybeScore(x) /\ x # None => x <= x
    BY WholeIs DEF IsMaybeScore
  <2> QED BY <1>2, <1>3, <1>5, <1>6, <2>1
<1>10. AreScores(old, c.weights) /\ AreScores(new, c.weights)
  BY <1>1, <1>2 DEF AreScores
<1>11. \A n \in DOMAIN c.weights : /\ (new[n] = None) = (old[n] = None)
                                   /\ new[n] # None => new[n] <= old[n]
  BY <1>1, <1>8, <1>9
<1>12. IsRoundedMean(GatedScore(old, c).score, RiskParts) /\ GatedScore(old, c).coverage \in Int
  BY <1>1, <1>10, RiskConfig, GatedIs
<1>13. /\ GatedScore(new, c).coverage = GatedScore(old, c).coverage
       /\ (GatedScore(new, c).score = None) = (GatedScore(old, c).score = None)
       /\ GatedScore(new, c).score # None => GatedScore(new, c).score <= GatedScore(old, c).score
  BY <1>1, <1>10, <1>11, GatedRises
<1>14. GatedScore(old, c).coverage \in 0 .. 100
  <2>1. IsFiniteSet(RiskParts) /\ AreWeights(c.weights, RiskParts)
    BY RiskConfig DEF c
  <2> QED BY <1>10, <2>1, CoverageIs
<1> QED BY <1>7, <1>12, <1>13, <1>14

\* A bounded figure is one, and rises with what is bounded.
LEMMA BoundedRises ==
    ASSUME NEW low \in Int, NEW high \in Int, NEW x \in Int, NEW y \in Int, x <= y
    PROVE  Bounded(low, x, high) \in Int /\ Bounded(low, x, high) <= Bounded(low, y, high)
BY BoundedIs

\* The names of the parts of an alpha.
AlphaNames == AlphaGains \cup AlphaLosses

\* What the configuration of alpha gives.
LEMMA AlphaConfig ==
    LET c == FutureConfig.alpha
        total == SumFunction([n \in DOMAIN c.weights |-> Distance(c.weights[n], 0)])
    IN  /\ c.maximum \in Int /\ c.maximum \in 1 .. Whole /\ IsFiniteSet(DOMAIN c.weights) /\ DOMAIN c.weights \subseteq AlphaNames
        /\ \A n \in DOMAIN c.weights : c.weights[n] \in Int
        /\ \A n \in DOMAIN c.weights : IF n \in AlphaLosses THEN c.weights[n] <= 0 ELSE c.weights[n] >= 0
        /\ total \in Int /\ total > 0
<1> DEFINE c == FutureConfig.alpha
           w == c.weights
           f == [n \in DOMAIN w |-> Distance(w[n], 0)]
<1>1. IsAlphaConfig(c)
  BY FutureConfigIsValid
<1> HIDE DEF c
<1>2. c.maximum \in Int /\ c.maximum \in 1 .. Whole
  <2>1. c.maximum \in 1 .. Whole
    BY <1>1 DEF IsAlphaConfig, Whole
  <2> QED BY <2>1, WholeIs
<1>3. DOMAIN w \subseteq AlphaNames /\ (\A n \in DOMAIN w : w[n] \in Int) /\ (\E n \in DOMAIN w : w[n] # 0)
  BY <1>1 DEF IsAlphaConfig, AlphaNames
<1>4. \A n \in DOMAIN w : IF n \in AlphaLosses THEN w[n] <= 0 ELSE w[n] >= 0
  BY <1>1 DEF IsAlphaConfig
<1>5. IsFiniteSet(AlphaNames)
  <2> DEFINE s == <<"district_alpha", "submarket_alpha", "community_alpha", "property_alpha",
                    "infrastructure_delta", "employment_delta", "supply_scarcity", "buyer_pool_delta",
                    "urban_renewal", "market_cycle", "building_aging", "product_obsolescence", "supply_shock">>
  <2>1. DOMAIN s = 1 .. 13 /\ Range(s) = AlphaNames
    BY DEF Range, AlphaNames, AlphaGains, AlphaLosses
  <2> HIDE DEF s
  <2> QED BY <2>1, SequenceIsFinite
<1>6. IsFiniteSet(DOMAIN w)
  BY <1>3, <1>5, FS_Subset
<1>7. (\A n \in DOMAIN w : f[n] \in Nat) /\ (\E n \in DOMAIN w : f[n] > 0) /\ DOMAIN f = DOMAIN w
  BY <1>3 DEF Distance
<1> HIDE DEF f, w
<1>8. SumFunctionOnSet(f, DOMAIN w) \in Nat /\ SumFunctionOnSet(f, DOMAIN w) > 0
  BY <1>6, <1>7, SumIsNat, SumIsPositive
<1>9. SumFunction(f) \in Int /\ SumFunction(f) > 0
  BY <1>7, <1>8 DEF SumFunction
<1> QED BY <1>2, <1>3, <1>4, <1>6, <1>9 DEF c, w, f

\* What changes by a factor, and a level around the middle.
LEMMA DeltaIs ==
    ASSUME NEW f, IsFactor(f)
    PROVE  /\ IsMaybe(Delta(f)) /\ (Delta(f) = None) = (f.current = None \/ f.future = None)
           /\ Delta(f) # None => Delta(f) = f.future - f.current /\ f.current \in Int /\ f.future \in Int
<1>1. IsMaybeScore(f.current) /\ IsMaybeScore(f.future)
  BY DEF IsFactor
<1>2. IsMaybe(f.current) /\ IsMaybe(f.future)
  BY <1>1, WholeIs DEF IsMaybeScore, IsMaybe
<1> QED BY <1>2, NoneIsNoNumber DEF Delta, IsMaybe

\* A factor about its middle, twice over.
Centered(x) == IF x = None THEN None ELSE 2 * (x - 5000)

\* A centred factor is none or an integer, and keeps the order.
LEMMA CenteredIs ==
    ASSUME NEW x, IsMaybeScore(x)
    PROVE  /\ IsMaybe(Centered(x)) /\ (Centered(x) = None) = (x = None)
           /\ \A y : IsMaybeScore(y) /\ x # None /\ y # None /\ x <= y => Centered(x) <= Centered(y)
<1>1. \A y : IsMaybeScore(y) /\ y # None => y \in Int
  BY WholeIs DEF IsMaybeScore
<1>2. \A y \in Int : 2 * (y - 5000) \in Int
  OBVIOUS
<1>3. \A y, z \in Int : y <= z => 2 * (y - 5000) <= 2 * (z - 5000)
  OBVIOUS
<1> QED BY <1>1, <1>2, <1>3, NoneIsNoNumber DEF Centered, IsMaybe

\* The parts of an alpha that come from the place of a home.
Hierarchy == {"district_alpha", "submarket_alpha", "community_alpha", "property_alpha"}

\* Every part of alpha is a number or missing; of brighter factors no gain is
\* less and no loss more.
LEMMA AlphaPartsAre ==
    ASSUME NEW e, IsEvidence(e), NEW high, AreFactors(high), NEW low, AreFactors(low), Brighter(high, low)
    PROVE  LET new == AlphaParts(e, high)
               old == AlphaParts(e, low)
           IN  \A n \in AlphaNames :
                  /\ IsMaybe(old[n]) /\ IsMaybe(new[n]) /\ (old[n] = None) = (new[n] = None)
                  /\ old[n] # None => IF n \in AlphaLosses THEN new[n] <= old[n] ELSE old[n] <= new[n]
<1> DEFINE new == AlphaParts(e, high)
           old == AlphaParts(e, low)
           Matched(x, y) == IsMaybe(x) /\ IsMaybe(y) /\ (x = None) = (y = None)
           More(x, y) == Matched(x, y) /\ (x # None => x <= y)
           Less(x, y) == Matched(x, y) /\ (x # None => y <= x)
<1>1. \A n \in Hierarchy : old[n] = e.hierarchy[n] /\ new[n] = e.hierarchy[n]
  BY DEF AlphaParts, Hierarchy
<1>2. /\ old["infrastructure_delta"] = Delta(low["transport_accessibility"])
      /\ new["infrastructure_delta"] = Delta(high["transport_accessibility"])
      /\ old["employment_delta"] = Delta(low["employment_accessibility"])
      /\ new["employment_delta"] = Delta(high["employment_accessibility"])
      /\ old["buyer_pool_delta"] = Delta(low["buyer_pool_depth"])
      /\ new["buyer_pool_delta"] = Delta(high["buyer_pool_depth"])
  BY DEF AlphaParts
<1>3. \A n \in {"supply_scarcity", "urban_renewal", "market_cycle"} :
         old[n] = Centered(low[n].future) /\ new[n] = Centered(high[n].future)
  BY DEF AlphaParts, Centered
<1>4. \A n \in {"building_aging", "product_obsolescence"} : old[n] = low[n].future /\ new[n] = high[n].future
  BY DEF AlphaParts
<1>5. /\ old["supply_shock"] = Inverse100(low["supply_scarcity"].future)
      /\ new["supply_shock"] = Inverse100(high["supply_scarcity"].future)
  BY DEF AlphaParts
<1> HIDE DEF old, new
<1>6. \A x : IsMaybe(x) => More(x, x) /\ Less(x, x)
  BY DEF IsMaybe
<1>7. \A n \in Hierarchy : More(old[n], new[n])
  <2>1. \A n \in Hierarchy : e.hierarchy[n] = None \/ e.hierarchy[n] \in AlphaRange
    BY Zenon DEF IsEvidence, Hierarchy
  <2>2. \A x \in AlphaRange : x \in Int
    BY ONLY SMT DEF AlphaRange
  <2>3. \A n \in Hierarchy : IsMaybe(e.hierarchy[n])
    BY <2>1, <2>2, Zenon DEF IsMaybe
  <2> HIDE DEF More, Less
  <2> QED BY <1>1, <1>6, <2>3
<1>8. ASSUME NEW n \in AllFutureFactors
      PROVE  /\ IsMaybeScore(low[n].future) /\ IsMaybeScore(high[n].future) /\ IsFactor(low[n]) /\ IsFactor(high[n])
             /\ (low[n].future = None) = (high[n].future = None)
             /\ low[n].future # None => low[n].future <= high[n].future
             /\ low[n].current = high[n].current
  BY DEF AreFactors, IsFactor, Brighter
<1>9. ASSUME NEW n \in AllFutureFactors PROVE More(Delta(low[n]), Delta(high[n]))
  <2>1. /\ IsMaybe(Delta(low[n])) /\ (Delta(low[n]) = None) = (low[n].current = None \/ low[n].future = None)
        /\ Delta(low[n]) # None =>
              Delta(low[n]) = low[n].future - low[n].current /\ low[n].current \in Int /\ low[n].future \in Int
    BY <1>8, DeltaIs
  <2>2. /\ IsMaybe(Delta(high[n])) /\ (Delta(high[n]) = None) = (high[n].current = None \/ high[n].future = None)
        /\ Delta(high[n]) # None =>
              Delta(high[n]) = high[n].future - high[n].current /\ high[n].current \in Int /\ high[n].future \in Int
    BY <1>8, DeltaIs
  <2> QED BY <1>8, <2>1, <2>2
<1>10. ASSUME NEW n \in AllFutureFactors PROVE More(Centered(low[n].future), Centered(high[n].future))
  BY <1>8, CenteredIs
<1>11. ASSUME NEW n \in AllFutureFactors PROVE Less(Inverse100(low[n].future), Inverse100(high[n].future))
  <2>1. \A x : IsMaybeScore(x) => IsMaybe(x)
    BY WholeIs DEF IsMaybeScore, IsMaybe
  <2>2. /\ IsMaybeScore(Inverse100(low[n].future)) /\ IsMaybeScore(Inverse100(high[n].future))
        /\ (Inverse100(low[n].future) = None) = (low[n].future = None)
        /\ (Inverse100(high[n].future) = None) = (high[n].future = None)
    BY <1>8, InverseIs
  <2>3. low[n].future # None => Inverse100(high[n].future) <= Inverse100(low[n].future)
    BY <1>8, InverseIs
  <2> QED BY <1>8, <2>1, <2>2, <2>3
<1>12. ASSUME NEW n \in {"building_aging", "product_obsolescence"} PROVE Less(low[n].future, high[n].future)
  <2>1. n \in AllFutureFactors
    BY DEF AllFutureFactors
  <2>2. low[n].future = high[n].future
    BY <2>1 DEF Brighter
  <2>3. IsMaybe(low[n].future)
    BY <1>8, <2>1, WholeIs DEF IsMaybeScore, IsMaybe
  <2> HIDE DEF More, Less
  <2> QED BY <1>6, <2>2, <2>3
<1>13. {"transport_accessibility", "employment_accessibility", "buyer_pool_depth", "supply_scarcity",
        "urban_renewal", "market_cycle"} \subseteq AllFutureFactors
  BY DEF AllFutureFactors, ScoreFactors
<1>14. \A n \in AlphaNames \ AlphaLosses : More(old[n], new[n])
  <2>1. /\ More(old["infrastructure_delta"], new["infrastructure_delta"])
        /\ More(old["employment_delta"], new["employment_delta"])
        /\ More(old["buyer_pool_delta"], new["buyer_pool_delta"])
    BY <1>2, <1>9, <1>13
  <2>2. \A n \in {"supply_scarcity", "urban_renewal", "market_cycle"} : More(old[n], new[n])
    BY <1>3, <1>10, <1>13
  <2> HIDE DEF More, Less
  <2> QED BY <1>7, <2>1, <2>2 DEF AlphaNames, AlphaGains, Hierarchy
<1>15. \A n \in AlphaLosses : Less(old[n], new[n])
  <2>1. Less(old["supply_shock"], new["supply_shock"])
    BY <1>5, <1>11, <1>13
  <2>2. \A n \in {"building_aging", "product_obsolescence"} : Less(old[n], new[n])
    BY <1>4, <1>12
  <2> HIDE DEF More, Less
  <2> QED BY <2>1, <2>2 DEF AlphaLosses
<1>16. \A n \in AlphaNames :
          /\ Matched(old[n], new[n])
          /\ old[n] # None => IF n \in AlphaLosses THEN new[n] <= old[n] ELSE old[n] <= new[n]
  BY <1>14, <1>15
<1> QED BY <1>16 DEF old, new

\* A share of a weight rises with the figure when the weight gains, and falls
\* when it loses.
LEMMA ContributionRises ==
    ASSUME NEW x \in Int, NEW y \in Int, NEW w \in Int, NEW total \in Int, total > 0, NEW most \in Int,
           (w >= 0 /\ x <= y) \/ (w <= 0 /\ y <= x)
    PROVE  LET a == Ratio(Bounded(-most, x, most) * w, total)
               b == Ratio(Bounded(-most, y, most) * w, total)
           IN  a \in Int /\ b \in Int /\ a <= b
<1> DEFINE least == -most
           a == Bounded(least, x, most)
           b == Bounded(least, y, most)
<1>1. least \in Int
  OBVIOUS
<1> HIDE DEF least
<1>2. a \in Int /\ b \in Int /\ (x <= y => a <= b) /\ (y <= x => b <= a)
  BY <1>1, BoundedRises
<1> HIDE DEF a, b
<1>3. a * w \in Int /\ b * w \in Int /\ a * w <= b * w
  <2>1. \A p, q, r \in Int : (r >= 0 /\ p <= q) \/ (r <= 0 /\ q <= p) => p * r <= q * r
    OBVIOUS
  <2> QED BY <1>2, <2>1
<1>4. Ratio(a * w, total) \in Int /\ Ratio(b * w, total) \in Int /\ Ratio(a * w, total) <= Ratio(b * w, total)
  <2> DEFINE p == a * w
             q == b * w
  <2> HIDE DEF p, q
  <2>1. p \in Int /\ q \in Int /\ p <= q
    BY <1>3 DEF p, q
  <2>2. Ratio(p, total) \in Int /\ Ratio(q, total) \in Int /\ Ratio(p, total) <= Ratio(q, total)
    BY <2>1, RatioIsInt, RatioRises
  <2> QED BY <2>2 DEF p, q
<1> QED BY <1>4 DEF a, b, least

\* Alpha is a number, and rises as the factors get brighter.
LEMMA AlphaRises ==
    ASSUME NEW e, IsEvidence(e), NEW high, AreFactors(high), NEW low, AreFactors(low), Brighter(high, low)
    PROVE  /\ StructuralAlpha(e, low) \in Int /\ StructuralAlpha(e, low) \in AlphaRange
           /\ StructuralAlpha(e, low) <= StructuralAlpha(e, high)
<1> DEFINE w == FutureConfig.alpha.weights
           maximum == FutureConfig.alpha.maximum
           total == SumFunction([n \in DOMAIN w |-> Distance(w[n], 0)])
           new == AlphaParts(e, high)
           old == AlphaParts(e, low)
           share(x, n) == Ratio(Bounded(-Whole, x, Whole) * w[n], total)
           there == {n \in DOMAIN w : old[n] # None}
           here == {n \in DOMAIN w : new[n] # None}
           f == [n \in there |-> share(old[n], n)]
           g == [n \in there |-> share(new[n], n)]
<1>1. /\ maximum \in Int /\ maximum \in 1 .. Whole /\ IsFiniteSet(DOMAIN w) /\ DOMAIN w \subseteq AlphaNames
      /\ \A n \in DOMAIN w : w[n] \in Int
      /\ \A n \in DOMAIN w : IF n \in AlphaLosses THEN w[n] <= 0 ELSE w[n] >= 0
      /\ total \in Int /\ total > 0
  BY AlphaConfig
<1>2. \A n \in AlphaNames :
         /\ IsMaybe(old[n]) /\ IsMaybe(new[n]) /\ (old[n] = None) = (new[n] = None)
         /\ old[n] # None => IF n \in AlphaLosses THEN new[n] <= old[n] ELSE old[n] <= new[n]
  BY AlphaPartsAre
<1>3. /\ StructuralAlpha(e, low) = Bounded(-maximum, SumFunction([n \in there |-> share(old[n], n)]), maximum)
      /\ StructuralAlpha(e, high) = Bounded(-maximum, SumFunction([n \in here |-> share(new[n], n)]), maximum)
  BY DEF StructuralAlpha, Whole
<1> HIDE DEF w, maximum, total, old, new
<1>4. there = here /\ there \subseteq DOMAIN w
  BY <1>1, <1>2
<1>5. IsFiniteSet(there)
  BY <1>1, <1>4, FS_Subset
<1>6. \A n \in there : share(old[n], n) \in Int /\ share(new[n], n) \in Int /\ share(old[n], n) <= share(new[n], n)
  <2> TAKE n \in there
  <2>1. n \in DOMAIN w /\ n \in AlphaNames /\ old[n] # None
    BY <1>1, <1>4
  <2>2. old[n] \in Int /\ new[n] \in Int
    BY <1>2, <2>1 DEF IsMaybe
  <2>3. w[n] \in Int /\ total \in Int /\ total > 0
    BY <1>1, <2>1
  <2>4. (w[n] >= 0 /\ old[n] <= new[n]) \/ (w[n] <= 0 /\ new[n] <= old[n])
    BY <1>1, <1>2, <2>1
  <2> QED BY <2>2, <2>3, <2>4, WholeIs, ContributionRises
<1> HIDE DEF share
<1>7. \A n \in there : f[n] \in Int /\ g[n] \in Int /\ f[n] <= g[n]
  BY <1>6
<1>8. DOMAIN f = there /\ DOMAIN g = there
  OBVIOUS
<1>9. /\ SumFunction([n \in there |-> share(old[n], n)]) = SumFunctionOnSet(f, there)
      /\ SumFunction([n \in here |-> share(new[n], n)]) = SumFunctionOnSet(g, there)
  <2>1. g = [n \in here |-> share(new[n], n)]
    BY <1>4
  <2>2. SumFunction(f) = SumFunctionOnSet(f, there) /\ SumFunction(g) = SumFunctionOnSet(g, there)
    BY <1>8 DEF SumFunction
  <2> QED BY <2>1, <2>2
<1> HIDE DEF f, g, there, here
<1> DEFINE p == SumFunctionOnSet(f, there)
           q == SumFunctionOnSet(g, there)
           least == -maximum
<1>10. p \in Int /\ q \in Int /\ p <= q
  BY <1>5, <1>7, SumIsInt, SumIsMonotonic
<1>11. least \in Int
  BY <1>1
<1> HIDE DEF p, q, least
<1>12. Bounded(least, p, maximum) \in Int /\ Bounded(least, p, maximum) <= Bounded(least, q, maximum)
  BY <1>1, <1>10, <1>11, BoundedRises
<1>13. Bounded(least, p, maximum) \in AlphaRange
  <2> DEFINE whole == Whole
  <2>1. AlphaRange = -whole .. whole
    BY DEF AlphaRange, Whole
  <2>2. least = -maximum /\ maximum \in 1 .. whole /\ whole \in Int
    BY <1>1, WholeIs DEF least
  <2> HIDE DEF whole
  <2>3. Bounded(least, p, maximum) \in least .. maximum
    BY <1>1, <1>10, <1>11, <2>2, BoundedIs
  <2> QED BY <2>1, <2>2, <2>3
<1> QED BY <1>3, <1>9, <1>12, <1>13 DEF p, q, least

\* The better score is of no lower a level, and a cap leaves it so.
LEMMA LevelRises ==
    ASSUME NEW x \in Int, NEW y \in Int, x <= y, NEW c, {c.high, c.medium, c.low} \subseteq Int
    PROVE  LevelOrder(LevelForScore(x, c)) <= LevelOrder(LevelForScore(y, c))
BY LevelsAre DEF LevelForScore

\* The cap of a confidence rises with the confidence it is put on.
LEMMA CapRises ==
    ASSUME NEW a, IsLevel(a), NEW b, IsLevel(b), LevelOrder(a) <= LevelOrder(b), NEW most, IsLevel(most)
    PROVE  /\ IsLevel(CapLevel(a, most)) /\ IsLevel(CapLevel(b, most))
           /\ LevelOrder(CapLevel(a, most)) <= LevelOrder(CapLevel(b, most))
<1>1. LevelOrder(a) \in Int /\ LevelOrder(b) \in Int /\ LevelOrder(most) \in Int
  BY LevelsAre
<1>2. IsLevel(CapLevel(a, most)) /\ IsLevel(CapLevel(b, most))
  BY LevelsStay
<1> QED BY <1>1, <1>2 DEF CapLevel

\* What the configuration of the trust gives.
LEMMA TrustConfig ==
    LET c == FutureConfig.confidence
    IN  /\ {c.high, c.medium, c.low} \subseteq Int /\ c.halfLife \in Nat \ {0}
        /\ AreWeights(c.weights, TrustParts) /\ IsFiniteSet(TrustParts)
        /\ IsLevel(c.nonLive) /\ IsLevel(c.uncalibrated)
<1> DEFINE c == FutureConfig.confidence
<1>1. IsTrustConfig(c)
  BY FutureConfigIsValid
<1> HIDE DEF c
<1>2. {c.high, c.medium, c.low} \subseteq 0 .. 1000
  BY <1>1 DEF IsTrustConfig
<1>3. c.halfLife \in Nat \ {0} /\ AreWeights(c.weights, TrustParts)
  BY <1>1 DEF IsTrustConfig
<1>4. IsLevel(c.nonLive) /\ IsLevel(c.uncalibrated)
  <2>1. {c.nonLive, c.uncalibrated} \subseteq ToSet(Levels)
    BY <1>1 DEF IsTrustConfig
  <2> QED BY <2>1, LevelsAre DEF IsLevel
<1>5. IsFiniteSet(TrustParts)
  <2> DEFINE s == <<"data_coverage", "data_freshness", "source_authority", "planning_certainty",
                    "employment_data_quality", "supply_data_quality", "rental_data_quality",
                    "transaction_calibration", "historical_continuity">>
  <2>1. DOMAIN s = 1 .. 9 /\ Range(s) = TrustParts
    BY DEF Range, TrustParts
  <2> HIDE DEF s
  <2> QED BY <2>1, SequenceIsFinite
<1>6. {c.high, c.medium, c.low} \subseteq Int
  <2> DEFINE k == 1000
  <2>1. k \in Int /\ {c.high, c.medium, c.low} \subseteq 0 .. k
    BY <1>2
  <2> HIDE DEF k
  <2> QED BY <2>1
<1> QED BY <1>3, <1>4, <1>5, <1>6 DEF c

\* The mean of numbers.
LEMMA MeanIsInt ==
    ASSUME NEW f, IsFigure(f), DOMAIN f # {}
    PROVE  MeanOf(f) \in Int
<1> DEFINE n == Cardinality(DOMAIN f)
           sum == SumFunctionOnSet(f, DOMAIN f)
<1>1. n \in Int /\ n > 0
  BY FS_CardinalityType, FS_EmptySet DEF IsFigure
<1>2. sum \in Int
  BY SumIsInt DEF IsFigure
<1>3. MeanOf(f) = Ratio(sum, n)
  BY DEF MeanOf, SumFunction
<1> HIDE DEF n, sum
<1> QED BY <1>1, <1>2, <1>3, RatioIsInt

\* What trust rests on is numbers, and brighter factors differ in one of them.
LEMMA TrustFiguresAre ==
    ASSUME NEW e, IsEvidence(e), NEW high, AreFactors(high), NEW low, AreFactors(low), Brighter(high, low),
           NEW coverage \in Int, NEW now \in Int
    PROVE  LET old == TrustFigures(e, low, coverage, now)
               new == TrustFigures(e, high, coverage, now)
           IN  \A n \in TrustParts : old[n] \in Int /\ new[n] \in Int /\ old[n] <= new[n]
<1> DEFINE halfLife == FutureConfig.confidence.halfLife
           old == TrustFigures(e, low, coverage, now)
           new == TrustFigures(e, high, coverage, now)
           known == {n \in AllFutureFactors : low[n].future # None}
           here == {n \in AllFutureFactors : high[n].future # None}
           fresh(at) == IF at = None \/ at > now THEN 0 ELSE Share(halfLife, halfLife + now - at)
           sure(factors, n) == IF factors[n].future = None THEN 0 ELSE 10 * factors[n].confidence
           ages == [n \in known |-> fresh(low[n].at)]
           trusts == [n \in known |-> 10 * low[n].confidence]
           fresher == IF known = {} THEN 0 ELSE MeanOf(ages)
           surer == IF known = {} THEN 0 ELSE MeanOf(trusts)
           plan(factors) == IF factors["planning_realization"].future = None THEN 0
              ELSE Ratio(sure(factors, "planning_realization") * factors["planning_realization"].future, 10000)
<1>1. \A n \in AllFutureFactors :
         /\ low[n].confidence \in Nat /\ IsMaybe(low[n].at)
         /\ high[n].confidence = low[n].confidence /\ high[n].at = low[n].at
         /\ (high[n].future = None) = (low[n].future = None)
         /\ low[n].future # None => low[n].future <= high[n].future
         /\ IsMaybeScore(low[n].future) /\ IsMaybeScore(high[n].future)
  BY DEF AreFactors, IsFactor, Brighter
<1>2. here = known
  BY <1>1
<1>3. /\ [n \in here |-> fresh(high[n].at)] = ages
      /\ [n \in here |-> 10 * high[n].confidence] = trusts
  BY <1>1, <1>2
<1>4. \A n \in AllFutureFactors : sure(high, n) = sure(low, n) /\ sure(low, n) \in Int /\ sure(low, n) >= 0
  BY <1>1
<1>5. /\ old["data_coverage"] = 10 * coverage /\ new["data_coverage"] = 10 * coverage
      /\ old["planning_certainty"] = plan(low) /\ new["planning_certainty"] = plan(high)
      /\ old["employment_data_quality"] = sure(low, "employment_accessibility")
      /\ new["employment_data_quality"] = sure(high, "employment_accessibility")
      /\ old["supply_data_quality"] = sure(low, "supply_scarcity")
      /\ new["supply_data_quality"] = sure(high, "supply_scarcity")
      /\ old["rental_data_quality"] = sure(low, "rental_demand")
      /\ new["rental_data_quality"] = sure(high, "rental_demand")
      /\ old["transaction_calibration"] \in {0, 1000}
      /\ new["transaction_calibration"] = old["transaction_calibration"]
      /\ old["historical_continuity"] = 10 * e.calibration.continuity
      /\ new["historical_continuity"] = 10 * e.calibration.continuity
  BY DEF TrustFigures
<1>6. /\ old["data_freshness"] = fresher /\ old["source_authority"] = surer
      /\ new["data_freshness"] = fresher /\ new["source_authority"] = surer
  <2>1. old["data_freshness"] = fresher /\ old["source_authority"] = surer
    BY DEF TrustFigures
  <2>2. /\ new["data_freshness"] = IF here = {} THEN 0 ELSE MeanOf([n \in here |-> fresh(high[n].at)])
        /\ new["source_authority"] = IF here = {} THEN 0 ELSE MeanOf([n \in here |-> 10 * high[n].confidence])
    BY DEF TrustFigures
  <2> HIDE DEF ages, trusts, new, old, fresh, known, here
  <2> QED BY <1>2, <1>3, <2>1, <2>2
<1>7. IsFiniteSet(known) /\ known \subseteq AllFutureFactors
  BY FactorNames, FS_Subset
<1>8. ASSUME NEW at, IsMaybe(at) PROVE fresh(at) \in Int
  <2> DEFINE d == halfLife + now - at
             p == 1000 * halfLife
  <2>1. halfLife \in Nat \ {0}
    BY TrustConfig
  <2>2. fresh(at) = IF at = None \/ at > now THEN 0 ELSE Ratio(p, d)
    BY DEF Share
  <2> HIDE DEF halfLife, fresh
  <2>3. at # None /\ ~(at > now) => d \in Int /\ d > 0
    BY <1>8, <2>1 DEF IsMaybe
  <2>4. p \in Int
    BY <2>1
  <2> HIDE DEF d, p
  <2>5. at # None /\ ~(at > now) => Ratio(p, d) \in Int
    BY <2>3, <2>4, RatioIsInt
  <2> QED BY <2>2, <2>5
<1> HIDE DEF old, new, here, fresh, halfLife
<1>9. IsFigure(ages) /\ IsFigure(trusts) /\ DOMAIN ages = known /\ DOMAIN trusts = known
  <2>1. \A n \in known : ages[n] \in Int
    BY <1>1, <1>7, <1>8
  <2>2. \A n \in known : trusts[n] \in Int
    BY <1>1, <1>7
  <2> HIDE DEF known
  <2> QED BY <1>7, <2>1, <2>2 DEF IsFigure
<1> HIDE DEF ages, trusts, known
<1>10. fresher \in Int /\ surer \in Int
  BY <1>9, MeanIsInt
<1>11. e.calibration.continuity \in Int
  <2>1. e.calibration.continuity \in 0 .. 100
    BY Zenon DEF IsEvidence
  <2> QED BY <2>1
<1>12. {"planning_realization", "employment_accessibility", "supply_scarcity", "rental_demand"}
          \subseteq AllFutureFactors
  BY DEF AllFutureFactors, ScoreFactors
<1>13. plan(low) \in Int /\ plan(high) \in Int /\ plan(low) <= plan(high)
  <2> DEFINE s == sure(low, "planning_realization")
             x == low["planning_realization"].future
             y == high["planning_realization"].future
             p == s * x
             q == s * y
  <2>1. s \in Int /\ s >= 0 /\ sure(high, "planning_realization") = s
    BY <1>4, <1>12
  <2>2. (x = None) = (y = None) /\ (x # None => x \in Int /\ y \in Int /\ x <= y)
    BY <1>1, <1>12, WholeIs DEF IsMaybeScore
  <2>3. /\ plan(low) = IF x = None THEN 0 ELSE Ratio(p, Whole)
        /\ plan(high) = IF y = None THEN 0 ELSE Ratio(q, Whole)
    BY <2>1 DEF Whole
  <2> HIDE DEF s, x, y, plan
  <2>4. ASSUME x # None PROVE Ratio(p, Whole) \in Int /\ Ratio(q, Whole) \in Int /\ Ratio(p, Whole) <= Ratio(q, Whole)
    <3>1. p \in Int /\ q \in Int /\ p <= q
      BY <2>1, <2>2, <2>4, Products
    <3>2. Whole \in Int /\ Whole > 0
      BY DEF Whole
    <3> HIDE DEF p, q
    <3> QED BY <3>1, <3>2, RatioIsInt, RatioRises
  <2> QED BY <2>2, <2>3, <2>4
<1> DEFINE a == sure(low, "employment_accessibility")
           b == sure(low, "supply_scarcity")
           c == sure(low, "rental_demand")
<1>14. a \in Int /\ b \in Int /\ c \in Int
  BY <1>4, <1>12
<1>15. /\ sure(high, "employment_accessibility") = a /\ sure(high, "supply_scarcity") = b
       /\ sure(high, "rental_demand") = c
  BY <1>4, <1>12
<1> HIDE DEF sure, plan, fresher, surer, a, b, c
<1>16. \A n \in TrustParts : old[n] \in Int /\ new[n] \in Int /\ old[n] <= new[n]
  <2>1. \A n \in TrustParts \ {"planning_certainty"} : old[n] \in Int /\ new[n] = old[n]
    BY <1>5, <1>6, <1>10, <1>11, <1>14, <1>15 DEF TrustParts, a, b, c
  <2> QED BY <1>5, <1>13, <2>1
<1> QED BY <1>16 DEF old, new

\* Trust, and that it does not fall as the factors get brighter.
LEMMA TrustRises ==
    ASSUME NEW e, IsEvidence(e), NEW high, AreFactors(high), NEW low, AreFactors(low), Brighter(high, low),
           NEW coverage \in Int, NEW now \in Int
    PROVE  LET old == FutureConfidence(e, low, coverage, now)
               new == FutureConfidence(e, high, coverage, now)
           IN  /\ old.score \in Int /\ new.score \in Int /\ old.score <= new.score
               /\ IsLevel(old.level) /\ IsLevel(new.level)
               /\ LevelOrder(old.level) <= LevelOrder(new.level)
<1> DEFINE c == FutureConfig.confidence
           old == TrustFigures(e, low, coverage, now)
           new == TrustFigures(e, high, coverage, now)
           few == coverage < FutureConfig.score.coverage
           dead == e.mode # "live"
           rough == CalibrationState(e) = "uncalibrated"
           level(x) == IF few THEN "insufficient" ELSE LevelForScore(x, c)
           lived(l) == IF dead THEN CapLevel(l, c.nonLive) ELSE l
           tried(l) == IF rough THEN CapLevel(l, c.uncalibrated) ELSE l
           x == WeightedMean(old, c.weights)
           y == WeightedMean(new, c.weights)
<1>1. /\ FutureConfidence(e, low, coverage, now) = [score |-> x, level |-> tried(lived(level(x)))]
      /\ FutureConfidence(e, high, coverage, now) = [score |-> y, level |-> tried(lived(level(y)))]
  BY DEF FutureConfidence
<1>2. /\ {c.high, c.medium, c.low} \subseteq Int /\ AreWeights(c.weights, TrustParts) /\ IsFiniteSet(TrustParts)
      /\ IsLevel(c.nonLive) /\ IsLevel(c.uncalibrated)
  BY TrustConfig
<1>3. \A n \in TrustParts : old[n] \in Int /\ new[n] \in Int /\ old[n] <= new[n]
  BY TrustFiguresAre
<1> HIDE DEF old, new, c, few, dead, rough
<1>4. x \in Int /\ y \in Int
  BY <1>2, <1>3, MeanOfAll
<1>5. x <= y
  <2>1. IsWeights(c.weights) /\ DOMAIN c.weights \subseteq TrustParts
    BY <1>2, AreWeightsIs
  <2>2. \A n \in DOMAIN c.weights : old[n] \in Int /\ new[n] \in Int /\ old[n] <= new[n] /\ old[n] # None /\ new[n] # None
    BY <1>3, <2>1, NoneIsNoNumber
  <2>3. AreParts(old, c.weights) /\ AreParts(new, c.weights)
    BY <2>2 DEF AreParts
  <2>4. WeightOf(old, c.weights) # 0
    BY <1>4, <2>1, <2>3, PartsAdd, NoneIsNoNumber
  <2> QED BY <2>1, <2>2, <2>3, <2>4, MeanRises
<1> HIDE DEF x, y
<1>6. /\ IsLevel(level(x)) /\ IsLevel(level(y)) /\ LevelOrder(level(x)) <= LevelOrder(level(y))
  <2>1. IsLevel("insufficient") /\ LevelOrder("insufficient") <= LevelOrder("insufficient")
    BY LevelsAre DEF IsLevel
  <2>2. IsLevel(LevelForScore(x, c)) /\ IsLevel(LevelForScore(y, c))
    BY <2>1, LevelsStay
  <2> QED BY <1>2, <1>4, <1>5, <2>1, <2>2, LevelRises
<1> HIDE DEF level
<1>7. /\ IsLevel(lived(level(x))) /\ IsLevel(lived(level(y)))
      /\ LevelOrder(lived(level(x))) <= LevelOrder(lived(level(y)))
  BY <1>2, <1>6, CapRises
<1> HIDE DEF lived
<1>8. /\ IsLevel(tried(lived(level(x)))) /\ IsLevel(tried(lived(level(y))))
      /\ LevelOrder(tried(lived(level(x)))) <= LevelOrder(tried(lived(level(y))))
  BY <1>2, <1>7, CapRises
<1> HIDE DEF tried
<1> QED BY <1>1, <1>4, <1>5, <1>8

\* What is warned of, less or the same as the factors get brighter but for what
\* depends on a plan.
LEMMA WarningsShrink ==
    ASSUME NEW high, AreFactors(high), NEW low, AreFactors(low), Brighter(high, low),
           NEW less, IsMaybe(less), NEW more, IsMaybe(more),
           (less = None) = (more = None), less # None => less <= more,
           NEW x \in Int, NEW y \in Int, x <= y, NEW state, NEW mode
    PROVE  FutureWarnings(high, less, y, state, mode)
             \subseteq FutureWarnings(low, more, x, state, mode) \cup {"PLANNING_DEPENDENCY"}
<1> DEFINE w == FutureConfig.warnings
           f(n) == low[n].future
           g(n) == high[n].future
           under(v, least) == v # None /\ v < least
           over(v, most) == v # None /\ v >= most
           if(p, v) == IF p THEN {v} ELSE {}
           dear == Delta(low["buyer_pool_depth"])
           better == Delta(high["buyer_pool_depth"])
           Of(risk, glut, plan, far, old, thin, rent, sure) ==
              if(risk, "HIGH_OBSOLESCENCE_RISK") \cup if(glut, "SUPPLY_SHOCK_RISK")
              \cup if(plan, "PLANNING_DEPENDENCY") \cup if(far, "EMPLOYMENT_ACCESS_WEAKNESS")
              \cup if(old, "AGING_PRODUCT") \cup if(thin, "LIQUIDITY_DECAY_RISK")
              \cup if(rent, "LOW_RENTAL_SUPPORT") \cup if(sure, "LOW_FORECAST_CONFIDENCE")
              \cup if(state # "calibrated", "UNCALIBRATED_MODEL") \cup if(mode # "live", "NON_LIVE_DATA")
           plan(factors) == over(Delta(factors["transport_accessibility"]), w.planning)
<1>1. FutureWarnings(low, more, x, state, mode) =
         Of(over(more, w.obsolescence), over(Inverse100(f("supply_scarcity")), w.supplyShock), plan(low),
            under(f("employment_accessibility"), w.employment), over(f("building_aging"), w.aging),
            under(dear, w.liquidity + 1), f("rental_demand") = None \/ under(f("rental_demand"), w.rental),
            x < w.confidence)
  BY DEF FutureWarnings
<1>2. FutureWarnings(high, less, y, state, mode) =
         Of(over(less, w.obsolescence), over(Inverse100(g("supply_scarcity")), w.supplyShock), plan(high),
            under(g("employment_accessibility"), w.employment), over(g("building_aging"), w.aging),
            under(better, w.liquidity + 1), g("rental_demand") = None \/ under(g("rental_demand"), w.rental),
            y < w.confidence)
  BY DEF FutureWarnings
<1>3. /\ w.obsolescence \in Int /\ w.supplyShock \in Int /\ w.employment \in Int /\ w.aging \in Int
      /\ w.liquidity \in Int /\ w.rental \in Int /\ w.confidence \in Int
  <2>1. \A n \in {"obsolescence", "supplyShock", "planning", "employment", "aging", "liquidity", "rental",
                  "confidence"} : w[n] \in Int
    BY FutureConfigIsValid DEF IsFutureConfig
  <2> HIDE DEF w
  <2> QED BY <2>1
<1>4. \A n \in AllFutureFactors :
         /\ IsMaybeScore(f(n)) /\ IsMaybeScore(g(n)) /\ (f(n) = None) = (g(n) = None)
         /\ f(n) # None => f(n) <= g(n)
         /\ IsFactor(low[n]) /\ IsFactor(high[n]) /\ low[n].current = high[n].current
  BY DEF AreFactors, IsFactor, Brighter
<1>5. {"supply_scarcity", "employment_accessibility", "building_aging", "buyer_pool_depth", "rental_demand"}
         \subseteq AllFutureFactors
  BY DEF AllFutureFactors, ScoreFactors
<1>6. f("building_aging") = g("building_aging")
  BY <1>5 DEF Brighter
<1>7. \A v : IsMaybeScore(v) => v = None \/ v \in Int
  BY WholeIs DEF IsMaybeScore
<1>8. (dear = None) = (better = None) /\ (dear # None => dear \in Int /\ better \in Int /\ dear <= better)
  <2>1. /\ IsMaybe(dear) /\ (dear = None) = (low["buyer_pool_depth"].current = None \/ f("buyer_pool_depth") = None)
        /\ dear # None => /\ dear = f("buyer_pool_depth") - low["buyer_pool_depth"].current
                          /\ low["buyer_pool_depth"].current \in Int /\ f("buyer_pool_depth") \in Int
    BY <1>4, <1>5, DeltaIs
  <2>2. /\ IsMaybe(better)
        /\ (better = None) = (high["buyer_pool_depth"].current = None \/ g("buyer_pool_depth") = None)
        /\ better # None => /\ better = g("buyer_pool_depth") - high["buyer_pool_depth"].current
                            /\ high["buyer_pool_depth"].current \in Int /\ g("buyer_pool_depth") \in Int
    BY <1>4, <1>5, DeltaIs
  <2> HIDE DEF f, g, dear, better
  <2> QED BY <1>4, <1>5, <2>1, <2>2
<1> DEFINE rich == Inverse100(f("supply_scarcity"))
           poor == Inverse100(g("supply_scarcity"))
<1>9. (rich = None) = (poor = None) /\ (poor # None => rich \in Int /\ poor \in Int /\ poor <= rich)
  <2> DEFINE a == f("supply_scarcity")
             b == g("supply_scarcity")
  <2>1. IsMaybeScore(a) /\ IsMaybeScore(b) /\ (a = None) = (b = None) /\ (a # None => a <= b)
    BY <1>4, <1>5
  <2> HIDE DEF a, b
  <2>2. /\ IsMaybeScore(Inverse100(a)) /\ IsMaybeScore(Inverse100(b))
        /\ (Inverse100(a) = None) = (a = None) /\ (Inverse100(b) = None) = (b = None)
        /\ a # None => Inverse100(b) <= Inverse100(a)
    BY <2>1, InverseIs
  <2>3. /\ (Inverse100(a) = None) = (Inverse100(b) = None)
        /\ Inverse100(b) # None =>
              Inverse100(a) \in Int /\ Inverse100(b) \in Int /\ Inverse100(b) <= Inverse100(a)
    BY <1>7, <2>1, <2>2
  <2> QED BY <2>3 DEF a, b
<1> HIDE DEF w, f, g, dear, better, rich, poor, plan
<1>10. /\ over(less, w.obsolescence) => over(more, w.obsolescence)
       /\ over(poor, w.supplyShock) => over(rich, w.supplyShock)
       /\ under(g("employment_accessibility"), w.employment) => under(f("employment_accessibility"), w.employment)
       /\ over(g("building_aging"), w.aging) => over(f("building_aging"), w.aging)
       /\ under(better, w.liquidity + 1) => under(dear, w.liquidity + 1)
       /\ under(g("rental_demand"), w.rental) => under(f("rental_demand"), w.rental)
       /\ (g("rental_demand") = None) = (f("rental_demand") = None)
       /\ y < w.confidence => x < w.confidence
  <2>1. over(less, w.obsolescence) => over(more, w.obsolescence)
    BY <1>3 DEF IsMaybe
  <2>2. over(poor, w.supplyShock) => over(rich, w.supplyShock)
    BY <1>3, <1>9
  <2>3. under(better, w.liquidity + 1) => under(dear, w.liquidity + 1)
    BY <1>3, <1>8
  <2>4. \A n \in {"employment_accessibility", "rental_demand"} : \A least \in Int :
           under(g(n), least) => under(f(n), least)
    BY <1>4, <1>5, <1>7
  <2>5. y < w.confidence => x < w.confidence
    BY <1>3
  <2>6. (g("rental_demand") = None) = (f("rental_demand") = None)
    BY <1>4, <1>5
  <2> HIDE DEF over, under
  <2> QED BY <1>3, <1>6, <2>1, <2>2, <2>3, <2>4, <2>5, <2>6
<1> DEFINE p1 == over(less, w.obsolescence)
           p2 == over(poor, w.supplyShock)
           p3 == plan(high)
           p4 == under(g("employment_accessibility"), w.employment)
           p5 == over(g("building_aging"), w.aging)
           p6 == under(better, w.liquidity + 1)
           p7 == g("rental_demand") = None \/ under(g("rental_demand"), w.rental)
           p8 == y < w.confidence
           q1 == over(more, w.obsolescence)
           q2 == over(rich, w.supplyShock)
           q3 == plan(low)
           q4 == under(f("employment_accessibility"), w.employment)
           q5 == over(f("building_aging"), w.aging)
           q6 == under(dear, w.liquidity + 1)
           q7 == f("rental_demand") = None \/ under(f("rental_demand"), w.rental)
           q8 == x < w.confidence
<1>11. (p1 => q1) /\ (p2 => q2) /\ (p4 => q4) /\ (p5 => q5) /\ (p6 => q6) /\ (p7 => q7) /\ (p8 => q8)
  BY <1>10
<1>12. /\ FutureWarnings(low, more, x, state, mode) = Of(q1, q2, q3, q4, q5, q6, q7, q8)
       /\ FutureWarnings(high, less, y, state, mode) = Of(p1, p2, p3, p4, p5, p6, p7, p8)
  BY <1>1, <1>2 DEF rich, poor
<1> HIDE DEF p1, p2, p3, p4, p5, p6, p7, p8, q1, q2, q3, q4, q5, q6, q7, q8
<1> QED BY <1>11, <1>12

=============================================================================
