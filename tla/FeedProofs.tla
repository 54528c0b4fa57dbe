----------------------------- MODULE FeedProofs -----------------------------
(* That a feed which counts as complete misses nothing: the invariant of   *)
(* Feed that the property needs, and its proof.                            *)
EXTENDS Feed, FiniteSetTheorems, SequenceTheorems, TLAPS

-----------------------------------------------------------------------------
(* The invariant.                                                          *)

\* An export: rows without repetition, of listings that were offered.
Sheets == [rows : Seq(Listings), offered : SUBSET Listings]
IsExport(x) == IsInjective(x.rows) /\ ToSet(x.rows) \subseteq x.offered

\* A signed export; its total, if it has one, is the number of its rows and of
\* the listings that were offered.
SignedSheets ==
    [rows : Seq(Listings), offered : SUBSET Listings, total : Nat \cup {None},
     declared : {"complete", "partial"}]
IsSigned(m) ==
    IsExport(m) /\ (m.total # None => m.total = Len(m.rows) /\ m.total = Cardinality(m.offered))

Fetches ==
    [pc : {"idle", "asking", "loading", "manifest", "csv", "again"}, page : Nat, attempts : Nat,
     total : Nat \cup {None}, pages : Int \cup {None}, items : Seq(Listings), fetched : Nat,
     kept : SUBSET Listings, gained : BOOLEAN, lost : BOOLEAN,
     manifest : SignedSheets \cup {None}, csv : Sheets \cup {None}]

\* Types, and that the source does not offer a listing twice.
Offers ==
    /\ setting \in Settings
    /\ offered \in Seq(Listings) /\ IsInjective(offered)
    /\ fetch \in Fetches

\* What is in the partner's files, and in what has been read of them.
Files ==
    /\ csv \in Sheets \cup {None} /\ (csv # None => IsExport(csv))
    /\ \A m \in {manifest, signing, fetch.manifest} :
          m \in SignedSheets \cup {None} /\ (m # None => IsSigned(m))

\* What was offered all the time is on offer now.
Keeps == fetch.pc # "idle" => fetch.kept \subseteq ToSet(offered)

\* A total is known from the first page on, if the source states one; and while
\* listings only leave, or only come, it says which of both happened since.
Totals ==
    /\ fetch.pc = "idle" \/ "total" \notin setting.reports => fetch.total = None
    /\ fetch.pc = "asking" => fetch.page >= 1
    /\ fetch.pc = "asking" /\ fetch.total = None /\ "total" \in setting.reports =>
          fetch.page = 1 /\ fetch.items = <<>>
    /\ fetch.total # None /\ ~fetch.gained => Len(offered) <= fetch.total
    /\ fetch.total # None /\ ~fetch.lost => fetch.total <= Len(offered)

\* The items of n pages of a size.
Upto(n, size) == IF n * size < Len(offered) THEN n * size ELSE Len(offered)

\* The items are no more than so many pages hold; if they are as many, they are
\* what is on offer from its beginning.
Aligned(items, n, size) ==
    /\ Len(items) <= Upto(n, size)
    /\ Len(items) = Upto(n, size) => items = SubSeq(offered, 1, Len(items))

\* If nothing has changed since the first page, the items are aligned.
Pages ==
    fetch.pc = "asking" /\ fetch.total = Len(offered) /\ ~(fetch.lost /\ fetch.gained) =>
       Aligned(fetch.items, fetch.page - 1, setting.size)

FeedInductive == Offers /\ Files /\ Keeps /\ Totals /\ Pages

-----------------------------------------------------------------------------
(* Sequences without repetition.                                           *)

\* A sequence without repetition has as many members as it is long.
LEMMA MembersOfDistinct ==
    ASSUME NEW S, NEW s \in Seq(S), IsInjective(s)
    PROVE  IsFiniteSet(ToSet(s)) /\ Cardinality(ToSet(s)) = Len(s)
<1>1. s \in Bijection(1 .. Len(s), ToSet(s))
  <2>1. s \in [1 .. Len(s) -> ToSet(s)]
    BY DEF ToSet
  <2>2. \A x \in ToSet(s) : \E i \in 1 .. Len(s) : s[i] = x
    BY DEF ToSet
  <2>3. \A i, j \in 1 .. Len(s) : s[i] = s[j] => i = j
    BY DEF IsInjective
  <2> QED BY <2>1, <2>2, <2>3 DEF Bijection, Injection, Surjection, IsInjective
<1>2. IsFiniteSet(1 .. Len(s)) /\ Cardinality(1 .. Len(s)) = Len(s)
  <2>1. Len(s) \in Nat
    OBVIOUS
  <2>2. /\ IsFiniteSet(1 .. Len(s))
        /\ Cardinality(1 .. Len(s)) = IF 1 > Len(s) THEN 0 ELSE Len(s) - 1 + 1
    BY <2>1, FS_Interval
  <2> QED BY <2>1, <2>2
<1> QED BY <1>1, <1>2, FS_Bijection DEF ExistsBijection

\* The beginning of a sequence.
LEMMA BeginningOf ==
    ASSUME NEW S, NEW s \in Seq(S), NEW n \in 0 .. Len(s)
    PROVE  /\ SubSeq(s, 1, n) \in Seq(S) /\ Len(SubSeq(s, 1, n)) = n
           /\ \A i \in 1 .. n : SubSeq(s, 1, n)[i] = s[i]
           /\ ToSet(SubSeq(s, 1, n)) \subseteq ToSet(s)
           /\ IsInjective(s) => IsInjective(SubSeq(s, 1, n))
<1>1. /\ SubSeq(s, 1, n) \in Seq(S) /\ Len(SubSeq(s, 1, n)) = n
      /\ \A i \in 1 .. n : SubSeq(s, 1, n)[i] = s[i]
  BY SubSeqProperties
<1>2. ToSet(SubSeq(s, 1, n)) \subseteq ToSet(s)
  BY <1>1 DEF ToSet
<1>3. IsInjective(s) => IsInjective(SubSeq(s, 1, n))
  BY <1>1 DEF IsInjective
<1> QED BY <1>1, <1>2, <1>3

\* One member more.
LEMMA OneMore ==
    ASSUME NEW S, NEW s \in Seq(S), NEW i \in 1 .. Len(s) + 1, NEW e \in S
    PROVE  /\ InsertAt(s, i, e) \in Seq(S) /\ Len(InsertAt(s, i, e)) = Len(s) + 1
           /\ ToSet(s) \subseteq ToSet(InsertAt(s, i, e))
           /\ IsInjective(s) /\ e \notin ToSet(s) => IsInjective(InsertAt(s, i, e))
<1> DEFINE a == SubSeq(s, 1, i - 1)
           b == SubSeq(s, i, Len(s))
           c == a \o <<e>>
           t == InsertAt(s, i, e)
<1>1. a \in Seq(S) /\ Len(a) = i - 1 /\ \A k \in 1 .. i - 1 : a[k] = s[k]
  BY SubSeqProperties
<1>2. b \in Seq(S) /\ Len(b) = Len(s) + 1 - i /\ \A k \in 1 .. Len(s) + 1 - i : b[k] = s[i + k - 1]
  BY SubSeqProperties
<1>3. t = c \o b
  BY DEF InsertAt
<1> HIDE DEF a, b, t
<1>4. /\ t \in Seq(S) /\ Len(t) = Len(s) + 1
      /\ \A k \in 1 .. Len(s) + 1 : t[k] = IF k < i THEN s[k] ELSE IF k = i THEN e ELSE s[k - 1]
  <2>1. c \in Seq(S) /\ Len(c) = i
    BY <1>1 DEF c
  <2>2. \A k \in 1 .. i : c[k] = IF k < i THEN s[k] ELSE e
    BY <1>1 DEF c
  <2> HIDE DEF c
  <2>3. t \in Seq(S) /\ Len(t) = Len(s) + 1
    <3>1. c \o b \in Seq(S) /\ Len(c \o b) = Len(c) + Len(b)
      BY <1>2, <2>1, ConcatProperties
    <3> QED BY <3>1, <1>2, <1>3, <2>1
  <2>4. ASSUME NEW k \in 1 .. Len(s) + 1 PROVE t[k] = IF k < i THEN s[k] ELSE IF k = i THEN e ELSE s[k - 1]
    <3>1. CASE k <= i
      <4>1. t[k] = c[k]
        BY <3>1, <1>2, <1>3, <2>1
      <4>2. k \in 1 .. i
        BY <3>1
      <4>3. c[k] = IF k < i THEN s[k] ELSE e
        BY <4>2, <2>2
      <4> QED BY <4>1, <4>3, <3>1
    <3>2. CASE k > i
      <4>1. t[k] = b[k - i]
        BY <3>2, <1>2, <1>3, <2>1
      <4>2. b[k - i] = s[k - 1]
        BY <3>2, <1>2
      <4> QED BY <4>1, <4>2, <3>2
    <3> QED BY <3>1, <3>2
  <2> QED BY <2>3, <2>4
<1>5. ASSUME NEW x \in ToSet(s) PROVE x \in ToSet(t)
  <2>1. PICK k \in 1 .. Len(s) : x = s[k]
    BY DEF ToSet
  <2>2. CASE k < i
    <3>1. t[k] = x
      BY <2>1, <2>2, <1>4
    <3> QED BY <3>1, <1>4 DEF ToSet
  <2>3. CASE k >= i
    <3>1. t[k + 1] = x
      BY <2>1, <2>3, <1>4
    <3> QED BY <3>1, <1>4 DEF ToSet
  <2> QED BY <2>2, <2>3
<1>6. ASSUME IsInjective(s), e \notin ToSet(s) PROVE IsInjective(t)
  <2>1. \A k, l \in 1 .. Len(s) : s[k] = s[l] => k = l
    BY <1>6 DEF IsInjective
  <2>2. \A k \in 1 .. Len(s) : s[k] # e
    BY <1>6 DEF ToSet
  <2>3. ASSUME NEW k \in 1 .. Len(s) + 1, NEW l \in 1 .. Len(s) + 1, t[k] = t[l], k < l PROVE FALSE
    <3>1. k # i /\ l # i
      <4>1. t[i] = e
        BY <1>4
      <4>2. ASSUME NEW m \in 1 .. Len(s) + 1, m # i PROVE t[m] # e
        <5>1. t[m] = IF m < i THEN s[m] ELSE s[m - 1]
          BY <1>4, <4>2
        <5>2. IF m < i THEN m \in 1 .. Len(s) ELSE m - 1 \in 1 .. Len(s)
          BY <4>2
        <5> QED BY <5>1, <5>2, <2>2
      <4> QED BY <4>1, <4>2, <2>3
    <3>2. CASE l < i
      BY <3>2, <1>4, <2>1, <2>3
    <3>3. CASE k < i /\ l > i
      <4>1. s[k] = s[l - 1]
        BY <3>3, <1>4, <2>3
      <4> QED BY <4>1, <3>3, <2>1, <2>3
    <3>4. CASE k > i
      <4>1. s[k - 1] = s[l - 1]
        BY <3>4, <1>4, <2>3
      <4> QED BY <4>1, <3>4, <2>1, <2>3
    <3> QED BY <3>1, <3>2, <3>3, <3>4, <2>3
  <2>4. \A k, l \in 1 .. Len(s) + 1 : t[k] = t[l] => k = l
    BY <2>3
  <2> QED BY <2>4, <1>4 DEF IsInjective
<1>7. ToSet(s) \subseteq ToSet(t)
  BY <1>5
<1> QED BY <1>4, <1>6, <1>7 DEF t

\* One member less.
LEMMA OneLess ==
    ASSUME NEW S, NEW s \in Seq(S), NEW i \in 1 .. Len(s)
    PROVE  /\ RemoveAt(s, i) \in Seq(S) /\ Len(RemoveAt(s, i)) = Len(s) - 1
           /\ ToSet(s) \ {s[i]} \subseteq ToSet(RemoveAt(s, i))
           /\ IsInjective(s) => IsInjective(RemoveAt(s, i))
<1> DEFINE a == SubSeq(s, 1, i - 1)
           b == SubSeq(s, i + 1, Len(s))
           t == RemoveAt(s, i)
<1>1. a \in Seq(S) /\ Len(a) = i - 1 /\ \A k \in 1 .. i - 1 : a[k] = s[k]
  BY SubSeqProperties
<1>2. b \in Seq(S) /\ Len(b) = Len(s) - i /\ \A k \in 1 .. Len(s) - i : b[k] = s[i + k]
  BY SubSeqProperties
<1>3. t = a \o b
  BY DEF RemoveAt
<1> HIDE DEF a, b, t
<1>4. /\ t \in Seq(S) /\ Len(t) = Len(s) - 1
      /\ \A k \in 1 .. Len(s) - 1 : t[k] = IF k < i THEN s[k] ELSE s[k + 1]
  <2>1. t \in Seq(S) /\ Len(t) = Len(s) - 1
    BY <1>1, <1>2, <1>3
  <2>2. ASSUME NEW k \in 1 .. Len(s) - 1 PROVE t[k] = IF k < i THEN s[k] ELSE s[k + 1]
    <3>1. CASE k < i
      BY <3>1, <1>1, <1>2, <1>3
    <3>2. CASE k >= i
      <4>1. t[k] = b[k - i + 1]
        BY <3>2, <1>1, <1>2, <1>3
      <4>2. b[k - i + 1] = s[k + 1]
        BY <3>2, <1>2
      <4> QED BY <4>1, <4>2, <3>2
    <3> QED BY <3>1, <3>2
  <2> QED BY <2>1, <2>2
<1>5. ASSUME NEW x \in ToSet(s) \ {s[i]} PROVE x \in ToSet(t)
  <2>1. PICK k \in 1 .. Len(s) : x = s[k] /\ k # i
    BY DEF ToSet
  <2>2. CASE k < i
    <3>1. t[k] = x /\ k \in 1 .. Len(s) - 1
      BY <2>1, <2>2, <1>4
    <3> QED BY <3>1, <1>4 DEF ToSet
  <2>3. CASE k > i
    <3>1. t[k - 1] = x /\ k - 1 \in 1 .. Len(s) - 1
      BY <2>1, <2>3, <1>4
    <3> QED BY <3>1, <1>4 DEF ToSet
  <2> QED BY <2>1, <2>2, <2>3
<1>6. ASSUME IsInjective(s) PROVE IsInjective(t)
  <2>1. \A k, l \in 1 .. Len(s) : s[k] = s[l] => k = l
    BY <1>6 DEF IsInjective
  <2>2. \A k, l \in 1 .. Len(s) - 1 : t[k] = t[l] => k = l
    BY <1>4, <2>1
  <2> QED BY <2>2, <1>4 DEF IsInjective
<1>7. ToSet(s) \ {s[i]} \subseteq ToSet(t)
  BY <1>5
<1> QED BY <1>4, <1>6, <1>7 DEF t

-----------------------------------------------------------------------------
(* Pages.                                                                  *)

\* What a page may hold begins where the pages before it end.
LEMMA PageEnds ==
    ASSUME NEW p \in Nat, p >= 1, NEW size \in Nat \ {0}, offered \in Seq(Listings)
    PROVE  /\ Upto(p - 1, size) \in 0 .. Len(offered) /\ Upto(p, size) \in 0 .. Len(offered)
           /\ Upto(p - 1, size) <= Upto(p, size)
           /\ (p - 1) * size < Len(offered) => Upto(p - 1, size) = (p - 1) * size
<1>1. p * size = (p - 1) * size + size
  OBVIOUS
<1>2. (p - 1) * size \in Nat /\ p * size \in Nat /\ size \in Nat /\ size > 0
  OBVIOUS
<1> DEFINE a == (p - 1) * size
           b == p * size
<1> HIDE DEF a, b
<1>3. a \in Nat /\ b \in Nat /\ a <= b
  BY <1>1, <1>2 DEF a, b
<1>4. Len(offered) \in Nat
  OBVIOUS
<1>5. /\ Upto(p - 1, size) = IF a < Len(offered) THEN a ELSE Len(offered)
      /\ Upto(p, size) = IF b < Len(offered) THEN b ELSE Len(offered)
  BY DEF Upto, a, b
<1>6. (p - 1) * size < Len(offered) => Upto(p - 1, size) = (p - 1) * size
  BY DEF Upto
<1> QED BY <1>3, <1>4, <1>5, <1>6

\* A page holds what is between both ends.
LEMMA PageHolds ==
    ASSUME NEW p \in Nat, p >= 1, setting.size \in Nat \ {0}, offered \in Seq(Listings)
    PROVE  /\ PageItems(p) \in Seq(Listings)
           /\ Len(PageItems(p)) = Upto(p, setting.size) - Upto(p - 1, setting.size)
           /\ PageItems(p) = SubSeq(offered, Upto(p - 1, setting.size) + 1, Upto(p, setting.size))
<1> DEFINE low == Upto(p - 1, setting.size)
           high == Upto(p, setting.size)
           first == (p - 1) * setting.size + 1
<1>1. /\ low \in 0 .. Len(offered) /\ high \in 0 .. Len(offered) /\ low <= high
      /\ (p - 1) * setting.size < Len(offered) => low = (p - 1) * setting.size
  BY PageEnds
<1>2. first \in Nat
  OBVIOUS
<1>3. PageItems(p) = SubSeq(offered, first, high)
  BY DEF PageItems, Upto
<1>4. ~((p - 1) * setting.size < Len(offered)) => low = Len(offered)
  BY DEF Upto
<1> HIDE DEF low, high
<1>5. SubSeq(offered, low + 1, high) \in Seq(Listings) /\ Len(SubSeq(offered, low + 1, high)) = high - low
  BY <1>1, SubSeqProperties
<1>6. CASE (p - 1) * setting.size < Len(offered)
  <2>1. first = low + 1
    BY <1>1, <1>6
  <2> QED BY <2>1, <1>3, <1>5 DEF low, high
<1>7. CASE ~((p - 1) * setting.size < Len(offered))
  <2>1. high = Len(offered) /\ low = Len(offered)
    BY <1>1, <1>4, <1>7
  <2>2. first > high
    BY <2>1, <1>2, <1>7
  <2>3. SubSeq(offered, first, high) = <<>> /\ SubSeq(offered, low + 1, high) = <<>>
    BY <2>1, <2>2, <1>1, <1>2, SubSeqEmpty
  <2> QED BY <2>3, <1>3, <1>5 DEF low, high
<1> QED BY <1>6, <1>7

\* Another page keeps the items aligned, whole or cut.
LEMMA PageAligns ==
    ASSUME NEW p \in Nat, p >= 1, setting.size \in Nat \ {0}, offered \in Seq(Listings),
           NEW items \in Seq(Listings), Aligned(items, p - 1, setting.size),
           NEW n \in 0 .. Len(PageItems(p))
    PROVE  /\ items \o SubSeq(PageItems(p), 1, n) \in Seq(Listings)
           /\ Aligned(items \o SubSeq(PageItems(p), 1, n), p, setting.size)
<1> DEFINE low == Upto(p - 1, setting.size)
           high == Upto(p, setting.size)
           page == PageItems(p)
           more == SubSeq(page, 1, n)
           all == items \o more
<1>1. low \in 0 .. Len(offered) /\ high \in 0 .. Len(offered) /\ low <= high
  BY PageEnds
<1>2. page \in Seq(Listings) /\ Len(page) = high - low /\ page = SubSeq(offered, low + 1, high)
  BY PageHolds
<1>3. Len(items) <= low /\ (Len(items) = low => items = SubSeq(offered, 1, low))
  BY DEF Aligned
<1> HIDE DEF low, high, page
<1>4. more \in Seq(Listings) /\ Len(more) = n
  BY <1>2, BeginningOf DEF page
<1> HIDE DEF more
<1>5. all \in Seq(Listings) /\ Len(all) = Len(items) + n
  BY <1>4, ConcatProperties
<1>6. n \in Nat /\ n <= high - low
  BY <1>2, <1>1 DEF page
<1>7. Len(all) <= high
  BY <1>1, <1>3, <1>5, <1>6
<1>8. ASSUME Len(all) = high PROVE all = SubSeq(offered, 1, Len(all))
  <2>1. Len(items) = low /\ n = high - low
    BY <1>1, <1>3, <1>5, <1>6, <1>8
  <2>2. more = page
    BY <2>1, <1>2, SubSeqFull DEF more
  <2>3. SubSeq(offered, 1, low) \o SubSeq(offered, low + 1, high) = SubSeq(offered, 1, high)
    BY <1>1, ConcatAdjacentSubSeq
  <2> QED BY <2>1, <2>2, <2>3, <1>2, <1>3, <1>8
<1> HIDE DEF all
<1>9. Aligned(all, p, setting.size)
  BY <1>7, <1>8 DEF Aligned, high
<1> QED BY <1>5, <1>9 DEF all, more, page

-----------------------------------------------------------------------------
(* Every step preserves the invariant.                                     *)

\* No fetch is a fetch.
LEMMA IdleIsAFetch == Idle \in Fetches
<1>1. <<>> \in Seq(Listings)
  OBVIOUS
<1> QED BY <1>1 DEF Idle, Fetches

\* A run that ends leaves nothing to keep an eye on.
LEMMA EndsKeep ==
    ASSUME FeedInductive, fetch' = Idle, UNCHANGED <<setting, offered, csv, manifest, signing>>
    PROVE  FeedInductive'
<1> USE DEF FeedInductive
<1>1. Offers'
  BY IdleIsAFetch DEF Offers
<1>2. Idle.pc = "idle" /\ Idle.manifest = None /\ Idle.total = None
  BY DEF Idle
<1>3. Files'
  BY <1>2 DEF Files
<1>4. Keeps' /\ Totals'
  BY <1>2 DEF Keeps, Totals
<1>5. Pages'
  BY <1>2 DEF Pages
<1> QED BY <1>1, <1>3, <1>4, <1>5

\* A run that collects has ended; if it is complete, it has seen all its items.
LEMMA CollectEnds ==
    ASSUME NEW items, NEW declared, NEW expected, NEW counted,
           Collect(items, declared, expected, counted)
    PROVE  /\ fetch' = Idle
           /\ outcome'.completeness = "complete" =>
                 /\ declared = "complete" /\ outcome'.seen = ToSet(items)
                 /\ outcome'.expected = expected /\ outcome'.counted = counted
BY DEF Collect, ToSet

\* A run that did not end well is no complete one.
LEMMA UnsuccessfulEnds ==
    ASSUME NEW status, Unsuccessful(status)
    PROVE  fetch' = Idle /\ outcome'.completeness = "unknown"
BY DEF Unsuccessful

\* Initially.
LEMMA FeedStarts == FeedInit => FeedInductive
<1> SUFFICES ASSUME FeedInit PROVE FeedInductive
  OBVIOUS
<1>1. setting \in Settings
  BY DEF FeedInit
<1> DEFINE all == SetToSeq(Listings)
           N == Cardinality(Listings)
<1>2. PICK n \in 0 .. N : offered = SubSeq(all, 1, n)
  BY DEF FeedInit
<1>3. N \in Nat /\ all \in [1 .. N -> Listings] /\ IsInjective(all)
  <2>1. N \in Nat /\ ExistsBijection(1 .. N, Listings)
    BY FS_CardinalityType, FeedAssumption
  <2>2. \E f \in [1 .. N -> Listings] : IsInjective(f)
    BY <2>1 DEF ExistsBijection, Bijection, Injection, IsInjective
  <2>3. all = CHOOSE f \in [1 .. N -> Listings] : IsInjective(f)
    BY DEF SetToSeq
  <2> HIDE DEF all, N
  <2> QED BY <2>1, <2>2, <2>3
<1> HIDE DEF all, N
<1>4. all \in Seq(Listings) /\ Len(all) = N
  BY <1>3
<1>5. offered \in Seq(Listings) /\ IsInjective(offered)
  BY <1>2, <1>3, <1>4, BeginningOf
<1>6. fetch = Idle /\ csv = None /\ manifest = None /\ signing = None
  BY DEF FeedInit
<1>7. Offers
  BY <1>1, <1>5, <1>6, IdleIsAFetch DEF Offers
<1>8. Files
  BY <1>6 DEF Files, Idle
<1>9. Keeps /\ Totals
  BY <1>6 DEF Keeps, Totals, Idle
<1>10. Pages
  BY <1>6 DEF Pages, Idle
<1> QED BY <1>7, <1>8, <1>9, <1>10 DEF FeedInductive

\* A run starts: it has no page yet.
LEMMA StartKeeps == ASSUME FeedInductive, StartFetch PROVE FeedInductive'
<1> DEFINE pc == CASE Paged -> "asking" [] setting.source = "partner_csv" -> "manifest" [] OTHER -> "loading"
           f == [Idle EXCEPT !.pc = pc, !.page = 1, !.kept = ToSet(offered)]
<1>1. fetch' = f /\ UNCHANGED <<setting, quality, offered, csv, manifest, signing>>
  BY DEF StartFetch
<1>2. pc \in {"asking", "manifest", "loading"}
  OBVIOUS
<1>3. offered \in Seq(Listings) /\ IsInjective(offered) /\ setting \in Settings
  BY DEF FeedInductive, Offers
<1>4. ToSet(offered) \in SUBSET Listings
  BY <1>3 DEF ToSet
<1> HIDE DEF pc
<1>5. /\ f \in Fetches /\ f.pc = pc /\ f.page = 1 /\ f.kept = ToSet(offered)
      /\ f.manifest = None /\ f.total = None /\ f.items = <<>>
  <2>1. <<>> \in Seq(Listings)
    OBVIOUS
  <2> QED BY <1>2, <1>4, <2>1 DEF Idle, Fetches
<1> HIDE DEF f
<1>6. Offers'
  BY <1>1, <1>3, <1>5 DEF Offers
<1>7. Files'
  BY <1>1, <1>5 DEF Files, FeedInductive
<1>8. Keeps' /\ Totals'
  BY <1>1, <1>2, <1>5 DEF Keeps, Totals
<1>9. Pages'
  <2>1. Len(offered) \in Nat
    BY <1>3
  <2>2. f.total # Len(offered)
    BY <2>1, <1>5, FeedAssumption
  <2> QED BY <2>2, <1>1 DEF Pages
<1> QED BY <1>6, <1>7, <1>8, <1>9 DEF FeedInductive

\* The source offers more: a total that was stated is too small now.
LEMMA GainKeeps ==
    ASSUME FeedInductive, NEW l \in Listings \ ToSet(offered), NEW i \in 1 .. Len(offered) + 1,
           offered' = InsertAt(offered, i, l), fetch' = [fetch EXCEPT !.gained = fetch.pc # "idle"],
           UNCHANGED <<setting, csv, manifest, signing>>
    PROVE  FeedInductive'
<1> DEFINE f == [fetch EXCEPT !.gained = fetch.pc # "idle"]
<1>1. fetch \in Fetches /\ setting \in Settings /\ offered \in Seq(Listings) /\ IsInjective(offered)
  BY DEF FeedInductive, Offers
<1>2. /\ f \in Fetches /\ f.pc = fetch.pc /\ f.page = fetch.page /\ f.total = fetch.total
      /\ f.items = fetch.items /\ f.manifest = fetch.manifest /\ f.kept = fetch.kept
      /\ f.lost = fetch.lost /\ (fetch.pc # "idle" => f.gained)
  BY <1>1 DEF Fetches
<1>3. fetch' = f
  OBVIOUS
<1> HIDE DEF f
<1>4. /\ offered' \in Seq(Listings) /\ Len(offered') = Len(offered) + 1
      /\ ToSet(offered) \subseteq ToSet(offered') /\ IsInjective(offered')
  BY <1>1, OneMore
<1>5. Len(offered) \in Nat
  BY <1>1
<1>6. Offers'
  BY <1>1, <1>2, <1>3, <1>4 DEF Offers
<1>7. Files'
  BY <1>2, <1>3 DEF Files, FeedInductive
<1>8. Keeps'
  BY <1>2, <1>3, <1>4 DEF Keeps, FeedInductive
<1>9. fetch.total # None => fetch.pc # "idle" /\ fetch.total \in Nat
  BY <1>1 DEF FeedInductive, Totals, Fetches
<1>10. Totals'
  <2> DEFINE n == Len(offered)
             m == Len(offered')
  <2>1. n \in Nat /\ m = n + 1
    BY <1>4, <1>5
  <2>2. fetch.total # None /\ ~fetch.lost => fetch.total <= n
    BY DEF FeedInductive, Totals
  <2> HIDE DEF n, m
  <2>3. f.total # None /\ ~f.lost => f.total <= m
    BY <1>2, <1>9, <2>1, <2>2
  <2>4. f.total # None => f.gained
    BY <1>2, <1>9
  <2>5. /\ f.pc = "idle" \/ "total" \notin setting.reports => f.total = None
        /\ f.pc = "asking" => f.page >= 1
        /\ f.pc = "asking" /\ f.total = None /\ "total" \in setting.reports =>
              f.page = 1 /\ f.items = <<>>
    BY <1>2 DEF FeedInductive, Totals
  <2> QED BY <1>3, <2>3, <2>4, <2>5 DEF Totals, m
<1>11. Pages'
  <2> SUFFICES ASSUME f.total = Len(offered'), ~(f.lost /\ f.gained) PROVE FALSE
    BY <1>3 DEF Pages
  <2> DEFINE n == Len(offered)
  <2>4. n \in Nat /\ f.total = n + 1 /\ f.total = fetch.total
    BY <1>2, <1>4, <1>5
  <2> HIDE DEF n
  <2>1. fetch.total # None
    <3>1. n + 1 \in Nat
      BY <2>4
    <3> QED BY <2>4, <3>1, FeedAssumption
  <2>2. ~fetch.lost
    BY <1>2, <1>9, <2>1
  <2>3. fetch.total <= Len(offered)
    BY <2>1, <2>2 DEF FeedInductive, Totals
  <2> QED BY <2>3, <2>4 DEF n
<1> QED BY <1>6, <1>7, <1>8, <1>10, <1>11 DEF FeedInductive

\* The source offers less: a total that was stated is too large now.
LEMMA LossKeeps ==
    ASSUME FeedInductive, NEW i \in 1 .. Len(offered), offered' = RemoveAt(offered, i),
           fetch' = [fetch EXCEPT !.lost = fetch.pc # "idle", !.kept = @ \ {offered[i]}],
           UNCHANGED <<setting, csv, manifest, signing>>
    PROVE  FeedInductive'
<1> DEFINE f == [fetch EXCEPT !.lost = fetch.pc # "idle", !.kept = @ \ {offered[i]}]
<1>1. fetch \in Fetches /\ setting \in Settings /\ offered \in Seq(Listings) /\ IsInjective(offered)
  BY DEF FeedInductive, Offers
<1>2. /\ f \in Fetches /\ f.pc = fetch.pc /\ f.page = fetch.page /\ f.total = fetch.total
      /\ f.items = fetch.items /\ f.manifest = fetch.manifest /\ f.kept = fetch.kept \ {offered[i]}
      /\ f.gained = fetch.gained /\ (fetch.pc # "idle" => f.lost)
  BY <1>1 DEF Fetches
<1>3. fetch' = f
  OBVIOUS
<1> HIDE DEF f
<1>4. /\ offered' \in Seq(Listings) /\ Len(offered') = Len(offered) - 1
      /\ ToSet(offered) \ {offered[i]} \subseteq ToSet(offered') /\ IsInjective(offered')
  BY <1>1, OneLess
<1>5. Len(offered) \in Nat /\ Len(offered') \in Nat
  BY <1>1, <1>4
<1>6. Offers'
  BY <1>1, <1>2, <1>3, <1>4 DEF Offers
<1>7. Files'
  BY <1>2, <1>3 DEF Files, FeedInductive
<1>8. Keeps'
  BY <1>2, <1>3, <1>4 DEF Keeps, FeedInductive
<1>9. fetch.total # None => fetch.pc # "idle" /\ fetch.total \in Nat
  BY <1>1 DEF FeedInductive, Totals, Fetches
<1>10. Totals'
  <2> DEFINE n == Len(offered)
             m == Len(offered')
  <2>1. n \in Nat /\ m = n - 1
    BY <1>4, <1>5
  <2>2. fetch.total # None /\ ~fetch.gained => n <= fetch.total
    BY DEF FeedInductive, Totals
  <2> HIDE DEF n, m
  <2>3. f.total # None /\ ~f.gained => m <= f.total
    BY <1>2, <1>9, <2>1, <2>2
  <2>4. f.total # None => f.lost
    BY <1>2, <1>9
  <2>5. /\ f.pc = "idle" \/ "total" \notin setting.reports => f.total = None
        /\ f.pc = "asking" => f.page >= 1
        /\ f.pc = "asking" /\ f.total = None /\ "total" \in setting.reports =>
              f.page = 1 /\ f.items = <<>>
    BY <1>2 DEF FeedInductive, Totals
  <2> QED BY <1>3, <2>3, <2>4, <2>5 DEF Totals, m
<1>11. Pages'
  <2> SUFFICES ASSUME f.total = Len(offered'), ~(f.lost /\ f.gained) PROVE FALSE
    BY <1>3 DEF Pages
  <2> DEFINE n == Len(offered)
  <2>4. n \in Nat /\ f.total = n - 1 /\ f.total = fetch.total
    BY <1>2, <1>4, <1>5
  <2> HIDE DEF n
  <2>1. fetch.total # None
    BY <1>2, <1>5, FeedAssumption
  <2>2. ~fetch.gained
    BY <1>2, <1>9, <2>1
  <2>3. Len(offered) <= fetch.total
    BY <2>1, <2>2 DEF FeedInductive, Totals
  <2> QED BY <2>3, <2>4 DEF n
<1> QED BY <1>6, <1>7, <1>8, <1>10, <1>11 DEF FeedInductive

\* The source changes.
LEMMA SourceKeeps == ASSUME FeedInductive, SourceChanges PROVE FeedInductive'
<1>1. UNCHANGED <<setting, csv, manifest, signing>>
  BY DEF SourceChanges
<1>2. CASE \E l \in Listings \ ToSet(offered), i \in 1 .. Len(offered) + 1 :
             offered' = InsertAt(offered, i, l) /\ fetch' = [fetch EXCEPT !.gained = fetch.pc # "idle"]
  BY <1>1, <1>2, GainKeeps
<1>3. CASE \E i \in 1 .. Len(offered) :
             /\ offered' = RemoveAt(offered, i)
             /\ fetch' = [fetch EXCEPT !.lost = fetch.pc # "idle", !.kept = @ \ {offered[i]}]
  BY <1>1, <1>3, LossKeeps
<1> QED BY <1>2, <1>3 DEF SourceChanges

\* Another request for the page, and the files that are read: nothing that the
\* invariant speaks of changes, but for a manifest that is taken over.
LEMMA ReadsKeep ==
    ASSUME FeedInductive, NEW f \in Fetches, fetch' = f, f.pc # "idle",
           f.pc = "asking" => fetch.pc = "asking", fetch.pc # "idle",
           f.page = fetch.page, f.total = fetch.total, f.items = fetch.items, f.kept = fetch.kept,
           f.gained = fetch.gained, f.lost = fetch.lost, f.manifest \in {fetch.manifest, manifest},
           UNCHANGED <<setting, offered, csv, manifest, signing>>
    PROVE  FeedInductive'
<1>1. Offers'
  BY DEF FeedInductive, Offers
<1>2. Files'
  BY DEF FeedInductive, Files
<1>3. Keeps'
  BY DEF FeedInductive, Keeps
<1>4. Totals'
  BY DEF FeedInductive, Totals
<1>5. Pages'
  BY DEF FeedInductive, Pages, Aligned, Upto
<1> QED BY <1>1, <1>2, <1>3, <1>4, <1>5 DEF FeedInductive

\* What the source states with a page.
StatedTotal == IF "total" \in setting.reports THEN Len(offered) ELSE None
StatedPages == IF "pages" \in setting.reports THEN PagesOf(Len(offered)) ELSE None

\* A total is what is on offer, if the source states it at all, and then the
\* items are aligned with the page that was added.
LEMMA PageTaken ==
    ASSUME FeedInductive, fetch.pc = "asking", NEW n \in 0 .. Len(PageItems(fetch.page)),
           Consistent(fetch.total, StatedTotal), NEW items,
           items = fetch.items \o SubSeq(PageItems(fetch.page), 1, n)
    PROVE  /\ items \in Seq(Listings)
           /\ Learned(fetch.total, StatedTotal) = StatedTotal
           /\ StatedTotal # None /\ ~(fetch.lost /\ fetch.gained) => Aligned(items, fetch.page, setting.size)
<1>1. /\ setting.size \in Nat \ {0} /\ offered \in Seq(Listings) /\ Len(offered) \in Nat
      /\ fetch.items \in Seq(Listings) /\ fetch.page \in Nat /\ fetch.page >= 1
  BY FeedAssumption DEF FeedInductive, Offers, Fetches, Totals
<1>2. SubSeq(PageItems(fetch.page), 1, n) \in Seq(Listings)
  <2>1. PageItems(fetch.page) \in Seq(Listings)
    BY <1>1, PageHolds
  <2> QED BY <2>1, BeginningOf
<1>3. items \in Seq(Listings)
  BY <1>1, <1>2, ConcatProperties
<1>4. StatedTotal = None => fetch.total = None
  BY <1>1, FeedAssumption DEF FeedInductive, Totals, StatedTotal
<1>5. ASSUME StatedTotal # None, ~(fetch.lost /\ fetch.gained)
      PROVE  Aligned(items, fetch.page, setting.size)
  <2>1. StatedTotal = Len(offered) /\ "total" \in setting.reports
    BY <1>5 DEF StatedTotal
  <2>2. Aligned(fetch.items, fetch.page - 1, setting.size)
    <3>1. CASE fetch.total = None
      <4>1. fetch.page = 1 /\ fetch.items = <<>>
        BY <2>1, <3>1 DEF FeedInductive, Totals
      <4>2. Upto(0, setting.size) = 0
        BY <1>1 DEF Upto
      <4>3. SubSeq(offered, 1, 0) = <<>>
        BY <1>1, SubSeqEmpty
      <4> QED BY <4>1, <4>2, <4>3 DEF Aligned
    <3>2. CASE fetch.total # None
      BY <1>5, <2>1, <3>2 DEF Consistent, FeedInductive, Pages
    <3> QED BY <3>1, <3>2
  <2> QED BY <1>1, <2>2, PageAligns
<1> QED BY <1>3, <1>4, <1>5 DEF Learned

\* The fetch with a page's items, and at its next page.
WithPage(items) ==
    [fetch EXCEPT !.total = Learned(@, StatedTotal), !.pages = Learned(@, StatedPages),
                  !.items = @ \o items, !.fetched = @ + 1, !.attempts = 0]
NextPage(items) == [WithPage(items) EXCEPT !.page = @ + 1]

\* Both are fetches.
LEMMA NextPageIsAFetch ==
    ASSUME fetch \in Fetches, NEW items, fetch.items \o items \in Seq(Listings),
           Learned(fetch.total, StatedTotal) \in Nat \cup {None},
           Learned(fetch.pages, StatedPages) \in Int \cup {None}
    PROVE  /\ WithPage(items).items = fetch.items \o items
           /\ WithPage(items).total = Learned(fetch.total, StatedTotal)
           /\ WithPage(items).kept = fetch.kept
           /\ NextPage(items) \in Fetches /\ NextPage(items).pc = fetch.pc
           /\ NextPage(items).page = fetch.page + 1
           /\ NextPage(items).total = Learned(fetch.total, StatedTotal)
           /\ NextPage(items).items = fetch.items \o items /\ NextPage(items).kept = fetch.kept
           /\ NextPage(items).manifest = fetch.manifest
           /\ NextPage(items).gained = fetch.gained /\ NextPage(items).lost = fetch.lost
<1> DEFINE total == Learned(fetch.total, StatedTotal)
           pages == Learned(fetch.pages, StatedPages)
           all == fetch.items \o items
           f == [fetch EXCEPT !.total = total, !.pages = pages, !.items = all,
                              !.fetched = @ + 1, !.attempts = 0]
<1>1. f = WithPage(items)
  BY DEF WithPage
<1>2. fetch.fetched + 1 \in Nat /\ fetch.page + 1 \in Nat
  BY DEF Fetches
<1>3. total \in Nat \cup {None} /\ pages \in Int \cup {None} /\ all \in Seq(Listings)
  OBVIOUS
<1> HIDE DEF total, pages, all
<1>4. /\ f \in Fetches /\ f.pc = fetch.pc /\ f.page = fetch.page /\ f.total = total
      /\ f.items = all /\ f.kept = fetch.kept /\ f.manifest = fetch.manifest
      /\ f.gained = fetch.gained /\ f.lost = fetch.lost
  BY <1>2, <1>3 DEF Fetches
<1> HIDE DEF f
<1> DEFINE g == [f EXCEPT !.page = @ + 1]
<1>5. g = NextPage(items)
  BY <1>1 DEF NextPage
<1>6. /\ g \in Fetches /\ g.pc = f.pc /\ g.page = f.page + 1 /\ g.total = f.total
      /\ g.items = f.items /\ g.kept = f.kept /\ g.manifest = f.manifest
      /\ g.gained = f.gained /\ g.lost = f.lost
  BY <1>2, <1>4 DEF Fetches
<1> HIDE DEF g
<1> QED BY <1>1, <1>4, <1>5, <1>6 DEF total, all

\* The adapter goes on to the next page.
LEMMA NextPageKeeps ==
    ASSUME FeedInductive, fetch.pc = "asking", NEW n \in 0 .. Len(PageItems(fetch.page)),
           Consistent(fetch.total, StatedTotal), NEW items,
           items = fetch.items \o SubSeq(PageItems(fetch.page), 1, n),
           NEW f, f \in Fetches, f.pc = fetch.pc, f.page = fetch.page + 1, f.total = StatedTotal,
           f.items = items, f.kept = fetch.kept, f.manifest = fetch.manifest,
           f.gained = fetch.gained, f.lost = fetch.lost,
           fetch' = f, UNCHANGED <<setting, offered, csv, manifest, signing>>
    PROVE  FeedInductive'
<1>1. /\ fetch.page \in Nat /\ fetch.page >= 1
      /\ offered \in Seq(Listings) /\ Len(offered) \in Nat
  BY DEF FeedInductive, Offers, Fetches, Totals
<1>2. StatedTotal # None /\ ~(fetch.lost /\ fetch.gained) => Aligned(items, fetch.page, setting.size)
  BY PageTaken
<1>3. StatedTotal \in Nat \cup {None} /\ (StatedTotal # None => StatedTotal = Len(offered))
  BY <1>1 DEF StatedTotal
<1>4. Offers'
  BY <1>1 DEF FeedInductive, Offers
<1>5. Files'
  BY <1>1 DEF FeedInductive, Files
<1>6. Keeps'
  BY <1>1 DEF FeedInductive, Keeps
<1>7. Totals'
  <2>1. "total" \in setting.reports => f.total # None
    BY <1>1, FeedAssumption DEF StatedTotal
  <2>2. f.page >= 1
    BY <1>1
  <2>3. f.total # None => Len(offered) <= f.total /\ f.total <= Len(offered)
    BY <1>1, <1>3
  <2>4. "total" \notin setting.reports => f.total = None
    BY DEF StatedTotal
  <2> QED BY <1>1, <2>1, <2>2, <2>3, <2>4 DEF Totals
<1>8. Pages'
  <2>1. f.page - 1 = fetch.page
    BY <1>1
  <2> SUFFICES ASSUME f.total = Len(offered), ~(f.lost /\ f.gained)
               PROVE  Aligned(f.items, fetch.page, setting.size)
    BY <2>1 DEF Pages, Aligned, Upto
  <2>2. StatedTotal # None
    BY <1>1, FeedAssumption
  <2> QED BY <1>2, <2>2
<1> QED BY <1>4, <1>5, <1>6, <1>7, <1>8 DEF FeedInductive

\* No step but the end of a run speaks of a complete feed, and what it then says.
Misses(expected, seen) == ~(expected \subseteq seen) /\ ~(fetch.lost /\ fetch.gained)
MissesNothing ==
    outcome' \notin {outcome, None} /\ outcome'.completeness = "complete" /\ outcome'.counted =>
       ~Misses(outcome'.expected, outcome'.seen)

\* A run that did not end well keeps the invariant, and says nothing.
LEMMA UnsuccessfulKeeps ==
    ASSUME FeedInductive, NEW status, Unsuccessful(status),
           UNCHANGED <<setting, offered, csv, manifest, signing>>
    PROVE  FeedInductive' /\ MissesNothing
<1>1. fetch' = Idle /\ outcome'.completeness = "unknown"
  BY UnsuccessfulEnds
<1>2. FeedInductive'
  BY <1>1, EndsKeep
<1> QED BY <1>1, <1>2 DEF MissesNothing

\* A run that collects misses nothing, if the items of a complete feed that is
\* counted hold what it expected.
LEMMA CollectKeeps ==
    ASSUME FeedInductive, NEW items, NEW declared, NEW expected, NEW counted,
           Collect(items, declared, expected, counted),
           declared = "complete" /\ counted => ~Misses(expected, ToSet(items)),
           UNCHANGED <<setting, offered, csv, manifest, signing>>
    PROVE  FeedInductive' /\ MissesNothing
<1>1. /\ fetch' = Idle
      /\ outcome'.completeness = "complete" =>
            /\ declared = "complete" /\ outcome'.seen = ToSet(items)
            /\ outcome'.expected = expected /\ outcome'.counted = counted
  BY CollectEnds
<1>2. FeedInductive'
  BY <1>1, EndsKeep
<1> QED BY <1>1, <1>2 DEF MissesNothing

\* A step that leaves the last outcome alone, or withdraws it, says nothing.
LEMMA SilentMisses == ASSUME outcome' \in {outcome, None} PROVE MissesNothing
BY DEF MissesNothing

\* A page ends the run, badly or well, or the adapter goes on.
LEMMA PageLeads ==
    ASSUME NEW items, TakePage(items)
    PROVE  \/ Unsuccessful("failed")
           \/ /\ Consistent(fetch.total, StatedTotal)
              /\ \E hit, emptied \in BOOLEAN :
                    Collect(WithPage(items).items, PagedCompleteness(WithPage(items), hit, emptied),
                            WithPage(items).kept, WithPage(items).total # None)
           \/ /\ Consistent(fetch.total, StatedTotal)
              /\ fetch' = NextPage(items) /\ outcome' = outcome
<1> DEFINE f == WithPage(items)
           last == f.pages # None /\ fetch.page >= f.pages
           limited == setting.maxPages # None /\ fetch.page + 1 > setting.maxPages
           Ends(hit, emptied) == Collect(f.items, PagedCompleteness(f, hit, emptied),
                                         f.kept, f.total # None)
           GoesOn == fetch' = NextPage(items) /\ UNCHANGED <<outcome, lastComplete>>
<1>1. (CASE ~Consistent(fetch.total, StatedTotal) \/ ~Consistent(fetch.pages, StatedPages) ->
               Unsuccessful("failed")
         [] OTHER ->
               CASE items = <<>> -> Ends(FALSE, TRUE)
                 [] items # <<>> /\ last -> Ends(FALSE, FALSE)
                 [] items # <<>> /\ ~last /\ limited -> Ends(TRUE, FALSE)
                 [] OTHER -> GoesOn)
  BY DEF TakePage, WithPage, NextPage, StatedTotal, StatedPages
<1> HIDE DEF last, limited, Ends, GoesOn
<1>2. \/ Unsuccessful("failed")
      \/ /\ Consistent(fetch.total, StatedTotal)
         /\ Ends(FALSE, TRUE) \/ Ends(FALSE, FALSE) \/ Ends(TRUE, FALSE) \/ GoesOn
  BY <1>1
<1>3. CASE Ends(FALSE, TRUE) \/ Ends(FALSE, FALSE) \/ Ends(TRUE, FALSE)
  <2>1. \E hit, emptied \in BOOLEAN : Ends(hit, emptied)
    BY <1>3
  <2> QED BY <2>1, <1>2 DEF Ends
<1> QED BY <1>2, <1>3 DEF GoesOn

\* A complete feed has all the items that its total says.
LEMMA PagedComplete ==
    ASSUME NEW f, NEW hit, NEW emptied, PagedCompleteness(f, hit, emptied) = "complete",
           f.total # None
    PROVE  Len(f.items) = f.total
<1> SUFFICES ASSUME Len(f.items) # f.total PROVE FALSE
  OBVIOUS
<1> DEFINE doubts == (IF hit THEN {"max_pages_limit"} ELSE {})
                \cup (IF f.total # None /\ Len(f.items) # f.total
                      THEN {"reported_total_mismatch"} ELSE {})
                \cup (IF f.pages # None /\ f.fetched - (IF emptied THEN 1 ELSE 0) < f.pages
                      THEN {"early_empty_page"} ELSE {})
                \cup FreshnessReasons(f.items)
<1>1. "reported_total_mismatch" \in doubts
  OBVIOUS
<1>2. PagedCompleteness(f, hit, emptied) \in {"unknown", "partial"}
  <2>1. (CASE f.items = <<>> -> "unknown" [] doubts # {} -> "partial" [] OTHER -> "complete")
           \in {"unknown", "partial"}
    <3> HIDE DEF doubts
    <3> QED BY <1>1
  <2> QED BY <2>1 DEF PagedCompleteness
<1> QED BY <1>2

\* Aligned items that are as many as there are on offer are what is on offer.
LEMMA AlignedHoldAll ==
    ASSUME offered \in Seq(Listings), NEW items \in Seq(Listings), NEW p \in Nat, p >= 1,
           setting.size \in Nat \ {0}, Aligned(items, p, setting.size),
           Len(items) = Len(offered)
    PROVE  items = offered
<1>1. Upto(p, setting.size) \in 0 .. Len(offered)
  BY PageEnds
<1>2. Len(items) = Upto(p, setting.size)
  BY <1>1 DEF Aligned
<1>3. items = SubSeq(offered, 1, Len(offered))
  BY <1>2 DEF Aligned
<1> QED BY <1>3, SubSeqFull

\* A page: if it completes the feed, nothing is missed.
LEMMA PageKeeps ==
    ASSUME FeedInductive, fetch.pc = "asking", NEW n \in 0 .. Len(PageItems(fetch.page)),
           TakePage(SubSeq(PageItems(fetch.page), 1, n)),
           UNCHANGED <<setting, offered, csv, manifest, signing>>
    PROVE  FeedInductive' /\ MissesNothing
<1> DEFINE page == SubSeq(PageItems(fetch.page), 1, n)
           items == fetch.items \o page
           f == WithPage(page)
           g == NextPage(page)
<1>1. /\ fetch \in Fetches /\ offered \in Seq(Listings) /\ Len(offered) \in Nat
      /\ setting.size \in Nat \ {0} /\ fetch.page \in Nat /\ fetch.page >= 1
      /\ fetch.pages \in Int \cup {None}
  BY FeedAssumption DEF FeedInductive, Offers, Fetches, Totals
<1>2. StatedTotal \in Nat \cup {None} /\ (StatedTotal # None => StatedTotal = Len(offered))
  BY <1>1 DEF StatedTotal
<1>3. Learned(fetch.pages, StatedPages) \in Int \cup {None}
  BY <1>1 DEF Learned, PagesOf, StatedPages
<1>4. \/ Unsuccessful("failed")
      \/ /\ Consistent(fetch.total, StatedTotal)
         /\ \E hit, emptied \in BOOLEAN :
               Collect(f.items, PagedCompleteness(f, hit, emptied), f.kept, f.total # None)
      \/ /\ Consistent(fetch.total, StatedTotal)
         /\ fetch' = g /\ outcome' = outcome
  BY PageLeads
<1>5. CASE Unsuccessful("failed")
  BY <1>5, UnsuccessfulKeeps
<1>6. CASE Consistent(fetch.total, StatedTotal)
  <2>1. /\ items \in Seq(Listings) /\ Learned(fetch.total, StatedTotal) = StatedTotal
        /\ StatedTotal # None /\ ~(fetch.lost /\ fetch.gained) =>
              Aligned(items, fetch.page, setting.size)
    BY <1>6, PageTaken
  <2>2. /\ f.items = items /\ f.total = StatedTotal /\ f.kept = fetch.kept
        /\ g \in Fetches /\ g.pc = fetch.pc /\ g.page = fetch.page + 1 /\ g.total = StatedTotal
        /\ g.items = items /\ g.kept = fetch.kept /\ g.manifest = fetch.manifest
        /\ g.gained = fetch.gained /\ g.lost = fetch.lost
    <3> HIDE DEF page
    <3> QED BY <1>1, <1>2, <1>3, <2>1, NextPageIsAFetch
  <2>3. ASSUME NEW hit \in BOOLEAN, NEW emptied \in BOOLEAN,
               Collect(f.items, PagedCompleteness(f, hit, emptied), f.kept, f.total # None)
        PROVE  FeedInductive' /\ MissesNothing
    <3> HIDE DEF f
    <3>1. ASSUME PagedCompleteness(f, hit, emptied) = "complete", f.total # None,
                 ~(fetch.lost /\ fetch.gained)
          PROVE  fetch.kept \subseteq ToSet(f.items)
      <4>1. Len(items) = StatedTotal /\ StatedTotal # None
        BY <2>2, <3>1, PagedComplete
      <4>2. Len(items) = Len(offered) /\ Aligned(items, fetch.page, setting.size)
        BY <1>2, <2>1, <3>1, <4>1
      <4>3. items = offered
        BY <1>1, <2>1, <4>2, AlignedHoldAll
      <4>4. fetch.kept \subseteq ToSet(offered)
        BY DEF FeedInductive, Keeps
      <4> QED BY <2>2, <4>3, <4>4
    <3>2. PagedCompleteness(f, hit, emptied) = "complete" /\ f.total # None =>
             ~Misses(f.kept, ToSet(f.items))
      BY <2>2, <3>1 DEF Misses
    <3> QED BY <2>3, <3>2, CollectKeeps
  <2>4. ASSUME fetch' = g, outcome' = outcome PROVE FeedInductive' /\ MissesNothing
    <3> HIDE DEF g
    <3>1. FeedInductive'
      BY <1>6, <2>2, <2>4, NextPageKeeps
    <3> QED BY <2>4, <3>1, SilentMisses
  <2> QED BY <1>4, <1>5, <2>3, <2>4
<1> QED BY <1>4, <1>5, <1>6

\* A coverage that is complete, and has a total, has as many items.
LEMMA CoverageComplete ==
    ASSUME NEW declared, NEW cover, NEW count, cover # None, cover.total # None,
           AssessCoverage(declared, cover, count) = "complete"
    PROVE  cover.total = cover.returned /\ cover.returned = count
<1>1. Doubts(cover, count) = {}
  <2> DEFINE strong == cover # None /\ ~(cover.total = None /\ cover.pages = None
                                                            /\ cover.fetched = None)
             doubts == (IF cover = None THEN {} ELSE Doubts(cover, count))
                  \cup (IF ~strong /\ ~setting.allowWithout THEN {"coverage_not_proven"} ELSE {})
  <2>1. AssessCoverage(declared, cover, count)
          = IF declared = "complete" /\ doubts = {} THEN "complete" ELSE "partial"
    BY DEF AssessCoverage
  <2>2. doubts = {}
    <3> HIDE DEF doubts
    <3> QED BY <2>1
  <2> QED BY <2>2
<1>2. ASSUME cover.returned # None, cover.returned # count PROVE FALSE
  <2>1. "items_returned_mismatch" \in Doubts(cover, count)
    BY <1>2 DEF Doubts
  <2> QED BY <1>1, <2>1
<1>3. ASSUME cover.returned # None, cover.total # cover.returned PROVE FALSE
  <2>1. "reported_total_mismatch" \in Doubts(cover, count)
    BY <1>3 DEF Doubts
  <2> QED BY <1>1, <2>1
<1>4. ASSUME cover.returned = None PROVE FALSE
  <2>1. "items_returned_missing" \in Doubts(cover, count)
    BY <1>4 DEF Doubts
  <2> QED BY <1>1, <2>1
<1> QED BY <1>2, <1>3, <1>4

\* A document: if it is complete, it holds what is on offer.
LEMMA DocumentKeeps ==
    ASSUME FeedInductive, ReadDocument, UNCHANGED <<setting, offered, csv, manifest, signing>>
    PROVE  FeedInductive' /\ MissesNothing
<1>1. PICK n \in 0 .. Len(offered), declared \in {"complete", "partial"} :
        \E cover \in {None} \cup StatedCoverages(n) :
           Collect(SubSeq(offered, 1, n), AssessCoverage(declared, cover, n), fetch.kept,
                   cover # None /\ cover.total # None)
  BY DEF ReadDocument
<1>2. PICK cover \in {None} \cup StatedCoverages(n) :
        Collect(SubSeq(offered, 1, n), AssessCoverage(declared, cover, n), fetch.kept,
                cover # None /\ cover.total # None)
  BY <1>1
<1>3. offered \in Seq(Listings) /\ Len(offered) \in Nat
  BY DEF FeedInductive, Offers
<1>4. fetch.kept \subseteq ToSet(offered)
  BY DEF FeedInductive, Keeps, ReadDocument
<1>5. ASSUME AssessCoverage(declared, cover, n) = "complete", cover # None, cover.total # None
      PROVE  fetch.kept \subseteq ToSet(SubSeq(offered, 1, n))
  <2>1. cover.total = Len(offered) /\ cover.returned \in {None, n}
    BY <1>5 DEF StatedCoverages
  <2>2. cover.total = n
    BY <1>5, CoverageComplete
  <2>3. SubSeq(offered, 1, n) = offered
    BY <1>3, <2>1, <2>2, SubSeqFull
  <2> QED BY <1>4, <2>3
<1>6. AssessCoverage(declared, cover, n) = "complete" /\ (cover # None /\ cover.total # None) =>
         ~Misses(fetch.kept, ToSet(SubSeq(offered, 1, n)))
  BY <1>5 DEF Misses
<1> QED BY <1>2, <1>6, CollectKeeps

\* The rows of a signed export with a total are all that was offered.
LEMMA SignedHoldAll ==
    ASSUME NEW m \in SignedSheets, IsSigned(m), m.total # None
    PROVE  m.offered \subseteq ToSet(m.rows)
<1>1. /\ m.rows \in Seq(Listings) /\ IsInjective(m.rows) /\ m.offered \in SUBSET Listings
      /\ ToSet(m.rows) \subseteq m.offered /\ m.total = Len(m.rows)
      /\ m.total = Cardinality(m.offered)
  BY DEF SignedSheets, IsSigned, IsExport
<1>2. Cardinality(ToSet(m.rows)) = Len(m.rows)
  BY <1>1, MembersOfDistinct
<1>3. IsFiniteSet(m.offered)
  BY <1>1, FS_Subset, FeedAssumption
<1>4. ToSet(m.rows) = m.offered
  <2> DEFINE rows == ToSet(m.rows)
             all == m.offered
  <2>1. rows \in SUBSET all /\ IsFiniteSet(all) /\ Cardinality(rows) = Cardinality(all)
    BY <1>1, <1>2, <1>3
  <2> HIDE DEF rows, all
  <2>2. rows = all
    BY <2>1, FS_Subset
  <2> QED BY <2>2 DEF rows, all
<1> QED BY <1>4

\* The partner's CSV: if it is complete, it holds what its manifest signs for.
LEMMA CsvKeeps ==
    ASSUME FeedInductive, ParseCsv, UNCHANGED <<setting, offered, csv, manifest, signing>>
    PROVE  FeedInductive' /\ MissesNothing
<1> DEFINE m == fetch.manifest
           rows == fetch.csv.rows
           cover == [total |-> IF m = None THEN None ELSE m.total, returned |-> Len(rows),
                     pages |-> None, fetched |-> None]
           expected == IF m = None THEN {} ELSE m.offered
           Assessed(old) ==
              AssessCoverage(IF m = None \/ old THEN "partial" ELSE m.declared, cover, Len(rows))
           refused == manifest # m \/ (m # None /\ ~Signs(m, fetch.csv))
<1>1. IF refused THEN Unsuccessful("failed")
      ELSE \E old \in BOOLEAN : Collect(rows, Assessed(old), expected, cover.total # None)
  BY DEF ParseCsv
<1>2. m \in SignedSheets \cup {None} /\ (m # None => IsSigned(m))
  BY DEF FeedInductive, Files
<1>3. cover.total = (IF m = None THEN None ELSE m.total) /\ cover.returned = Len(rows)
  OBVIOUS
<1>4. CASE refused
  BY <1>1, <1>4, UnsuccessfulKeeps
<1>5. ASSUME ~refused, NEW old \in BOOLEAN,
             Collect(rows, Assessed(old), expected, cover.total # None)
      PROVE  FeedInductive' /\ MissesNothing
  <2>1. ASSUME cover.total # None PROVE expected \subseteq ToSet(rows)
    <3>1. m # None /\ m.total # None /\ m.rows = rows
      BY <1>3, <1>5, <2>1 DEF Signs
    <3>2. m.offered \subseteq ToSet(m.rows)
      BY <1>2, <3>1, SignedHoldAll
    <3> QED BY <3>1, <3>2
  <2> HIDE DEF expected, rows, Assessed, cover
  <2>2. Assessed(old) = "complete" /\ cover.total # None => ~Misses(expected, ToSet(rows))
    BY <2>1 DEF Misses
  <2> QED BY <1>5, <2>2, CollectKeeps
<1> QED BY <1>1, <1>4, <1>5

\* A retry and the reading of the partner's files.
LEMMA ReadingKeeps ==
    ASSUME FeedInductive, AnswerLater \/ ReadManifest \/ ReadCsv,
           UNCHANGED <<setting, offered, csv, manifest, signing>>
    PROVE  FeedInductive' /\ MissesNothing
<1>1. /\ fetch \in Fetches /\ csv \in Sheets \cup {None} /\ manifest \in SignedSheets \cup {None}
      /\ fetch.attempts + 1 \in Nat
  BY DEF FeedInductive, Offers, Files, Fetches
<1>2. CASE Unsuccessful("failed")
  BY <1>2, UnsuccessfulKeeps
<1>3. CASE /\ fetch.pc = "asking" /\ fetch' = [fetch EXCEPT !.attempts = @ + 1]
           /\ outcome' = outcome
  <2> DEFINE f == [fetch EXCEPT !.attempts = @ + 1]
  <2>1. /\ f \in Fetches /\ f.pc = fetch.pc /\ f.page = fetch.page /\ f.total = fetch.total
        /\ f.items = fetch.items /\ f.kept = fetch.kept /\ f.gained = fetch.gained
        /\ f.lost = fetch.lost /\ f.manifest = fetch.manifest
    BY <1>1 DEF Fetches
  <2>2. fetch' = f
    BY <1>3
  <2> HIDE DEF f
  <2>3. FeedInductive'
    BY <1>3, <2>1, <2>2, ReadsKeep
  <2> QED BY <1>3, <2>3, SilentMisses
<1>4. CASE /\ fetch.pc = "manifest" /\ fetch' = [fetch EXCEPT !.pc = "csv", !.manifest = manifest]
           /\ outcome' = outcome
  <2> DEFINE f == [fetch EXCEPT !.pc = "csv", !.manifest = manifest]
  <2>1. /\ f \in Fetches /\ f.pc = "csv" /\ f.page = fetch.page /\ f.total = fetch.total
        /\ f.items = fetch.items /\ f.kept = fetch.kept /\ f.gained = fetch.gained
        /\ f.lost = fetch.lost /\ f.manifest = manifest
    BY <1>1 DEF Fetches
  <2>2. fetch' = f
    BY <1>4
  <2> HIDE DEF f
  <2>3. FeedInductive'
    BY <1>4, <2>1, <2>2, ReadsKeep
  <2> QED BY <1>4, <2>3, SilentMisses
<1>5. CASE /\ fetch.pc = "csv" /\ fetch' = [fetch EXCEPT !.pc = "again", !.csv = csv]
           /\ outcome' = outcome
  <2> DEFINE f == [fetch EXCEPT !.pc = "again", !.csv = csv]
  <2>1. /\ f \in Fetches /\ f.pc = "again" /\ f.page = fetch.page /\ f.total = fetch.total
        /\ f.items = fetch.items /\ f.kept = fetch.kept /\ f.gained = fetch.gained
        /\ f.lost = fetch.lost /\ f.manifest = fetch.manifest
    BY <1>1 DEF Fetches
  <2>2. fetch' = f
    BY <1>5
  <2> HIDE DEF f
  <2>3. FeedInductive'
    BY <1>5, <2>1, <2>2, ReadsKeep
  <2> QED BY <1>5, <2>3, SilentMisses
<1>6. CASE AnswerLater
  BY <1>2, <1>3, <1>6 DEF AnswerLater
<1>7. CASE ReadManifest
  BY <1>4, <1>7 DEF ReadManifest
<1>8. CASE ReadCsv
  BY <1>2, <1>5, <1>8 DEF ReadCsv
<1> QED BY <1>6, <1>7, <1>8

\* A step of the fetch.
LEMMA FetchKeeps == ASSUME FeedInductive, FetchNext PROVE FeedInductive' /\ MissesNothing
<1>1. UNCHANGED <<setting, offered, csv, manifest, signing>>
  BY DEF FetchNext
<1>2. CASE AnswerPage
  BY <1>1, <1>2, PageKeeps DEF AnswerPage
<1>3. CASE AnswerLater \/ ReadManifest \/ ReadCsv
  BY <1>1, <1>3, ReadingKeeps
<1>4. CASE ReadDocument
  BY <1>1, <1>4, DocumentKeeps
<1>5. CASE ParseCsv
  BY <1>1, <1>5, CsvKeeps
<1>6. CASE Unauthorized \/ Refused
  BY <1>1, <1>6, UnsuccessfulKeeps DEF Unauthorized, Refused
<1> QED BY <1>2, <1>3, <1>4, <1>5, <1>6 DEF FetchNext

\* The files change, and the fetch does not.
LEMMA FilesKeep ==
    ASSUME FeedInductive, UNCHANGED <<setting, offered, fetch>>, Files'
    PROVE  FeedInductive'
<1>1. Offers' /\ Keeps' /\ Totals'
  BY DEF FeedInductive, Offers, Keeps, Totals
<1>2. Pages'
  BY DEF FeedInductive, Pages, Aligned, Upto
<1> QED BY <1>1, <1>2 DEF FeedInductive

\* An export holds listings that are on offer.
LEMMA ExportKeeps ==
    ASSUME FeedInductive, Export, UNCHANGED <<setting, offered, fetch>>
    PROVE  FeedInductive'
<1>1. PICK n \in 0 .. Len(offered) :
         csv' = [rows |-> SubSeq(offered, 1, n), offered |-> ToSet(offered)]
  BY DEF Export
<1>2. offered \in Seq(Listings) /\ IsInjective(offered)
  BY DEF FeedInductive, Offers
<1> DEFINE rows == SubSeq(offered, 1, n)
           all == ToSet(offered)
<1>3. rows \in Seq(Listings) /\ IsInjective(rows) /\ ToSet(rows) \subseteq all
  BY <1>2, BeginningOf
<1>4. all \in SUBSET Listings
  BY <1>2 DEF ToSet
<1> HIDE DEF rows, all
<1>5. csv' = [rows |-> rows, offered |-> all]
  BY <1>1 DEF rows, all
<1>6. csv' \in Sheets /\ IsExport(csv')
  BY <1>3, <1>4, <1>5 DEF Sheets, IsExport
<1>7. Files'
  BY <1>6 DEF FeedInductive, Files, Export
<1> QED BY <1>7, FilesKeep

\* What is about to be signed is an export, with its total.
LEMMA InspectKeeps ==
    ASSUME FeedInductive, Inspect, UNCHANGED <<setting, offered, fetch>>
    PROVE  FeedInductive'
<1>1. csv \in Sheets /\ IsExport(csv)
  BY DEF FeedInductive, Files, Inspect
<1>2. PICK total \in {None, Cardinality(csv.offered)}, declared \in {"complete", "partial"} :
         /\ total # None => total = Len(csv.rows)
         /\ signing' = [rows |-> csv.rows, offered |-> csv.offered, total |-> total,
                        declared |-> declared]
  BY DEF Inspect
<1>3. csv.rows \in Seq(Listings) /\ Len(csv.rows) \in Nat /\ csv.offered \in SUBSET Listings
  BY <1>1 DEF Sheets
<1> DEFINE m == [rows |-> csv.rows, offered |-> csv.offered, total |-> total, declared |-> declared]
<1>4. total \in Nat \cup {None}
  BY <1>2, <1>3
<1>5. m \in SignedSheets /\ m.rows = csv.rows /\ m.offered = csv.offered /\ m.total = total
  BY <1>3, <1>4 DEF SignedSheets
<1>6. signing' = m
  BY <1>2
<1> HIDE DEF m
<1>7. IsSigned(m)
  BY <1>1, <1>2, <1>5 DEF IsSigned, IsExport
<1>8. Files'
  BY <1>5, <1>6, <1>7 DEF FeedInductive, Files, Inspect
<1> QED BY <1>8, FilesKeep

\* A step of the partner.
LEMMA PartnerKeeps == ASSUME FeedInductive, PartnerNext PROVE FeedInductive' /\ MissesNothing
<1>1. UNCHANGED <<setting, offered, fetch, outcome>>
  BY DEF PartnerNext
<1>2. CASE WriteManifest
  <2>1. Files'
    BY <1>1, <1>2 DEF FeedInductive, Files, WriteManifest
  <2> QED BY <1>1, <2>1, FilesKeep, SilentMisses
<1>3. CASE Export
  BY <1>1, <1>3, ExportKeeps, SilentMisses
<1>4. CASE Inspect
  BY <1>1, <1>4, InspectKeeps, SilentMisses
<1> QED BY <1>2, <1>3, <1>4 DEF PartnerNext

\* Every step keeps the invariant, and none that completes a feed misses anything.
LEMMA FeedStepKeeps ==
    ASSUME FeedInductive, [FeedNext]_feedVars
    PROVE  FeedInductive' /\ (MissesNothing \/ UNCHANGED feedVars)
<1>1. CASE StartFetch
  <2>1. outcome' = None
    BY <1>1 DEF StartFetch
  <2> QED BY <1>1, <2>1, StartKeeps, SilentMisses
<1>2. CASE SourceChanges
  <2>1. outcome' = outcome
    BY <1>2 DEF SourceChanges
  <2> QED BY <1>2, <2>1, SourceKeeps, SilentMisses
<1>3. CASE FetchNext
  BY <1>3, FetchKeeps
<1>4. CASE PartnerNext
  BY <1>4, PartnerKeeps
<1>5. CASE UNCHANGED feedVars
  <2>1. UNCHANGED <<setting, offered, fetch>> /\ Files'
    BY <1>5 DEF feedVars, FeedInductive, Files
  <2> QED BY <1>5, <2>1, FilesKeep
<1> QED BY <1>1, <1>2, <1>3, <1>4, <1>5 DEF FeedNext

-----------------------------------------------------------------------------
(* The theorems.                                                           *)

\* The invariant holds.
THEOREM FeedInductiveHolds == FeedSpec => []FeedInductive
<1>1. FeedInit => FeedInductive
  BY FeedStarts
<1>2. FeedInductive /\ [FeedNext]_feedVars => FeedInductive'
  BY FeedStepKeeps
<1> QED BY <1>1, <1>2, PTL DEF FeedSpec

\* Whatever the source, its paging, its export and the partner do while a feed is
\* read: a feed that counts as complete, of a source that states its total, leaves
\* out nothing that was on offer all the time, unless as listings left others came
\* (feed.py, adapters/, service.py).
THEOREM NothingIsMissed == FeedSpec => CompleteMissesNothing
<1>1. FeedInductive /\ [FeedNext]_feedVars =>
        [outcome' \notin {outcome, None} /\ outcome'.completeness = "complete" /\ outcome'.counted
           => \/ outcome'.expected \subseteq outcome'.seen
              \/ fetch.lost /\ fetch.gained]_feedVars
  <2> SUFFICES ASSUME FeedInductive, [FeedNext]_feedVars, ~UNCHANGED feedVars,
                      outcome' \notin {outcome, None}, outcome'.completeness = "complete",
                      outcome'.counted
               PROVE  outcome'.expected \subseteq outcome'.seen \/ (fetch.lost /\ fetch.gained)
    OBVIOUS
  <2>1. MissesNothing
    BY FeedStepKeeps
  <2> QED BY <2>1 DEF MissesNothing, Misses
<1> QED BY <1>1, FeedInductiveHolds, PTL DEF FeedSpec, CompleteMissesNothing

=============================================================================
