-------------------------- MODULE AppraisalProofs --------------------------
(* Proofs about Appraisal.  What is said of the observations, of the       *)
(* slices and of the assessments is inductive together (ChainTyped);       *)
(* the theorems about what a valuation and a decision say of a home rest   *)
(* on it and on lemmas about the rules.                                    *)
EXTENDS Appraisal, RulesProofs, SequenceTheorems

-----------------------------------------------------------------------------
(* Observations, and the last of them.                                     *)

\* Observations as they are stored.
IsStored(os) ==
    /\ IsFiniteSet(os)
    /\ \A o \in os : IsRecord(o) /\ o.community \in DOMAIN MetroOf
    /\ \A o \in os : o.type = "listing" => o.listing \in Homes
    /\ \A o, p \in os : o.id = p.id => o = p

\* Observations of them are in an order, the one made later before the other.
LEMMA LaterIsAnOrder ==
    ASSUME NEW os, IsStored(os), NEW o \in os, NEW p \in os
    PROVE  /\ ~Later(o, o)
           /\ o # p => Later(o, p) \/ Later(p, o)
           /\ ~(Later(o, p) /\ Later(p, o))
           /\ \A q \in os : Later(o, p) /\ Later(p, q) => Later(o, q)
<1>1. ASSUME NEW x \in os PROVE x.day \in Int /\ x.id \in Int
  BY DEF IsStored, IsRecord, IsObservation
<1>2. o.id = p.id => o = p
  BY DEF IsStored
<1> QED BY <1>1, <1>2 DEF Later

\* Is this the last of the observations?
IsLast(os, o) == o \in os /\ \A p \in os \ {o} : Later(o, p)

\* There is one, and it is the one that is chosen.
LEMMA LastIsChosen ==
    ASSUME NEW os, IsStored(os), NEW S, S \subseteq os, S # {}
    PROVE  \E o : IsLast(S, o) /\ \A p : IsLast(S, p) => p = o
<1> DEFINE R == {p \in os \X os : Later(p[1], p[2])}
<1>1. IsFiniteSet(S)
  BY FS_Subset DEF IsStored
<1>2. /\ \A x \in S : <<x, x>> \notin R
      /\ \A x, y, z \in S : <<x, y>> \in R /\ <<y, z>> \in R => <<x, z>> \in R
  BY LaterIsAnOrder
<1>3. \A x, y \in S : <<y, x>> \notin R => x = y \/ Later(x, y)
  BY LaterIsAnOrder
<1> HIDE DEF R
<1>4. PICK o \in S : \A y \in S : <<y, o>> \notin R
  BY <1>1, <1>2, FirstOfSet
<1>5. IsLast(S, o)
  BY <1>3, <1>4 DEF IsLast
<1>6. ASSUME NEW p, IsLast(S, p) PROVE p = o
  BY <1>5, <1>6, LaterIsAnOrder DEF IsLast
<1> QED BY <1>5, <1>6

-----------------------------------------------------------------------------
(* The rules of a valuation, up to the value score, do not look at what is *)
(* asked for the home.                                                     *)

\* Two homes that differ at most in what is asked for them.
Alike(t, u) == \A f \in ObservationFields \ {"price", "unit"} : t[f] = u[f]

\* What they have in common.
LEMMA AlikeFields ==
    ASSUME NEW t, NEW u, Alike(t, u)
    PROVE  /\ t.listing = u.listing /\ t.area = u.area /\ t.layout = u.layout /\ t.home = u.home
           /\ t.district = u.district /\ t.submarket = u.submarket /\ t.community = u.community
BY DEF Alike, ObservationFields

\* The tier of a record.
LEMMA TierOfAlike ==
    ASSUME NEW t, NEW u, Alike(t, u), NEW o
    PROVE  /\ Tier(t, o) = Tier(u, o) /\ Adjacent(t, o) = Adjacent(u, o)
           /\ AreaDifference(t, o) = AreaDifference(u, o) /\ AgeDifference(t, o) = AgeDifference(u, o)
<1>1. AreaDifference(t, o) = AreaDifference(u, o)
  BY AlikeFields DEF AreaDifference
<1>2. AgeDifference(t, o) = AgeDifference(u, o)
  BY AlikeFields DEF AgeDifference
<1>3. Adjacent(t, o) = Adjacent(u, o)
  BY AlikeFields DEF Adjacent
<1>4. Tier(t, o) = Tier(u, o)
  BY <1>1, <1>2, <1>3, AlikeFields DEF Tier
<1> QED BY <1>1, <1>2, <1>3, <1>4

\* Its weight.
LEMMA WeightOfAlike ==
    ASSUME NEW t, NEW u, Alike(t, u), NEW o, NEW tier, NEW now, NEW days
    PROVE  RawWeight(t, o, tier, now, days) = RawWeight(u, o, tier, now, days)
<1>1. Similarity(t, o, tier, now, days) = Similarity(u, o, tier, now, days)
  <2>1. /\ AreaDifference(t, o) = AreaDifference(u, o) /\ AgeDifference(t, o) = AgeDifference(u, o)
        /\ Adjacent(t, o) = Adjacent(u, o)
    BY TierOfAlike
  <2>2. t.layout = u.layout /\ t.community = u.community /\ t.home = u.home
    BY AlikeFields
  <2> QED BY ONLY <2>1, <2>2 DEF Similarity
<1> QED BY <1>1 DEF RawWeight

\* The comparables.
LEMMA ComparablesOfAlike ==
    ASSUME NEW t, NEW u, Alike(t, u), NEW candidates, NEW now
    PROVE  SelectComparables(candidates, t, now) = SelectComparables(candidates, u, now)
<1>1. [o \in candidates |-> Tier(t, o)] = [o \in candidates |-> Tier(u, o)]
  BY TierOfAlike
<1> DEFINE tier == [o \in candidates |-> Tier(u, o)]
           days == WindowFor(tier, now)
           S == UpTo(tier, now, days, TiersFor(tier, now, days))
<1>2. {[record |-> o, tier |-> tier[o], raw |-> RawWeight(t, o, tier[o], now, days)] : o \in S}
         = {[record |-> o, tier |-> tier[o], raw |-> RawWeight(u, o, tier[o], now, days)] : o \in S}
  BY WeightOfAlike
<1> QED BY <1>1, <1>2 DEF SelectComparables

\* The baselines.
LEMMA BaselineOfAlike ==
    ASSUME NEW t, NEW u, Alike(t, u), NEW slices, NEW type
    PROVE  BestBaseline(slices, t, type) = BestBaseline(slices, u, type)
<1>1. /\ t.area = u.area /\ t.layout = u.layout
      /\ t.district = u.district /\ t.submarket = u.submarket /\ t.community = u.community
  BY AlikeFields
<1> QED BY ONLY <1>1 DEF BestBaseline

\* What is not known of the home.
LEMMA MissingOfAlike ==
    ASSUME NEW t, NEW u, Alike(t, u)
    PROVE  Missing(t) = Missing(u)
<1>1. t.layout = u.layout /\ t.home = u.home
  BY AlikeFields
<1> QED BY <1>1 DEF Missing

\* The adjusted price of a comparable.
LEMMA AdjustedOfAlike ==
    ASSUME NEW t, NEW u, Alike(t, u), NEW o
    PROVE  AdjustedUnit(t, o) = AdjustedUnit(u, o)
<1>1. t.home = u.home /\ t.community = u.community
  BY AlikeFields
<1>2. FloorElevatorDelta(t, o) = FloorElevatorDelta(u, o)
  BY <1>1 DEF FloorElevatorDelta
<1>3. MetroDelta(t, o) = MetroDelta(u, o)
  BY <1>1 DEF MetroDelta
<1>4. AdjustmentRate(t, o) = AdjustmentRate(u, o)
  BY <1>1, <1>2, <1>3 DEF AdjustmentRate
<1> QED BY <1>4 DEF AdjustedUnit

\* The fair value and its range.
LEMMA FairValueOfAlike ==
    ASSUME NEW t, NEW u, Alike(t, u), NEW items, NEW b, NEW missing
    PROVE  AggregateFairValue(t, items, b, missing) = AggregateFairValue(u, items, b, missing)
<1>1. [x \in items |-> AdjustedUnit(t, x.record)] = [x \in items |-> AdjustedUnit(u, x.record)]
  BY AdjustedOfAlike
<1>2. RemoveOutliers(t, items) = RemoveOutliers(u, items)
  BY <1>1 DEF RemoveOutliers
<1>3. t.area = u.area
  BY AlikeFields
<1>4. ASSUME NEW kept PROVE PricePoints(t, kept, b) = PricePoints(u, kept, b)
  <2>1. {[of |-> x.record.id, value |-> AdjustedUnit(t, x.record) * t.area, weight |-> x.weight] : x \in kept}
          = {[of |-> x.record.id, value |-> AdjustedUnit(u, x.record) * u.area, weight |-> x.weight] : x \in kept}
    BY <1>3, AdjustedOfAlike
  <2> QED BY <1>3, <2>1 DEF PricePoints
<1>5. ASSUME NEW kept, NEW points
      PROVE  FairValueOf(points, kept, t, b, missing) = FairValueOf(points, kept, u, b, missing)
  BY <1>3 DEF FairValueOf
<1> QED BY <1>2, <1>4, <1>5 DEF AggregateFairValue

\* The value, the range and the trust of a home.
LEMMA WorthOfAlike ==
    ASSUME NEW t, NEW u, Alike(t, u), NEW all, NEW others, NEW slices, NEW past, NEW told, NEW now,
           Candidates(all, t, now) = Candidates(others, u, now)
    PROVE  Worth(EvaluateValuation(all, slices, t, past, now))
             = Worth(EvaluateValuation(others, slices, u, told, now))
<1> DEFINE listing == BestBaseline(slices, t, "listing")
           b == ChooseBaseline(listing, BestBaseline(slices, t, "transaction"))
           selection == SelectComparables(Candidates(all, t, now), t, now)
           value == AggregateFairValue(t, selection.items, IF b = None THEN None ELSE b.baseline,
                                       Cardinality(Missing(t)))
           trust == ValuationConfidence(selection, value, b, Cardinality(Missing(t)))
<1>1. /\ BestBaseline(slices, u, "listing") = BestBaseline(slices, t, "listing")
      /\ BestBaseline(slices, u, "transaction") = BestBaseline(slices, t, "transaction")
      /\ Missing(u) = Missing(t)
      /\ SelectComparables(Candidates(others, u, now), u, now)
           = SelectComparables(Candidates(all, t, now), t, now)
  BY BaselineOfAlike, MissingOfAlike, ComparablesOfAlike
<1>2. /\ EvaluateValuation(all, slices, t, past, now) = Valued(t, selection, listing, b, past)
      /\ EvaluateValuation(others, slices, u, told, now) = Valued(u, selection, listing, b, told)
  BY <1>1 DEF EvaluateValuation
<1>3. AggregateFairValue(u, selection.items, IF b = None THEN None ELSE b.baseline,
                         Cardinality(Missing(t))) = value
  BY FairValueOfAlike
<1> HIDE DEF listing, b, selection, trust, value
<1>4. ASSUME NEW h, NEW x, NEW liquidity, Missing(h) = Missing(t)
      PROVE  Worth(Rated(h, selection, b, liquidity, value, x))
               = IF value = None THEN Worth(NoValuation) ELSE <<value.fair, value.low, value.high, trust.level>>
  BY <1>4 DEF Worth, Rated, ValuationRow, trust
<1> QED BY <1>1, <1>2, <1>3, <1>4 DEF Valued, value

-----------------------------------------------------------------------------
(* A home with another price asked for it.                                 *)

\* An observation with another price, and its unit price.
Asked(o, ask) == [o EXCEPT !.price = ask, !.unit = Ratio(ask, o.area)]

\* What becomes of the observations of a home.
Reprices(o, l, ask) == IF o.type = "listing" /\ o.listing = l THEN Asked(o, ask) ELSE o

\* The rest of an observation stays.
LEMMA AskedIsAlike ==
    ASSUME NEW os, IsStored(os), NEW o \in os, NEW l, NEW ask
    PROVE  Alike(o, Reprices(o, l, ask)) /\ Entity(Reprices(o, l, ask)) = Entity(o)
<1>1. o = [f \in ObservationFields |-> o[f]]
  BY DEF IsStored, IsRecord, IsObservation
<1>2. \A f \in ObservationFields \ {"price", "unit"} : Asked(o, ask)[f] = o[f]
  BY <1>1 DEF Asked
<1>3. Alike(o, Reprices(o, l, ask))
  BY <1>2 DEF Alike, Reprices
<1>4. \A f \in {"listing", "type", "source", "record"} : Reprices(o, l, ask)[f] = o[f]
  BY <1>3 DEF Alike, ObservationFields
<1> QED BY <1>3, <1>4 DEF Entity

\* Later stays later.
LEMMA AskedIsLater ==
    ASSUME NEW os, IsStored(os), NEW o \in os, NEW p \in os, NEW l, NEW ask
    PROVE  Later(Reprices(o, l, ask), Reprices(p, l, ask)) = Later(o, p)
<1>1. \A q \in os : Reprices(q, l, ask).day = q.day /\ Reprices(q, l, ask).id = q.id
  BY AskedIsAlike DEF Alike, ObservationFields
<1> QED BY <1>1 DEF Later

\* The observations are those of before, repriced.
LEMMA RepricedIs ==
    ASSUME NEW os, NEW l, NEW ask
    PROVE  Repriced(os, l, ask) = {Reprices(o, l, ask) : o \in os}
BY DEF Repriced, Reprices, Asked

\* Two kinds of entities are not confused.
LEMMA SameListing ==
    ASSUME NEW o, NEW p, Entity(o) = Entity(p), o.listing # None
    PROVE  p.listing = o.listing
<1>1. Entity(o) = <<"listing", o.listing>>
  BY DEF Entity
<1>2. CASE p.listing = None
  <2>1. Entity(p) = <<p.type, p.source, p.record>>
    BY <1>2 DEF Entity
  <2>2. Len(Entity(p)) = 3 /\ Len(Entity(o)) = 2
    BY <1>1, <2>1
  <2> QED BY <2>2
<1>3. CASE p.listing # None
  <2>1. Entity(p) = <<"listing", p.listing>>
    BY <1>3 DEF Entity
  <2>2. Entity(p)[2] = p.listing /\ Entity(o)[2] = o.listing
    <3>1. \A x : <<"listing", x>>[2] = x
      OBVIOUS
    <3> QED BY <1>1, <2>1, <3>1, Zenon
  <2> QED BY <2>2
<1> QED BY <1>2, <1>3

\* A home that is repriced is not among its own candidates, and stands in the
\* way of no other.
LEMMA CandidatesStay ==
    ASSUME NEW os, IsStored(os), NEW t, NEW u, Alike(t, u), t.listing # None, NEW ask, NEW now
    PROVE  Candidates(Repriced(os, t.listing, ask), u, now) = Candidates(os, t, now)
<1> DEFINE l == t.listing
           R(o) == Reprices(o, l, ask)
           N(o) == /\ now - o.day \in 0 .. Last(ValuationConfig.comparables.windows)
                   /\ o.community = t.community \/ o.submarket = t.submarket
           near == {o \in os : N(o)}
           after == {o \in Repriced(os, l, ask) : N(o)}
           C(S) == {o \in S : /\ o.listing # l
                              /\ ~\E p \in S : p.type = o.type /\ Entity(p) = Entity(o) /\ Later(p, o)}
<1>1. t.community = u.community /\ t.submarket = u.submarket /\ t.listing = u.listing
  BY AlikeFields
<1>2. Candidates(os, t, now) = C(near)
  BY DEF Candidates
<1>3. Candidates(Repriced(os, l, ask), u, now) = C(after)
  BY <1>1 DEF Candidates
<1>4. \A o \in os : /\ R(o).day = o.day /\ R(o).community = o.community /\ R(o).submarket = o.submarket
                    /\ R(o).listing = o.listing /\ R(o).type = o.type /\ Entity(R(o)) = Entity(o)
                    /\ o.listing # l => R(o) = o
  <2> TAKE o \in os
  <2>1. Alike(o, R(o)) /\ Entity(R(o)) = Entity(o)
    BY AskedIsAlike
  <2>2. o.listing # l => R(o) = o
    BY DEF Reprices
  <2> HIDE DEF R
  <2> QED BY <2>1, <2>2 DEF Alike, ObservationFields
<1>5. \A o, p \in os : Later(R(o), R(p)) = Later(o, p)
  BY AskedIsLater
<1>6. Repriced(os, l, ask) = {R(o) : o \in os}
  BY RepricedIs
<1> HIDE DEF R
<1>7. after = {R(o) : o \in near}
  <2>1. \A o \in os : N(R(o)) = N(o)
    BY <1>4
  <2> HIDE DEF N
  <2> QED BY <1>6, <2>1
<1>8. near \subseteq os
  OBVIOUS
<1> HIDE DEF near, after, N
<1>9. ASSUME NEW o \in C(near) PROVE o \in C(after)
  <2>1. o \in near /\ o \in os /\ o.listing # l /\ R(o) = o /\ o \in after
    BY <1>4, <1>7, <1>8, <1>9
  <2>2. ASSUME NEW p \in near, R(p).type = o.type, Entity(R(p)) = Entity(o), Later(R(p), o) PROVE FALSE
    <3>1. p \in os /\ p.type = o.type /\ Entity(p) = Entity(o) /\ Later(p, o)
      BY <1>4, <1>5, <1>8, <2>1, <2>2
    <3> QED BY <1>9, <3>1
  <2> QED BY <1>7, <2>1, <2>2
<1>10. ASSUME NEW q \in C(after) PROVE q \in C(near)
  <2>1. PICK o \in near : q = R(o)
    BY <1>7, <1>10
  <2>2. o \in os /\ q.listing # l /\ o.listing # l /\ q = o
    BY <1>4, <1>8, <1>10, <2>1
  <2>3. ASSUME NEW p \in near, p.type = o.type, Entity(p) = Entity(o), Later(p, o) PROVE FALSE
    <3>1. R(p) \in after /\ R(p).type = q.type /\ Entity(R(p)) = Entity(q) /\ Later(R(p), q)
      BY <1>4, <1>5, <1>7, <1>8, <2>1, <2>2, <2>3
    <3> QED BY <1>10, <3>1
  <2> QED BY <2>1, <2>2, <2>3
<1> QED BY <1>2, <1>3, <1>9, <1>10

\* The home that is valued differs at most in what is asked for it.
LEMMA TargetStays ==
    ASSUME NEW os, IsStored(os), NEW l \in Homes, NEW ask,
           \E o \in os : o.type = "listing" /\ o.listing = l
    PROVE  /\ Alike(Target(os, l), Target(Repriced(os, l, ask), l))
           /\ Target(os, l).listing = l
<1> DEFINE R(o) == Reprices(o, l, ask)
           seen == SeenOf(os, l)
           after == SeenOf(Repriced(os, l, ask), l)
<1>1. seen \subseteq os /\ seen # {} /\ \A o \in seen : o.type = "listing" /\ o.listing = l
  BY DEF SeenOf
<1>2. \A o \in os : R(o).type = o.type /\ R(o).listing = o.listing /\ Alike(o, R(o))
  BY AskedIsAlike DEF Alike, ObservationFields
<1>3. after = {R(o) : o \in seen}
  <2>1. Repriced(os, l, ask) = {R(o) : o \in os}
    BY RepricedIs
  <2> HIDE DEF R
  <2> QED BY <1>2, <2>1 DEF SeenOf
<1>4. \A o, p \in os : Later(R(o), R(p)) = Later(o, p)
  BY AskedIsLater
<1> HIDE DEF R, seen, after
<1>5. PICK m : IsLast(seen, m) /\ \A p : IsLast(seen, p) => p = m
  BY <1>1, LastIsChosen
<1>6. IsLast(after, R(m)) /\ m \in os
  BY <1>1, <1>3, <1>4, <1>5 DEF IsLast
<1>7. ASSUME NEW q, IsLast(after, q) PROVE q = R(m)
  <2>1. PICK p \in seen : q = R(p)
    BY <1>3, <1>7 DEF IsLast
  <2>2. q # R(m) => Later(R(p), R(m)) /\ Later(R(m), R(p))
    BY <1>6, <1>7, <2>1 DEF IsLast
  <2>3. p \in os /\ ~(Later(p, m) /\ Later(m, p))
    BY <1>1, <1>6, <2>1, LaterIsAnOrder
  <2> QED BY <1>4, <1>6, <2>2, <2>3
<1> DEFINE c == CHOOSE o \in seen : \A p \in seen \ {o} : Later(o, p)
           d == CHOOSE o \in after : \A p \in after \ {o} : Later(o, p)
<1>8. c = m /\ d = R(m)
  <2>1. IsLast(seen, c)
    BY <1>5 DEF IsLast
  <2>2. IsLast(after, d)
    BY <1>6 DEF IsLast
  <2> QED BY <1>5, <1>7, <2>1, <2>2
<1> DEFINE told(o) == [o EXCEPT !.home = [@ EXCEPT !.metro = None, !.layoutQuality = None, !.noise = None]]
           placed(t) == [t EXCEPT !.home.metro = MetroOf[t.community]]
<1>9. /\ TargetOf(os, l, None) = told(m)
      /\ TargetOf(Repriced(os, l, ask), l, None) = told(R(m))
  BY <1>8 DEF TargetOf, seen, after
<1>10. /\ Target(os, l) = placed(told(m))
       /\ Target(Repriced(os, l, ask), l) = placed(told(R(m)))
  BY <1>9 DEF Target
<1>11. Alike(m, R(m)) /\ m.listing = l
  BY <1>1, <1>2, <1>5, <1>6 DEF IsLast
<1>12. m = [f \in ObservationFields |-> m[f]] /\ R(m) = [f \in ObservationFields |-> R(m)[f]]
  <2>1. m = [f \in ObservationFields |-> m[f]]
    BY <1>6 DEF IsStored, IsRecord, IsObservation
  <2> QED BY <2>1 DEF R, Reprices, Asked
<1> HIDE DEF c, d
<1>13. ASSUME NEW o, NEW p, o = [f \in ObservationFields |-> o[f]], p = [f \in ObservationFields |-> p[f]],
              Alike(o, p)
       PROVE  Alike(placed(told(o)), placed(told(p))) /\ placed(told(o)).listing = o.listing
  <2>1. o.home = p.home /\ o.community = p.community
    BY <1>13 DEF Alike, ObservationFields
  <2>2. /\ \A f \in ObservationFields \ {"home"} : told(o)[f] = o[f] /\ told(p)[f] = p[f]
        /\ told(o).home = told(p).home
        /\ told(o) = [f \in ObservationFields |-> told(o)[f]]
        /\ told(p) = [f \in ObservationFields |-> told(p)[f]]
    BY <1>13, <2>1 DEF ObservationFields
  <2>3. told(o).community = told(p).community
    BY <2>1, <2>2 DEF ObservationFields
  <2> HIDE DEF told
  <2>4. /\ \A f \in ObservationFields \ {"home"} : placed(told(o))[f] = told(o)[f] /\ placed(told(p))[f] = told(p)[f]
        /\ placed(told(o)).home = placed(told(p)).home
    BY <2>2, <2>3 DEF ObservationFields
  <2> HIDE DEF placed
  <2> QED BY <1>13, <2>2, <2>4 DEF Alike, ObservationFields
<1> HIDE DEF told, placed
<1> QED BY <1>10, <1>11, <1>12, <1>13

\* Another price asked for a home that was seen leaves its worth.
LEMMA WorthStays ==
    ASSUME NEW os, IsStored(os), NEW l \in Homes, NEW ask,
           \E o \in os : o.type = "listing" /\ o.listing = l
    PROVE  Worth(Valuation(Repriced(os, l, ask), l)) = Worth(Valuation(os, l))
<1> DEFINE t == Target(os, l)
           u == Target(Repriced(os, l, ask), l)
<1>1. Alike(t, u) /\ t.listing = l /\ l # None
  BY TargetStays, PlacesAreNumbers DEF Homes
<1>2. Candidates(Repriced(os, l, ask), u, Now) = Candidates(os, t, Now)
  BY <1>1, CandidatesStay
<1> QED BY <1>1, <1>2, WorthOfAlike DEF Valuation, ValuationAt

-----------------------------------------------------------------------------
(* The evidence stays as it was stored.                                    *)

\* The observations are as they are stored, and every home has an assessment
\* or none.
EvidenceStored ==
    /\ IsStored(book \cup pool)
    /\ assessed = [l \in Homes |-> assessed[l]]

\* It is stored to begin with, and what arrives has been stored.
LEMMA EvidenceInit == ChainInit => EvidenceStored
<1> SUFFICES ASSUME ChainInit PROVE EvidenceStored
  OBVIOUS
<1>1. PICK s \in Starts : book = s.book /\ pool = s.pool
  BY DEF ChainInit
<1>2. IsStored(s.book \cup s.pool)
  BY EvidenceIsStored DEF IsStored, Homes
<1> QED BY <1>1, <1>2 DEF EvidenceStored, ChainInit

\* A step of the chain keeps it.
LEMMA EvidenceNext == EvidenceStored /\ [ChainNext]_chainVars => EvidenceStored'
<1> SUFFICES ASSUME EvidenceStored, [ChainNext]_chainVars PROVE EvidenceStored'
  OBVIOUS
<1>1. book' \cup pool' = book \cup pool
  BY DEF ChainNext, chainVars, Observe, Materialize, Assess
<1>2. (assessed = [l \in Homes |-> assessed[l]])'
  <2>1. CASE assessed' = assessed
    BY <2>1 DEF EvidenceStored, Homes
  <2>2. CASE Assess
    <3>1. assessed' = assessed \/ \E l, a : assessed' = [assessed EXCEPT ![l] = a]
      BY <2>2 DEF Assess
    <3> QED BY <3>1 DEF EvidenceStored, Homes
  <2> QED BY <2>1, <2>2 DEF ChainNext, chainVars, Observe, Materialize
<1> QED BY <1>1, <1>2 DEF EvidenceStored, Homes

\* The homes that were seen are among the listings.
LEMMA SeenAreHomes == ASSUME EvidenceStored PROVE IsStored(book) /\ Seen \subseteq Homes
<1>1. IsFiniteSet(book)
  BY FS_Subset DEF EvidenceStored, IsStored
<1> QED BY <1>1 DEF EvidenceStored, IsStored, Seen

\* An assessment holds the valuation of the home as it was seen.
LEMMA AssessesTheValuation ==
    ASSUME EvidenceStored, [ChainNext]_chainVars, NEW l \in Homes, assessed'[l] # assessed[l]
    PROVE  l \in Seen /\ assessed'[l].valuation = Valuation(book, l)
<1>1. Assess
  BY DEF ChainNext, chainVars, Observe, Materialize
<1>2. PICK m \in Seen, e \in EvidenceCases :
         \E t \in {Target(book, m)} :
         \E v \in {Valuation(book, m)}, slice \in CarriedSlices(runs, t, Now) :
         \E factors \in {BuildFactors(e, t, slice, Now)} :
            assessed' = [assessed EXCEPT ![m] =
               Assessment(e, t, factors, v, OutlookFrom(factors, e, t, v, Now))]
  BY <1>1 DEF Assess
<1>3. PICK t, factors, f : assessed' = [assessed EXCEPT ![m] = Assessment(e, t, factors, Valuation(book, m), f)]
  BY <1>2
<1>4. l = m /\ assessed'[l] = Assessment(e, t, factors, Valuation(book, m), f)
  BY <1>3 DEF EvidenceStored
<1> QED BY <1>4 DEF Assessment

\* What is asked for a home moves its fair value, the range and the trust in it
\* through the published baselines alone (AskEntersOnlyThroughTheBaseline): of
\* every book of observations, for every configuration and whatever is asked.
THEOREM AskIsNotRead == ChainSpec => AskEntersOnlyThroughTheBaseline
<1> DEFINE Keeps(l, ask) == assessed'[l] # assessed[l] =>
              Worth(Valuation(Repriced(book, l, ask), l)) = Worth(assessed'[l].valuation)
<1>1. ASSUME EvidenceStored, [ChainNext]_chainVars
      PROVE  [\A l \in Homes, ask \in Asks : Keeps(l, ask)]_chainVars
  <2>1. ASSUME NEW l \in Homes, NEW ask \in Asks, assessed'[l] # assessed[l]
        PROVE  Worth(Valuation(Repriced(book, l, ask), l)) = Worth(assessed'[l].valuation)
    <3>1. l \in Seen /\ assessed'[l].valuation = Valuation(book, l)
      BY <1>1, <2>1, AssessesTheValuation
    <3>2. IsStored(book) /\ \E o \in book : o.type = "listing" /\ o.listing = l
      BY <1>1, <3>1, SeenAreHomes DEF Seen
    <3> QED BY <3>1, <3>2, WorthStays
  <2> QED BY <2>1
<1>2. EvidenceStored /\ [][ChainNext]_chainVars => [][\A l \in Homes, ask \in Asks : Keeps(l, ask)]_chainVars
  <2>1. EvidenceStored /\ [][ChainNext]_chainVars => []EvidenceStored
    BY EvidenceNext, PTL
  <2> QED BY <1>1, <2>1, PTL
<1> QED BY <1>2, EvidenceInit, PTL DEF ChainSpec, AskEntersOnlyThroughTheBaseline

-----------------------------------------------------------------------------
(* What a decision makes of what is known: the better, the further it goes *)
(* and the sooner it is ranked.                                            *)

\* What a decision is made from, typed.
IsInputs(i) ==
    /\ {i.value, i.liquidity, i.coverage, i.riskCoverage, i.alpha} \subseteq Int /\ i.liquidity \in 0 .. 100
    /\ IsMaybe(i.future) /\ IsMaybe(i.risk)
    /\ IsLevel(i.valuationConfidence) /\ IsLevel(i.baselineConfidence) /\ IsLevel(i.futureConfidence)

\* As good in all that the state depends on; of the warnings only those that
\* are hard risks count.
AtLeast(i, j) ==
    /\ i.value >= j.value /\ i.liquidity >= j.liquidity
    /\ DecisionConfig.eligibility.hardRisks \cap i.warnings \subseteq j.warnings
    /\ None \notin {i.future, i.risk, j.future, j.risk}
    /\ i.future >= j.future /\ i.risk <= j.risk
    /\ i.coverage >= j.coverage /\ i.riskCoverage >= j.riskCoverage
    /\ LevelOrder(i.valuationConfidence) >= LevelOrder(j.valuationConfidence)
    /\ LevelOrder(i.baselineConfidence) >= LevelOrder(j.baselineConfidence)
    /\ LevelOrder(i.futureConfidence) >= LevelOrder(j.futureConfidence)

\* What the configuration of the decisions gives.
LEMMA DecisionConfigIs ==
    /\ LET c == DecisionConfig.classification
       IN  c.value \in Int /\ c.future \in Int /\ c.coverage \in Int /\ c.riskCoverage \in Int
    /\ LET c == DecisionConfig.workflow
       IN  c.value \in Int /\ c.future \in Int /\ c.liquidity \in Int /\ c.risk \in Int /\ c.contact \in Int
    /\ IsLevel(DecisionConfig.eligibility.confidence) /\ DecisionConfig.eligibility.risk \in Int
    /\ LET c == DecisionConfig.ranking
       IN  /\ c.classification["QUALITY_AT_DISCOUNT"] \in Int /\ c.classification["GOOD_BUT_EXPENSIVE"] \in Int
           /\ c.classification["QUALITY_AT_DISCOUNT"] >= c.classification["GOOD_BUT_EXPENSIVE"]
           /\ \A l : IsLevel(l) => c.confidence[l] \in Int
           /\ \A l, m : IsLevel(l) /\ IsLevel(m) /\ LevelOrder(l) <= LevelOrder(m) =>
                 c.confidence[l] <= c.confidence[m]
<1>1. LET c == DecisionConfig.classification
      IN  c.value \in Int /\ c.future \in Int /\ c.coverage \in Int /\ c.riskCoverage \in Int
  <2> DEFINE c == DecisionConfig.classification
  <2>1. \A n \in {"value", "future", "coverage", "riskCoverage"} : c[n] \in Nat
    BY DecisionConfigIsValid
  <2> HIDE DEF c
  <2>2. c.value \in Int /\ c.future \in Int /\ c.coverage \in Int /\ c.riskCoverage \in Int
    BY <2>1
  <2> QED BY <2>2 DEF c
<1>2. LET c == DecisionConfig.workflow
      IN  c.value \in Int /\ c.future \in Int /\ c.liquidity \in Int /\ c.risk \in Int /\ c.contact \in Int
  <2> DEFINE c == DecisionConfig.workflow
  <2>1. \A n \in {"value", "future", "liquidity", "risk", "contact"} : c[n] \in Nat
    BY DecisionConfigIsValid
  <2> HIDE DEF c
  <2>2. c.value \in Int /\ c.future \in Int /\ c.liquidity \in Int /\ c.risk \in Int /\ c.contact \in Int
    BY <2>1
  <2> QED BY <2>2 DEF c
<1>3. IsLevel(DecisionConfig.eligibility.confidence) /\ DecisionConfig.eligibility.risk \in Int
  <2> DEFINE c == DecisionConfig.eligibility
  <2>1. IsEligibilityConfig(c)
    BY DecisionConfigIsValid
  <2> HIDE DEF c
  <2>2. IsLevel(c.confidence) /\ InScore(c.risk)
    BY <2>1, LevelsAre, ScoresAre DEF IsEligibilityConfig, IsLevel
  <2> QED BY <2>2, WholeIs DEF c
<1>4. LET c == DecisionConfig.ranking
      IN  /\ c.classification["QUALITY_AT_DISCOUNT"] \in Int /\ c.classification["GOOD_BUT_EXPENSIVE"] \in Int
          /\ c.classification["QUALITY_AT_DISCOUNT"] >= c.classification["GOOD_BUT_EXPENSIVE"]
          /\ \A l : IsLevel(l) => c.confidence[l] \in Int
          /\ \A l, m : IsLevel(l) /\ IsLevel(m) /\ LevelOrder(l) <= LevelOrder(m) =>
                c.confidence[l] <= c.confidence[m]
  <2> DEFINE c == DecisionConfig.ranking
  <2>1. IsRankingConfig(c)
    BY DecisionConfigIsValid
  <2>2. /\ c.classification["QUALITY_AT_DISCOUNT"] >= c.classification["GOOD_BUT_EXPENSIVE"]
        /\ \A i, j \in DOMAIN Levels : i <= j => c.confidence[Levels[i]] <= c.confidence[Levels[j]]
    BY PrioritiesAreInOrder
  <2> HIDE DEF c
  <2>3. c.classification["QUALITY_AT_DISCOUNT"] \in Int /\ c.classification["GOOD_BUT_EXPENSIVE"] \in Int
    BY <2>1 DEF IsRankingConfig
  <2>4. \A l : IsLevel(l) => c.confidence[l] \in Int
    BY <2>1, LevelsAre DEF IsRankingConfig, IsLevel
  <2>5. ASSUME NEW l, NEW m, IsLevel(l), IsLevel(m), LevelOrder(l) <= LevelOrder(m)
        PROVE  c.confidence[l] <= c.confidence[m]
    <3>1. /\ LevelOrder(l) \in DOMAIN Levels /\ Levels[LevelOrder(l)] = l
          /\ LevelOrder(m) \in DOMAIN Levels /\ Levels[LevelOrder(m)] = m
      BY <2>5, LevelsAre
    <3> QED BY <2>2, <2>5, <3>1
  <2> QED BY <2>2, <2>3, <2>4, <2>5 DEF c
<1> QED BY <1>1, <1>2, <1>3, <1>4

\* What holds of what an eligible decision was made from.
LEMMA EligibleIs ==
    ASSUME NEW i, IsInputs(i)
    PROVE  (Decide(i).status = "ELIGIBLE") =
              (/\ ~Insufficient(i) /\ ConfidenceGatePassed(i) /\ HardRisks(i) = {}
               /\ i.future >= DecisionConfig.classification.future)
<1>1. Decide(i).status = EligibilityStatus(ClassifyOpportunity(i), ConfidenceGatePassed(i), HardRisks(i))
  BY DEF Decide
<1>2. CASE Insufficient(i)
  BY <1>1, <1>2 DEF ClassifyOpportunity, EligibilityStatus
<1>3. CASE ~Insufficient(i)
  <2>1. i.future >= DecisionConfig.classification.future
          => ClassifyOpportunity(i) \in {"QUALITY_AT_DISCOUNT", "GOOD_BUT_EXPENSIVE"}
    BY <1>3 DEF ClassifyOpportunity
  <2>2. ~(i.future >= DecisionConfig.classification.future)
          => ClassifyOpportunity(i) \in {"VALUE_TRAP", "LOW_QUALITY"}
    BY <1>3 DEF ClassifyOpportunity
  <2> QED BY <1>1, <1>3, <2>1, <2>2 DEF EligibilityStatus
<1> QED BY <1>2, <1>3

\* The state of an eligible decision.
LEMMA StateIs ==
    ASSUME NEW i, IsInputs(i), Decide(i).status = "ELIGIBLE"
    PROVE  LET c == DecisionConfig.workflow
               good == i.value >= DecisionConfig.classification.value
           IN  /\ Decide(i).class = IF good THEN "QUALITY_AT_DISCOUNT" ELSE "GOOD_BUT_EXPENSIVE"
               /\ Decide(i).state =
                     IF ~good THEN "WATCH"
                     ELSE IF /\ i.value >= c.value /\ i.future >= c.future
                             /\ i.liquidity >= c.liquidity /\ i.risk <= c.risk
                     THEN "VIEW" ELSE IF i.liquidity >= c.contact THEN "CONTACT" ELSE "WATCH"
               /\ None \notin {i.future, i.risk}
<1>1. ~Insufficient(i) /\ i.future >= DecisionConfig.classification.future
  BY EligibleIs
<1>2. Decide(i).class = ClassifyOpportunity(i)
  BY DEF Decide
<1>3. Decide(i).class = IF i.value >= DecisionConfig.classification.value
                        THEN "QUALITY_AT_DISCOUNT" ELSE "GOOD_BUT_EXPENSIVE"
  BY <1>1, <1>2 DEF ClassifyOpportunity
<1>4. Decide(i).state = WorkflowState(i, Decide(i).class, "ELIGIBLE")
  BY DEF Decide
<1>5. None \notin {i.future, i.risk, i.liquidity}
  BY <1>1, NoneIsNoNumber DEF Insufficient, IsInputs
<1> QED BY <1>3, <1>4, <1>5 DEF WorkflowState

\* The order of the states.
LEMMA StateOrderIs ==
    ASSUME NEW d
    PROVE  /\ d.state = "PASS" => StateOrder(d) = 1
           /\ d.state = "WATCH" => StateOrder(d) = 2
           /\ d.state = "CONTACT" => StateOrder(d) = 3
           /\ d.state = "VIEW" => StateOrder(d) = 4
<1>1. DOMAIN WorkflowStates = 1 .. 4
  BY DEF WorkflowStates
<1> QED BY <1>1 DEF StateOrder, WorkflowStates

\* What is as good is eligible too, and its state no step behind.
LEMMA BetterGoesFurther ==
    ASSUME NEW i, IsInputs(i), NEW j, IsInputs(j), AtLeast(i, j), Decide(j).status = "ELIGIBLE"
    PROVE  /\ Decide(i).status = "ELIGIBLE"
           /\ StateOrder(Decide(i)) >= StateOrder(Decide(j))
           /\ DecisionConfig.ranking.classification[Decide(i).class]
                >= DecisionConfig.ranking.classification[Decide(j).class]
           /\ DecisionConfig.ranking.classification[Decide(i).class] \in Int
           /\ DecisionConfig.ranking.classification[Decide(j).class] \in Int
<1> DEFINE c == DecisionConfig.classification
           w == DecisionConfig.workflow
           e == DecisionConfig.eligibility
<1>1. ~Insufficient(j) /\ ConfidenceGatePassed(j) /\ HardRisks(j) = {} /\ j.future >= c.future
  BY EligibleIs
<1>2. /\ c.value \in Int /\ c.future \in Int /\ c.coverage \in Int /\ c.riskCoverage \in Int
      /\ w.value \in Int /\ w.future \in Int /\ w.liquidity \in Int /\ w.risk \in Int /\ w.contact \in Int
      /\ IsLevel(e.confidence) /\ e.risk \in Int
  BY DecisionConfigIs
<1>3. /\ {i.value, i.liquidity, i.coverage, i.riskCoverage, i.future, i.risk} \subseteq Int
      /\ {j.value, j.liquidity, j.coverage, j.riskCoverage, j.future, j.risk} \subseteq Int
  BY DEF IsInputs, AtLeast, IsMaybe
<1>4. /\ \A l : IsLevel(l) => LevelOrder(l) \in Int /\ (LevelOrder(l) = 1) = (l = "insufficient")
      /\ \A l : IsLevel(l) => LevelOrder(l) >= 1
  <2>1. \A l : IsLevel(l) => LevelOrder(l) \in 1 .. 4 /\ Levels[LevelOrder(l)] = l
    BY LevelsAre
  <2>2. Levels[1] = "insufficient" /\ LevelOrder("insufficient") = 1
    BY LevelsAre DEF Levels
  <2> QED BY <2>1, <2>2
<1>5. ~Insufficient(i)
  <2>1. i.coverage >= c.coverage /\ i.riskCoverage >= c.riskCoverage /\ None \notin {i.future, i.risk}
    BY <1>1, <1>2, <1>3 DEF Insufficient, AtLeast
  <2>2. "insufficient" \notin {i.valuationConfidence, i.futureConfidence, i.baselineConfidence}
    <3>1. "insufficient" \notin {j.valuationConfidence, j.futureConfidence, j.baselineConfidence}
      BY <1>1 DEF Insufficient
    <3> QED BY <1>4, <3>1 DEF AtLeast, IsInputs
  <2> QED BY <1>2, <1>3, <2>1, <2>2 DEF Insufficient
<1>6. ConfidenceGatePassed(i)
  <2>1. \A l \in {j.valuationConfidence, j.futureConfidence, j.baselineConfidence} :
           LevelOrder(l) >= LevelOrder(e.confidence)
    BY <1>1 DEF ConfidenceGatePassed
  <2> QED BY <1>2, <1>4, <2>1 DEF ConfidenceGatePassed, AtLeast, IsInputs
<1>7. HardRisks(i) = {}
  <2>1. e.hardRisks \cap j.warnings = {} /\ ~(j.risk # None /\ j.risk >= e.risk)
    BY <1>1 DEF HardRisks
  <2>2. e.hardRisks \cap i.warnings = {}
    BY <2>1 DEF AtLeast
  <2>3. ~(i.risk # None /\ i.risk >= e.risk)
    BY <1>2, <1>3, <2>1 DEF AtLeast
  <2> QED BY <2>2, <2>3 DEF HardRisks
<1>8. i.future >= c.future
  BY <1>1, <1>2, <1>3 DEF AtLeast
<1>9. Decide(i).status = "ELIGIBLE"
  BY <1>5, <1>6, <1>7, <1>8, EligibleIs
<1> DEFINE fine(x) == x.value >= c.value
           view(x) == x.value >= w.value /\ x.future >= w.future /\ x.liquidity >= w.liquidity /\ x.risk <= w.risk
           state(x) == IF ~fine(x) THEN "WATCH" ELSE IF view(x) THEN "VIEW"
                       ELSE IF x.liquidity >= w.contact THEN "CONTACT" ELSE "WATCH"
           class(x) == IF fine(x) THEN "QUALITY_AT_DISCOUNT" ELSE "GOOD_BUT_EXPENSIVE"
<1>10. /\ Decide(i).state = state(i) /\ Decide(i).class = class(i)
       /\ Decide(j).state = state(j) /\ Decide(j).class = class(j)
  BY <1>9, StateIs
<1>11. /\ fine(j) => fine(i)
       /\ view(j) => view(i)
       /\ j.liquidity >= w.contact => i.liquidity >= w.contact
  BY <1>2, <1>3 DEF AtLeast
<1> HIDE DEF fine, view
<1>12. StateOrder(Decide(i)) >= StateOrder(Decide(j))
  <2>1. /\ state(i) \in {"WATCH", "CONTACT", "VIEW"} /\ state(j) \in {"WATCH", "CONTACT", "VIEW"}
        /\ state(j) = "VIEW" => state(i) = "VIEW"
        /\ state(j) = "CONTACT" => state(i) # "WATCH"
    BY <1>11
  <2> HIDE DEF state
  <2> QED BY <1>10, <2>1, StateOrderIs
<1> QED BY <1>9, <1>10, <1>11, <1>12, DecisionConfigIs

\* An outlook is typed, and so is what a decision is made from.
LEMMA OutlookIs ==
    ASSUME NEW e, IsEvidence(e), NEW t, IsHome(t.home), NEW v, IsPriced(v), v.score \in Int,
           NEW factors, AreFactors(factors), NEW now \in Int
    PROVE  IsInputs(DecisionInputs(v, OutlookFrom(factors, e, t, v, now)))
<1> DEFINE score == FutureScore(factors)
           risk == ObsolescenceRisk(e, t, v.fair, factors, now)
           trust == FutureConfidence(e, factors, score.coverage, now)
           f == OutlookFrom(factors, e, t, v, now)
           i == DecisionInputs(v, f)
<1>1. /\ f.score = score.score /\ f.coverage = score.coverage
      /\ f.risk = risk.score /\ f.riskCoverage = risk.coverage
      /\ f.alpha = StructuralAlpha(e, factors) /\ f.confidence = trust.level
  BY DEF OutlookFrom, OutlookRow
<1>2. Brighter(factors, factors)
  <2>1. \A n \in AllFutureFactors : factors[n].future # None => factors[n].future <= factors[n].future
    BY WholeIs DEF AreFactors, IsFactor, IsMaybeScore
  <2> QED BY <2>1 DEF Brighter
<1>3. IsMaybe(score.score) /\ score.coverage \in Int
  <2>1. IsRoundedMean(score.score, ScoreFactors) /\ score.coverage \in Int
    BY FutureScoreIs
  <2> QED BY <2>1, FactorNames, RoundedMeanIs DEF IsMaybe
<1>4. IsMaybe(risk.score) /\ risk.coverage \in Int
  <2>1. v.fair \in Int
    BY DEF IsPriced
  <2>2. IsRoundedMean(risk.score, RiskParts) /\ risk.coverage \in Int
    BY <1>2, <2>1, RiskFalls
  <2> QED BY <2>2, RiskConfig, RoundedMeanIs DEF IsMaybe
<1>5. f.alpha \in Int
  BY <1>1, <1>2, AlphaRises
<1>6. IsLevel(trust.level)
  BY <1>2, <1>3, TrustRises
<1> HIDE DEF score, risk, trust, f
<1>7. /\ i.value = v.score /\ i.liquidity = v.liquidity /\ i.coverage = f.coverage
      /\ i.riskCoverage = f.riskCoverage /\ i.alpha = f.alpha /\ i.future = f.score /\ i.risk = f.risk
      /\ i.valuationConfidence = v.confidence /\ i.baselineConfidence = v.baseline
      /\ i.futureConfidence = f.confidence
  BY DEF DecisionInputs
<1> HIDE DEF i
<1>8. v.liquidity \in Int /\ v.liquidity \in 0 .. 100 /\ IsLevel(v.confidence) /\ IsLevel(v.baseline)
  BY DEF IsPriced
<1>9. IsInputs(i)
  BY <1>1, <1>3, <1>4, <1>5, <1>6, <1>7, <1>8 DEF IsInputs
<1> QED BY <1>9 DEF i, f

\* A state is one of the four, passing the last.
LEMMA DecidedState ==
    ASSUME NEW i
    PROVE  StateOrder(Decide(i)) \in 1 .. 4 /\ (Decide(i).status # "ELIGIBLE" => StateOrder(Decide(i)) = 1)
<1>1. Decide(i).state = WorkflowState(i, Decide(i).class, Decide(i).status)
  BY DEF Decide
<1>2. /\ WorkflowState(i, Decide(i).class, Decide(i).status) \in {"PASS", "WATCH", "CONTACT", "VIEW"}
      /\ Decide(i).status # "ELIGIBLE" => WorkflowState(i, Decide(i).class, Decide(i).status) = "PASS"
  BY DEF WorkflowState
<1>3. /\ Decide(i).state \in {"PASS", "WATCH", "CONTACT", "VIEW"}
      /\ Decide(i).status # "ELIGIBLE" => Decide(i).state = "PASS"
  BY <1>1, <1>2
<1> QED BY <1>3, StateOrderIs

\* Brighter factors cost a home nothing.
LEMMA ProspectsHelp ==
    ASSUME NEW e, IsEvidence(e), NEW t, IsHome(t.home), NEW v, IsPriced(v), v.score \in Int, NEW now \in Int,
           NEW high, AreFactors(high), NEW low, AreFactors(low), Brighter(high, low)
    PROVE  LET old == OutlookFrom(low, e, t, v, now)
               new == OutlookFrom(high, e, t, v, now)
           IN  /\ new.alpha >= old.alpha
               /\ old.score # None => new.score >= old.score
               /\ old.risk # None => new.risk <= old.risk
               /\ StateOrder(Decide(DecisionInputs(v, new))) >= StateOrder(Decide(DecisionInputs(v, old)))
<1> DEFINE fair == v.fair
           oldScore == FutureScore(low)
           newScore == FutureScore(high)
           oldRisk == ObsolescenceRisk(e, t, fair, low, now)
           newRisk == ObsolescenceRisk(e, t, fair, high, now)
           oldTrust == FutureConfidence(e, low, oldScore.coverage, now)
           newTrust == FutureConfidence(e, high, newScore.coverage, now)
           old == OutlookFrom(low, e, t, v, now)
           new == OutlookFrom(high, e, t, v, now)
           i == DecisionInputs(v, new)
           j == DecisionInputs(v, old)
<1>1. fair \in Int
  BY DEF IsPriced
<1>2. /\ old.score = oldScore.score /\ old.coverage = oldScore.coverage
      /\ old.risk = oldRisk.score /\ old.riskCoverage = oldRisk.coverage
      /\ old.alpha = StructuralAlpha(e, low) /\ old.confidence = oldTrust.level
      /\ old.warnings = FutureWarnings(low, oldRisk.score, oldTrust.score, CalibrationState(e), e.mode)
  BY DEF OutlookFrom, OutlookRow
<1>3. /\ new.score = newScore.score /\ new.coverage = newScore.coverage
      /\ new.risk = newRisk.score /\ new.riskCoverage = newRisk.coverage
      /\ new.alpha = StructuralAlpha(e, high) /\ new.confidence = newTrust.level
      /\ new.warnings = FutureWarnings(high, newRisk.score, newTrust.score, CalibrationState(e), e.mode)
  BY DEF OutlookFrom, OutlookRow
<1>4. /\ oldScore.coverage = newScore.coverage /\ (oldScore.score = None) = (newScore.score = None)
      /\ oldScore.score # None => oldScore.score <= newScore.score
      /\ oldScore.coverage \in Int
  BY ScoreRises, FutureScoreIs
<1>5. /\ oldRisk.coverage \in Int
      /\ newRisk.coverage = oldRisk.coverage /\ (newRisk.score = None) = (oldRisk.score = None)
      /\ newRisk.score # None => newRisk.score <= oldRisk.score
  BY <1>1, RiskFalls
<1>6. IsInputs(i) /\ IsInputs(j)
  BY OutlookIs
<1>7. StructuralAlpha(e, low) \in Int /\ StructuralAlpha(e, low) <= StructuralAlpha(e, high)
  BY AlphaRises
<1>8. /\ oldTrust.score \in Int /\ newTrust.score \in Int /\ oldTrust.score <= newTrust.score
      /\ LevelOrder(oldTrust.level) <= LevelOrder(newTrust.level)
      /\ IsLevel(oldTrust.level) /\ IsLevel(newTrust.level)
  <2> DEFINE coverage == oldScore.coverage
  <2>1. coverage \in Int /\ newTrust = FutureConfidence(e, high, coverage, now)
    BY <1>4
  <2> HIDE DEF coverage, newTrust, oldScore, newScore
  <2>2. oldTrust = FutureConfidence(e, low, coverage, now)
    BY DEF coverage
  <2> HIDE DEF oldTrust
  <2> QED BY <2>1, <2>2, TrustRises
<1>9. /\ i.value = v.score /\ i.liquidity = v.liquidity /\ i.coverage = new.coverage
      /\ i.riskCoverage = new.riskCoverage /\ i.alpha = new.alpha /\ i.future = new.score /\ i.risk = new.risk
      /\ i.valuationConfidence = v.confidence /\ i.baselineConfidence = v.baseline
      /\ i.futureConfidence = new.confidence /\ i.warnings = v.warnings \cup new.warnings
  BY DEF DecisionInputs
<1>10. /\ j.value = v.score /\ j.liquidity = v.liquidity /\ j.coverage = old.coverage
       /\ j.riskCoverage = old.riskCoverage /\ j.alpha = old.alpha /\ j.future = old.score /\ j.risk = old.risk
       /\ j.valuationConfidence = v.confidence /\ j.baselineConfidence = v.baseline
       /\ j.futureConfidence = old.confidence /\ j.warnings = v.warnings \cup old.warnings
  BY DEF DecisionInputs
<1> HIDE DEF i, j, old, new, oldScore, newScore, oldRisk, newRisk, oldTrust, newTrust, fair
<1>11. /\ IsMaybe(oldRisk.score) /\ IsMaybe(newRisk.score)
       /\ IsMaybe(oldScore.score) /\ IsMaybe(newScore.score)
  BY <1>2, <1>3, <1>6, <1>9, <1>10 DEF IsInputs
<1>12. new.warnings \subseteq old.warnings \cup {"PLANNING_DEPENDENCY"}
  BY <1>2, <1>3, <1>5, <1>8, <1>11, WarningsShrink
<1>13. StateOrder(Decide(i)) >= StateOrder(Decide(j))
  <2>1. CASE Decide(j).status # "ELIGIBLE"
    BY <2>1, DecidedState
  <2>2. CASE Decide(j).status = "ELIGIBLE"
    <3>1. None \notin {j.future, j.risk}
      BY <1>6, <2>2, StateIs
    <3>2. None \notin {i.future, i.risk}
      BY <1>2, <1>3, <1>4, <1>5, <1>9, <1>10, <3>1
    <3>3. DecisionConfig.eligibility.hardRisks \cap i.warnings \subseteq j.warnings
      BY <1>9, <1>10, <1>12, PrioritiesAreInOrder
    <3>4. /\ i.value >= j.value /\ i.liquidity >= j.liquidity
          /\ i.future >= j.future /\ i.risk <= j.risk
          /\ i.coverage >= j.coverage /\ i.riskCoverage >= j.riskCoverage
      <4>1. i.value \in Int /\ i.liquidity \in Int /\ i.coverage \in Int /\ i.riskCoverage \in Int
        BY <1>6 DEF IsInputs
      <4>2. i.value = j.value /\ i.liquidity = j.liquidity /\ i.coverage = j.coverage /\ i.riskCoverage = j.riskCoverage
        BY <1>2, <1>3, <1>4, <1>5, <1>9, <1>10
      <4>3. i.future >= j.future /\ i.risk <= j.risk
        <5>1. i.future \in Int /\ j.future \in Int
          BY <1>6, <3>1, <3>2 DEF IsInputs, IsMaybe
        <5> QED BY <1>2, <1>3, <1>4, <1>5, <1>9, <1>10, <3>1, <3>2, <5>1
      <4> QED BY <4>1, <4>2, <4>3
    <3>5. /\ LevelOrder(i.valuationConfidence) >= LevelOrder(j.valuationConfidence)
          /\ LevelOrder(i.baselineConfidence) >= LevelOrder(j.baselineConfidence)
          /\ LevelOrder(i.futureConfidence) >= LevelOrder(j.futureConfidence)
      <4>1. \A l : IsLevel(l) => LevelOrder(l) \in Int
        BY LevelsAre
      <4>2. IsLevel(v.confidence) /\ IsLevel(v.baseline)
        BY DEF IsPriced
      <4> QED BY <1>2, <1>3, <1>8, <1>9, <1>10, <4>1, <4>2
    <3>6. AtLeast(i, j)
      BY <3>1, <3>2, <3>3, <3>4, <3>5 DEF AtLeast
    <3> QED BY <1>6, <2>2, <3>6, BetterGoesFurther
  <2> QED BY <2>1, <2>2
<1>14. new.alpha >= old.alpha
  <2>1. i.alpha \in Int /\ j.alpha \in Int
    BY <1>6 DEF IsInputs
  <2> QED BY <1>2, <1>3, <1>7, <1>9, <1>10, <2>1
<1>15. old.score # None => new.score >= old.score
  <2>1. IsMaybe(old.score) /\ IsMaybe(new.score) /\ (old.score = None) = (new.score = None)
    BY <1>2, <1>3, <1>4, <1>11
  <2>2. old.score # None => old.score \in Int /\ new.score \in Int
    BY <2>1 DEF IsMaybe
  <2> QED BY <1>2, <1>3, <1>4, <2>2
<1>16. old.risk # None => new.risk <= old.risk
  BY <1>2, <1>3, <1>5
<1> QED BY <1>13, <1>14, <1>15, <1>16 DEF i, j, old, new

-----------------------------------------------------------------------------
(* Ranks.                                                                  *)

\* What a decision is ranked by, with its place.
IsKey(x) == DOMAIN x = 1 .. 8 /\ \A n \in 1 .. 8 : x[n] \in Int

\* Keys are in an order.
LEMMA KeysAreOrdered ==
    ASSUME NEW x, IsKey(x), NEW y, IsKey(y), NEW z, IsKey(z)
    PROVE  /\ ~LessThan(x, x)
           /\ LessThan(x, y) /\ LessThan(y, z) => LessThan(x, z)
<1>1. ~LessThan(x, x)
  BY DEF LessThan, IsKey
<1>2. ASSUME LessThan(x, y), LessThan(y, z) PROVE LessThan(x, z)
  <2>1. PICK n \in 1 .. 8 : x[n] < y[n] /\ \A m \in 1 .. n - 1 : x[m] = y[m]
    BY <1>2 DEF LessThan, IsKey
  <2>2. PICK k \in 1 .. 8 : y[k] < z[k] /\ \A m \in 1 .. k - 1 : y[m] = z[m]
    BY <1>2 DEF LessThan, IsKey
  <2>3. \A m \in 1 .. 8 : x[m] \in Int /\ y[m] \in Int /\ z[m] \in Int
    BY DEF IsKey
  <2>4. CASE n <= k
    <3>1. x[n] < z[n]
      <4>1. n = k \/ y[n] = z[n]
        BY <2>2, <2>4
      <4> QED BY <2>1, <2>2, <2>3, <4>1
    <3>2. \A m \in 1 .. n - 1 : x[m] = z[m]
      BY <2>1, <2>2, <2>4
    <3> QED BY <3>1, <3>2 DEF LessThan, IsKey
  <2>5. CASE k < n
    <3>1. x[k] < z[k] /\ \A m \in 1 .. k - 1 : x[m] = z[m]
      BY <2>1, <2>2, <2>5
    <3> QED BY <3>1 DEF LessThan, IsKey
  <2> QED BY <2>4, <2>5
<1> QED BY <1>1, <1>2

\* A key that is nowhere the greater before the place, and somewhere the less,
\* comes first.
LEMMA ComesFirst ==
    ASSUME NEW x, IsKey(x), NEW y, IsKey(y), \A n \in 1 .. 7 : x[n] <= y[n],
           \E n \in 1 .. 7 : x[n] # y[n]
    PROVE  LessThan(x, y)
<1> DEFINE S == {n \in 1 .. 7 : x[n] # y[n]}
           first == Min(S)
<1>1. S \subseteq 1 .. 7 /\ S # {}
  OBVIOUS
<1>2. \A n \in 1 .. 7 : n \notin S => x[n] = y[n]
  OBVIOUS
<1>3. \A n \in S : x[n] # y[n]
  OBVIOUS
<1> HIDE DEF S
<1>4. IsFiniteSet(S) /\ S \subseteq Int
  <2> DEFINE k == 7
  <2>1. k \in Int /\ S \subseteq 1 .. k
    BY <1>1
  <2> HIDE DEF k
  <2> QED BY <2>1, FirstNumbers
<1>5. first \in S /\ \A n \in S : first <= n
  BY <1>1, <1>4, MinOfSet
<1> HIDE DEF first
<1>6. first \in 1 .. 7 /\ x[first] # y[first]
  BY <1>1, <1>3, <1>5
<1>7. x[first] < y[first]
  BY <1>6 DEF IsKey
<1>8. \A m \in 1 .. first - 1 : x[m] = y[m]
  <2> TAKE m \in 1 .. first - 1
  <2>1. m \in 1 .. 7 /\ m \notin S
    BY <1>5, <1>6
  <2> QED BY <1>2, <2>1
<1>9. first \in DOMAIN x
  BY <1>6 DEF IsKey
<1> QED BY <1>7, <1>8, <1>9 DEF LessThan

\* Seven figures and a place are one.
LEMMA KeyWithPlace ==
    ASSUME NEW k \in Seq(Int), Len(k) = 7, NEW p \in Int
    PROVE  IsKey(Append(k, p)) /\ \A n \in 1 .. 7 : Append(k, p)[n] = k[n]
<1> DEFINE s == Append(k, p)
<1>1. s \in Seq(Int)
  BY AppendProperties
<1>2. Len(s) = Len(k) + 1
  BY AppendProperties
<1>3. ASSUME NEW n \in 1 .. Len(k) PROVE s[n] = k[n]
  BY ONLY AppendProperties, k \in Seq(Int), p \in Int, n \in 1 .. Len(k) DEF s
<1> HIDE DEF s
<1>4. Len(s) = 8 /\ DOMAIN s = 1 .. 8
  BY <1>1, <1>2
<1>5. ASSUME NEW n \in 1 .. 8 PROVE s[n] \in Int
  BY <1>1, <1>4, ElementOfSeq
<1>6. IsKey(s) /\ \A n \in 1 .. 7 : s[n] = k[n]
  BY <1>3, <1>4, <1>5 DEF IsKey
<1> QED BY <1>6 DEF s

\* The key of an eligible decision.
LEMMA SortKeyIs ==
    ASSUME NEW i, IsInputs(i), Decide(i).status = "ELIGIBLE", NEW p \in Int
    PROVE  LET r == DecisionConfig.ranking
               k == DecisionSortKey(Decide(i))
               trust == Min({r.confidence[i.valuationConfidence], r.confidence[i.futureConfidence]})
           IN  /\ k = <<-r.classification[Decide(i).class], -trust, -i.liquidity, -i.future, -i.value, i.risk, -i.alpha>>
               /\ trust \in Int /\ i.future \in Int /\ i.risk \in Int
               /\ IsKey(Append(k, p)) /\ \A n \in 1 .. 7 : Append(k, p)[n] = k[n]
<1> DEFINE r == DecisionConfig.ranking
           class == r.classification[Decide(i).class]
           a == r.confidence[i.valuationConfidence]
           b == r.confidence[i.futureConfidence]
           trust == Min({a, b})
           k == DecisionSortKey(Decide(i))
           depth == OrZero(i.liquidity)
<1>1. Decide(i).inputs = i
  BY DEF Decide
<1>2. k = <<-class, -trust, -depth, IF i.future = None THEN 0 ELSE -i.future, -i.value,
            IF i.risk = None THEN 10100 ELSE i.risk, -i.alpha>>
  BY <1>1 DEF DecisionSortKey
<1>3. i.future \in Int /\ i.risk \in Int /\ i.value \in Int /\ i.alpha \in Int /\ i.liquidity \in 0 .. 100
  <2>1. None \notin {i.future, i.risk}
    BY StateIs
  <2> QED BY <2>1 DEF IsInputs, IsMaybe
<1>4. depth = i.liquidity
  <2> DEFINE low == 0
             high == 100
             x == i.liquidity
  <2>1. low \in Int /\ high \in Int /\ x \in Int /\ low <= x /\ x <= high /\ x # None
    BY <1>3, NoneIsNoNumber
  <2>2. depth = IF x = None THEN low ELSE Bounded(low, x, high)
    BY DEF OrZero
  <2> HIDE DEF low, high, x, depth
  <2>3. depth = x
    BY <2>1, <2>2, BoundedIs
  <2> QED BY <2>3 DEF x
<1>5. class \in Int
  <2>1. Decide(i).class \in {"QUALITY_AT_DISCOUNT", "GOOD_BUT_EXPENSIVE"}
    BY StateIs
  <2> QED BY <2>1, DecisionConfigIs
<1>6. trust \in Int
  <2>1. a \in Int /\ b \in Int
    BY DecisionConfigIs DEF IsInputs
  <2> HIDE DEF a, b
  <2> QED BY <2>1, MinOfTwo
<1> HIDE DEF class, trust, depth
<1>7. k = <<-class, -trust, -i.liquidity, -i.future, -i.value, i.risk, -i.alpha>>
  BY <1>2, <1>3, <1>4, NoneIsNoNumber
<1> HIDE DEF k
<1>8. k \in Seq(Int) /\ Len(k) = 7
  <2>1. -class \in Int /\ -trust \in Int /\ -i.liquidity \in Int /\ -i.future \in Int /\ -i.value \in Int /\ -i.alpha \in Int
    BY <1>3, <1>5, <1>6
  <2> QED BY <1>3, <1>7, <2>1
<1>9. IsKey(Append(k, p)) /\ \A n \in 1 .. 7 : Append(k, p)[n] = k[n]
  BY <1>8, KeyWithPlace
<1> QED BY <1>3, <1>6, <1>7, <1>9 DEF k, class, trust

\* Of decisions about homes, one whose key comes first is ranked before.
LEMMA FirstIsRankedBefore ==
    ASSUME NEW S, IsFiniteSet(S), NEW key, \A l \in S : IsKey(key[l]),
           NEW l \in S, NEW m \in S, LessThan(key[l], key[m])
    PROVE  Cardinality({k \in S : LessThan(key[k], key[l])}) < Cardinality({k \in S : LessThan(key[k], key[m])})
<1> DEFINE before == {k \in S : LessThan(key[k], key[l])}
           after == {k \in S : LessThan(key[k], key[m])}
<1>1. before \subseteq after /\ l \in after /\ l \notin before
  BY KeysAreOrdered
<1>2. after \subseteq S
  OBVIOUS
<1> HIDE DEF before, after
<1>3. IsFiniteSet(after) /\ IsFiniteSet(before)
  BY <1>1, <1>2, FS_Subset
<1>4. Cardinality(before) <= Cardinality(after) /\ Cardinality(before) # Cardinality(after)
  BY <1>1, <1>3, FS_Subset
<1>5. Cardinality(before) \in Nat /\ Cardinality(after) \in Nat
  BY <1>3, FS_CardinalityType
<1>6. Cardinality(before) < Cardinality(after)
  BY <1>4, <1>5
<1> QED BY <1>6 DEF before, after

-----------------------------------------------------------------------------
(* The chain keeps what the rules need.                                    *)

\* The slices that are published are typed.
LEMMA SlicesAre ==
    ASSUME NEW os, IsStored(os), NEW now \in Int
    PROVE  \A key \in DOMAIN ComputeBaselines(os, now) : IsFigured(ComputeBaselines(os, now)[key])
<1>1. AreFigured(os)
  BY DEF IsStored, AreFigured, IsRecord, IsObservation
<1>2. \A key : IsFigured(ComputeSlice(os, key, now))
  BY <1>1, SliceIsFigured
<1> QED BY <1>2 DEF ComputeBaselines

\* Of some observations the last of an entity is among the latest.
LEMMA LatestAreThere ==
    ASSUME NEW os, IsStored(os), NEW W, W \subseteq os, W # {}
    PROVE  LatestOf(W) \subseteq W /\ LatestOf(W) # {}
<1>1. PICK o : o \in W
  OBVIOUS
<1> DEFINE X == {p \in W : Entity(p) = Entity(o)}
<1>2. X \subseteq os /\ X # {}
  BY <1>1
<1>3. PICK m : IsLast(X, m)
  BY <1>2, LastIsChosen
<1>4. m \in W /\ Entity(m) = Entity(o)
  BY <1>3 DEF IsLast
<1>5. ASSUME NEW p \in W, Entity(p) = Entity(m), Later(p, m) PROVE FALSE
  <2>1. p \in X /\ m \in X
    BY <1>4, <1>5
  <2>2. p = m \/ Later(m, p)
    BY <1>3, <2>1 DEF IsLast
  <2>3. p \in os /\ m \in os
    BY <1>2, <2>1
  <2> QED BY <1>5, <2>2, <2>3, LaterIsAnOrder
<1>6. m \in LatestOf(W)
  BY <1>4, <1>5 DEF LatestOf
<1> QED BY <1>6 DEF LatestOf

\* Outliers are some of the observations.
LEMMA OutliersAre ==
    ASSUME NEW figure
    PROVE  OutliersOf(figure) \subseteq DOMAIN figure
<1>1. DOMAIN Apart(figure) = DOMAIN figure
  BY DEF Apart
<1>2. ASSUME NEW mad, NEW z PROVE FarFromMedian(Apart(figure), mad, z) \subseteq DOMAIN figure
  BY <1>1 DEF FarFromMedian
<1>3. ASSUME NEW q1, NEW q3 PROVE OutsideQuartiles(figure, q1, q3) \subseteq DOMAIN figure
  BY DEF OutsideQuartiles
<1> QED BY <1>2, <1>3 DEF OutliersOf

\* They have no more ids than there are observations.
LEMMA IdsAreFew ==
    ASSUME NEW S, IsFiniteSet(S), NEW T, T \subseteq S
    PROVE  Cardinality({o.id : o \in T}) <= Cardinality(S)
<1> DEFINE f == [o \in T |-> o.id]
           ids == {o.id : o \in T}
<1>1. IsFiniteSet(T) /\ Cardinality(T) <= Cardinality(S)
  BY FS_Subset
<1>2. f \in Surjection(T, ids)
  BY DEF Surjection
<1> HIDE DEF f, ids
<1>3. IsFiniteSet(ids) /\ Cardinality(ids) <= Cardinality(T)
  BY <1>1, <1>2, FS_Surjection
<1>4. Cardinality(ids) \in Nat /\ Cardinality(T) \in Nat /\ Cardinality(S) \in Nat
  BY <1>1, <1>3, FS_CardinalityType
<1> QED BY <1>1, <1>3, <1>4 DEF ids

\* The percentiles of some figures are in order.
LEMMA PercentilesAreOrdered ==
    ASSUME NEW f, IsFigure(f), PercentileSet(f).p50 # None
    PROVE  LET p == PercentileSet(f)
           IN  p.p10 <= p.p25 /\ p.p25 <= p.p50 /\ p.p50 <= p.p75 /\ p.p75 <= p.p90
<1>1. DOMAIN f # {}
  BY DEF PercentileSet, Percentile
<1>2. /\ Percentile(f, 10) <= Percentile(f, 25) /\ Percentile(f, 25) <= Percentile(f, 50)
      /\ Percentile(f, 50) <= Percentile(f, 75) /\ Percentile(f, 75) <= Percentile(f, 90)
  BY <1>1, PercentileRises
<1> QED BY <1>2 DEF PercentileSet

\* A slice has a key that its observation matches, with the places down to its
\* level.
LEMMA KeyIs ==
    ASSUME NEW o, NEW days, NEW key \in SliceKeys(o, days)
    PROVE  /\ key.type = o.type /\ key.days = days /\ Matches(o, key)
           /\ LET level == CHOOSE i \in 1 .. 4 :
                              <<"shanghai", "district", "submarket", "community">>[i] = key.level
              IN  \A i \in 1 .. 3 : (<<key.district, key.submarket, key.community>>[i] # None) = (i < level)
<1> DEFINE places == {<<"shanghai", None, None, None>>}
              \cup (IF o.district = None THEN {} ELSE {<<"district", o.district, None, None>>})
              \cup (IF None \in {o.district, o.submarket} THEN {}
                    ELSE {<<"submarket", o.district, o.submarket, None>>})
              \cup (IF None \in {o.district, o.submarket, o.community} THEN {}
                    ELSE {<<"community", o.district, o.submarket, o.community>>})
           names == <<"shanghai", "district", "submarket", "community">>
<1>1. PICK p \in places, b \in {None, o.bucket}, l \in {None, o.layout} :
         key = [type |-> o.type, days |-> days, level |-> p[1], district |-> p[2],
                submarket |-> p[3], community |-> p[4], bucket |-> b, layout |-> l]
  BY DEF SliceKeys
<1>2. /\ key.type = o.type /\ key.days = days /\ key.level = p[1] /\ key.district = p[2]
      /\ key.submarket = p[3] /\ key.community = p[4] /\ key.bucket = b /\ key.layout = l
  BY <1>1
<1>3. /\ p[1] \in {"shanghai", "district", "submarket", "community"}
      /\ p[2] \in {None, o.district} /\ p[3] \in {None, o.submarket} /\ p[4] \in {None, o.community}
  OBVIOUS
<1>4. Matches(o, key)
  BY <1>1, <1>2, <1>3 DEF Matches
<1>5. /\ (p[2] # None) = (p[1] # "shanghai")
      /\ (p[3] # None) = (p[1] \in {"submarket", "community"})
      /\ (p[4] # None) = (p[1] = "community")
  OBVIOUS
<1> HIDE DEF places
<1>6. ASSUME NEW k \in 1 .. 4 PROVE (CHOOSE i \in 1 .. 4 : names[i] = names[k]) = k
  OBVIOUS
<1>7. PICK k \in 1 .. 4 : p[1] = names[k]
  BY <1>3
<1> DEFINE level == CHOOSE i \in 1 .. 4 : names[i] = key.level
<1>8. level = k
  BY <1>2, <1>6, <1>7
<1> HIDE DEF level
<1>9. \A i \in 1 .. 3 : (<<key.district, key.submarket, key.community>>[i] # None) = (i < level)
  <2>1. /\ (key.district # None) = (1 < k) /\ (key.submarket # None) = (2 < k)
        /\ (key.community # None) = (3 < k)
    BY <1>2, <1>5, <1>7
  <2> QED BY <1>8, <2>1
<1> QED BY <1>2, <1>4, <1>9 DEF level

\* Whatever a materialization computes may be stored.
LEMMA SlicesMayBeStored ==
    ASSUME NEW os, IsStored(os), NEW now \in Int, NEW key \in DOMAIN ComputeBaselines(os, now)
    PROVE  IsSlice(key, ComputeBaselines(os, now)[key])
<1> DEFINE W == {o \in WindowOf(os, now, key.days) : Matches(o, key)}
           S == LatestOf(W)
           p == OutliersOf([o \in S |-> o.price])
           u == OutliersOf([o \in S |-> o.unit])
           q == IF key.type # "listing" THEN None ELSE Liquidity(ListingMetrics(os, key, now))
           s == SliceOf(S, p, u, q, key, now)
<1>1. PICK days \in MarketConfig.windows : \E o \in WindowOf(os, now, days) : key \in SliceKeys(o, days)
  BY DEF ComputeBaselines
<1>2. PICK o \in WindowOf(os, now, days) : key \in SliceKeys(o, days)
  BY <1>1
<1>3. key.days = days /\ key.type = o.type /\ Matches(o, key)
  BY <1>2, KeyIs
<1>4. ComputeBaselines(os, now)[key] = s
  BY DEF ComputeBaselines, ComputeSlice
<1>5. o \in os /\ o \in W /\ W \subseteq os
  BY <1>2, <1>3 DEF WindowOf
<1>6. IsFigured(s)
  BY <1>4, SlicesAre
<1> HIDE DEF W
<1>7. S \subseteq os /\ S # {}
  BY <1>5, LatestAreThere
<1>8. p \subseteq S /\ u \subseteq S
  <2>1. DOMAIN [x \in S |-> x.price] = S /\ DOMAIN [x \in S |-> x.unit] = S
    OBVIOUS
  <2> QED BY <2>1, OutliersAre
<1>9. AreFigured(os)
  BY DEF IsStored, AreFigured, IsRecord, IsObservation
<1>10. IsFigure([x \in S \ p |-> x.price]) /\ IsFigure([x \in S \ u |-> x.unit]) /\ IsFiniteSet(S)
  <2>1. S \ p \subseteq os /\ S \ u \subseteq os
    BY <1>7
  <2> HIDE DEF S, p, u
  <2> QED BY <1>7, <1>9, <2>1, FiguresOfPart
<1> HIDE DEF S, p, u, q
<1>11. /\ s.samples = Cardinality(S) /\ s.outliers = {x.id : x \in p \cup u} /\ s.liquidity = q
      /\ s.price = PercentileSet([x \in S \ p |-> x.price]) /\ s.unit = PercentileSet([x \in S \ u |-> x.unit])
  BY DEF SliceOf
<1> HIDE DEF s
<1>12. s.samples > 0 /\ Cardinality(s.outliers) <= s.samples
  <2>1. Cardinality(S) \in Nat /\ Cardinality(S) # 0
    BY <1>7, <1>10, FS_CardinalityType, FS_EmptySet
  <2>2. p \cup u \subseteq S
    BY <1>8
  <2>3. Cardinality({x.id : x \in p \cup u}) <= Cardinality(S)
    BY <1>10, <2>2, IdsAreFew
  <2> QED BY <1>11, <2>1, <2>3
<1>13. /\ s.price.p50 # None => /\ s.price.p10 <= s.price.p25 /\ s.price.p25 <= s.price.p50
                                /\ s.price.p50 <= s.price.p75 /\ s.price.p75 <= s.price.p90
       /\ s.unit.p50 # None => /\ s.unit.p10 <= s.unit.p25 /\ s.unit.p25 <= s.unit.p50
                               /\ s.unit.p50 <= s.unit.p75 /\ s.unit.p75 <= s.unit.p90
  BY <1>10, <1>11, PercentilesAreOrdered
<1>14. key.type \in {"listing", "transaction"} /\ key.days \in {30, 90, 180, 365}
  <2>1. MarketConfig.windows \subseteq {30, 90, 180, 365}
    BY MarketConfigIsValid DEF IsMarketConfig
  <2>2. o.type \in {"listing", "transaction"}
    BY <1>5 DEF IsStored, IsRecord, IsObservation
  <2> QED BY <1>3, <2>1, <2>2
<1>15. s.liquidity = None \/ (key.type = "listing" /\ s.liquidity \in 0 .. 100)
  BY <1>6, <1>11 DEF IsFigured, IsDepth, q
<1>16. s.confidence \in ToSet(Levels)
  BY <1>6, LevelsAre DEF IsFigured, IsLevel
<1>17. LET level == CHOOSE i \in 1 .. 4 : <<"shanghai", "district", "submarket", "community">>[i] = key.level
       IN  \A i \in 1 .. 3 : (<<key.district, key.submarket, key.community>>[i] # None) = (i < level)
  BY <1>2, KeyIs
<1> QED BY <1>4, <1>12, <1>13, <1>14, <1>15, <1>16, <1>17 DEF IsSlice

\* What is stored about a home is typed.
LEMMA RecordsAreTyped ==
    ASSUME NEW os, IsStored(os), NEW o \in os
    PROVE  IsTyped(o) /\ o.price \in Int /\ o = [f \in ObservationFields |-> o[f]]
<1>1. IsObservation(o) /\ IsHome(o.home)
  BY DEF IsStored, IsRecord
<1>2. /\ o = [f \in ObservationFields |-> o[f]]
      /\ \A f \in {"id", "day", "firstSeen", "area", "price", "unit"} : o[f] \in Int
      /\ o.area > 0
  BY <1>1 DEF IsObservation
<1>3. o.day \in Int /\ o.area \in Int /\ o.price \in Int /\ o.unit \in Int
  BY <1>2
<1>4. o.trust \in Int
  <2> DEFINE k == 1000
  <2>1. o.trust \in 0 .. k
    BY <1>1 DEF IsObservation
  <2>2. k \in Int
    OBVIOUS
  <2> HIDE DEF k
  <2> QED BY <2>1, <2>2
<1> QED BY <1>1, <1>2, <1>3, <1>4 DEF IsTyped

\* The candidates are some of the observations.
LEMMA CandidatesAreTyped ==
    ASSUME NEW os, IsStored(os), NEW t, NEW now
    PROVE  IsFiniteSet(Candidates(os, t, now)) /\ \A o \in Candidates(os, t, now) : IsTyped(o)
<1> DEFINE S == Candidates(os, t, now)
<1>1. S \subseteq os
  BY DEF Candidates
<1> HIDE DEF S
<1>2. IsFiniteSet(S) /\ \A o \in S : IsTyped(o)
  BY <1>1, FS_Subset, RecordsAreTyped DEF IsStored
<1> QED BY <1>2 DEF S

\* The home that is valued is typed.
LEMMA TargetIsTyped ==
    ASSUME NEW os, IsStored(os), NEW l \in Homes, \E o \in os : o.type = "listing" /\ o.listing = l
    PROVE  IsTarget(Target(os, l))
<1> DEFINE seen == SeenOf(os, l)
           o == CHOOSE o \in seen : \A p \in seen \ {o} : Later(o, p)
           told == [o EXCEPT !.home = [@ EXCEPT !.metro = None, !.layoutQuality = None, !.noise = None]]
           t == [told EXCEPT !.home.metro = MetroOf[told.community]]
<1>1. seen \subseteq os /\ seen # {}
  BY DEF SeenOf
<1>2. Target(os, l) = t
  BY DEF Target, TargetOf
<1> HIDE DEF seen
<1>3. o \in os
  <2>1. PICK m : IsLast(seen, m)
    BY <1>1, LastIsChosen
  <2> QED BY <1>1, <2>1 DEF IsLast
<1>4. o.community \in DOMAIN MetroOf
  BY <1>3 DEF IsStored
<1>5. IsTyped(o) /\ o.price \in Int /\ o = [f \in ObservationFields |-> o[f]]
  BY <1>3, RecordsAreTyped
<1>6. IsHome(o.home)
  BY <1>5 DEF IsTyped
<1> HIDE DEF o
<1> DEFINE metro == MetroOf[told.community]
<1>7. /\ \A f \in ObservationFields \ {"home"} : told[f] = o[f]
      /\ told = [f \in ObservationFields |-> told[f]]
      /\ told.home = [o.home EXCEPT !.metro = None, !.layoutQuality = None, !.noise = None]
  BY <1>5 DEF ObservationFields
<1> HIDE DEF told
<1>8. metro = None \/ metro \in Nat
  <2>1. told.community = o.community
    BY <1>7 DEF ObservationFields
  <2> QED BY <1>4, <2>1, PlacesAreNumbers
<1>9. /\ \A f \in ObservationFields \ {"home"} : t[f] = told[f]
      /\ t.home = [told.home EXCEPT !.metro = metro]
  BY <1>7 DEF ObservationFields
<1> HIDE DEF t, metro
<1> DEFINE h == o.home
           g == t.home
<1>10. h = [f \in HomeFields |-> h[f]]
  BY <1>6 DEF IsHome
<1>11. /\ \A f \in HomeFields \ {"metro", "layoutQuality", "noise"} : g[f] = h[f]
       /\ g = [f \in HomeFields |-> g[f]]
       /\ g.metro = metro /\ g.layoutQuality = None /\ g.noise = None
  BY <1>7, <1>9, <1>10 DEF HomeFields
<1>12. IsHome(g)
  <2> HIDE DEF g, h
  <2>1. g.floor = h.floor /\ g.elevator = h.elevator /\ g.orientation = h.orientation
    BY <1>11 DEF HomeFields
  <2>2. \A n \in {"floors", "year", "bedrooms", "employment", "amenities"} : g[n] = h[n]
    BY <1>11 DEF HomeFields
  <2>3. IsHome(h)
    BY <1>6 DEF h
  <2>4. \A n \in {"floors", "year", "metro", "bedrooms"} : g[n] = None \/ g[n] \in Nat
    <3>1. \A n \in {"floors", "year", "metro", "bedrooms"} : h[n] = None \/ h[n] \in Nat
      BY <2>3 DEF IsHome
    <3> QED BY <1>8, <1>11, <2>2, <3>1
  <2>5. \A n \in {"employment", "amenities"} : g[n] = None \/ g[n] \in 0 .. 100
    <3>1. \A n \in {"employment", "amenities"} : h[n] = None \/ h[n] \in 0 .. 100
      BY <2>3 DEF IsHome
    <3> QED BY <2>2, <3>1
  <2>6. /\ \/ g.floor = None
           \/ g.floor[1] = "at" /\ g.floor[2] \in Int
           \/ g.floor[1] = "named" /\ g.floor[2] \in FloorNames
        /\ g.elevator \in BOOLEAN \cup {None}
        /\ g.orientation = None \/ g.orientation \in DOMAIN ValuationConfig.adjustments.orientation
    BY <2>1, <2>3 DEF IsHome
  <2> QED BY <1>11, <2>4, <2>5, <2>6 DEF IsHome
<1>13. t.area = o.area /\ t.day = o.day /\ t.unit = o.unit /\ t.trust = o.trust /\ t.price = o.price
  BY <1>7, <1>9 DEF ObservationFields
<1>14. IsTarget(t)
  BY <1>5, <1>11, <1>12, <1>13 DEF IsTarget, IsTyped
<1> QED BY <1>2, <1>14

\* Runs of the baselines: the day of each, and slices that are typed and stored.
AreRuns(list) ==
    /\ \E S : list \in Seq(S)
    /\ \A i \in DOMAIN list :
          /\ list[i].day \in Int
          /\ \A key \in DOMAIN list[i].slices : IsFigured(list[i].slices[key]) /\ IsSlice(key, list[i].slices[key])

\* A run over what is stored is one of them.
LEMMA RunIs ==
    ASSUME NEW os, IsStored(os), NEW day \in Int
    PROVE  LET run == RunOf(os, day)
           IN  /\ run.day \in Int
               /\ \A key \in DOMAIN run.slices : IsFigured(run.slices[key]) /\ IsSlice(key, run.slices[key])
<1> DEFINE seen == {o \in os : o.day <= day}
           slices == ComputeBaselines(seen, day)
<1>1. RunOf(os, day) = [day |-> day, slices |-> slices]
  BY DEF RunOf
<1>2. seen \subseteq os
  OBVIOUS
<1> HIDE DEF seen
<1>3. IsStored(seen)
  BY <1>2, FS_Subset DEF IsStored
<1>4. \A key \in DOMAIN slices : IsFigured(slices[key]) /\ IsSlice(key, slices[key])
  BY <1>3, SlicesAre, SlicesMayBeStored
<1> HIDE DEF slices
<1> QED BY <1>1, <1>4

\* One more of them.
LEMMA RunsGrow ==
    ASSUME NEW list, AreRuns(list), NEW os, IsStored(os), NEW day \in Int
    PROVE  AreRuns(Append(list, RunOf(os, day)))
<1> DEFINE run == RunOf(os, day)
           longer == Append(list, run)
<1>1. PICK S : list \in Seq(S)
  BY DEF AreRuns
<1>2. run.day \in Int /\ \A key \in DOMAIN run.slices : IsFigured(run.slices[key]) /\ IsSlice(key, run.slices[key])
  BY RunIs
<1> HIDE DEF run
<1>3. list \in Seq(S \cup {run})
  BY <1>1
<1>4. longer \in Seq(S \cup {run})
  BY <1>3
<1>5. /\ DOMAIN longer = 1 .. Len(list) + 1 /\ DOMAIN list = 1 .. Len(list) /\ Len(list) \in Nat
      /\ \A i \in 1 .. Len(list) : longer[i] = list[i]
      /\ longer[Len(list) + 1] = run
  BY <1>3
<1>6. \A i \in DOMAIN longer : longer[i] = run \/ (i \in DOMAIN list /\ longer[i] = list[i])
  BY <1>5
<1> HIDE DEF longer
<1> QED BY <1>2, <1>4, <1>6 DEF AreRuns, longer, run

\* The slices that are published are those of a run.
LEMMA PublishedAre ==
    ASSUME AreRuns(runs)
    PROVE  \A key \in DOMAIN Published : IsFigured(Published[key])
<1>1. CASE runs = <<>>
  BY <1>1 DEF Published
<1>2. CASE runs # <<>>
  <2>1. PICK S : runs \in Seq(S)
    BY DEF AreRuns
  <2>2. Len(runs) \in DOMAIN runs
    BY <1>2, <2>1
  <2>3. Published = runs[Len(runs)].slices
    BY <1>2 DEF Published
  <2> QED BY <2>2, <2>3 DEF AreRuns
<1> QED BY <1>1, <1>2

\* The slice that P5 looks at is of one of the runs.
LEMMA CarriedAre ==
    ASSUME NEW list, AreRuns(list), NEW t, NEW slice \in CarriedSlices(list, t, Now)
    PROVE  IsCarried(slice)
<1> DEFINE all == UNION {{<<i, k>> : k \in DOMAIN list[i].slices} : i \in DOMAIN list}
           carried(x) == [figures |-> list[x[1]].slices[x[2]], day |-> list[x[1]].day]
<1>1. \A x \in all : x[1] \in DOMAIN list /\ x[2] \in DOMAIN list[x[1]].slices
  <2> SUFFICES ASSUME NEW i \in DOMAIN list, NEW k \in DOMAIN list[i].slices
               PROVE  <<i, k>>[1] \in DOMAIN list /\ <<i, k>>[2] \in DOMAIN list[<<i, k>>[1]].slices
    OBVIOUS
  <2>1. <<i, k>>[1] = i /\ <<i, k>>[2] = k
    OBVIOUS
  <2> QED BY <2>1
<1>2. slice = None \/ \E x \in all : slice = carried(x)
  BY DEF CarriedSlices
<1>4. IsCarried(None)
  BY DEF IsCarried
<1> HIDE DEF all
<1>3. ASSUME NEW x \in all PROVE IsCarried(carried(x))
  <2>1. IsFigured(list[x[1]].slices[x[2]]) /\ list[x[1]].day \in Int
    BY <1>1 DEF AreRuns
  <2> DEFINE y == carried(x)
  <2>2. y.figures = list[x[1]].slices[x[2]] /\ y.day = list[x[1]].day
    OBVIOUS
  <2> HIDE DEF y
  <2>3. IsCarried(y)
    BY <2>1, <2>2 DEF IsCarried
  <2> QED BY <2>3 DEF y
<1> HIDE DEF carried
<1> QED BY <1>2, <1>3, <1>4

\* A score that the rules return is one for its column.
LEMMA ScoreMayBeStored == \A x : IsMaybeScore(x) => IsScore(x)
BY DEF IsMaybeScore, IsScore, InScore, Whole, Scores

\* An outlook may be stored, but for the rounding of its scores.
LEMMA OutlookMayBeStored ==
    ASSUME NEW e, IsEvidence(e), NEW t, IsHome(t.home), NEW v, v.fair \in Int,
           NEW factors, AreFactors(factors), NEW now \in Int
    PROVE  FitsButForRounding(OutlookFrom(factors, e, t, v, now))
<1> DEFINE score == FutureScore(factors)
           risk == ObsolescenceRisk(e, t, v.fair, factors, now)
           trust == FutureConfidence(e, factors, score.coverage, now)
           f == OutlookFrom(factors, e, t, v, now)
<1>1. /\ f.score = score.score /\ f.coverage = score.coverage
      /\ f.risk = risk.score /\ f.riskCoverage = risk.coverage
      /\ f.alpha = StructuralAlpha(e, factors) /\ f.confidence = trust.level
      /\ f.calibration = CalibrationState(e) /\ f.quadrant = Quadrant(v.score, score.score)
  BY DEF OutlookFrom, OutlookRow
<1>2. Brighter(factors, factors)
  <2>1. \A n \in AllFutureFactors : factors[n].future # None => factors[n].future <= factors[n].future
    BY WholeIs DEF AreFactors, IsFactor, IsMaybeScore
  <2> QED BY <2>1 DEF Brighter
<1>3. IsRoundedMean(score.score, ScoreFactors) /\ score.coverage \in Int /\ score.coverage \in 0 .. 100
  BY FutureScoreIs
<1>4. IsRoundedMean(risk.score, RiskParts) /\ risk.coverage \in 0 .. 100
  BY <1>2, RiskFalls
<1>5. StructuralAlpha(e, factors) \in AlphaRange
  BY <1>2, AlphaRises
<1>6. IsLevel(trust.level)
  BY <1>2, <1>3, TrustRises
<1>7. CalibrationState(e) \in {"calibrated", "partially_calibrated", "uncalibrated"}
  BY DEF CalibrationState
<1>8. ASSUME NEW x PROVE (Quadrant(v.score, x) = None) = (x = None)
  <2>1. x # None => Quadrant(v.score, x) \in Quadrants
    BY DEF Quadrant, Quadrants
  <2>2. x = None => Quadrant(v.score, x) = None
    BY DEF Quadrant
  <2> QED BY <2>1, <2>2, NoneIsNoQuadrant
<1> HIDE DEF score, risk, trust, f
<1>9. IsRoundedMean(f.score, ScoreFactors) /\ IsRoundedMean(f.risk, RiskParts) /\ f.alpha \in AlphaRange
  BY <1>1, <1>3, <1>4, <1>5
<1>10. f.coverage \in 0 .. 100 /\ f.riskCoverage \in 0 .. 100
  BY <1>1, <1>3, <1>4
<1>11. f.confidence \in ToSet(Levels)
  BY <1>1, <1>6, LevelsAre DEF IsLevel
<1>12. (f.quadrant = None) = (f.score = None)
  BY <1>1, <1>8
<1>13. FitsButForRounding(f)
  BY <1>1, <1>7, <1>9, <1>10, <1>11, <1>12 DEF FitsButForRounding, OutlookFits
<1> QED BY <1>13 DEF f

\* An assessment is made of typed factors and of a priced valuation.
IsAssessed(a) ==
    /\ a = Assessment(a.evidence, a.home, a.factors, a.valuation, a.outlook)
    /\ a.evidence \in EvidenceCases /\ IsHome(a.home.home) /\ AreFactors(a.factors)
    /\ IsPriced(a.valuation) /\ IsValuationRow(a.valuation) /\ a.valuation.score \in Int
    /\ a.outlook = OutlookFrom(a.factors, a.evidence, a.home, a.valuation, Now)
    /\ IsScore(a.outlook.score) /\ IsScore(a.outlook.risk)

\* The evidence, the runs, the assessments and what was refused.
ChainTyped ==
    /\ EvidenceStored
    /\ AreRuns(runs)
    /\ \A l \in Homes : assessed[l] # None => IsAssessed(assessed[l])
    /\ RefusedForRounding

\* The first states have it.
LEMMA ChainTypedInit == ChainInit => ChainTyped
<1> SUFFICES ASSUME ChainInit PROVE ChainTyped
  OBVIOUS
<1>1. (\A l \in Homes : assessed[l] = None) /\ refused = {}
  BY DEF ChainInit
<1>2. PICK s \in Starts :
         book = s.book /\ pool = s.pool /\ runs = [i \in 1 .. Len(s.runs) |-> RunOf(s.book, s.runs[i])]
  BY DEF ChainInit
<1>3. IsStored(s.book)
  <2>1. IsStored(book \cup pool)
    BY EvidenceInit DEF EvidenceStored
  <2>2. IsFiniteSet(book)
    BY <2>1, FS_Subset DEF IsStored
  <2> QED BY <1>2, <2>1, <2>2 DEF IsStored
<1>4. s.runs \in Seq(Int)
  BY EvidenceIsStored
<1> DEFINE n == Len(s.runs)
           S == {RunOf(s.book, s.runs[i]) : i \in 1 .. n}
<1>5. n \in Nat /\ \A i \in 1 .. n : s.runs[i] \in Int
  BY <1>4
<1>6. runs \in Seq(S)
  BY <1>2, <1>5
<1>7. DOMAIN runs = 1 .. n /\ \A i \in 1 .. n : runs[i] = RunOf(s.book, s.runs[i])
  BY <1>2
<1> HIDE DEF n, S
<1>8. AreRuns(runs)
  BY <1>3, <1>5, <1>6, <1>7, RunIs DEF AreRuns
<1> QED BY <1>1, <1>8, EvidenceInit DEF ChainTyped, RefusedForRounding

\* What an assessment leaves is as it says.
LEMMA AssessmentIs ==
    ASSUME NEW e \in EvidenceCases, NEW t, IsTarget(t), NEW factors, AreFactors(factors),
           NEW v, IsPriced(v), IsValuationRow(v), v.score \in Int,
           IsScore(OutlookFrom(factors, e, t, v, Now).score), IsScore(OutlookFrom(factors, e, t, v, Now).risk)
    PROVE  IsAssessed(Assessment(e, t, factors, v, OutlookFrom(factors, e, t, v, Now)))
<1> DEFINE f == OutlookFrom(factors, e, t, v, Now)
           d == Decide(DecisionInputs(v, f))
           a == Assessment(e, t, factors, v, f)
<1>1. IsHome(t.home)
  BY DEF IsTarget, IsTyped
<1>2. a = [evidence |-> e, home |-> t, factors |-> factors, valuation |-> v, outlook |-> f, decision |-> d]
  BY DEF Assessment
<1> HIDE DEF f, d
<1>3. a.evidence = e /\ a.home = t /\ a.factors = factors /\ a.valuation = v /\ a.outlook = f
  BY <1>2
<1> HIDE DEF a
<1>4. a = Assessment(a.evidence, a.home, a.factors, a.valuation, a.outlook)
  BY <1>3 DEF a
<1>5. IsAssessed(a)
  BY <1>1, <1>3, <1>4 DEF IsAssessed, f
<1> QED BY <1>5 DEF a, f

\* Every step keeps it.
LEMMA ChainTypedNext == ChainTyped /\ [ChainNext]_chainVars => ChainTyped'
<1> SUFFICES ASSUME ChainTyped, [ChainNext]_chainVars PROVE ChainTyped'
  OBVIOUS
<1>1. EvidenceStored /\ EvidenceStored'
  BY EvidenceNext DEF ChainTyped
<1>2. IsStored(book) /\ Seen \subseteq Homes
  BY <1>1, SeenAreHomes
<1>3. Now \in Int /\ \A e \in EvidenceCases : IsEvidence(e)
  BY EvidenceIsStored
<1>4. AreRuns(runs)'
  <2>1. CASE runs' = runs
    BY <2>1 DEF ChainTyped, AreRuns
  <2>2. CASE Materialize
    <3>1. runs' = Append(runs, RunOf(book, Now)) /\ AreRuns(runs)
      BY <2>2 DEF Materialize, ChainTyped
    <3>2. AreRuns(Append(runs, RunOf(book, Now)))
      BY <1>2, <1>3, <3>1, RunsGrow
    <3> QED BY <3>1, <3>2 DEF AreRuns
  <2> QED BY <2>1, <2>2 DEF ChainNext, chainVars, Observe, Assess
<1>5. (\A l \in Homes : assessed[l] # None => IsAssessed(assessed[l]))' /\ RefusedForRounding'
  <2>1. CASE assessed' = assessed /\ refused' = refused
    BY <2>1 DEF ChainTyped, Homes, RefusedForRounding
  <2>2. CASE Assess
    <3>1. PICK m \in Seen, e \in EvidenceCases :
             \E t \in {Target(book, m)} :
             \E v \in {Valuation(book, m)}, slice \in CarriedSlices(runs, t, Now) :
                /\ v.fair # None /\ ValidInputs(v)
                /\ \E factors \in {BuildFactors(e, t, slice, Now)} :
                   \E f \in {OutlookFrom(factors, e, t, v, Now)} :
                      \/ /\ IsScore(f.score) /\ IsScore(f.risk)
                         /\ assessed' = [assessed EXCEPT ![m] = Assessment(e, t, factors, v, f)]
                         /\ refused' = refused
                      \/ refused' = refused \cup {f} /\ assessed' = assessed
      BY <2>2 DEF Assess
    <3> DEFINE t == Target(book, m)
               v == Valuation(book, m)
    <3>2. PICK slice \in CarriedSlices(runs, t, Now) :
             /\ v.fair # None /\ ValidInputs(v)
             /\ LET factors == BuildFactors(e, t, slice, Now)
                    f == OutlookFrom(factors, e, t, v, Now)
                IN  \/ /\ IsScore(f.score) /\ IsScore(f.risk)
                       /\ assessed' = [assessed EXCEPT ![m] = Assessment(e, t, factors, v, f)]
                       /\ refused' = refused
                    \/ refused' = refused \cup {f} /\ assessed' = assessed
      BY <3>1
    <3>3. IsTarget(t)
      BY <1>2, TargetIsTyped DEF Seen
    <3>4. IsPriced(v) /\ IsValuationRow(v)
      <4>1. v = EvaluateValuation(book, Published, t, PriceHistory(book, t, Now), Now)
        BY DEF Valuation, ValuationAt
      <4>2. IsFiniteSet(Candidates(book, t, Now)) /\ \A o \in Candidates(book, t, Now) : IsTyped(o)
        BY <1>2, CandidatesAreTyped
      <4>3. \A key \in DOMAIN Published : IsFigured(Published[key])
        BY PublishedAre DEF ChainTyped
      <4> HIDE DEF t, v
      <4> QED BY <1>3, <3>2, <3>3, <4>1, <4>2, <4>3, EvaluationIs
    <3>5. v.score \in Int
      <4>1. ValidInputs(v)
        BY <3>2
      <4> HIDE DEF v
      <4>2. InScore(v.score)
        BY <4>1, ScoresAre DEF ValidInputs
      <4> QED BY <4>2, WholeIs
    <3>6. IsHome(t.home) /\ t.day \in Int
      BY <3>3 DEF IsTarget, IsTyped
    <3> DEFINE factors == BuildFactors(e, t, slice, Now)
    <3>7. AreFactors(factors)
      <4>1. IsCarried(slice)
        BY CarriedAre DEF ChainTyped
      <4> QED BY <1>3, <3>6, <4>1, FactorsAre
    <3> DEFINE f == OutlookFrom(factors, e, t, v, Now)
               a == Assessment(e, t, factors, v, f)
    <3>8. \/ /\ IsScore(f.score) /\ IsScore(f.risk)
             /\ assessed' = [assessed EXCEPT ![m] = a] /\ refused' = refused
          \/ refused' = refused \cup {f} /\ assessed' = assessed
      BY <3>2
    <3> HIDE DEF t, v, factors
    <3>9. CASE assessed' = assessed /\ refused' = refused \cup {f}
      <4>1. FitsButForRounding(f)
        <5>1. v.fair \in Int /\ IsEvidence(e) /\ Now \in Int
          BY <1>3, <3>4 DEF IsPriced
        <5> QED BY <3>6, <3>7, <5>1, OutlookMayBeStored
      <4> HIDE DEF f
      <4> QED BY <3>9, <4>1 DEF ChainTyped, Homes, RefusedForRounding
    <3>10. CASE IsScore(f.score) /\ IsScore(f.risk) /\ assessed' = [assessed EXCEPT ![m] = a] /\ refused' = refused
      <4>1. IsAssessed(a)
        BY <3>3, <3>4, <3>5, <3>7, <3>10, AssessmentIs
      <4> HIDE DEF a, f
      <4> QED BY <1>1, <3>10, <4>1 DEF ChainTyped, EvidenceStored, Homes, RefusedForRounding
    <3> QED BY <3>8, <3>9, <3>10
  <2> QED BY <2>1, <2>2 DEF ChainNext, chainVars, Observe, Materialize
<1> QED BY <1>1, <1>4, <1>5 DEF ChainTyped, IsAssessed, RefusedForRounding

\* The chain only makes assessments whose figures are typed: what the theorems
\* about decisions rest on, for every configuration and every evidence.
THEOREM ChainTypedHolds == ChainSpec => []ChainTyped
BY ChainTypedInit, ChainTypedNext, PTL DEF ChainSpec

\* A depth is kept.
LEMMA DepthStays ==
    ASSUME NEW x \in 0 .. 100
    PROVE  OrZero(x) = x
<1> DEFINE low == 0
           high == 100
<1>1. low \in Int /\ high \in Int /\ x \in Int /\ low <= x /\ x <= high /\ x # None
  BY NoneIsNoNumber
<1>2. OrZero(x) = IF x = None THEN low ELSE Bounded(low, x, high)
  BY DEF OrZero
<1> HIDE DEF low, high
<1> QED BY <1>1, <1>2, BoundedIs

\* The better has no greater a figure in its key, and keys that are not the
\* same differ in one.
LEMMA KeysFollow ==
    ASSUME NEW i, IsInputs(i), NEW j, IsInputs(j), AtLeast(i, j), i.alpha >= j.alpha, Decide(j).status = "ELIGIBLE"
    PROVE  \A n \in 1 .. 7 : DecisionSortKey(Decide(i))[n] <= DecisionSortKey(Decide(j))[n]
<1> DEFINE r == DecisionConfig.ranking
           class(x) == r.classification[Decide(x).class]
           trust(x) == Min({r.confidence[x.valuationConfidence], r.confidence[x.futureConfidence]})
           key(x) == DecisionSortKey(Decide(x))
<1>1. Decide(i).status = "ELIGIBLE" /\ class(i) >= class(j) /\ class(i) \in Int /\ class(j) \in Int
  BY BetterGoesFurther
<1>2. /\ key(i) = <<-class(i), -trust(i), -i.liquidity, -i.future, -i.value, i.risk, -i.alpha>>
      /\ key(j) = <<-class(j), -trust(j), -j.liquidity, -j.future, -j.value, j.risk, -j.alpha>>
      /\ trust(i) \in Int /\ i.future \in Int /\ i.risk \in Int
      /\ trust(j) \in Int /\ j.future \in Int /\ j.risk \in Int
  <2>1. 0 \in Int
    OBVIOUS
  <2> QED BY <1>1, <2>1, SortKeyIs
<1>3. trust(i) >= trust(j)
  <2> DEFINE a == r.confidence[i.valuationConfidence]
             b == r.confidence[i.futureConfidence]
             c == r.confidence[j.valuationConfidence]
             d == r.confidence[j.futureConfidence]
  <2>1. a \in Int /\ b \in Int /\ c \in Int /\ d \in Int
    BY DecisionConfigIs DEF IsInputs
  <2>2. c <= a /\ d <= b
    <3>1. \A x : IsLevel(x) => LevelOrder(x) \in Int
      BY LevelsAre
    <3>2. /\ LevelOrder(j.valuationConfidence) <= LevelOrder(i.valuationConfidence)
          /\ LevelOrder(j.futureConfidence) <= LevelOrder(i.futureConfidence)
      BY <3>1 DEF AtLeast, IsInputs
    <3> QED BY <3>2, DecisionConfigIs DEF IsInputs
  <2>3. trust(i) = Min({a, b}) /\ trust(j) = Min({c, d})
    OBVIOUS
  <2> HIDE DEF a, b, c, d, trust
  <2>4. Min({a, b}) = (IF a <= b THEN a ELSE b) /\ Min({c, d}) = (IF c <= d THEN c ELSE d)
    BY <2>1, MinOfTwo
  <2> QED BY <2>1, <2>2, <2>3, <2>4
<1> HIDE DEF class, trust, key
<1>4. /\ -class(i) <= -class(j) /\ -trust(i) <= -trust(j) /\ -i.liquidity <= -j.liquidity
      /\ -i.future <= -j.future /\ -i.value <= -j.value /\ i.risk <= j.risk /\ -i.alpha <= -j.alpha
  BY <1>1, <1>2, <1>3 DEF IsInputs, AtLeast
<1>5. \A n \in 1 .. 7 : key(i)[n] <= key(j)[n]
  BY <1>2, <1>4
<1> QED BY <1>5 DEF key

\* A sort key has seven places.
LEMMA KeyIsATuple ==
    ASSUME NEW d
    PROVE  \E a, b, c, e, f, g, h : DecisionSortKey(d) = <<a, b, c, e, f, g, h>>
<1> DEFINE k == DecisionSortKey(d)
<1>1. k = <<k[1], k[2], k[3], k[4], k[5], k[6], k[7]>>
  BY DEF DecisionSortKey
<1> HIDE DEF k
<1>2. \E a, b, c, e, f, g, h : k = <<a, b, c, e, f, g, h>>
  BY <1>1, Zenon
<1> QED BY <1>2 DEF k

\* Two sort keys that differ do so in one of their seven places.
LEMMA KeysDiffer ==
    ASSUME NEW i, IsInputs(i), Decide(i).status = "ELIGIBLE", NEW j, IsInputs(j), Decide(j).status = "ELIGIBLE",
           DecisionSortKey(Decide(i)) # DecisionSortKey(Decide(j))
    PROVE  \E n \in 1 .. 7 : DecisionSortKey(Decide(i))[n] # DecisionSortKey(Decide(j))[n]
<1> DEFINE x == DecisionSortKey(Decide(i))
           y == DecisionSortKey(Decide(j))
<1>2. /\ \E a, b, c, d, e, f, g : x = <<a, b, c, d, e, f, g>>
      /\ \E a, b, c, d, e, f, g : y = <<a, b, c, d, e, f, g>>
  BY KeyIsATuple, Zenon
<1> HIDE DEF x, y
<1>3. x # y
  BY DEF x, y
<1>4. \E n \in 1 .. 7 : x[n] # y[n]
  <2>1. PICK a, b, c, d, e, f, g : x = <<a, b, c, d, e, f, g>>
    BY <1>2
  <2>2. PICK h, k, l, m, n, o, p : y = <<h, k, l, m, n, o, p>>
    BY <1>2
  <2> QED BY <1>3, <2>1, <2>2
<1> QED BY <1>4 DEF x, y

\* The assessment of a home is made of what it says.
LEMMA DecisionsAre ==
    ASSUME ChainTyped, NEW l \in DOMAIN Decisions
    PROVE  /\ l \in Homes /\ IsAssessed(assessed[l]) /\ IsEvidence(assessed[l].evidence)
           /\ Decisions[l] = Decide(DecisionInputs(assessed[l].valuation, assessed[l].outlook))
           /\ Decisions[l].inputs = DecisionInputs(assessed[l].valuation, assessed[l].outlook)
           /\ IsInputs(Decisions[l].inputs)
<1> DEFINE a == assessed[l]
           i == DecisionInputs(a.valuation, a.outlook)
<1>1. l \in Homes /\ a # None /\ Decisions[l] = a.decision
  BY DEF Decisions
<1>2. IsAssessed(a)
  BY <1>1 DEF ChainTyped
<1>3. IsEvidence(a.evidence) /\ Now \in Int
  BY <1>2, EvidenceIsStored DEF IsAssessed
<1>4. a.decision = Decide(i)
  <2> DEFINE b == Assessment(a.evidence, a.home, a.factors, a.valuation, a.outlook)
  <2>1. a = b
    BY <1>2 DEF IsAssessed
  <2>2. b.decision = Decide(i)
    BY DEF Assessment
  <2> HIDE DEF b, i
  <2> QED BY <2>1, <2>2
<1>5. IsInputs(i)
  <2> DEFINE e == a.evidence
             t == a.home
             v == a.valuation
             factors == a.factors
  <2>1. /\ IsHome(t.home) /\ AreFactors(factors) /\ IsPriced(v) /\ v.score \in Int
        /\ a.outlook = OutlookFrom(factors, e, t, v, Now)
    BY <1>2 DEF IsAssessed
  <2>2. i = DecisionInputs(v, OutlookFrom(factors, e, t, v, Now))
    BY <2>1
  <2> HIDE DEF e, t, v, factors, i
  <2>3. IsEvidence(e)
    BY <1>3 DEF e
  <2> QED BY <1>3, <2>1, <2>2, <2>3, OutlookIs
<1>6. Decide(i).inputs = i
  BY DEF Decide
<1> HIDE DEF i
<1> QED BY <1>1, <1>2, <1>3, <1>4, <1>5, <1>6 DEF i

\* Raising a favourable factor that is known makes the factors brighter.
LEMMA RaisedIsBrighter ==
    ASSUME NEW low, AreFactors(low), NEW n \in Favourable, low[n].future # None
    PROVE  LET high == [low EXCEPT ![n].future = 10000]
           IN  AreFactors(high) /\ Brighter(high, low)
<1> DEFINE high == [low EXCEPT ![n].future = Whole]
           f == [low[n] EXCEPT !.future = Whole]
<1>1. n \in AllFutureFactors /\ n \notin {"building_aging", "product_obsolescence"}
  BY DEF Favourable, AllFutureFactors, ScoreFactors
<1>2. low = [m \in AllFutureFactors |-> low[m]] /\ \A m \in AllFutureFactors : IsFactor(low[m])
  BY DEF AreFactors
<1>3. high = [m \in AllFutureFactors |-> IF m = n THEN f ELSE low[m]]
  BY <1>1, <1>2
<1>4. low[n] = [k \in FactorFields |-> low[n][k]]
  BY <1>1, <1>2 DEF IsFactor
<1>5. /\ f = [k \in FactorFields |-> f[k]] /\ f.future = Whole
      /\ f.current = low[n].current /\ f.confidence = low[n].confidence /\ f.at = low[n].at
  BY <1>4 DEF FactorFields
<1> HIDE DEF f
<1>6. IsFactor(f)
  BY <1>1, <1>2, <1>5, WholeIs DEF IsFactor, IsMaybeScore, InScore
<1> HIDE DEF high
<1>7. AreFactors(high)
  <2>1. high = [m \in AllFutureFactors |-> high[m]]
    BY <1>3
  <2>2. \A m \in AllFutureFactors : IsFactor(high[m])
    BY <1>2, <1>3, <1>6
  <2> QED BY <2>1, <2>2 DEF AreFactors
<1>8. \A m \in AllFutureFactors : low[m].future # None => low[m].future \in Int /\ low[m].future <= Whole
  BY <1>2, WholeIs DEF IsFactor, IsMaybeScore
<1>9. Brighter(high, low)
  <2> SUFFICES ASSUME NEW m \in AllFutureFactors
               PROVE  /\ high[m].current = low[m].current /\ high[m].confidence = low[m].confidence
                      /\ high[m].at = low[m].at /\ (high[m].future = None) = (low[m].future = None)
                      /\ low[m].future # None => low[m].future <= high[m].future
                      /\ m \in {"building_aging", "product_obsolescence"} => high[m].future = low[m].future
    BY DEF Brighter
  <2>1. CASE m = n
    BY <1>1, <1>3, <1>5, <1>8, <2>1, WholeIs, NoneIsNoNumber
  <2>2. CASE m # n
    BY <1>3, <1>8, <2>2
  <2> QED BY <2>1, <2>2
<1> QED BY <1>7, <1>9 DEF high, Whole

\* A better prospect costs no assessed home anything.
LEMMA ProspectsOfAssessed == ChainTyped => BetterProspectsNeverHurt
<1> SUFFICES ASSUME ChainTyped, NEW l \in DOMAIN Decisions, NEW n \in Favourable, assessed[l].factors[n].future # None
             PROVE  LET a == assessed[l]
                        r == Raised(a, n, 10000)
                    IN  /\ r.outlook.alpha >= a.outlook.alpha
                        /\ a.outlook.score # None => r.outlook.score >= a.outlook.score
                        /\ a.outlook.risk # None => r.outlook.risk <= a.outlook.risk
                        /\ IsScore(r.outlook.score) => StateOrder(r.decision) >= StateOrder(a.decision)
  BY DEF BetterProspectsNeverHurt
<1> DEFINE a == assessed[l]
           e == a.evidence
           t == a.home
           v == a.valuation
           low == a.factors
           high == [a.factors EXCEPT ![n].future = 10000]
           old == OutlookFrom(low, e, t, v, Now)
           new == OutlookFrom(high, e, t, v, Now)
           r == Raised(a, n, 10000)
<1>1. IsAssessed(a) /\ IsEvidence(e) /\ a.decision = Decide(DecisionInputs(v, a.outlook)) /\ Now \in Int
  BY DecisionsAre, EvidenceIsStored DEF Decisions
<1>2. /\ IsHome(t.home) /\ AreFactors(low) /\ IsPriced(v) /\ v.score \in Int /\ a.outlook = old
      /\ a = Assessment(e, t, low, v, a.outlook)
  BY <1>1 DEF IsAssessed
<1>3. AreFactors(high) /\ Brighter(high, low)
  BY <1>2, RaisedIsBrighter
<1>4. r.outlook = new /\ r.decision = Decide(DecisionInputs(v, new))
  <2>1. r = [a EXCEPT !.outlook = new, !.decision = Decide(DecisionInputs(v, new))]
    BY DEF Raised
  <2>2. \E d : a = [evidence |-> e, home |-> t, factors |-> low, valuation |-> v, outlook |-> a.outlook, decision |-> d]
    BY <1>2 DEF Assessment
  <2> DEFINE d == Decide(DecisionInputs(v, new))
  <2> HIDE DEF a, e, t, v, low, high, new, r, d
  <2>3. r = [a EXCEPT !.outlook = new, !.decision = d]
    BY <2>1 DEF d
  <2>4. r.outlook = new /\ r.decision = d
    BY <2>2, <2>3
  <2> QED BY <2>4 DEF d
<1> HIDE DEF a, e, t, v, low, high, r
<1>5. /\ new.alpha >= old.alpha
      /\ old.score # None => new.score >= old.score
      /\ old.risk # None => new.risk <= old.risk
      /\ StateOrder(Decide(DecisionInputs(v, new))) >= StateOrder(Decide(DecisionInputs(v, old)))
  BY <1>1, <1>2, <1>3, ProspectsHelp
<1>6. /\ r.outlook.alpha >= a.outlook.alpha
      /\ a.outlook.score # None => r.outlook.score >= a.outlook.score
      /\ a.outlook.risk # None => r.outlook.risk <= a.outlook.risk
      /\ StateOrder(r.decision) >= StateOrder(a.decision)
  BY <1>1, <1>2, <1>4, <1>5
<1> QED BY <1>6 DEF r, a

\* A better prospect of one factor never costs a home anything
\* (BetterProspectsNeverHurt): of every evidence, and for every configuration
\* whose alpha weights have the signs of the file.
THEOREM ProspectsNeverHurt == ChainSpec => []BetterProspectsNeverHurt
BY ChainTypedHolds, ProspectsOfAssessed, PTL

\* A home that is at least as good is ranked no later.
LEMMA RanksOfAssessed == ChainTyped => BetterIsNeverRankedWorse
<1> SUFFICES ASSUME ChainTyped, NEW l \in DOMAIN Decisions \cap onOffer, NEW m \in DOMAIN Decisions \cap onOffer,
                    m \in DOMAIN Ranks, Dominates(Decisions[l].inputs, Decisions[m].inputs)
             PROVE  /\ l \in DOMAIN Ranks
                    /\ StateOrder(Decisions[l]) >= StateOrder(Decisions[m])
                    /\ DecisionSortKey(Decisions[l]) # DecisionSortKey(Decisions[m]) => Ranks[l] < Ranks[m]
  BY DEF BetterIsNeverRankedWorse
<1> DEFINE D == Decisions
           i == D[l].inputs
           j == D[m].inputs
           S == {k \in DOMAIN D \cap onOffer : D[k].status = "ELIGIBLE"}
           key == [k \in S |-> Append(DecisionSortKey(D[k]), PlaceOf[k])]
<1>1. \A k \in DOMAIN D : k \in Homes /\ IsInputs(D[k].inputs) /\ D[k] = Decide(D[k].inputs)
  <2> TAKE k \in DOMAIN D
  <2> QED BY DecisionsAre
<1>2. DOMAIN Ranks = S /\ \A k \in S : Ranks[k] = 1 + Cardinality({o \in S : LessThan(key[o], key[k])})
  BY DEF Ranks, RankContext
<1>3. l \in DOMAIN D /\ m \in DOMAIN D /\ m \in S
  BY <1>2
<1>4. IsInputs(i) /\ IsInputs(j) /\ D[l] = Decide(i) /\ D[m] = Decide(j) /\ Decide(j).status = "ELIGIBLE"
  BY <1>1, <1>3
<1>5. IsFiniteSet(S) /\ \A k \in S : PlaceOf[k] \in Int /\ k \in DOMAIN D /\ D[k].status = "ELIGIBLE"
  <2>1. S \subseteq Homes /\ IsFiniteSet(Homes)
    BY <1>1, PlacesAreNumbers DEF Homes
  <2>2. \A k \in Homes : PlaceOf[k] \in Int
    BY PlacesAreNumbers DEF Homes
  <2> QED BY <2>1, <2>2, FS_Subset
<1>6. \A k \in S : IsKey(key[k]) /\ \A n \in 1 .. 7 : key[k][n] = DecisionSortKey(D[k])[n]
  <2> TAKE k \in S
  <2> DEFINE x == D[k].inputs
             p == PlaceOf[k]
  <2>1. IsInputs(x) /\ D[k] = Decide(x) /\ Decide(x).status = "ELIGIBLE" /\ p \in Int
    BY <1>1, <1>5
  <2>2. key[k] = Append(DecisionSortKey(Decide(x)), p)
    BY <2>1
  <2> HIDE DEF x, p, key, S, D
  <2>3. IsKey(Append(DecisionSortKey(Decide(x)), p))
        /\ \A n \in 1 .. 7 : Append(DecisionSortKey(Decide(x)), p)[n] = DecisionSortKey(Decide(x))[n]
    BY <2>1, SortKeyIs
  <2> QED BY <2>1, <2>2, <2>3
<1>7. AtLeast(i, j)
  <2>1. OrZero(i.liquidity) = i.liquidity /\ OrZero(j.liquidity) = j.liquidity
    BY <1>4, DepthStays DEF IsInputs
  <2>2. Dominates(i, j)
    OBVIOUS
  <2> HIDE DEF i, j
  <2>3. /\ LevelOrder(i.valuationConfidence) >= LevelOrder(j.valuationConfidence)
        /\ LevelOrder(i.baselineConfidence) >= LevelOrder(j.baselineConfidence)
        /\ LevelOrder(i.futureConfidence) >= LevelOrder(j.futureConfidence)
    BY <2>2 DEF Dominates
  <2> QED BY <2>1, <2>2, <2>3 DEF AtLeast, Dominates
<1>8. /\ Decide(i).status = "ELIGIBLE" /\ StateOrder(Decide(i)) >= StateOrder(Decide(j))
      /\ DecisionConfig.ranking.classification[Decide(i).class]
           >= DecisionConfig.ranking.classification[Decide(j).class]
      /\ DecisionConfig.ranking.classification[Decide(i).class] \in Int
      /\ DecisionConfig.ranking.classification[Decide(j).class] \in Int
  BY <1>4, <1>7, BetterGoesFurther
<1>9. l \in S
  BY <1>3, <1>4, <1>8
<1>10. ASSUME DecisionSortKey(D[l]) # DecisionSortKey(D[m]) PROVE Ranks[l] < Ranks[m]
  <2>1. \A n \in 1 .. 7 : key[l][n] <= key[m][n]
    <3>1. \A n \in 1 .. 7 : DecisionSortKey(Decide(i))[n] <= DecisionSortKey(Decide(j))[n]
      BY <1>4, <1>7, <1>8, KeysFollow DEF Dominates
    <3> HIDE DEF key, S, D, i, j
    <3> QED BY <1>3, <1>4, <1>6, <1>9, <3>1
  <2>2. \E n \in 1 .. 7 : key[l][n] # key[m][n]
    <3>1. \E n \in 1 .. 7 : DecisionSortKey(Decide(i))[n] # DecisionSortKey(Decide(j))[n]
      BY <1>4, <1>8, <1>10, KeysDiffer
    <3> HIDE DEF key, S, D, i, j
    <3> QED BY <1>3, <1>4, <1>6, <1>9, <3>1
  <2> HIDE DEF key, S, D, i, j
  <2>3. LessThan(key[l], key[m])
    BY <1>3, <1>6, <1>9, <2>1, <2>2, ComesFirst
  <2>4. \A k \in S : IsKey(key[k])
    BY <1>6
  <2>5. Cardinality({k \in S : LessThan(key[k], key[l])}) < Cardinality({k \in S : LessThan(key[k], key[m])})
    <3>1. IsFiniteSet(S) /\ m \in S
      BY <1>3, <1>5
    <3> QED BY ONLY <3>1, <1>9, <2>3, <2>4, FirstIsRankedBefore
  <2>6. /\ Cardinality({k \in S : LessThan(key[k], key[l])}) \in Nat
        /\ Cardinality({k \in S : LessThan(key[k], key[m])}) \in Nat
    <3>1. \A x : IsFiniteSet({k \in S : LessThan(key[k], x)})
      <4> TAKE x
      <4>1. {k \in S : LessThan(key[k], x)} \subseteq S
        OBVIOUS
      <4> QED BY <1>5, <4>1, FS_Subset
    <3> QED BY <3>1, FS_CardinalityType
  <2> QED BY <1>2, <1>3, <1>9, <2>5, <2>6
<1> QED BY <1>2, <1>4, <1>8, <1>9, <1>10

\* A home that is at least as good in all that a decision looks at, and better
\* in something, is ranked before the other (BetterIsNeverRankedWorse): for
\* every configuration whose priorities are in order.
THEOREM BetterIsRankedFirst == ChainSpec => []BetterIsNeverRankedWorse
BY ChainTypedHolds, RanksOfAssessed, PTL

-----------------------------------------------------------------------------
(* What the chain arrives at may be stored.                                *)

\* What is decided may be stored.
LEMMA DecisionMayBeStored ==
    ASSUME NEW i, InScore(i.value), IsScore(i.future), IsScore(i.risk), i.liquidity \in 0 .. 100
    PROVE  IsDecision(Decide(i))
<1> DEFINE d == Decide(i)
<1>1. /\ d.inputs = i /\ d.class = ClassifyOpportunity(i)
      /\ d.status = EligibilityStatus(d.class, ConfidenceGatePassed(i), HardRisks(i))
      /\ d.state = WorkflowState(i, d.class, d.status)
  BY DEF Decide
<1> HIDE DEF d
<1>2. d.class \in {"QUALITY_AT_DISCOUNT", "GOOD_BUT_EXPENSIVE", "VALUE_TRAP", "LOW_QUALITY", "INSUFFICIENT_DATA"}
  BY <1>1 DEF ClassifyOpportunity
<1>3. d.status \in {"ELIGIBLE", "HARD_RISK_FILTERED", "INSUFFICIENT"}
  BY <1>1 DEF EligibilityStatus
<1>4. d.state \in ToSet(WorkflowStates)
  <2>1. WorkflowState(i, d.class, d.status) \in {"PASS", "WATCH", "CONTACT", "VIEW"}
    BY DEF WorkflowState
  <2>2. ToSet(WorkflowStates) = {"PASS", "WATCH", "CONTACT", "VIEW"}
    <3>1. DOMAIN WorkflowStates = 1 .. 4
      BY DEF WorkflowStates
    <3> QED BY <3>1 DEF ToSet, WorkflowStates
  <2> QED BY <1>1, <2>1, <2>2
<1>6. i.value \in Scores
  BY ScoresAre
<1>7. IsDecision(d)
  BY <1>1, <1>2, <1>3, <1>4, <1>6 DEF IsDecision
<1> QED BY <1>7 DEF d

\* The assessments that there are have rows that may be stored.
LEMMA AssessedMayBeStored == ChainTyped => SlicesAreStorable /\ AssessmentsAreStorable /\ RefusedForRounding
<1> SUFFICES ASSUME ChainTyped PROVE SlicesAreStorable /\ AssessmentsAreStorable /\ RefusedForRounding
  OBVIOUS
<1>1. SlicesAreStorable /\ RefusedForRounding
  BY DEF ChainTyped, AreRuns, SlicesAreStorable
<1>2. ASSUME NEW l \in DOMAIN Decisions
      PROVE  /\ IsValuationRow(assessed[l].valuation) /\ IsOutlookRow(assessed[l].outlook)
             /\ \A n \in AllFutureFactors :
                   IsScore(assessed[l].factors[n].current) /\ IsScore(assessed[l].factors[n].future)
             /\ IsDecision(assessed[l].decision)
  <2> DEFINE a == assessed[l]
             i == DecisionInputs(a.valuation, a.outlook)
  <2>1. /\ IsAssessed(a) /\ IsEvidence(a.evidence) /\ Decisions[l] = Decide(i) /\ Decisions[l].inputs = i
        /\ IsInputs(Decisions[l].inputs)
    BY <1>2, DecisionsAre
  <2>2. /\ IsHome(a.home.home) /\ AreFactors(a.factors) /\ IsPriced(a.valuation) /\ IsValuationRow(a.valuation)
        /\ a.outlook = OutlookFrom(a.factors, a.evidence, a.home, a.valuation, Now)
        /\ IsScore(a.outlook.score) /\ IsScore(a.outlook.risk)
    BY <2>1 DEF IsAssessed
  <2>3. a.decision = Decide(i)
    BY <2>1 DEF Decisions
  <2>4. IsOutlookRow(a.outlook)
    <3> DEFINE e == a.evidence
               t == a.home
               v == a.valuation
               factors == a.factors
    <3>1. IsEvidence(e) /\ IsHome(t.home) /\ v.fair \in Int /\ AreFactors(factors) /\ Now \in Int
      BY <2>1, <2>2, EvidenceIsStored DEF IsPriced
    <3>2. a.outlook = OutlookFrom(factors, e, t, v, Now)
      BY <2>2
    <3> HIDE DEF e, t, v, factors
    <3>3. FitsButForRounding(OutlookFrom(factors, e, t, v, Now))
      BY <3>1, OutlookMayBeStored
    <3> QED BY <2>2, <3>2, <3>3 DEF FitsButForRounding, IsOutlookRow
  <2>5. \A n \in AllFutureFactors : IsScore(a.factors[n].current) /\ IsScore(a.factors[n].future)
    BY <2>2, ScoreMayBeStored DEF AreFactors, IsFactor
  <2>6. IsDecision(Decide(i))
    <3>1. /\ i.value = a.valuation.score /\ i.liquidity = a.valuation.liquidity
          /\ i.future = a.outlook.score /\ i.risk = a.outlook.risk
      BY DEF DecisionInputs
    <3> HIDE DEF i, a
    <3>2. InScore(i.value)
      <4> DEFINE v == a.valuation
      <4>1. IsValuationRow(v) /\ i.value = v.score
        BY <2>2, <3>1
      <4> HIDE DEF v
      <4>2. InScore(v.score)
        BY <4>1, ScoresAre DEF IsValuationRow
      <4> QED BY <4>1, <4>2
    <3>3. i.liquidity \in 0 .. 100
      BY <2>2, <3>1 DEF IsPriced
    <3>4. IsScore(i.future) /\ IsScore(i.risk)
      BY <2>2, <3>1
    <3> QED BY <3>2, <3>3, <3>4, DecisionMayBeStored
  <2> HIDE DEF i
  <2> QED BY <2>2, <2>3, <2>4, <2>5, <2>6
<1> QED BY <1>1, <1>2 DEF AssessmentsAreStorable

\* Every slice and every assessment that is made, but for the prices, meets the
\* constraints of its table, and an outlook that the table refuses has a score or
\* a risk that passes 100 by no more than the rounding of its parts: for every
\* configuration and every evidence.
THEOREM RowsAreStorable == ChainSpec => [](SlicesAreStorable /\ AssessmentsAreStorable /\ RefusedForRounding)
BY ChainTypedHolds, AssessedMayBeStored, PTL

=============================================================================
